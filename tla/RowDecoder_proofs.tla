------------------------- MODULE RowDecoder_proofs -------------------------
(* Proofs about RowDecoder, for every schema, row, carrier and limit of    *)
(* the row size: what a carrier holds is decoded whole; a prefix is        *)
(* decoded as the row is; and what is decoded exactly is the encoding of   *)
(* its values.                                                             *)
(*                                                                         *)
(* The last two rest on one description of a row, the trace: where each    *)
(* column begins, as the bytes say it.  The exact decoder walks the trace  *)
(* to its end or to the first column that cannot be read; the prefix       *)
(* decoder walks the same one, and stops earlier.                          *)
(*                                                                         *)
(* The second half is about RowValues, for every token, every canonical    *)
(* decimal and every minute count: what is rendered is the number, and     *)
(* the date is the Gregorian calendar's.                                   *)
EXTENDS RowDecoder, RowValues, FiniteSetTheorems, SequenceTheorems, WellFoundedInduction, TLAPS

(* The size word and the flags of a rebuilt row are numbers.               *)
LEMMA SizeAndFlags ==
  ASSUME NEW size \in Nat
  PROVE  size % ROW_SIZE_LIMIT \in Nat /\ size \div ROW_SIZE_LIMIT \in Nat
<1>1. ROW_SIZE_LIMIT \in Nat /\ ROW_SIZE_LIMIT > 0
  BY WidthAssumption
<1>2. size % ROW_SIZE_LIMIT \in Nat
  BY <1>1
<1>3. size \div ROW_SIZE_LIMIT \in Int
  BY <1>1
<1>4. size \div ROW_SIZE_LIMIT >= 0
  <2>1. size = ROW_SIZE_LIMIT * (size \div ROW_SIZE_LIMIT) + (size % ROW_SIZE_LIMIT)
    BY <1>1
  <2>2. size % ROW_SIZE_LIMIT < ROW_SIZE_LIMIT
    BY <1>1
  <2>3. ROW_SIZE_LIMIT * (size \div ROW_SIZE_LIMIT) > -ROW_SIZE_LIMIT
    BY <1>1, <1>2, <1>3, <2>1, <2>2
  <2> QED
    BY <1>1, <1>3, <2>3
<1> QED
  BY <1>2, <1>3, <1>4

(* A size that leaves no flags above the mask was not cut by it.           *)
LEMMA UncutSize ==
  ASSUME NEW size \in Nat, size \div ROW_SIZE_LIMIT = 0
  PROVE  size % ROW_SIZE_LIMIT = size
<1>1. ROW_SIZE_LIMIT \in Nat /\ ROW_SIZE_LIMIT > 0
  BY WidthAssumption
<1>2. size = ROW_SIZE_LIMIT * (size \div ROW_SIZE_LIMIT) + (size % ROW_SIZE_LIMIT)
  BY <1>1
<1> QED
  BY <1>1, <1>2

(* The invariant: a rebuilt row still has the size word Unpack gave it, and *)
(* once its header has passed that size is the size of the payload.        *)
InputOK == input \in Inputs({"row", "carrier", "payload"})

Rebuilt ==
  input.kind = "payload" =>
    /\ input.declared = (Len(input.rest) + 2) % ROW_SIZE_LIMIT
    /\ input.flags = (Len(input.rest) + 2) \div ROW_SIZE_LIMIT

Uncut ==
  input.kind = "payload" /\ pc \in {"columns", "decoded"} =>
    input.declared = Len(input.rest) + 2

CarrierInv == InputOK /\ Rebuilt /\ Uncut /\ CarrierIsDecodedWhole

THEOREM CarrierInvariant == Spec => []CarrierInv
<1>1. Init => CarrierInv
  <2> SUFFICES ASSUME Init PROVE CarrierInv
    OBVIOUS
  <2>1. input \in Inputs({"row", "carrier"})
    BY InputAssumption DEF Init
  <2>2. input.kind # "payload"
    BY <2>1 DEF Inputs
  <2>3. InputOK
    BY <2>1 DEF InputOK, Inputs
  <2> QED
    BY <2>2, <2>3 DEF CarrierInv, Rebuilt, Uncut, CarrierIsDecodedWhole
<1>2. CarrierInv /\ [Next]_vars => CarrierInv'
  <2> SUFFICES ASSUME CarrierInv, [Next]_vars PROVE CarrierInv'
    OBVIOUS
  <2> USE DEF CarrierInv
  <2>a. ASSUME UNCHANGED input, pc' \notin {"columns", "decoded"} \/ UNCHANGED pc,
               ~Done("exact")'
        PROVE  CarrierInv'
    BY <2>a DEF InputOK, Rebuilt, Uncut, CarrierIsDecodedWhole
  <2>b. ASSUME NEW verdict, verdict # "Ok", Fails(verdict), UNCHANGED input
        PROVE  CarrierInv'
    BY <2>a, <2>b DEF Fails, Returning, Done
  <2>1. CASE Unpack
    <3>1. CASE CarrierFault # "Ok" /\ Fails(CarrierFault) /\ UNCHANGED input
      BY <2>b, <3>1
    <3>2. CASE CarrierFault = "Ok" /\ ~(CarrierFault # "Ok")
      <4> DEFINE size == Len(input.rest) + 2
      <4>1. size \in Nat
        BY DEF InputOK, Inputs
      <4>2. (size % ROW_SIZE_LIMIT) \in Nat /\ size \div ROW_SIZE_LIMIT \in Nat
        BY <4>1, SizeAndFlags
      <4>3. /\ pc' = "header"
            /\ input' = [input EXCEPT !.kind = "payload", !.len = size,
                                      !.declared = size % ROW_SIZE_LIMIT,
                                      !.flags = size \div ROW_SIZE_LIMIT]
        BY <2>1, <3>2 DEF Unpack
      <4>4. InputOK'
        BY <4>1, <4>2, <4>3 DEF InputOK, Inputs
      <4>5. /\ input'.declared = size % ROW_SIZE_LIMIT
            /\ input'.flags = size \div ROW_SIZE_LIMIT
            /\ input'.rest = input.rest
        BY <4>3 DEF InputOK, Inputs
      <4>6. Rebuilt'
        BY <4>5 DEF Rebuilt
      <4> QED
        BY <4>3, <4>4, <4>6 DEF Uncut, CarrierIsDecodedWhole, Done
    <3> QED
      BY <2>1, <3>1, <3>2 DEF Unpack
  <2>2. CASE ReadHeader
    <3>1. InputOK' /\ Rebuilt' /\ UNCHANGED input
      BY <2>2 DEF ReadHeader, InputOK, Rebuilt
    <3>2. input.flags = 0
      BY <2>2 DEF ReadHeader, HeaderFault
    <3>3. input.kind = "payload" => input.declared = Len(input.rest) + 2
      <4>1. Len(input.rest) + 2 \in Nat
        BY DEF InputOK, Inputs
      <4> QED
        BY <3>2, <4>1, UncutSize DEF Rebuilt
    <3>4. ~Done("exact")'
      BY <2>2 DEF ReadHeader, Returning, Done
    <3> QED
      BY <3>1, <3>3, <3>4 DEF Uncut, CarrierIsDecodedWhole
  <2>3. CASE RejectHeader
    BY <2>3, <2>b DEF RejectHeader
  <2>4. CASE SkipColumn
    BY <2>4, <2>a DEF SkipColumn, AtColumn, Done
  <2>c. ASSUME NEW end, NEW decoded, Decoded(end, decoded), AtColumn, UNCHANGED input
        PROVE  CarrierInv'
    BY <2>a, <2>c DEF Decoded, AtColumn, Done
  <2>5. CASE ReadBooleanWord
    BY <2>5, <2>b, <2>c DEF ReadBooleanWord
  <2>6. CASE ReadBooleanRun
    BY <2>6, <2>b, <2>c DEF ReadBooleanRun
  <2>7. CASE ReadField
    BY <2>7, <2>b, <2>c DEF ReadField
  <2>8. CASE RejectTail
    BY <2>8, <2>b DEF RejectTail
  <2>9. CASE ReadTail
    <3>1. pc = "columns" /\ UNCHANGED <<input, call>>
      BY <2>9 DEF ReadTail, AfterColumns
    <3>2. ~Done("exact")'
      BY <2>9, <3>1 DEF ReadTail, Done, Returning
    <3> QED
      BY <2>9, <3>1, <3>2
      DEF ReadTail, InputOK, Rebuilt, Uncut, CarrierIsDecodedWhole, Returning
  <2>10. CASE Exactly
    <3>1. /\ pc = "decoded" /\ pc' = "returned" /\ UNCHANGED <<input, cursor>>
          /\ result'.verdict = "Ok" => cursor = input.declared
      BY <2>10 DEF Exactly, Returning, decoding
    <3> QED
      BY <3>1 DEF InputOK, Rebuilt, Uncut, CarrierIsDecodedWhole, Done
  <2>11. CASE CallPrefix
    <3>2. UNCHANGED input /\ call' = "prefix"
      BY <2>11 DEF CallPrefix
    <3>3. pc' \in {"header", "returned"} \/ UNCHANGED pc
      BY <2>11 DEF CallPrefix, Returning
    <3> QED
      BY <2>a, <3>2, <3>3 DEF Done
  <2>12. CASE UNCHANGED vars
    BY <2>12 DEF vars, decoding, InputOK, Rebuilt, Uncut, CarrierIsDecodedWhole, Done
  <2> QED
    BY <2>1, <2>2, <2>3, <2>4, <2>5, <2>6, <2>7, <2>8, <2>9, <2>10, <2>11, <2>12
    DEF Next
<1> QED
  BY <1>1, <1>2, PTL DEF Spec

(* A carrier that is decoded exactly has had its whole payload decoded: the *)
(* u16 the envelope rebuilds is never read back as that of a shorter row.   *)
THEOREM CarrierDecodedWhole == Spec => []CarrierIsDecodedWhole
BY CarrierInvariant, PTL DEF CarrierInv

---------------------------------------------------------------------------
(* One trace for both decoders.  cur[i] is where column i begins, as the   *)
(* bytes of the row have it; what is said of it speaks of the schema and   *)
(* the row only, not of the decoder that is at work.                       *)

Ends == Len(schema.columns) + 1

Packed == schema.boolean_tail \in {"InlinePackedRunsMsbFirst", "InlinePackedRunsLsbFirst"}
Worded == schema.boolean_tail \in {"InlineBytes", "InlineU16Le"}

BooleanHere(i) == IsBoolean(i) /\ Presence[i]
FieldHere(i) == ~IsBoolean(i) /\ Presence[i]

WithinRun(i) == Packed /\ i > 1 /\ BooleanHere(i - 1)
Passed(i) == ~Presence[i] \/ (IsBoolean(i) /\ (~Inline \/ WithinRun(i)))

StartsRun(i) == Packed /\ BooleanHere(i) /\ ~WithinRun(i)
RunUpTo(i, e) ==
  /\ e \in i..Len(schema.columns)
  /\ \A j \in i..e : BooleanHere(j)
  /\ e < Len(schema.columns) => ~BooleanHere(e + 1)

WordFits(at) == Room(at, Word) /\ ~(LittleEndian(at, Word) > 1)

FieldAt(i, at) == NonBoolean(schema.columns[i], at)

(* Column i begins at `at` and the next one at `end`. *)
Goes(i, at, end) ==
  \/ Passed(i) /\ end = at
  \/ FieldHere(i) /\ FieldAt(i, at).verdict = "Ok" /\ end = FieldAt(i, at).end
  \/ Worded /\ BooleanHere(i) /\ WordFits(at) /\ end = at + Word
  \/ /\ StartsRun(i)
     /\ \E e : RunUpTo(i, e) /\ end = at + ByteCount(e - i + 1) /\ end <= input.declared

(* Column i begins at `at` and cannot be read. *)
Stuck(i, at) ==
  \/ FieldHere(i) /\ FieldAt(i, at).verdict # "Ok"
  \/ Worded /\ BooleanHere(i) /\ ~WordFits(at)
  \/ /\ StartsRun(i)
     /\ \E e : RunUpTo(i, e) /\ at + ByteCount(e - i + 1) > input.declared

Trace(cur, k) ==
  /\ k \in 1..Ends
  /\ cur \in [1..k -> Nat]
  /\ cur[1] = BodyStart
  /\ \A i \in 1..(k - 1) : Goes(i, cur[i], cur[i + 1])
  /\ \A i, j \in 1..k : i <= j => cur[i] <= cur[j]

(* The values of a trace: fields, words, and the bits of a run. *)
FieldValue(cur, i) == FieldAt(i, cur[i]).value
WordValue(cur, i) == Boolean(LittleEndian(cur[i], Word))
RunValue(cur, s, i) == Boolean(BitAt(cur[s], i - s, RunMsb))

Values(cur, k, vals) ==
  /\ vals = [i \in Columns |-> vals[i]]
  /\ \A i \in Columns : ~Presence[i] => vals[i] = Null
  /\ \A i \in 1..(k - 1) : FieldHere(i) => vals[i] = FieldValue(cur, i)
  /\ \A i \in 1..(k - 1) : Worded /\ BooleanHere(i) => vals[i] = WordValue(cur, i)
  /\ \A s \in 1..(k - 1) : \A e : StartsRun(s) /\ RunUpTo(s, e) =>
       \A i \in s..e : vals[i] = RunValue(cur, s, i)

(* Of a prefix, what is not unread is of the trace. *)
Known(cur, k, vals) ==
  /\ vals = [i \in Columns |-> vals[i]]
  /\ \A i \in Columns :
       \/ vals[i] = Unread
       \/ ~Presence[i] /\ vals[i] = Null
       \/ FieldHere(i) /\ i < k /\ vals[i] = FieldValue(cur, i)
       \/ Worded /\ BooleanHere(i) /\ i < k /\ vals[i] = WordValue(cur, i)
       \/ \E s \in 1..(k - 1) : \E e :
            StartsRun(s) /\ RunUpTo(s, e) /\ i \in s..e /\ vals[i] = RunValue(cur, s, i)

(* The tail that begins at `at`. *)
Required == RequiredTail(Presence)
Place(i) == Cardinality({j \in TailColumns(Presence) : j < i})
TailAt(at, i) ==
  IF schema.boolean_tail = "Bytes" THEN ByteAt(at + Place(i)) ELSE BitAt(at, Place(i), TRUE)
TailIsBad(at) ==
  schema.boolean_tail = "Bytes" /\ \E i \in TailColumns(Presence) : TailAt(at, i) > 1
TailFits(at) == Room(at, Required) /\ ~TailIsBad(at)
TailValues(at, vals) ==
  ~Inline => \A i \in TailColumns(Presence) : vals[i] = Boolean(TailAt(at, i))

(* How decode_row_exact ends on the trace. *)
Ended(cur, k, verdict, vals) ==
  /\ Trace(cur, k)
  /\ \/ k < Ends /\ Stuck(k, cur[k]) /\ verdict # "Ok"
     \/ /\ k = Ends
        /\ verdict = "Ok" <=> (TailFits(cur[k]) /\ cur[k] + Required = input.declared)
        /\ verdict = "Ok" => Values(cur, k, vals) /\ TailValues(cur[k], vals)

Outcome(verdict, vals) ==
  \/ HeaderFault # "Ok" /\ verdict # "Ok"
  \/ HeaderFault = "Ok" /\ \E cur, k : Ended(cur, k, verdict, vals)

---------------------------------------------------------------------------
(* The invariant *)

DecoderTypes ==
  /\ schema \in Schema
  /\ input.kind = "row" => input \in Input
  /\ call \in {"exact", "prefix"}
  /\ pc \in {"unpack", "header", "columns", "decoded", "returned"}
  /\ pc = "unpack" => input.kind = "carrier"
  /\ input.kind = "carrier" =>
       \/ pc = "unpack"
       \/ pc = "returned" /\ call = "exact" /\ result.verdict # "Ok"
  /\ call = "prefix" => input.kind = "row"
  /\ call = "prefix" /\ pc # "returned" => through \in Columns
  /\ pc = "decoded" => call = "exact"

HeaderRead ==
  pc \in {"columns", "decoded"} => present = Presence /\ HeaderFault = "Ok"

ExactColumns ==
  call = "exact" /\ pc = "columns" =>
    \E cur, k : /\ k = column /\ Trace(cur, k) /\ cur[k] = cursor
                /\ \E vals : vals = values /\ Values(cur, k, vals)

ExactDecoded ==
  call = "exact" /\ pc = "decoded" =>
    \E cur, vals : /\ vals = values /\ Trace(cur, Ends) /\ TailFits(cur[Ends])
                   /\ cursor = cur[Ends] + Required
                   /\ Values(cur, Ends, vals) /\ TailValues(cur[Ends], vals)

ExactReturned ==
  call = "exact" /\ pc = "returned" =>
    \E verdict, vals : verdict = result.verdict /\ vals = values /\ Outcome(verdict, vals)

PrefixHeader ==
  call = "prefix" /\ pc = "header" =>
    \E verdict, vals : verdict = whole.verdict /\ vals = whole.values /\ Outcome(verdict, vals)

PrefixColumns ==
  call = "prefix" /\ pc = "columns" =>
    /\ ~TailMisfits(Presence)
    /\ \E cur, m, verdict, vals :
         /\ verdict = whole.verdict /\ vals = whole.values /\ Ended(cur, m, verdict, vals)
         /\ \E k : k = column /\ k \in 1..m /\ k <= through + 1 /\ cur[k] = cursor
                   /\ \E some : some = values /\ Known(cur, k, some)

RowInv ==
  /\ HeaderRead
  /\ ExactColumns /\ ExactDecoded /\ ExactReturned
  /\ PrefixHeader /\ PrefixColumns
  /\ PrefixAgreesWithTheRow

DecoderInv == DecoderTypes /\ (input.kind # "carrier" => RowInv)

---------------------------------------------------------------------------
(* Arithmetic *)

LEMMA ByteCounts ==
  ASSUME NEW bits \in Nat
  PROVE  ByteCount(bits) \in Nat
<1> DEFINE x == bits + BYTE_BITS - 1
           q == x \div BYTE_BITS
<1>1. x \in Nat /\ BYTE_BITS \in Nat \ {0}  BY WidthAssumption
<1>2. q \in Int /\ x % BYTE_BITS \in 0..(BYTE_BITS - 1) /\ x = BYTE_BITS * q + (x % BYTE_BITS)
  BY <1>1
<1>3. q >= 0
  <2> HIDE DEF q, x
  <2>1. BYTE_BITS * q > -BYTE_BITS
    <3> DEFINE y == BYTE_BITS * q
               r == x % BYTE_BITS
    <3>1. y \in Int /\ r \in Int /\ x = y + r /\ r < BYTE_BITS  BY <1>1, <1>2
    <3> HIDE DEF y, r
    <3>2. y > -BYTE_BITS  BY <1>1, <3>1
    <3> QED  BY <3>2 DEF y
  <2> QED  BY <1>1, <1>2, <2>1
<1>4. q \in Nat
  <2> HIDE DEF q
  <2> QED  BY <1>2, <1>3
<1> QED  BY <1>4 DEF ByteCount

LEMMA SchemaTypes ==
  ASSUME schema \in Schema
  PROVE  /\ schema \in Schemas
         /\ Len(schema.columns) \in Nat /\ Ends \in Nat \ {0} /\ Ends = Len(schema.columns) + 1
         /\ Columns = 1..(Ends - 1)
         /\ schema.row_prefix \in Nat /\ schema.pointer_width \in Nat
<1>1. schema \in Schemas  BY SchemaAssumption
<1> DEFINE C == [type : {"Boolean", "Char", "Numeric", "Enum", "Date", "DateTime",
                          "Int64", "Integer"}, width : Nat, nullable : BOOLEAN]
<1>2. schema.columns \in Seq(C) /\ schema.row_prefix \in Nat /\ schema.pointer_width \in Nat
  BY <1>1 DEF Schemas
<1> HIDE DEF C
<1>3. Len(schema.columns) \in Nat  BY <1>2
<1> QED  BY <1>1, <1>2, <1>3 DEF Ends, Columns

LEMMA BodyStartsAt ==
  ASSUME schema \in Schema
  PROVE  BodyStart \in Nat /\ BodyStart >= 2
<1> DEFINE n == Len(schema.columns)
           N == {j \in 1..(n + 1 - 1) : schema.columns[j].nullable}
<1>1. n \in Nat /\ schema.row_prefix \in Nat  BY SchemaTypes
<1>2. NullableBefore(n + 1) \in Nat
  <2>1. IsFiniteSet(1..(n + 1 - 1))
    <3> DEFINE top == n + 1 - 1
    <3>1. 1 \in Int /\ top \in Int  BY <1>1
    <3> HIDE DEF top
    <3>2. IsFiniteSet(1..top)  BY <3>1, FS_Interval
    <3> QED  BY <3>2 DEF top
  <2>2. N \subseteq 1..(n + 1 - 1)  OBVIOUS
  <2> HIDE DEF N
  <2>3. Cardinality(N) \in Nat  BY <2>1, <2>2, FS_Subset, FS_CardinalityType
  <2> QED  BY <2>3 DEF NullableBefore, N
<1>3. BitmapBits \in Nat  BY <1>1, <1>2 DEF BitmapBits
<1>4. ByteCount(BitmapBits) \in Nat  BY <1>3, ByteCounts
<1> QED  BY <1>1, <1>4 DEF BodyStart, BitmapStart

LEMMA RequiredIs ==
  ASSUME schema \in Schema
  PROVE  Required \in Nat
<1> DEFINE T == TailColumns(Presence)
<1>1. IsFiniteSet(1..(Ends - 1))  BY SchemaTypes, FS_Interval
<1>2. T \subseteq 1..(Ends - 1)  BY SchemaTypes DEF TailColumns
<1> HIDE DEF T
<1>3. Cardinality(T) \in Nat  BY <1>1, <1>2, FS_Subset, FS_CardinalityType
<1>4. ByteCount(Cardinality(T)) \in Nat  BY <1>3, ByteCounts
<1> QED  BY <1>3, <1>4 DEF Required, RequiredTail, T

(* A row whose header has passed: its bytes are as many as it declares. *)
Whole ==
  /\ schema \in Schema /\ InputOK /\ HeaderFault = "Ok"
  /\ input.declared <= Len(input.rest) + 2

LEMMA RowBytes ==
  ASSUME Whole, NEW at \in Nat, at >= 2, at < input.declared
  PROVE  ByteAt(at) \in Nat
<1> DEFINE B == 0..(BYTE - 1)
<1>1. input \in Inputs({"row", "carrier", "payload"})  BY DEF Whole, InputOK
<1>2. input.rest \in Seq(B) /\ input.declared \in Nat /\ input.len \in Nat
  BY <1>1 DEF Inputs
<1>3. B \subseteq Nat
  <2>1. BYTE \in Nat  BY ByteAssumption
  <2> HIDE DEF BYTE
  <2> QED  BY <2>1
<1>5. input.declared <= Len(input.rest) + 2  BY DEF Whole
<1> HIDE DEF B
<1>6. Len(input.rest) \in Nat /\ \A i \in 1..Len(input.rest) : input.rest[i] \in B  BY <1>2
<1>7. at - 1 \in 1..Len(input.rest)  BY <1>2, <1>5, <1>6
<1> QED  BY <1>3, <1>6, <1>7 DEF ByteAt

LEMMA DeclaredIs ==
  ASSUME Whole
  PROVE  input.declared \in Nat /\ input.declared >= BodyStart
<1>1. input \in Inputs({"row", "carrier", "payload"})  BY DEF Whole, InputOK
<1>2. input.declared \in Nat  BY <1>1 DEF Inputs
<1>3. ~(input.declared < BodyStart)  BY DEF Whole, HeaderFault
<1> QED  BY <1>2, <1>3, BodyStartsAt DEF Whole

LEMMA LengthsAre ==
  ASSUME Whole, NEW at \in Nat, at >= 2, NEW w \in {1, 2}, Room(at, w)
  PROVE  LittleEndian(at, w) \in Nat
<1>1. input.declared \in Nat  BY DeclaredIs
<1>2. at + w <= input.declared  BY DEF Room
<1>3. ByteAt(at) \in Nat
  <2>1. at < input.declared  BY <1>1, <1>2
  <2> QED  BY <2>1, RowBytes
<1>4. CASE w = 1  BY <1>3, <1>4 DEF LittleEndian
<1>5. CASE w = 2
  <2>1. at + 1 \in Nat /\ at + 1 >= 2 /\ at + 1 < input.declared  BY <1>1, <1>2, <1>5
  <2>2. ByteAt(at + 1) \in Nat  BY <2>1, RowBytes
  <2> DEFINE p == BYTE * ByteAt(at + 1)
  <2>3. p \in Nat
    <3>1. BYTE \in Nat  BY ByteAssumption
    <3> HIDE DEF BYTE
    <3>2. \A a, b \in Nat : a * b \in Nat  OBVIOUS
    <3> QED  BY <2>2, <3>1, <3>2
  <2>4. LittleEndian(at, w) = ByteAt(at) + p  BY <1>5 DEF LittleEndian
  <2> HIDE DEF p
  <2> QED  BY <1>3, <2>3, <2>4
<1> QED  BY <1>4, <1>5

---------------------------------------------------------------------------
(* Fields and runs *)

LEMMA TakeEnds ==
  ASSUME NEW kind, NEW at \in Nat, NEW w \in Nat, Take(kind, at, w).verdict = "Ok"
  PROVE  Take(kind, at, w).end = at + w
  BY DEF Take, Got, Fault

(* A field that is read ends no earlier than it begins. *)
LEMMA FieldEnds ==
  ASSUME Whole, NEW i \in Columns, NEW at \in Nat, at >= 2, FieldAt(i, at).verdict = "Ok"
  PROVE  FieldAt(i, at).end \in Nat /\ FieldAt(i, at).end >= at
<1> DEFINE c == schema.columns[i]
           f == FieldAt(i, at)
<1>1. schema.pointer_width \in Nat  BY SchemaTypes DEF Whole
<1>2. ASSUME NEW w \in {1, 2, 4, 8}, NEW kind, f = Take(kind, at, w)
      PROVE  f.end \in Nat /\ f.end >= at
  <2>1. w \in Nat /\ f.end = at + w  BY <1>2, TakeEnds
  <2> QED  BY <2>1
<1>3. CASE c.type = "Char"
  <2> DEFINE w == LengthWidth(c)
             length == LittleEndian(at, w)
  <2>1. f = Variable(c, at) /\ f.verdict = "Ok"  BY <1>3 DEF FieldAt, NonBoolean
  <2>2. w \in {1, 2}  BY DEF LengthWidth
  <2>3. Room(at, w)  BY <2>1 DEF Variable, Fault
  <2>4. length \in Nat  BY <2>2, <2>3, LengthsAre
  <2>5. at + w \in Nat /\ at + w >= at  BY <2>2
  <2>6. CASE length = BYTE ^ w - 1
    <3>1. f = Overflow(at + w)  BY <2>1, <2>3, <2>6 DEF Variable
    <3>2. f = Take("OverflowPointer", at + w, schema.pointer_width)
      BY <2>1, <3>1 DEF Overflow, Fault
    <3> HIDE DEF w
    <3>3. f.end = (at + w) + schema.pointer_width  BY <1>1, <2>1, <2>5, <3>2, TakeEnds
    <3> QED  BY <1>1, <2>5, <3>3
  <2>7. CASE length # BYTE ^ w - 1
    <3>1. f = Take("Bytes", at + w, length)  BY <2>1, <2>3, <2>7 DEF Variable
    <3> HIDE DEF w, length
    <3>2. f.end = (at + w) + length  BY <2>1, <2>4, <2>5, <3>1, TakeEnds
    <3> QED  BY <2>4, <2>5, <3>2
  <2> QED  BY <2>6, <2>7
<1>4. CASE c.type = "Numeric"
  <2>1. f = Numeric(at) /\ f.verdict = "Ok"  BY <1>4 DEF FieldAt, NonBoolean
  <2>2. Room(at, 2) /\ f = Take("Numeric", at + 1, ByteAt(at) + 1)
    BY <2>1 DEF Numeric, Fault
  <2>3. ByteAt(at) \in Nat
    <3>1. input.declared \in Nat  BY DeclaredIs
    <3>2. at < input.declared  BY <2>2, <3>1 DEF Room
    <3> QED  BY <3>2, RowBytes
  <2>4. at + 1 \in Nat /\ ByteAt(at) + 1 \in Nat  BY <2>3
  <2>5. f.end = (at + 1) + (ByteAt(at) + 1)  BY <2>1, <2>2, <2>4, TakeEnds
  <2> QED  BY <2>3, <2>5
<1>5. CASE c.type = "Enum"
  <2>1. f = Enum(c, at) /\ f.verdict = "Ok"  BY <1>5 DEF FieldAt, NonBoolean
  <2>2. c.width \in {1, 2, 4, 8} /\ f = Take("Enum", at, c.width)
    BY <2>1 DEF Enum, Fault
  <2> QED  BY <1>2, <2>2
<1>6. CASE c.type \notin {"Char", "Numeric", "Enum"}
  <2>1. f = Fixed(c, at) /\ f.verdict = "Ok"  BY <1>6 DEF FieldAt, NonBoolean
  <2>2. CASE c.type = "Date"
    <3>1. f = Take("Date", at, 4)  BY <2>1, <2>2 DEF Fixed
    <3> QED  BY <1>2, <3>1
  <2>3. CASE c.type = "DateTime"
    <3>1. f = Take("DateTime", at, 8)  BY <2>1, <2>3 DEF Fixed
    <3> QED  BY <1>2, <3>1
  <2>4. CASE c.type \notin {"Date", "DateTime"}
    <3>1. c.width \in {1, 2, 4, 8} /\ f = Take(c.type, at, c.width)
      BY <2>1, <2>4 DEF Fixed, Integer, Fault
    <3> QED  BY <1>2, <3>1
  <2> QED  BY <2>2, <2>3, <2>4
<1> QED  BY <1>3, <1>4, <1>5, <1>6

LEMMA RunEndsOnce ==
  ASSUME schema \in Schema, NEW s \in Columns, NEW e, NEW f, RunUpTo(s, e), RunUpTo(s, f)
  PROVE  e = f
<1>1. Len(schema.columns) \in Nat /\ s \in Nat  BY SchemaTypes
<1>2. e \in s..Len(schema.columns) /\ f \in s..Len(schema.columns)  BY DEF RunUpTo
<1>3. ~(e < f)
  <2>1. e < f => e + 1 \in s..f /\ e < Len(schema.columns)  BY <1>1, <1>2
  <2> QED  BY <2>1 DEF RunUpTo
<1>4. ~(f < e)
  <2>1. f < e => f + 1 \in s..e /\ f < Len(schema.columns)  BY <1>1, <1>2
  <2> QED  BY <2>1 DEF RunUpTo
<1> QED  BY <1>1, <1>2, <1>3, <1>4

LEMMA Least ==
  ASSUME NEW S \in SUBSET Nat, S # {}
  PROVE  \E n \in S : \A m \in S : n <= m
<1>1. \E n \in S : \A m \in S : <<m, n>> \notin OpToRel(<, Nat)
  BY NatLessThanWellFounded, WFMin, Zenon
<1>2. \A m, n \in Nat : m < n => <<m, n>> \in OpToRel(<, Nat)
  BY DEF OpToRel
<1>3. \E n \in S : \A m \in S : ~(m < n)
  BY <1>1, <1>2, Zenon
<1> QED
  BY <1>3

LEMMA RunHasEnd ==
  ASSUME schema \in Schema, NEW s \in Columns, BooleanHere(s)
  PROVE  \E e : RunUpTo(s, e)
<1> DEFINE n == Len(schema.columns)
           S == {e \in s..n : e < n => ~BooleanHere(e + 1)}
<1>1. n \in Nat /\ s \in 1..n  BY SchemaTypes
<1>2. S \in SUBSET Nat /\ n \in S  BY <1>1
<1>3. PICK e \in S : \A f \in S : e <= f
  <2> HIDE DEF S
  <2> QED  BY <1>2, Least
<1>4. \A j \in s..e : BooleanHere(j)
  <2> SUFFICES ASSUME NEW j \in s..e, ~BooleanHere(j) PROVE FALSE  OBVIOUS
  <2>1. e \in Nat /\ e \in s..n /\ j \in Nat /\ j # s  BY <1>1, <1>3
  <2> DEFINE f == j - 1
  <2>2. f \in s..n /\ f < n /\ f + 1 = j /\ f < e  BY <1>1, <2>1
  <2>3. f \in S  BY <2>2
  <2> QED  BY <1>3, <2>1, <2>2, <2>3
<1>5. RunUpTo(s, e)  BY <1>3, <1>4 DEF RunUpTo
<1> QED  BY <1>5

(* Two runs have no column in common. *)
LEMMA RunsAreApart ==
  ASSUME schema \in Schema, NEW s \in Columns, NEW t \in Columns, s < t,
         NEW e, RunUpTo(s, e), StartsRun(t)
  PROVE  e < t
<1>1. Len(schema.columns) \in Nat /\ s \in Nat /\ t \in Nat  BY SchemaTypes
<1>2. e \in s..Len(schema.columns) /\ \A j \in s..e : BooleanHere(j)  BY DEF RunUpTo
<1> SUFFICES ASSUME e >= t PROVE FALSE  BY <1>1, <1>2
<1>3. t - 1 \in s..e /\ t > 1
  <2>1. e \in Int /\ s >= 1  BY <1>1, <1>2, SchemaTypes
  <2> QED  BY <1>1, <2>1
<1>4. BooleanHere(t - 1)  BY <1>2, <1>3
<1> QED  BY <1>3, <1>4 DEF StartsRun, WithinRun

LEMMA Kinds ==
  ASSUME schema \in Schema, NEW i \in Columns
  PROVE  /\ Passed(i) \/ FieldHere(i) \/ (Worded /\ BooleanHere(i)) \/ StartsRun(i)
         /\ Passed(i) => ~FieldHere(i) /\ ~(Worded /\ BooleanHere(i)) /\ ~StartsRun(i)
         /\ FieldHere(i) => ~BooleanHere(i) /\ ~StartsRun(i)
         /\ Worded => ~StartsRun(i) /\ Inline
         /\ Packed => Inline
<1>1. schema.boolean_tail \in {"Bytes", "PackedMsbFirst", "InlineBytes",
        "InlinePackedRunsMsbFirst", "InlinePackedRunsLsbFirst", "InlineU16Le"}
  BY SchemaTypes DEF Schemas
<1> QED
  BY <1>1 DEF Passed, FieldHere, Worded, BooleanHere, StartsRun, Packed, WithinRun, Inline

(* A step of the trace goes forward, and there is only one. *)
LEMMA GoesForward ==
  ASSUME Whole, NEW i \in Columns, NEW at \in Nat, at >= 2, NEW end, Goes(i, at, end)
  PROVE  end \in Nat /\ end >= at
<1>1. schema \in Schema  BY DEF Whole
<1>2. CASE Passed(i) /\ end = at  BY <1>2
<1>3. CASE FieldHere(i) /\ FieldAt(i, at).verdict = "Ok" /\ end = FieldAt(i, at).end
  BY <1>3, FieldEnds
<1>4. CASE Worded /\ BooleanHere(i) /\ WordFits(at) /\ end = at + Word
  <2>1. Word \in Nat  BY DEF Word
  <2> QED  BY <1>4, <2>1
<1>5. CASE StartsRun(i) /\ \E e : RunUpTo(i, e) /\ end = at + ByteCount(e - i + 1)
                                 /\ end <= input.declared
  <2>1. PICK e : RunUpTo(i, e) /\ end = at + ByteCount(e - i + 1)  BY <1>5
  <2>2. e - i + 1 \in Nat
    <3>1. Len(schema.columns) \in Nat /\ i \in Nat  BY <1>1, SchemaTypes
    <3>2. e \in i..Len(schema.columns)  BY <2>1 DEF RunUpTo
    <3> QED  BY <3>1, <3>2
  <2>3. ByteCount(e - i + 1) \in Nat  BY <2>2, ByteCounts
  <2> QED  BY <2>1, <2>3
<1> QED  BY <1>2, <1>3, <1>4, <1>5 DEF Goes

LEMMA StuckIsNotGoing ==
  ASSUME schema \in Schema, input.declared \in Nat,
         NEW i \in Columns, NEW at \in Nat, Stuck(i, at), NEW end
  PROVE  ~Goes(i, at, end)
<1>1. CASE FieldHere(i) /\ FieldAt(i, at).verdict # "Ok"
  BY <1>1, Kinds DEF Goes
<1>2. CASE Worded /\ BooleanHere(i) /\ ~WordFits(at)
  BY <1>2, Kinds DEF Goes
<1>3. CASE StartsRun(i) /\ \E e : RunUpTo(i, e) /\ at + ByteCount(e - i + 1) > input.declared
  <2>1. PICK e : RunUpTo(i, e) /\ at + ByteCount(e - i + 1) > input.declared  BY <1>3
  <2>2. e - i + 1 \in Nat
    <3>1. Len(schema.columns) \in Nat /\ i \in Nat  BY SchemaTypes
    <3>2. e \in i..Len(schema.columns)  BY <2>1 DEF RunUpTo
    <3> QED  BY <3>1, <3>2
  <2>3. ByteCount(e - i + 1) \in Nat  BY <2>2, ByteCounts
  <2>4. ~(at + ByteCount(e - i + 1) <= input.declared)  BY <2>1, <2>3
  <2>5. ~Passed(i) /\ ~FieldHere(i) /\ ~Worded  BY <1>3, Kinds
  <2>6. ASSUME NEW f, RunUpTo(i, f) PROVE f = e  BY <2>1, <2>6, RunEndsOnce
  <2> QED  BY <2>4, <2>5, <2>6 DEF Goes
<1> QED  BY <1>1, <1>2, <1>3 DEF Stuck

---------------------------------------------------------------------------
(* The trace does not change while the schema and the row do not. *)

LEMMA BytesStay ==
  ASSUME UNCHANGED <<schema, input>>
  PROVE  /\ \A at : ByteAt(at)' = ByteAt(at)
         /\ \A at, n : BytesAt(at, n)' = BytesAt(at, n)
         /\ \A at, n : Room(at, n)' = Room(at, n)
         /\ \A at, n : LittleEndian(at, n)' = LittleEndian(at, n)
         /\ \A at, i, msb : BitAt(at, i, msb)' = BitAt(at, i, msb)
         /\ \A kind, at, n : Take(kind, at, n)' = Take(kind, at, n)
<1>1. \A at : ByteAt(at)' = ByteAt(at)  BY DEF ByteAt
<1>2. \A at, n : BytesAt(at, n)' = BytesAt(at, n)  BY DEF BytesAt
<1>3. \A at, n : Room(at, n)' = Room(at, n)  BY DEF Room
<1>4. \A at, n : LittleEndian(at, n)' = LittleEndian(at, n)  BY DEF LittleEndian, ByteAt, BYTE
<1>5. \A at, i, msb : BitAt(at, i, msb)' = BitAt(at, i, msb)  BY DEF BitAt, Bit, ByteAt
<1>6. \A kind, at, n : Take(kind, at, n)' = Take(kind, at, n)
  BY DEF Take, Got, Fault, Room, BytesAt, Value, Null
<1> QED  BY <1>1, <1>2, <1>3, <1>4, <1>5, <1>6

LEMMA FieldsStay ==
  ASSUME UNCHANGED <<schema, input>>
  PROVE  \A i, at : FieldAt(i, at)' = FieldAt(i, at)
<1> SUFFICES ASSUME NEW i, NEW at PROVE FieldAt(i, at)' = FieldAt(i, at)  OBVIOUS
<1> DEFINE c == schema.columns[i]
<1>1. c' = c  OBVIOUS
<1>2. LengthWidth(c)' = LengthWidth(c)  BY DEF LengthWidth
<1>3. \A a : Overflow(a)' = Overflow(a)
  BY BytesStay DEF Overflow, Fault, Null, Value
<1>4. Variable(c, at)' = Variable(c, at)
  BY BytesStay, <1>1, <1>2, <1>3 DEF Variable, Fault, Null, Value, BYTE
<1>5. Numeric(at)' = Numeric(at)
  BY BytesStay DEF Numeric, Fault, Null, Value
<1>6. Enum(c, at)' = Enum(c, at)
  BY BytesStay, <1>1 DEF Enum, Fault, Null, Value
<1>7. Fixed(c, at)' = Fixed(c, at)
  BY BytesStay, <1>1 DEF Fixed, Integer, Fault, Null, Value
<1> QED  BY <1>1, <1>4, <1>5, <1>6, <1>7 DEF FieldAt, NonBoolean

LEMMA HeaderStays ==
  ASSUME UNCHANGED <<schema, input>>
  PROVE  /\ Presence' = Presence /\ HeaderFault' = HeaderFault /\ BodyStart' = BodyStart
         /\ Columns' = Columns /\ Ends' = Ends
         /\ TailColumns(Presence)' = TailColumns(Presence) /\ Required' = Required
         /\ TailMisfits(Presence)' = TailMisfits(Presence)
<1>1. \A i : NullableBefore(i)' = NullableBefore(i)  BY DEF NullableBefore
<1>2. BitmapStart' = BitmapStart  BY DEF BitmapStart
<1>3. BitmapBits' = BitmapBits  BY <1>1 DEF BitmapBits
<1>4. BodyStart' = BodyStart  BY <1>2, <1>3 DEF BodyStart, ByteCount
<1>5. HeaderFault' = HeaderFault  BY <1>4 DEF HeaderFault
<1>6. Columns' = Columns /\ Ends' = Ends  BY DEF Columns, Ends
<1>7. \A i : BitmapIndex(i)' = BitmapIndex(i)  BY <1>1 DEF BitmapIndex
<1>8. Presence' = Presence  BY <1>2, <1>6, <1>7, BytesStay DEF Presence
<1>9. TailColumns(Presence)' = TailColumns(Presence)
  BY <1>6, <1>8 DEF TailColumns, IsBoolean
<1>10. Required' = Required  BY <1>9 DEF Required, RequiredTail, ByteCount
<1>11. TailMisfits(Presence)' = TailMisfits(Presence)
  BY <1>4, <1>10 DEF TailMisfits, Required
<1> QED  BY <1>4, <1>5, <1>6, <1>8, <1>9, <1>10, <1>11

LEMMA TraceStays ==
  ASSUME UNCHANGED <<schema, input>>
  PROVE  /\ \A cur, k : Trace(cur, k)' = Trace(cur, k)
         /\ \A i, at : Stuck(i, at)' = Stuck(i, at)
         /\ \A cur, k, vals : Values(cur, k, vals)' = Values(cur, k, vals)
         /\ \A cur, k, vals : Known(cur, k, vals)' = Known(cur, k, vals)
<1>1. /\ \A i : BooleanHere(i)' = BooleanHere(i)
      /\ \A i : FieldHere(i)' = FieldHere(i)
      /\ \A i : StartsRun(i)' = StartsRun(i)
      /\ \A i : Passed(i)' = Passed(i)
  BY HeaderStays
  DEF BooleanHere, FieldHere, StartsRun, Passed, WithinRun, Packed, Inline, IsBoolean
<1>2. \A i, e : RunUpTo(i, e)' = RunUpTo(i, e)  BY <1>1 DEF RunUpTo
<1>3. Worded' = Worded /\ Word' = Word /\ RunMsb' = RunMsb  BY DEF Worded, Word, RunMsb
<1>4. \A at : WordFits(at)' = WordFits(at)  BY <1>3, BytesStay DEF WordFits
<1>5. \A i, at, end : Goes(i, at, end)' = Goes(i, at, end)
  BY <1>1, <1>2, <1>3, <1>4, FieldsStay DEF Goes, ByteCount
<1>6. \A i, at : Stuck(i, at)' = Stuck(i, at)
  BY <1>1, <1>2, <1>3, <1>4, FieldsStay DEF Stuck, ByteCount
<1>7. \A cur, k : Trace(cur, k)' = Trace(cur, k)  BY <1>5, HeaderStays DEF Trace
<1>8. /\ \A cur, i : FieldValue(cur, i)' = FieldValue(cur, i)
      /\ \A cur, i : WordValue(cur, i)' = WordValue(cur, i)
      /\ \A cur, s, i : RunValue(cur, s, i)' = RunValue(cur, s, i)
  BY <1>3, FieldsStay, BytesStay DEF FieldValue, WordValue, RunValue, Boolean, Value
<1>9. \A cur, k, vals : Values(cur, k, vals)' = Values(cur, k, vals)
  BY <1>1, <1>2, <1>3, <1>8, HeaderStays DEF Values, Null, Value
<1>10. \A cur, k, vals : Known(cur, k, vals)' = Known(cur, k, vals)
  BY <1>1, <1>2, <1>3, <1>8, HeaderStays DEF Known, Null, Unread, Value
<1> QED  BY <1>6, <1>7, <1>9, <1>10

LEMMA EndsStay ==
  ASSUME UNCHANGED <<schema, input>>
  PROVE  /\ \A at : TailFits(at)' = TailFits(at)
         /\ \A at, vals : TailValues(at, vals)' = TailValues(at, vals)
         /\ \A cur, k, v, vals : Ended(cur, k, v, vals)' = Ended(cur, k, v, vals)
         /\ \A v, vals : Outcome(v, vals)' = Outcome(v, vals)
<1>1. \A i : Place(i)' = Place(i)  BY HeaderStays DEF Place
<1>2. \A at, i : TailAt(at, i)' = TailAt(at, i)  BY <1>1, BytesStay DEF TailAt
<1>3. \A at : TailIsBad(at)' = TailIsBad(at)  BY <1>2, HeaderStays DEF TailIsBad
<1>4. \A at : TailFits(at)' = TailFits(at)  BY <1>3, HeaderStays, BytesStay DEF TailFits
<1>5. \A at, vals : TailValues(at, vals)' = TailValues(at, vals)
  BY <1>2, HeaderStays DEF TailValues, Inline, Boolean, Value
<1>6. \A cur, k, v, vals : Ended(cur, k, v, vals)' = Ended(cur, k, v, vals)
  BY <1>4, <1>5, HeaderStays, TraceStays DEF Ended
<1>7. \A v, vals : Outcome(v, vals)' = Outcome(v, vals)
  BY <1>6, HeaderStays DEF Outcome
<1> QED  BY <1>4, <1>5, <1>6, <1>7

---------------------------------------------------------------------------
(* One column further *)

(* What a decoder does to the values with the column k that begins at `at`. *)
Moved(k, at, old, new) ==
  /\ new = [i \in Columns |-> new[i]]
  /\ \A i \in Columns :
       \/ new[i] = old[i]
       \/ i = k /\ ~Presence[i] /\ new[i] = Null
       \/ i = k /\ FieldHere(i) /\ new[i] = FieldAt(i, at).value
       \/ i = k /\ Worded /\ BooleanHere(i) /\ new[i] = Boolean(LittleEndian(at, Word))
       \/ \E e : /\ StartsRun(k) /\ RunUpTo(k, e) /\ i \in k..e
                 /\ new[i] = Boolean(BitAt(at, i - k, RunMsb))

Filled(k, at, new) ==
  /\ FieldHere(k) => new[k] = FieldAt(k, at).value
  /\ Worded /\ BooleanHere(k) => new[k] = Boolean(LittleEndian(at, Word))
  /\ \A e : StartsRun(k) /\ RunUpTo(k, e) =>
       \A i \in k..e : new[i] = Boolean(BitAt(at, i - k, RunMsb))

LEMMA TraceFacts ==
  ASSUME Whole, NEW cur, NEW k, Trace(cur, k)
  PROVE  /\ k \in Nat /\ k >= 1 /\ k <= Ends
         /\ \A i \in 1..k : cur[i] \in Nat /\ cur[i] >= 2
         /\ \A i \in 1..k : i < Ends => i \in Columns
<1>1. Ends \in Nat /\ Columns = 1..(Ends - 1)  BY SchemaTypes DEF Whole
<1>2. k \in 1..Ends /\ cur \in [1..k -> Nat] /\ cur[1] = BodyStart
      /\ \A i, j \in 1..k : i <= j => cur[i] <= cur[j]
  BY DEF Trace
<1>3. BodyStart \in Nat /\ BodyStart >= 2  BY BodyStartsAt DEF Whole
<1>4. k \in Nat /\ k >= 1 /\ k <= Ends  BY <1>1, <1>2
<1>5. ASSUME NEW i \in 1..k PROVE cur[i] \in Nat /\ cur[i] >= 2
  <2>1. 1 \in 1..k /\ 1 <= i  BY <1>4
  <2>2. cur[1] <= cur[i] /\ cur[i] \in Nat  BY <1>2, <2>1
  <2> QED  BY <1>2, <1>3, <2>2
<1>6. ASSUME NEW i \in 1..k, i < Ends PROVE i \in Columns
  BY <1>1, <1>4, <1>6
<1> QED  BY <1>4, <1>5, <1>6

LEMMA TraceOn ==
  ASSUME Whole, NEW cur, NEW k, Trace(cur, k), k < Ends, NEW end, Goes(k, cur[k], end)
  PROVE  \E next : /\ Trace(next, k + 1) /\ next[k + 1] = end
                   /\ \A i \in 1..k : next[i] = cur[i]
<1> DEFINE next == [i \in 1..(k + 1) |-> IF i <= k THEN cur[i] ELSE end]
<1>1. k \in Nat /\ k >= 1 /\ Ends \in Nat /\ k \in 1..k /\ k \in Columns
      /\ cur[k] \in Nat /\ cur[k] >= 2
  <2>1. k \in Nat /\ k >= 1  BY TraceFacts
  <2>2. k \in 1..k  BY <2>1
  <2> QED  BY <2>1, <2>2, TraceFacts, SchemaTypes DEF Whole
<1>2. end \in Nat /\ end >= cur[k]
  BY <1>1, GoesForward
<1>3. cur \in [1..k -> Nat] /\ cur[1] = BodyStart
      /\ (\A i \in 1..(k - 1) : Goes(i, cur[i], cur[i + 1]))
      /\ \A i, j \in 1..k : i <= j => cur[i] <= cur[j]
  BY DEF Trace
<1>4. next \in [1..(k + 1) -> Nat]
  <2>1. ASSUME NEW i \in 1..(k + 1) PROVE (IF i <= k THEN cur[i] ELSE end) \in Nat
    <3>1. i <= k => i \in 1..k  BY <1>1
    <3> QED  BY <1>2, <1>3, <3>1
  <2> QED  BY <2>1
<1>5. next[k + 1] = end /\ \A i \in 1..k : next[i] = cur[i]
  <2>1. k + 1 \in 1..(k + 1) /\ ~(k + 1 <= k)  BY <1>1
  <2>2. \A i \in 1..k : i \in 1..(k + 1) /\ i <= k  BY <1>1
  <2> QED  BY <2>1, <2>2
<1> HIDE DEF next
<1>6. next[1] = BodyStart
  <2>1. 1 \in 1..k  BY <1>1
  <2> QED  BY <1>3, <1>5, <2>1
<1>7. ASSUME NEW i \in 1..k PROVE Goes(i, next[i], next[i + 1])
  <2>1. CASE i = k  BY <1>1, <1>5, <2>1
  <2>2. CASE i # k
    <3>1. i \in 1..(k - 1) /\ i + 1 \in 1..k  BY <1>1, <2>2
    <3> QED  BY <1>3, <1>5, <3>1
  <2> QED  BY <2>1, <2>2
<1>8. ASSUME NEW i \in 1..(k + 1), NEW j \in 1..(k + 1), i <= j PROVE next[i] <= next[j]
  <2>1. CASE j <= k
    <3>1. i \in 1..k /\ j \in 1..k  BY <1>1, <1>8, <2>1
    <3> QED  BY <1>3, <1>5, <1>8, <3>1
  <2>2. CASE i <= k /\ ~(j <= k)
    <3>1. i \in 1..k /\ j = k + 1 /\ i <= k  BY <1>1, <2>2
    <3>2. next[i] = cur[i] /\ cur[i] <= cur[k] /\ cur[i] \in Nat  BY <1>1, <1>3, <1>5, <3>1
    <3> QED  BY <1>1, <1>2, <1>5, <3>1, <3>2
  <2>3. CASE ~(i <= k)
    <3>1. i = k + 1 /\ j = k + 1  BY <1>1, <1>8, <2>3
    <3> QED  BY <1>2, <1>5, <3>1
  <2> QED  BY <2>1, <2>2, <2>3
<1>9. k + 1 \in 1..Ends /\ (k + 1) - 1 = k  BY <1>1
<1>10. Trace(next, k + 1)
  BY <1>4, <1>6, <1>7, <1>8, <1>9 DEF Trace
<1> QED  BY <1>5, <1>10

LEMMA ValuesOn ==
  ASSUME Whole, NEW cur, NEW k, Trace(cur, k), k < Ends,
         NEW next, \A i \in 1..k : next[i] = cur[i],
         NEW old, NEW new, Values(cur, k, old), Moved(k, cur[k], old, new),
         Filled(k, cur[k], new)
  PROVE  Values(next, k + 1, new)
<1>1. /\ schema \in Schema /\ Ends \in Nat /\ Columns = 1..(Ends - 1)
      /\ Len(schema.columns) = Ends - 1
  BY SchemaTypes DEF Whole
<1>2. k \in Nat /\ k >= 1  BY TraceFacts
<1>3. k \in Columns /\ k \in 1..k  BY <1>1, <1>2
<1>4. ASSUME NEW i \in 1..k PROVE i \in Columns  BY <1>1, <1>2
<1>5. ASSUME NEW i \in 1..(k - 1) PROVE i \in 1..k /\ i \in Columns /\ new[i] = old[i]
  <2>1. i \in 1..k /\ i < k /\ i \in Columns  BY <1>1, <1>2
  <2>2. ~(\E e : i \in k..e)  BY <1>2, <2>1
  <2> QED  BY <2>1, <2>2 DEF Moved
<1>6. new = [i \in Columns |-> new[i]]  BY DEF Moved
<1>7. ASSUME NEW i \in Columns, ~Presence[i] PROVE new[i] = Null
  <2>1. old[i] = Null  BY <1>7 DEF Values
  <2>2. ~FieldHere(i) /\ ~BooleanHere(i)  BY <1>7 DEF FieldHere, BooleanHere
  <2>3. ~(\E e : RunUpTo(k, e) /\ i \in k..e)  BY <2>2 DEF RunUpTo
  <2> QED  BY <2>1, <2>2, <2>3 DEF Moved
<1>8. ASSUME NEW i \in 1..k, FieldHere(i) PROVE new[i] = FieldValue(next, i)
  <2>1. next[i] = cur[i]  OBVIOUS
  <2>2. CASE i = k  BY <1>8, <2>1, <2>2 DEF Filled, FieldValue
  <2>3. CASE i # k
    <3>1. i \in 1..(k - 1)  BY <1>2, <2>3
    <3> QED  BY <1>5, <1>8, <2>1, <3>1 DEF Values, FieldValue
  <2> QED  BY <2>2, <2>3
<1>9. ASSUME NEW i \in 1..k, Worded, BooleanHere(i) PROVE new[i] = WordValue(next, i)
  <2>1. next[i] = cur[i]  OBVIOUS
  <2>2. CASE i = k  BY <1>9, <2>1, <2>2 DEF Filled, WordValue
  <2>3. CASE i # k
    <3>1. i \in 1..(k - 1)  BY <1>2, <2>3
    <3> QED  BY <1>5, <1>9, <2>1, <3>1 DEF Values, WordValue
  <2> QED  BY <2>2, <2>3
<1>10. ASSUME NEW s \in 1..k, NEW e, StartsRun(s), RunUpTo(s, e), NEW i \in s..e
       PROVE  new[i] = RunValue(next, s, i)
  <2>1. next[s] = cur[s]  OBVIOUS
  <2>2. CASE s = k  BY <1>10, <2>1, <2>2 DEF Filled, RunValue
  <2>3. CASE s # k
    <3>1. s \in 1..(k - 1) /\ s < k  BY <1>2, <2>3
    <3>2. old[i] = RunValue(cur, s, i)  BY <1>10, <3>1 DEF Values
    <3>3. i \in Columns /\ BooleanHere(i) /\ Presence[i] /\ ~FieldHere(i)
      <4>1. e \in s..Len(schema.columns) /\ BooleanHere(i)  BY <1>10 DEF RunUpTo
      <4>2. s \in Nat /\ s >= 1  BY <1>2
      <4>3. i \in Columns  BY <1>1, <4>1, <4>2
      <4> QED  BY <4>1, <4>3 DEF BooleanHere, FieldHere
    <3>4. ~Worded  BY <1>1, <1>4, <1>10, Kinds
    <3>5. ~(\E f : StartsRun(k) /\ i \in k..f)
      <4> SUFFICES ASSUME StartsRun(k), NEW f, i \in k..f PROVE FALSE  OBVIOUS
      <4>1. e < k  BY <1>1, <1>3, <1>4, <1>10, <3>1, RunsAreApart
      <4>2. e \in s..Len(schema.columns)  BY <1>10 DEF RunUpTo
      <4>3. e \in Int /\ i <= e  BY <1>1, <1>2, <4>2
      <4>4. i >= k /\ i \in Int  BY <1>2
      <4> QED  BY <1>2, <4>1, <4>3, <4>4
    <3>6. new[i] = old[i]  BY <3>3, <3>4, <3>5 DEF Moved
    <3> QED  BY <2>1, <3>2, <3>6 DEF RunValue
  <2> QED  BY <2>2, <2>3
<1>11. (k + 1) - 1 = k  BY <1>2
<1> QED  BY <1>6, <1>7, <1>8, <1>9, <1>10, <1>11 DEF Values

LEMMA KnownOn ==
  ASSUME Whole, NEW cur, NEW k \in Columns, NEW old, NEW new,
         Known(cur, k, old), Moved(k, cur[k], old, new)
  PROVE  Known(cur, k + 1, new)
<1>1. k \in Nat /\ k >= 1  BY SchemaTypes DEF Whole
<1>2. new = [i \in Columns |-> new[i]]  BY DEF Moved
<1>3. k < k + 1 /\ k \in 1..((k + 1) - 1) /\ 1..(k - 1) \subseteq 1..((k + 1) - 1)
  BY <1>1
<1> DEFINE Knows(n, vals, i) ==
       \/ vals[i] = Unread
       \/ ~Presence[i] /\ vals[i] = Null
       \/ FieldHere(i) /\ i < n /\ vals[i] = FieldValue(cur, i)
       \/ Worded /\ BooleanHere(i) /\ i < n /\ vals[i] = WordValue(cur, i)
       \/ \E s \in 1..(n - 1) : \E e :
            StartsRun(s) /\ RunUpTo(s, e) /\ i \in s..e /\ vals[i] = RunValue(cur, s, i)
<1>4. ASSUME NEW i \in Columns PROVE Knows(k + 1, new, i)
  <2>0. i \in Nat  BY SchemaTypes DEF Whole
  <2>1. CASE new[i] = old[i]
    <3>1. Knows(k, old, i)  BY DEF Known
    <3>2. i < k => i < k + 1  BY <1>1, <2>0
    <3> QED  BY <1>3, <2>1, <3>1, <3>2
  <2>2. CASE i = k /\ ~Presence[i] /\ new[i] = Null  BY <2>2
  <2>3. CASE i = k /\ FieldHere(i) /\ new[i] = FieldAt(i, cur[k]).value
    BY <1>3, <2>3 DEF FieldValue
  <2>4. CASE i = k /\ Worded /\ BooleanHere(i) /\ new[i] = Boolean(LittleEndian(cur[k], Word))
    BY <1>3, <2>4 DEF WordValue
  <2>5. CASE \E e : /\ StartsRun(k) /\ RunUpTo(k, e) /\ i \in k..e
                    /\ new[i] = Boolean(BitAt(cur[k], i - k, RunMsb))
    BY <1>3, <2>5 DEF RunValue
  <2> QED  BY <2>1, <2>2, <2>3, <2>4, <2>5 DEF Moved
<1> QED  BY <1>2, <1>4 DEF Known

---------------------------------------------------------------------------
(* The four actions of the loop, in either decoder. *)

ColumnAction == SkipColumn \/ ReadBooleanWord \/ ReadBooleanRun \/ ReadField

InLoop ==
  /\ Whole /\ present = Presence
  /\ AtColumn /\ column \in Columns
  /\ cursor \in Nat /\ cursor >= 2
  /\ values = [i \in Columns |-> values[i]]

(* The column is decoded. *)
Advanced ==
  /\ Goes(column, cursor, cursor')
  /\ column' = column + 1
  /\ UNCHANGED <<pc, present, result>>
  /\ Moved(column, cursor, values, values')
  /\ call = "exact" => Filled(column, cursor, values')

(* Or it cannot be, or would reach into the tail. *)
Refused ==
  \E verdict : /\ verdict # "Ok" /\ Fails(verdict)
               /\ \/ Stuck(column, cursor)
                  \/ \E end : Goes(column, cursor, end) /\ Overlaps(end)

LEMMA RunEndIs ==
  ASSUME InLoop, BooleanHere(column)
  PROVE  RunUpTo(column, RunEnd)
<1>1. schema \in Schema /\ present = Presence /\ column \in Columns  BY DEF InLoop, Whole
<1>2. PICK e : RunUpTo(column, e)  BY <1>1, RunHasEnd
<1> DEFINE P(end) == /\ \A i \in column..end : IsBoolean(i) /\ present[i]
                     /\ end < Len(schema.columns) => ~(IsBoolean(end + 1) /\ present[end + 1])
<1>3. \A f \in column..Len(schema.columns) : P(f) <=> RunUpTo(column, f)
  BY <1>1 DEF RunUpTo, BooleanHere
<1>4. e \in column..Len(schema.columns) /\ P(e)  BY <1>2, <1>3 DEF RunUpTo
<1>5. RunEnd \in column..Len(schema.columns) /\ P(RunEnd)
  <2>1. RunEnd = CHOOSE end \in column..Len(schema.columns) : P(end)  BY DEF RunEnd
  <2> HIDE DEF P
  <2> QED  BY <1>4, <2>1
<1> QED  BY <1>3, <1>5

LEMMA InRunIs ==
  ASSUME InLoop
  PROVE  InRun <=> WithinRun(column)
BY DEF InLoop, InRun, WithinRun, Packed, BooleanHere

LEMMA SkipMoves ==
  ASSUME InLoop, SkipColumn
  PROVE  Advanced
<1>1. schema \in Schema /\ present = Presence /\ column \in Columns
      /\ values = [i \in Columns |-> values[i]]
  BY DEF InLoop, Whole
<1>2. Passed(column)
  BY <1>1, InRunIs DEF SkipColumn, Passed
<1>3. Goes(column, cursor, cursor')
  BY <1>2 DEF SkipColumn, Goes
<1>4. /\ column' = column + 1 /\ UNCHANGED <<pc, present, result>>
      /\ values' = [values EXCEPT ![column] =
                      IF ~present[column] /\ ~IsBoolean(column) THEN Null ELSE @]
  BY DEF SkipColumn
<1>5. \A i \in Columns : values'[i] = values[i] \/ (i = column /\ ~Presence[i] /\ values'[i] = Null)
  BY <1>1, <1>4
<1>6. values' = [i \in Columns |-> values'[i]]  BY <1>1, <1>4
<1>7. Moved(column, cursor, values, values')  BY <1>5, <1>6 DEF Moved
<1>8. Filled(column, cursor, values')  BY <1>1, <1>2, Kinds DEF Filled
<1> QED  BY <1>3, <1>4, <1>7, <1>8 DEF Advanced

LEMMA WordMoves ==
  ASSUME InLoop, ReadBooleanWord
  PROVE  Advanced \/ Refused
<1>1. schema \in Schema /\ present = Presence /\ column \in Columns
      /\ values = [i \in Columns |-> values[i]]
  BY DEF InLoop, Whole
<1>2. Worded /\ BooleanHere(column) /\ ~FieldHere(column) /\ ~StartsRun(column)
  BY <1>1, Kinds DEF ReadBooleanWord, Worded, BooleanHere
<1>3. WordFault = "Ok" <=> WordFits(cursor)  BY DEF WordFault, WordFits
<1>4. CASE WordFault # "Ok" /\ Fails(WordFault)
  <2>1. Stuck(column, cursor)  BY <1>2, <1>3, <1>4 DEF Stuck
  <2> QED  BY <1>4, <2>1 DEF Refused
<1>5. CASE WordFault = "Ok" /\ Decoded(cursor + Word,
                   [i \in {column} |-> Boolean(LittleEndian(cursor, Word))])
  <2> DEFINE v == Boolean(LittleEndian(cursor, Word))
  <2>1. /\ values' = [i \in Columns |-> IF i \in {column} THEN v ELSE values[i]]
        /\ cursor' = cursor + Word /\ column' = column + 1 /\ UNCHANGED <<pc, present, result>>
    BY <1>5 DEF Decoded
  <2>2. Goes(column, cursor, cursor')  BY <1>2, <1>3, <1>5, <2>1 DEF Goes
  <2> HIDE DEF v
  <2>3. \A i \in Columns : values'[i] = values[i] \/ (i = column /\ values'[i] = v)
    BY <1>1, <2>1
  <2>4. values'[column] = v /\ values' = [i \in Columns |-> values'[i]]  BY <1>1, <2>1
  <2>5. Moved(column, cursor, values, values')  BY <1>2, <2>3, <2>4 DEF Moved, v
  <2>6. Filled(column, cursor, values')  BY <1>2, <2>4 DEF Filled, v
  <2> QED  BY <2>1, <2>2, <2>5, <2>6 DEF Advanced
<1> QED  BY <1>4, <1>5 DEF ReadBooleanWord

LEMMA FieldMoves ==
  ASSUME InLoop, ReadField
  PROVE  Advanced \/ Refused
<1> DEFINE f == FieldAt(column, cursor)
<1>1. schema \in Schema /\ present = Presence /\ column \in Columns
      /\ values = [i \in Columns |-> values[i]]
  BY DEF InLoop, Whole
<1>2. FieldHere(column) /\ ~BooleanHere(column) /\ ~StartsRun(column)
  BY <1>1, Kinds DEF ReadField, FieldHere
<1>3. CASE f.verdict # "Ok"
  <2>1. Fails(f.verdict)  BY <1>3 DEF ReadField, FieldAt
  <2>2. Stuck(column, cursor)  BY <1>2, <1>3 DEF Stuck
  <2> QED  BY <1>3, <2>1, <2>2 DEF Refused
<1>4. CASE f.verdict = "Ok" /\ Overlaps(f.end)
  <2>1. Fails("PrefixOverlapsBooleanTail")  BY <1>4 DEF ReadField, FieldAt
  <2>2. Goes(column, cursor, f.end)  BY <1>2, <1>4 DEF Goes
  <2> HIDE DEF f
  <2> QED  BY <1>4, <2>1, <2>2 DEF Refused
<1>5. CASE f.verdict = "Ok" /\ ~Overlaps(f.end)
  <2> DEFINE v == f.value
  <2>0. Decoded(f.end, [i \in {column} |-> v])
    BY <1>5 DEF ReadField, FieldAt
  <2>1. /\ values' = [i \in Columns |-> IF i \in {column} THEN v ELSE values[i]]
        /\ cursor' = f.end /\ column' = column + 1 /\ UNCHANGED <<pc, present, result>>
    BY <2>0 DEF Decoded
  <2>2. Goes(column, cursor, cursor')  BY <1>2, <1>5, <2>1 DEF Goes
  <2> HIDE DEF v
  <2>3. \A i \in Columns : values'[i] = values[i] \/ (i = column /\ values'[i] = v)
    BY <1>1, <2>1
  <2>4. values'[column] = v /\ values' = [i \in Columns |-> values'[i]]  BY <1>1, <2>1
  <2>5. Moved(column, cursor, values, values')  BY <1>2, <2>3, <2>4 DEF Moved, v
  <2>6. Filled(column, cursor, values')  BY <1>2, <2>4 DEF Filled, v
  <2> QED  BY <2>1, <2>2, <2>5, <2>6 DEF Advanced
<1> QED  BY <1>3, <1>4, <1>5

LEMMA RunMoves ==
  ASSUME InLoop, ReadBooleanRun
  PROVE  Advanced \/ Refused
<1> DEFINE e == RunEnd
           end == cursor + ByteCount(RunEnd - column + 1)
           bit(i) == Boolean(BitAt(cursor, i - column, RunMsb))
           D == {i \in column..e : i <= LastColumn}
<1>1. schema \in Schema /\ present = Presence /\ column \in Columns
      /\ values = [i \in Columns |-> values[i]]
  BY DEF InLoop, Whole
<1>2. BooleanHere(column) /\ StartsRun(column) /\ ~Worded /\ ~FieldHere(column)
  BY <1>1, InRunIs, Kinds DEF ReadBooleanRun, BooleanHere, StartsRun, Packed
<1>3. RunUpTo(column, e)  BY <1>2, RunEndIs
<1>4. input.declared \in Nat  BY DeclaredIs DEF InLoop
<1>5. end \in Nat
  <2>1. Len(schema.columns) \in Nat /\ column \in Nat /\ cursor \in Nat
    BY <1>1, SchemaTypes DEF InLoop
  <2>2. e \in column..Len(schema.columns)  BY <1>3 DEF RunUpTo
  <2>3. e - column + 1 \in Nat  BY <2>1, <2>2
  <2>4. ByteCount(e - column + 1) \in Nat  BY <2>3, ByteCounts
  <2> QED  BY <2>1, <2>4
<1>6. CASE end > input.declared
  <2>1. Fails("Truncated")  BY <1>6 DEF ReadBooleanRun
  <2>2. Stuck(column, cursor)  BY <1>2, <1>3, <1>6 DEF Stuck
  <2> QED  BY <2>1, <2>2 DEF Refused
<1>7. CASE ~(end > input.declared)
  <2>1. Decoded(end, [i \in D |-> bit(i)])
    BY <1>7 DEF ReadBooleanRun
  <2>2. /\ values' = [i \in Columns |-> IF i \in D THEN bit(i) ELSE values[i]]
        /\ cursor' = end /\ column' = column + 1 /\ UNCHANGED <<pc, present, result>>
    BY <2>1 DEF Decoded
  <2>3. end <= input.declared  BY <1>4, <1>5, <1>7
  <2>4. Goes(column, cursor, cursor')
    BY <1>2, <1>3, <2>2, <2>3 DEF Goes
  <2> HIDE DEF bit, D, e
  <2>5. /\ values' = [i \in Columns |-> values'[i]]
        /\ \A i \in Columns : values'[i] = IF i \in D THEN bit(i) ELSE values[i]
    BY <1>1, <2>2
  <2>6. Moved(column, cursor, values, values')
    <3>1. \A i \in D : i \in column..e  BY DEF D
    <3> QED  BY <1>2, <1>3, <2>5, <3>1 DEF Moved, bit
  <2>7. ASSUME call = "exact", NEW f, RunUpTo(column, f), NEW i \in column..f
        PROVE  values'[i] = bit(i)
    <3>1. f = e  BY <1>1, <1>3, <2>7, RunEndsOnce
    <3>2. e \in column..Len(schema.columns) /\ LastColumn = Len(schema.columns)
      BY <1>3, <2>7 DEF RunUpTo, LastColumn
    <3>3. Len(schema.columns) \in Nat /\ Columns = 1..Len(schema.columns)
      BY <1>1, SchemaTypes DEF Columns
    <3>4. i \in Columns /\ i \in D
      <4>1. i \in column..e /\ column \in Nat /\ column >= 1 /\ e \in Int
        BY <1>1, <2>7, <3>1, <3>2, <3>3
      <4>2. i \in Int /\ i <= e /\ e <= Len(schema.columns) /\ i >= 1
        BY <3>2, <3>3, <4>1
      <4> QED  BY <3>2, <3>3, <4>1, <4>2 DEF D
    <3> QED  BY <2>5, <3>4
  <2>8. call = "exact" => Filled(column, cursor, values')
    BY <1>2, <2>7 DEF Filled, bit
  <2> QED  BY <2>2, <2>4, <2>6, <2>8 DEF Advanced
<1> QED  BY <1>6, <1>7

LEMMA ColumnMoves ==
  ASSUME InLoop, ColumnAction
  PROVE  Advanced \/ Refused
BY SkipMoves, WordMoves, FieldMoves, RunMoves DEF ColumnAction

---------------------------------------------------------------------------
(* What the whole row says of its prefixes. *)

LEMMA GoesOnce ==
  ASSUME schema \in Schema, NEW i \in Columns, NEW at, NEW x, NEW y,
         Goes(i, at, x), Goes(i, at, y)
  PROVE  x = y
<1>1. CASE Passed(i)  BY <1>1, Kinds DEF Goes
<1>2. CASE FieldHere(i)  BY <1>2, Kinds DEF Goes
<1>3. CASE Worded /\ BooleanHere(i)  BY <1>3, Kinds DEF Goes
<1>4. CASE StartsRun(i)
  <2>1. ~Passed(i) /\ ~FieldHere(i) /\ ~(Worded /\ BooleanHere(i))  BY <1>4, Kinds
  <2>2. PICK e : RunUpTo(i, e) /\ x = at + ByteCount(e - i + 1)  BY <2>1 DEF Goes
  <2>3. PICK f : RunUpTo(i, f) /\ y = at + ByteCount(f - i + 1)  BY <2>1 DEF Goes
  <2>4. e = f  BY <2>2, <2>3, RunEndsOnce
  <2> QED  BY <2>2, <2>3, <2>4
<1> QED  BY <1>1, <1>2, <1>3, <1>4, Kinds

LEMMA WholeOk ==
  ASSUME Whole, NEW cur, NEW m, NEW vals, Ended(cur, m, "Ok", vals)
  PROVE  /\ m = Ends /\ Trace(cur, m) /\ TailFits(cur[m])
         /\ cur[m] = input.declared - Required
         /\ Values(cur, m, vals) /\ TailValues(cur[m], vals)
         /\ \A i \in 1..m : cur[i] \in Nat /\ cur[i] <= input.declared - Required
<1>1. /\ m = Ends /\ Trace(cur, m) /\ TailFits(cur[m]) /\ cur[m] + Required = input.declared
      /\ Values(cur, m, vals) /\ TailValues(cur[m], vals)
  BY DEF Ended
<1>2. Required \in Nat /\ input.declared \in Nat  BY RequiredIs, DeclaredIs DEF Whole
<1>3. m \in Nat /\ m >= 1 /\ m \in 1..m
  <2>1. m \in Nat /\ m >= 1  BY <1>1, TraceFacts
  <2> QED  BY <2>1
<1>4. cur[m] \in Nat  BY <1>1, <1>3, TraceFacts
<1>5. cur[m] = input.declared - Required  BY <1>1, <1>2, <1>4
<1>6. ASSUME NEW i \in 1..m PROVE cur[i] \in Nat /\ cur[i] <= input.declared - Required
  <2>1. cur[i] \in Nat  BY <1>1, TraceFacts
  <2>2. i <= m  BY <1>3
  <2>3. cur[i] <= cur[m]  BY <1>1, <1>3, <2>2 DEF Trace
  <2> QED  BY <1>5, <2>1, <2>3
<1> QED  BY <1>1, <1>5, <1>6

LEMMA KnownAgrees ==
  ASSUME Whole, NEW cur, NEW k, NEW m, k \in 1..m, m \in Nat,
         NEW some, NEW vals, Known(cur, k, some), Values(cur, m, vals),
         NEW i \in Columns, some[i] # Unread
  PROVE  some[i] = vals[i]
<1>1. i \in Nat /\ i >= 1 /\ k \in Nat  BY SchemaTypes DEF Whole
<1>2. i < k => i \in 1..(m - 1)  BY <1>1
<1>3. CASE ~Presence[i] /\ some[i] = Null  BY <1>3 DEF Values
<1>4. CASE FieldHere(i) /\ i < k /\ some[i] = FieldValue(cur, i)  BY <1>2, <1>4 DEF Values
<1>5. CASE Worded /\ BooleanHere(i) /\ i < k /\ some[i] = WordValue(cur, i)
  BY <1>2, <1>5 DEF Values
<1>6. CASE \E s \in 1..(k - 1) : \E e :
             StartsRun(s) /\ RunUpTo(s, e) /\ i \in s..e /\ some[i] = RunValue(cur, s, i)
  <2>1. 1..(k - 1) \subseteq 1..(m - 1)  BY <1>1
  <2> QED  BY <1>6, <2>1 DEF Values
<1> QED  BY <1>3, <1>4, <1>5, <1>6 DEF Known

(* The tail, in the decoder's words and in those of the trace. *)
LEMMA TailIs ==
  ASSUME present = Presence
  PROVE  /\ RequiredTail(present) = Required
         /\ \A i : TailValue(i) = TailAt(TailStart, i)
         /\ (~ShortTail /\ ~InvalidTailByte) <=> TailFits(TailStart)
<1>1. RequiredTail(present) = Required  BY DEF Required
<1>2. \A i : TailOrdinal(i) = Place(i)  BY DEF TailOrdinal, Place
<1>3. \A i : TailValue(i) = TailAt(TailStart, i)  BY <1>2 DEF TailValue, TailAt
<1>4. InvalidTailByte <=> TailIsBad(TailStart)  BY <1>3 DEF InvalidTailByte, TailIsBad
<1> QED  BY <1>1, <1>3, <1>4 DEF ShortTail, TailFits

LEMMA HeaderIsWhole ==
  ASSUME InputOK, Rebuilt, DecoderTypes, input.kind # "carrier", HeaderFault = "Ok"
  PROVE  Whole
<1>1. /\ input.len \in Nat /\ input.declared \in Nat /\ input.flags \in Nat
      /\ Len(input.rest) \in Nat /\ input.kind \in {"row", "payload"}
  BY DEF InputOK, Inputs
<1>2. input.len >= 2 /\ input.declared <= input.len /\ input.flags = 0
  BY <1>1 DEF HeaderFault
<1>3. CASE input.kind = "row"
  <2>1. input \in Input  BY <1>3 DEF DecoderTypes
  <2>2. input.len = Len(input.rest) + 2  BY <1>2, <1>3, <2>1, RowAssumption
  <2> QED  BY <1>2, <2>2 DEF DecoderTypes, Whole
<1>4. CASE input.kind = "payload"
  <2>1. Len(input.rest) + 2 \in Nat  BY <1>1
  <2>2. input.declared = Len(input.rest) + 2
    BY <1>2, <1>4, <2>1, UncutSize DEF Rebuilt
  <2> QED  BY <1>1, <2>2 DEF DecoderTypes, Whole
<1> QED  BY <1>1, <1>3, <1>4

---------------------------------------------------------------------------
(* One step of either decoder, on a row. *)

OnRow ==
  /\ InputOK /\ Rebuilt /\ DecoderTypes /\ RowInv /\ input.kind # "carrier"
  /\ UNCHANGED <<schema, input>>

LEMMA OnWhole ==
  ASSUME OnRow, HeaderFault = "Ok"
  PROVE  Whole
BY HeaderIsWhole DEF OnRow

LEMMA ExactEnds ==
  ASSUME OnRow, call' = "exact", pc' = "returned", Outcome(result'.verdict, values')
  PROVE  RowInv'
<1>1. PICK verdict, vals : verdict = result'.verdict /\ vals = values' /\ Outcome(verdict, vals)
  OBVIOUS
<1>2. Outcome(verdict, vals)'  BY <1>1, EndsStay DEF OnRow
<1> QED
  BY <1>1, <1>2
  DEF RowInv, HeaderRead, ExactColumns, ExactDecoded, ExactReturned, PrefixHeader,
      PrefixColumns, PrefixAgreesWithTheRow

LEMMA PrefixEnds ==
  ASSUME OnRow, call' = "prefix", pc' = "returned", UNCHANGED <<through, whole>>,
         through \in Columns /\ whole.verdict = "Ok" =>
            /\ result'.verdict = "Ok"
            /\ \A i \in Columns : values'[i] # Unread => values'[i] = whole.values[i],
         through = Len(schema.columns) /\ result' = [verdict |-> "Ok", opaque |-> 0] =>
           whole.verdict = "Ok"
  PROVE  RowInv'
<1>1. Columns' = Columns /\ UNCHANGED schema  BY HeaderStays DEF OnRow
<1>2. PrefixAgreesWithTheRow'
  BY <1>1 DEF PrefixAgreesWithTheRow, Agrees, Unread, Value
<1> QED
  BY <1>2
  DEF RowInv, HeaderRead, ExactColumns, ExactDecoded, ExactReturned, PrefixHeader,
      PrefixColumns

LEMMA PrefixFails ==
  ASSUME OnRow, call' = "prefix", pc' = "returned", UNCHANGED <<through, whole>>,
         result'.verdict # "Ok", through \in Columns => whole.verdict # "Ok"
  PROVE  RowInv'
<1>1. through \in Columns /\ whole.verdict = "Ok" =>
            /\ result'.verdict = "Ok"
            /\ \A i \in Columns : values'[i] # Unread => values'[i] = whole.values[i]
  OBVIOUS
<1>2. result' # [verdict |-> "Ok", opaque |-> 0]  OBVIOUS
<1> QED  BY <1>1, <1>2, PrefixEnds

LEMMA HeaderStep ==
  ASSUME OnRow, ReadHeader
  PROVE  RowInv'
<1>1. /\ pc = "header" /\ HeaderFault = "Ok" /\ present' = Presence /\ cursor' = BodyStart
      /\ column' = 1 /\ values' = [i \in Columns |-> IF call = "exact" THEN Null ELSE Unread]
      /\ UNCHANGED <<call, through, whole>>
  BY DEF ReadHeader
<1>2. Whole  BY <1>1, OnWhole
<1>3. Presence' = Presence /\ HeaderFault' = HeaderFault
      /\ TailMisfits(Presence)' = TailMisfits(Presence)
  BY HeaderStays DEF OnRow
<1>4. BodyStart \in Nat /\ Ends \in Nat /\ 1 \in 1..Ends
  BY <1>2, BodyStartsAt, SchemaTypes DEF Whole
<1>5. CASE call = "exact"
  <2>1. pc' = "columns"  BY <1>5 DEF ReadHeader
  <2>2. \E cur, vals : /\ Trace(cur, 1) /\ Values(cur, 1, vals)
                       /\ vals = values' /\ cur[1] = cursor'
    <3> DEFINE cur == [i \in 1..1 |-> BodyStart]
               vals == [i \in Columns |-> Null]
    <3>1. Trace(cur, 1)  BY <1>4 DEF Trace
    <3>2. 1..(1 - 1) = {}  OBVIOUS
    <3>3. Values(cur, 1, vals)  BY <3>2 DEF Values
    <3>4. vals = values' /\ cur[1] = cursor'  BY <1>1, <1>5
    <3> HIDE DEF cur, vals
    <3> QED  BY <3>1, <3>3, <3>4
  <2>3. PICK cur, vals : /\ Trace(cur, 1) /\ Values(cur, 1, vals)
                         /\ vals = values' /\ cur[1] = cursor'
    BY <2>2
  <2>4. Trace(cur, 1)' /\ Values(cur, 1, vals)'  BY <2>3, TraceStays DEF OnRow
  <2>5. ExactColumns'  BY <1>1, <1>5, <2>1, <2>3, <2>4 DEF ExactColumns
  <2> QED
    BY <1>1, <1>3, <1>5, <2>1, <2>5
    DEF RowInv, HeaderRead, ExactDecoded, ExactReturned, PrefixHeader,
        PrefixColumns, PrefixAgreesWithTheRow
<1>6. CASE call = "prefix"
  <2>1. PICK verdict, vals : verdict = whole.verdict /\ vals = whole.values /\ Outcome(verdict, vals)
    BY <1>1, <1>6 DEF OnRow, RowInv, PrefixHeader
  <2>2. PICK cur, m : Ended(cur, m, verdict, vals)  BY <1>1, <2>1 DEF Outcome
  <2>3. Trace(cur, m) /\ cur[1] = BodyStart /\ 1 \in 1..m
    <3>1. Trace(cur, m)  BY <2>2 DEF Ended
    <3>2. m \in Nat /\ m >= 1  BY <1>2, <3>1, TraceFacts
    <3> QED  BY <3>1, <3>2 DEF Trace
  <2>4. CASE TailMisfits(Presence)
    <3>1. Returning("TruncatedBooleanTail", 0)  BY <1>1, <1>6, <2>4 DEF ReadHeader
    <3>2. whole.verdict # "Ok"
      <4> SUFFICES ASSUME whole.verdict = "Ok" PROVE FALSE  OBVIOUS
      <4>1. BodyStart <= input.declared - Required
        BY <1>2, <2>1, <2>2, <2>3, WholeOk
      <4>2. BodyStart + Required > input.declared  BY <2>4 DEF TailMisfits, Required
      <4>3. Required \in Nat /\ input.declared \in Nat
        BY <1>2, RequiredIs, DeclaredIs DEF Whole
      <4> QED  BY <1>4, <4>1, <4>2, <4>3
    <3> QED  BY <1>1, <1>6, <3>1, <3>2, PrefixFails DEF Returning
  <2>5. CASE ~TailMisfits(Presence)
    <3>1. pc' = "columns"  BY <1>1, <2>5 DEF ReadHeader
    <3> DEFINE some == [i \in Columns |-> Unread]
    <3>2. Known(cur, 1, some)  BY DEF Known
    <3>3. some = values' /\ cur[1] = cursor'  BY <1>1, <1>6, <2>3
    <3> HIDE DEF some
    <3>4. PICK s : s = some  OBVIOUS
    <3>5. Known(cur, 1, s)' /\ Ended(cur, m, verdict, vals)'
      BY <2>2, <3>2, <3>4, TraceStays, EndsStay DEF OnRow
    <3>6. 1 <= through + 1
      <4>1. through \in Columns  BY <1>1, <1>6 DEF OnRow, DecoderTypes
      <4> QED  BY <1>2, <4>1, SchemaTypes DEF Whole
    <3>7. PrefixColumns'
      BY <1>1, <1>3, <2>1, <2>3, <2>5, <3>1, <3>3, <3>4, <3>5, <3>6 DEF PrefixColumns
    <3> QED
      BY <1>1, <1>3, <1>6, <3>1, <3>7
      DEF RowInv, HeaderRead, ExactColumns, ExactDecoded, ExactReturned, PrefixHeader,
          PrefixAgreesWithTheRow
  <2> QED  BY <2>4, <2>5
<1> QED  BY <1>5, <1>6 DEF OnRow, DecoderTypes

LEMMA RejectHeaderStep ==
  ASSUME OnRow, RejectHeader
  PROVE  RowInv'
<1>1. /\ pc = "header" /\ HeaderFault # "Ok" /\ pc' = "returned" /\ UNCHANGED values
      /\ result'.verdict = HeaderFault /\ UNCHANGED <<call, through, whole>>
  BY DEF RejectHeader, Fails, Returning, decoding
<1>2. CASE call = "exact"
  <2>1. Outcome(result'.verdict, values')  BY <1>1 DEF Outcome
  <2> QED  BY <1>1, <1>2, <2>1, ExactEnds
<1>3. CASE call = "prefix"
  <2>1. whole.verdict # "Ok"
    BY <1>1, <1>3 DEF OnRow, RowInv, PrefixHeader, Outcome
  <2> QED  BY <1>1, <1>3, <2>1, PrefixFails
<1> QED  BY <1>2, <1>3 DEF OnRow, DecoderTypes

LEMMA ExactLoop ==
  ASSUME OnRow, ColumnAction, call = "exact"
  PROVE  RowInv'
<1>1. /\ pc = "columns" /\ AtColumn /\ UNCHANGED <<call, through, whole>>
  BY DEF ColumnAction, SkipColumn, ReadBooleanWord, ReadBooleanRun, ReadField, AtColumn
<1>2. present = Presence /\ HeaderFault = "Ok"  BY <1>1 DEF OnRow, RowInv, HeaderRead
<1>3. Whole  BY <1>2, OnWhole
<1>4. PICK cur, k : /\ k = column /\ Trace(cur, k) /\ cur[k] = cursor
                    /\ \E vals : vals = values /\ Values(cur, k, vals)
  BY <1>1 DEF OnRow, RowInv, ExactColumns
<1>5. PICK vals : vals = values /\ Values(cur, k, vals)  BY <1>4
<1>6. Presence' = Presence /\ HeaderFault' = HeaderFault  BY HeaderStays DEF OnRow
<1>7. /\ k \in Nat /\ k \in 1..k /\ k \in Columns /\ k < Ends
      /\ cursor \in Nat /\ cursor >= 2
  <2>1. k \in Nat /\ k >= 1  BY <1>3, <1>4, TraceFacts
  <2>2. k \in 1..k  BY <2>1
  <2>3. Len(schema.columns) \in Nat /\ Ends = Len(schema.columns) + 1
    BY <1>3, SchemaTypes DEF Whole
  <2>4. k <= Len(schema.columns)  BY <1>1, <1>4 DEF AtColumn, LastColumn
  <2>5. k < Ends  BY <2>1, <2>3, <2>4
  <2> QED  BY <1>3, <1>4, <2>1, <2>2, <2>5, TraceFacts
<1>8. InLoop
  <2>1. values = [i \in Columns |-> values[i]]  BY <1>5 DEF Values
  <2> QED  BY <1>1, <1>2, <1>3, <1>4, <1>7, <2>1 DEF InLoop
<1>9. CASE Advanced
  <2>1. PICK end, new : end = cursor' /\ new = values'  OBVIOUS
  <2>2. /\ Goes(k, cur[k], end) /\ column' = k + 1 /\ UNCHANGED <<pc, present>>
        /\ Moved(k, cur[k], vals, new) /\ Filled(k, cur[k], new)
    BY <1>4, <1>5, <1>9, <2>1 DEF Advanced
  <2>3. PICK next : /\ Trace(next, k + 1) /\ next[k + 1] = end
                    /\ \A i \in 1..k : next[i] = cur[i]
    BY <1>3, <1>4, <1>7, <2>2, TraceOn
  <2>4. Values(next, k + 1, new)  BY <1>3, <1>4, <1>5, <1>7, <2>2, <2>3, ValuesOn
  <2>5. PICK n : n = k + 1  OBVIOUS
  <2>6. Trace(next, n)' /\ Values(next, n, new)'  BY <2>3, <2>4, <2>5, TraceStays DEF OnRow
  <2>7. ExactColumns'  BY <2>1, <2>2, <2>3, <2>5, <2>6 DEF ExactColumns
  <2> QED
    BY <1>1, <1>2, <1>6, <2>2, <2>7
    DEF RowInv, HeaderRead, ExactDecoded, ExactReturned, PrefixHeader,
        PrefixColumns, PrefixAgreesWithTheRow
<1>10. CASE Refused
  <2>1. PICK verdict : /\ verdict # "Ok" /\ Fails(verdict)
                       /\ \/ Stuck(column, cursor)
                          \/ \E end : Goes(column, cursor, end) /\ Overlaps(end)
    BY <1>10 DEF Refused
  <2>2. Stuck(k, cur[k])  BY <1>4, <2>1 DEF Overlaps
  <2>3. result'.verdict = verdict /\ values' = values /\ pc' = "returned"
    BY <2>1 DEF Fails, Returning, decoding
  <2>4. Ended(cur, k, verdict, values)  BY <1>4, <1>7, <2>1, <2>2 DEF Ended
  <2>5. Outcome(result'.verdict, values')  BY <1>2, <2>3, <2>4 DEF Outcome
  <2> QED  BY <1>1, <2>3, <2>5, ExactEnds
<1> QED  BY <1>8, <1>9, <1>10, ColumnMoves

LEMMA PrefixLoop ==
  ASSUME OnRow, ColumnAction, call = "prefix"
  PROVE  RowInv'
<1>1. /\ pc = "columns" /\ AtColumn /\ UNCHANGED <<call, through, whole>>
  BY DEF ColumnAction, SkipColumn, ReadBooleanWord, ReadBooleanRun, ReadField, AtColumn
<1>2. present = Presence /\ HeaderFault = "Ok"  BY <1>1 DEF OnRow, RowInv, HeaderRead
<1>3. Whole  BY <1>2, OnWhole
<1>4. ~TailMisfits(Presence) /\ PrefixColumns
  BY <1>1 DEF OnRow, RowInv, PrefixColumns
<1>5. PICK cur, m, verdict, vals :
        /\ verdict = whole.verdict /\ vals = whole.values /\ Ended(cur, m, verdict, vals)
        /\ \E k : k = column /\ k \in 1..m /\ k <= through + 1 /\ cur[k] = cursor
                  /\ \E some : some = values /\ Known(cur, k, some)
  BY <1>1, <1>4 DEF PrefixColumns
<1>6. PICK k, some : /\ k = column /\ k \in 1..m /\ cur[k] = cursor
                     /\ some = values /\ Known(cur, k, some)
  BY <1>5
<1>7. Trace(cur, m)  BY <1>5 DEF Ended
<1>8. through \in Columns /\ k <= through  BY <1>1, <1>6 DEF OnRow, DecoderTypes, AtColumn, LastColumn
<1>9. /\ Ends \in Nat /\ m \in Nat /\ m <= Ends /\ k \in Nat /\ k >= 1 /\ k <= m
      /\ k \in Columns /\ k < Ends /\ through \in Nat
      /\ cursor \in Nat /\ cursor >= 2
  <2>1. m \in Nat /\ m <= Ends  BY <1>3, <1>7, TraceFacts
  <2>2. k \in Nat /\ k >= 1 /\ k <= m  BY <1>6, <2>1
  <2>3. Ends \in Nat /\ Columns = 1..(Ends - 1)  BY <1>3, SchemaTypes DEF Whole
  <2>4. k \in Columns /\ k < Ends /\ through \in Nat  BY <1>8, <2>2, <2>3
  <2> QED  BY <1>3, <1>6, <1>7, <2>1, <2>2, <2>3, <2>4, TraceFacts
<1>10. InLoop
  <2>1. values = [i \in Columns |-> values[i]]  BY <1>6 DEF Known
  <2> QED  BY <1>1, <1>2, <1>3, <1>6, <1>9, <2>1 DEF InLoop
<1>11. Presence' = Presence /\ HeaderFault' = HeaderFault
       /\ TailMisfits(Presence)' = TailMisfits(Presence)
  BY HeaderStays DEF OnRow
<1>12. input.declared \in Nat  BY <1>3, DeclaredIs
<1>13. ASSUME NEW end, Goes(k, cur[k], end)
       PROVE  k < m /\ end = cur[k + 1] /\ k + 1 \in 1..m
  <2>1. k # m
    <3> SUFFICES ASSUME k = m PROVE FALSE  OBVIOUS
    <3>1. Stuck(k, cur[k])  BY <1>5, <1>9 DEF Ended
    <3> QED  BY <1>3, <1>6, <1>9, <1>12, <1>13, <3>1, StuckIsNotGoing DEF Whole
  <2>2. k < m /\ k \in 1..(m - 1) /\ k + 1 \in 1..m  BY <1>9, <2>1
  <2>3. Goes(k, cur[k], cur[k + 1])  BY <1>7, <2>2 DEF Trace
  <2> QED  BY <1>3, <1>9, <1>13, <2>2, <2>3, GoesOnce DEF Whole
<1>14. CASE Advanced
  <2>1. PICK end, new : end = cursor' /\ new = values'  OBVIOUS
  <2>2. /\ Goes(k, cur[k], end) /\ column' = k + 1 /\ UNCHANGED <<pc, present>>
        /\ Moved(k, cur[k], some, new)
    BY <1>6, <1>14, <2>1 DEF Advanced
  <2>3. end = cur[k + 1] /\ k + 1 \in 1..m  BY <1>13, <2>2
  <2>4. Known(cur, k + 1, new)  BY <1>3, <1>6, <1>9, <2>2, KnownOn
  <2>5. PICK n : n = k + 1  OBVIOUS
  <2>6. Ended(cur, m, verdict, vals)' /\ Known(cur, n, new)'
    BY <1>5, <2>4, <2>5, TraceStays, EndsStay DEF OnRow
  <2>7. n <= through + 1  BY <1>8, <1>9, <2>5
  <2>8. PrefixColumns'
    BY <1>1, <1>4, <1>5, <1>11, <2>1, <2>2, <2>3, <2>5, <2>6, <2>7 DEF PrefixColumns
  <2> QED
    BY <1>1, <1>2, <1>11, <2>2, <2>8
    DEF RowInv, HeaderRead, ExactColumns, ExactDecoded, ExactReturned, PrefixHeader,
        PrefixAgreesWithTheRow
<1>15. CASE Refused
  <2>1. PICK fault : /\ fault # "Ok" /\ Fails(fault)
                     /\ \/ Stuck(column, cursor)
                        \/ \E end : Goes(column, cursor, end) /\ Overlaps(end)
    BY <1>15 DEF Refused
  <2>2. whole.verdict # "Ok"
    <3> SUFFICES ASSUME whole.verdict = "Ok" PROVE FALSE  OBVIOUS
    <3>1. m = Ends /\ \A i \in 1..m : cur[i] \in Nat /\ cur[i] <= input.declared - Required
      BY <1>3, <1>5, WholeOk
    <3>2. k \in 1..(m - 1) /\ k + 1 \in 1..m  BY <1>9, <3>1
    <3>3. Goes(k, cur[k], cur[k + 1])  BY <1>7, <3>2 DEF Trace
    <3>4. ~Stuck(k, cur[k])
      BY <1>3, <1>6, <1>9, <1>12, <3>3, StuckIsNotGoing DEF Whole
    <3>5. PICK end : Goes(k, cur[k], end) /\ Overlaps(end)  BY <1>6, <2>1, <3>4
    <3>6. end = cur[k + 1]  BY <1>13, <3>5
    <3>7. end \in Nat /\ end <= input.declared - Required  BY <3>1, <3>2, <3>6
    <3>8. end > input.declared - Required  BY <1>2, <3>5 DEF Overlaps, Required
    <3>9. Required \in Nat  BY <1>3, RequiredIs DEF Whole
    <3> QED  BY <1>12, <3>7, <3>8, <3>9
  <2>3. result'.verdict = fault /\ pc' = "returned"  BY <2>1 DEF Fails, Returning
  <2> QED  BY <1>1, <2>1, <2>2, <2>3, PrefixFails
<1> QED  BY <1>10, <1>14, <1>15, ColumnMoves

LEMMA ExactTail ==
  ASSUME OnRow, RejectTail \/ ReadTail, call = "exact"
  PROVE  RowInv'
<1>1. /\ pc = "columns" /\ column > Len(schema.columns) /\ TailStart = cursor
      /\ UNCHANGED <<call, through, whole>>
  BY DEF RejectTail, ReadTail, AfterColumns, LastColumn, TailStart
<1>2. present = Presence /\ HeaderFault = "Ok"  BY <1>1 DEF OnRow, RowInv, HeaderRead
<1>3. Whole  BY <1>2, OnWhole
<1>4. PICK cur, k : /\ k = column /\ Trace(cur, k) /\ cur[k] = cursor
                    /\ \E vals : vals = values /\ Values(cur, k, vals)
  BY <1>1 DEF OnRow, RowInv, ExactColumns
<1>5. PICK vals : vals = values /\ Values(cur, k, vals)  BY <1>4
<1>6. k = Ends
  <2>1. k \in Nat /\ k <= Ends  BY <1>3, <1>4, TraceFacts
  <2>2. Len(schema.columns) \in Nat /\ Ends = Len(schema.columns) + 1
    BY <1>3, SchemaTypes DEF Whole
  <2> QED  BY <1>1, <1>4, <2>1, <2>2
<1>7. Presence' = Presence /\ HeaderFault' = HeaderFault /\ Required' = Required
  BY HeaderStays DEF OnRow
<1>8. CASE RejectTail
  <2>1. PICK verdict : verdict # "Ok" /\ Fails(verdict) /\ (ShortTail \/ InvalidTailByte)
    BY <1>8 DEF RejectTail
  <2>2. ~TailFits(cur[k])  BY <1>1, <1>2, <1>4, <2>1, TailIs
  <2>3. result'.verdict = verdict /\ values' = values /\ pc' = "returned"
    BY <2>1 DEF Fails, Returning, decoding
  <2>4. Ended(cur, k, verdict, values)  BY <1>4, <1>6, <2>1, <2>2 DEF Ended
  <2>5. Outcome(result'.verdict, values')  BY <1>2, <2>3, <2>4 DEF Outcome
  <2> QED  BY <1>1, <2>3, <2>5, ExactEnds
<1>9. CASE ReadTail
  <2>1. /\ pc' = "decoded" /\ cursor' = TailStart + RequiredTail(present)
        /\ UNCHANGED present
        /\ values' = [i \in Columns |-> IF ~Inline /\ i \in TailColumns(present)
                                          THEN Boolean(TailValue(i)) ELSE values[i]]
        /\ ~ShortTail /\ ~InvalidTailByte
    BY <1>9 DEF ReadTail
  <2>2. TailFits(cur[k]) /\ cursor' = cur[k] + Required
    BY <1>1, <1>2, <1>4, <2>1, TailIs
  <2>3. PICK new : new = values'  OBVIOUS
  <2>4. /\ new = [i \in Columns |-> new[i]]
        /\ \A i \in Columns : ~Inline /\ i \in TailColumns(Presence) =>
                                new[i] = Boolean(TailAt(cur[k], i))
        /\ \A i \in Columns : Inline \/ i \notin TailColumns(Presence) => new[i] = vals[i]
    BY <1>1, <1>2, <1>4, <1>5, <2>1, <2>3, TailIs
  <2>5. TailValues(cur[k], new)
    <3>1. TailColumns(Presence) \subseteq Columns  BY DEF TailColumns
    <3> QED  BY <2>4, <3>1 DEF TailValues
  <2>6. Values(cur, k, new)
    <3>1. \A i \in 1..(k - 1) : i \in Columns
      BY <1>3, <1>6, SchemaTypes DEF Whole
    <3>2. \A i \in Columns : (~Presence[i] \/ FieldHere(i)) => new[i] = vals[i]
      BY <2>4 DEF TailColumns, FieldHere
    <3>3. Worded => Inline  BY DEF Worded, Inline
    <3>4. ASSUME NEW s \in 1..(k - 1), NEW e, StartsRun(s), RunUpTo(s, e), NEW i \in s..e
          PROVE  new[i] = RunValue(cur, s, i)
      <4>1. Inline  BY <3>4 DEF StartsRun, Packed, Inline
      <4>2. vals[i] = RunValue(cur, s, i)  BY <1>5, <3>4 DEF Values
      <4>3. i \in Columns
        <5>1. e \in s..Len(schema.columns) /\ s \in Columns  BY <3>1, <3>4 DEF RunUpTo
        <5>2. Len(schema.columns) \in Nat /\ Columns = 1..Len(schema.columns) /\ s \in Nat
          BY <1>3, <5>1, SchemaTypes DEF Whole, Columns
        <5> QED  BY <3>4, <5>1, <5>2
      <4> QED  BY <2>4, <4>1, <4>2, <4>3
    <3>5. \A i \in Columns : ~Presence[i] => new[i] = Null  BY <1>5, <3>2 DEF Values
    <3>6. \A i \in 1..(k - 1) : FieldHere(i) => new[i] = FieldValue(cur, i)
      BY <1>5, <3>1, <3>2 DEF Values
    <3>7. \A i \in 1..(k - 1) : Worded /\ BooleanHere(i) => new[i] = WordValue(cur, i)
      BY <1>5, <2>4, <3>1, <3>3 DEF Values
    <3> QED  BY <2>4, <3>4, <3>5, <3>6, <3>7 DEF Values
  <2>7. PICK at : at = cur[k]  OBVIOUS
  <2>8. Trace(cur, k)' /\ TailFits(at)' /\ Values(cur, k, new)' /\ TailValues(at, new)'
    BY <1>4, <2>2, <2>5, <2>6, <2>7, TraceStays, EndsStay DEF OnRow
  <2>9. Ends' = Ends  BY HeaderStays DEF OnRow
  <2>10. ExactDecoded'
    BY <1>6, <1>7, <2>2, <2>3, <2>7, <2>8, <2>9 DEF ExactDecoded
  <2> QED
    BY <1>1, <1>2, <1>7, <2>1, <2>10
    DEF RowInv, HeaderRead, ExactColumns, ExactReturned, PrefixHeader,
        PrefixColumns, PrefixAgreesWithTheRow
<1> QED  BY <1>8, <1>9

LEMMA PrefixTail ==
  ASSUME OnRow, RejectTail \/ ReadTail, call = "prefix"
  PROVE  RowInv'
<1>1. /\ pc = "columns" /\ column > through /\ TailStart = input.declared - RequiredTail(present)
      /\ pc' = "returned" /\ UNCHANGED <<call, through, whole>>
  BY DEF RejectTail, ReadTail, AfterColumns, LastColumn, TailStart, Fails, Returning
<1>2. present = Presence /\ HeaderFault = "Ok"  BY <1>1 DEF OnRow, RowInv, HeaderRead
<1>3. Whole  BY <1>2, OnWhole
<1>4. PICK cur, m, verdict, vals :
        /\ verdict = whole.verdict /\ vals = whole.values /\ Ended(cur, m, verdict, vals)
        /\ \E k : k = column /\ k \in 1..m /\ k <= through + 1 /\ cur[k] = cursor
                  /\ \E some : some = values /\ Known(cur, k, some)
  BY <1>1 DEF OnRow, RowInv, PrefixColumns
<1>5. PICK k, some : /\ k = column /\ k \in 1..m /\ k <= through + 1 /\ cur[k] = cursor
                     /\ some = values /\ Known(cur, k, some)
  BY <1>4
<1>6. Trace(cur, m)  BY <1>4 DEF Ended
<1>7. /\ Ends \in Nat /\ m \in Nat /\ m <= Ends /\ k \in Nat /\ through \in Nat
      /\ k = through + 1 /\ cursor \in Nat /\ Ends = Len(schema.columns) + 1
      /\ through \in Columns
  <2>1. m \in Nat /\ m <= Ends  BY <1>3, <1>6, TraceFacts
  <2>2. Ends \in Nat /\ Columns = 1..(Ends - 1) /\ Ends = Len(schema.columns) + 1
    BY <1>3, SchemaTypes DEF Whole
  <2>3. through \in Columns  BY <1>1 DEF OnRow, DecoderTypes
  <2>4. k \in Nat /\ through \in Nat  BY <1>5, <2>1, <2>2, <2>3
  <2> QED  BY <1>1, <1>3, <1>5, <1>6, <2>1, <2>2, <2>3, <2>4, TraceFacts
<1>8. input.declared \in Nat /\ Required \in Nat  BY <1>3, DeclaredIs, RequiredIs DEF Whole
<1>9. TailStart = input.declared - Required /\ TailStart \in Int  BY <1>1, <1>2, <1>8 DEF Required
<1>10. ASSUME whole.verdict = "Ok"
       PROVE  /\ TailStart = cur[m] /\ TailFits(TailStart) /\ cursor <= TailStart
              /\ Values(cur, m, vals) /\ TailValues(TailStart, vals)
  <2>1. /\ TailFits(cur[m]) /\ cur[m] = input.declared - Required
        /\ Values(cur, m, vals) /\ TailValues(cur[m], vals)
        /\ \A i \in 1..m : cur[i] \in Nat /\ cur[i] <= input.declared - Required
    BY <1>3, <1>4, <1>10, WholeOk
  <2> QED  BY <1>5, <1>9, <2>1
<1>11. CASE RejectTail
  <2>1. PICK fault : fault # "Ok" /\ Fails(fault) /\ (ShortTail \/ InvalidTailByte)
    BY <1>11 DEF RejectTail
  <2>2. whole.verdict # "Ok"  BY <1>2, <1>10, <2>1, TailIs
  <2>3. result'.verdict = fault  BY <2>1 DEF Fails, Returning
  <2> QED  BY <1>1, <2>1, <2>2, <2>3, PrefixFails
<1>12. CASE ReadTail
  <2>1. /\ result' = [verdict |-> PrefixVerdict, opaque |-> TailStart - cursor]
        /\ values' = [i \in Columns |-> IF ~Inline /\ i \in TailColumns(present)
                                          THEN Boolean(TailValue(i)) ELSE values[i]]
        /\ ~ShortTail /\ ~InvalidTailByte
    BY <1>1, <1>12 DEF ReadTail, Returning
  <2>2. TailFits(TailStart)  BY <1>2, <2>1, TailIs
  <2>3. ASSUME whole.verdict = "Ok" PROVE result'.verdict = "Ok"
    <3>1. ~(cursor > TailStart)  BY <1>7, <1>9, <1>10, <2>3
    <3> QED  BY <2>1, <3>1 DEF PrefixVerdict
  <2>4. ASSUME whole.verdict = "Ok", NEW i \in Columns, values'[i] # Unread
        PROVE  values'[i] = whole.values[i]
    <3>1. CASE ~Inline /\ i \in TailColumns(Presence)
      <4>1. values'[i] = Boolean(TailAt(TailStart, i))  BY <1>2, <2>1, <3>1, TailIs
      <4>2. vals[i] = Boolean(TailAt(TailStart, i))  BY <1>10, <2>4, <3>1 DEF TailValues
      <4> QED  BY <1>4, <4>1, <4>2
    <3>2. CASE ~(~Inline /\ i \in TailColumns(Presence))
      <4>1. values'[i] = some[i]  BY <1>2, <1>5, <2>1, <3>2
      <4>2. some[i] # Unread  BY <2>4, <4>1
      <4>3. Values(cur, m, vals) /\ Known(cur, k, some) /\ k \in 1..m /\ m \in Nat
        BY <1>5, <1>7, <1>10, <2>4
      <4>4. some[i] = vals[i]  BY <1>3, <4>2, <4>3, KnownAgrees
      <4> QED  BY <1>4, <4>1, <4>4
    <3> QED  BY <3>1, <3>2
  <2>5. ASSUME through = Len(schema.columns), result' = [verdict |-> "Ok", opaque |-> 0]
        PROVE  whole.verdict = "Ok"
    <3>1. m = Ends /\ k = m
      <4>1. k = Ends  BY <1>7, <2>5
      <4>2. k <= m  BY <1>5, <1>7
      <4> QED  BY <1>7, <4>1, <4>2
    <3>2. TailStart - cursor = 0  BY <2>1, <2>5
    <3>3. cur[m] = TailStart  BY <1>5, <1>7, <1>9, <3>1, <3>2
    <3>4. cur[m] + Required = input.declared  BY <1>8, <1>9, <3>3
    <3> QED  BY <1>4, <1>7, <2>2, <3>1, <3>3, <3>4 DEF Ended
  <2> QED  BY <1>1, <2>3, <2>4, <2>5, PrefixEnds
<1> QED  BY <1>11, <1>12

LEMMA ExactlyStep ==
  ASSUME OnRow, Exactly
  PROVE  RowInv'
<1>1. /\ pc = "decoded" /\ call = "exact" /\ pc' = "returned" /\ UNCHANGED <<call, values>>
      /\ result'.verdict = IF cursor = input.declared THEN "Ok" ELSE "TrailingData"
  BY DEF Exactly, Returning, decoding, OnRow, DecoderTypes
<1>2. HeaderFault = "Ok"  BY <1>1 DEF OnRow, RowInv, HeaderRead
<1>3. PICK cur, vals : /\ vals = values /\ Trace(cur, Ends) /\ TailFits(cur[Ends])
                       /\ cursor = cur[Ends] + Required
                       /\ Values(cur, Ends, vals) /\ TailValues(cur[Ends], vals)
  BY <1>1 DEF OnRow, RowInv, ExactDecoded
<1>4. Ended(cur, Ends, result'.verdict, vals)  BY <1>1, <1>3 DEF Ended
<1>5. Outcome(result'.verdict, values')  BY <1>1, <1>2, <1>3, <1>4 DEF Outcome
<1> QED  BY <1>1, <1>5, ExactEnds

LEMMA CallPrefixStep ==
  ASSUME OnRow, CallPrefix
  PROVE  RowInv'
<1>1. /\ pc = "returned" /\ call = "exact" /\ call' = "prefix"
      /\ whole' = [verdict |-> result.verdict, values |-> values]
  BY DEF CallPrefix
<1>2. PICK verdict, vals : verdict = result.verdict /\ vals = values /\ Outcome(verdict, vals)
  BY <1>1 DEF OnRow, RowInv, ExactReturned
<1>3. Outcome(verdict, vals)'  BY <1>2, EndsStay DEF OnRow
<1>4. whole'.verdict = verdict /\ whole'.values = vals  BY <1>1, <1>2
<1>5. PrefixHeader'  BY <1>3, <1>4 DEF PrefixHeader
<1>6. pc' = "header" \/ (pc' = "returned" /\ through' \notin Columns)
  BY DEF CallPrefix, Returning
<1>7. Columns' = Columns  BY HeaderStays DEF OnRow
<1>8. PrefixAgreesWithTheRow'  BY <1>6, <1>7 DEF PrefixAgreesWithTheRow
<1> QED
  BY <1>1, <1>5, <1>6, <1>8
  DEF RowInv, HeaderRead, ExactColumns, ExactDecoded, ExactReturned, PrefixColumns

LEMMA RowStutters ==
  ASSUME OnRow, UNCHANGED vars
  PROVE  RowInv'
<1>1. UNCHANGED <<schema, input, call, through, pc, present, cursor, column, values,
                  result, whole>>
  BY DEF vars, decoding
<1>2. /\ Presence' = Presence /\ HeaderFault' = HeaderFault /\ Ends' = Ends
      /\ Required' = Required /\ Columns' = Columns
      /\ TailMisfits(Presence)' = TailMisfits(Presence)
  BY HeaderStays DEF OnRow
<1>3. HeaderRead'  BY <1>1, <1>2 DEF OnRow, RowInv, HeaderRead
<1>4. ExactColumns'
  BY <1>1, TraceStays DEF OnRow, RowInv, ExactColumns
<1>5. ExactDecoded'
  <2> SUFFICES ASSUME call = "exact", pc = "decoded" PROVE ExactDecoded'
    BY <1>1 DEF ExactDecoded
  <2>1. PICK cur, vals : /\ vals = values /\ Trace(cur, Ends) /\ TailFits(cur[Ends])
                         /\ cursor = cur[Ends] + Required
                         /\ Values(cur, Ends, vals) /\ TailValues(cur[Ends], vals)
    BY DEF OnRow, RowInv, ExactDecoded
  <2>2. PICK k, at : k = Ends /\ at = cur[k]  OBVIOUS
  <2>3. Trace(cur, k)' /\ TailFits(at)' /\ Values(cur, k, vals)' /\ TailValues(at, vals)'
    BY <2>1, <2>2, TraceStays, EndsStay DEF OnRow
  <2> QED  BY <1>1, <1>2, <2>1, <2>2, <2>3 DEF ExactDecoded
<1>6. ExactReturned'  BY <1>1, EndsStay DEF OnRow, RowInv, ExactReturned
<1>7. PrefixHeader'  BY <1>1, EndsStay DEF OnRow, RowInv, PrefixHeader
<1>8. PrefixColumns'
  BY <1>1, <1>2, TraceStays, EndsStay DEF OnRow, RowInv, PrefixColumns
<1>9. PrefixAgreesWithTheRow'
  BY <1>1, <1>2 DEF OnRow, RowInv, PrefixAgreesWithTheRow, Agrees, Unread, Value
<1> QED  BY <1>3, <1>4, <1>5, <1>6, <1>7, <1>8, <1>9 DEF RowInv

LEMMA TypesStep ==
  ASSUME InputOK, DecoderTypes, [Next]_vars
  PROVE  /\ DecoderTypes'
         /\ input'.kind # "carrier" =>
              \/ input.kind # "carrier" /\ UNCHANGED <<schema, input>>
              \/ pc' = "header" /\ call' = "exact"
<1>a. ASSUME UNCHANGED <<schema, input, call, through>>, pc' \in {pc, "returned"},
             pc \in {"header", "columns", "decoded"}
      PROVE  DecoderTypes' /\ input.kind # "carrier"
  <2>1. Columns' = Columns  BY <1>a, HeaderStays
  <2> QED  BY <1>a, <2>1 DEF DecoderTypes
<1>b. ASSUME NEW verdict, Fails(verdict) PROVE pc' = "returned"
  BY <1>b DEF Fails, Returning
<1>1. CASE Unpack
  <2>1. /\ pc = "unpack" /\ input.kind = "carrier" /\ call = "exact"
        /\ UNCHANGED <<schema, call, through>>
    BY <1>1 DEF Unpack, DecoderTypes
  <2>2. \/ pc' = "returned" /\ result'.verdict # "Ok" /\ UNCHANGED input
        \/ pc' = "header" /\ input'.kind = "payload"
    <3>1. CASE CarrierFault # "Ok" /\ Fails(CarrierFault) /\ UNCHANGED input
      BY <3>1 DEF Fails, Returning
    <3>2. CASE CarrierFault = "Ok" /\ ~(CarrierFault # "Ok")
      <4>1. /\ pc' = "header"
            /\ input' = [input EXCEPT !.kind = "payload", !.len = Len(input.rest) + 2,
                            !.declared = (Len(input.rest) + 2) % ROW_SIZE_LIMIT,
                            !.flags = (Len(input.rest) + 2) \div ROW_SIZE_LIMIT]
        BY <1>1, <3>2 DEF Unpack
      <4> QED  BY <4>1 DEF InputOK, Inputs
    <3> QED  BY <1>1, <3>1, <3>2 DEF Unpack
  <2> QED  BY <2>1, <2>2 DEF DecoderTypes
<1>2. CASE ReadHeader
  <2>1. /\ UNCHANGED <<schema, input, call, through>> /\ pc = "header"
        /\ pc' \in {"columns", "returned"}
    BY <1>2 DEF ReadHeader, Returning
  <2>2. Columns' = Columns  BY <2>1, HeaderStays
  <2> QED  BY <2>1, <2>2 DEF DecoderTypes
<1>3. CASE RejectHeader
  <2>1. UNCHANGED <<schema, input, call, through>> /\ Fails(HeaderFault) /\ pc = "header"
    BY <1>3 DEF RejectHeader
  <2> QED  BY <1>a, <1>b, <2>1
<1>4. CASE SkipColumn
  <2>1. UNCHANGED <<schema, input, call, through>> /\ pc' = pc /\ pc = "columns"
    BY <1>4 DEF SkipColumn, AtColumn
  <2> QED  BY <1>a, <2>1
<1>5. CASE ReadBooleanWord
  <2>1. /\ UNCHANGED <<schema, input, call, through>> /\ pc' \in {pc, "returned"}
        /\ pc = "columns"
    BY <1>5, <1>b DEF ReadBooleanWord, Decoded, AtColumn
  <2> QED  BY <1>a, <2>1
<1>6. CASE ReadBooleanRun
  <2>1. /\ UNCHANGED <<schema, input, call, through>> /\ pc' \in {pc, "returned"}
        /\ pc = "columns"
    BY <1>6, <1>b DEF ReadBooleanRun, Decoded, AtColumn
  <2> QED  BY <1>a, <2>1
<1>7. CASE ReadField
  <2>1. /\ UNCHANGED <<schema, input, call, through>> /\ pc' \in {pc, "returned"}
        /\ pc = "columns"
    BY <1>7, <1>b DEF ReadField, Decoded, AtColumn
  <2> QED  BY <1>a, <2>1
<1>8. CASE RejectTail
  <2>1. /\ UNCHANGED <<schema, input, call, through>> /\ pc' = "returned"
        /\ pc = "columns"
    BY <1>8, <1>b DEF RejectTail, AfterColumns
  <2> QED  BY <1>a, <2>1
<1>9. CASE ReadTail
  <2>1. /\ UNCHANGED <<schema, input, call, through>> /\ pc = "columns"
        /\ pc' = "returned" \/ (pc' = "decoded" /\ call = "exact")
    BY <1>9 DEF ReadTail, AfterColumns, Returning
  <2>2. Columns' = Columns  BY <2>1, HeaderStays
  <2> QED  BY <2>1, <2>2 DEF DecoderTypes
<1>10. CASE Exactly
  <2>1. UNCHANGED <<schema, input, call, through>> /\ pc' = "returned" /\ pc = "decoded"
    BY <1>10 DEF Exactly, Returning
  <2> QED  BY <1>a, <2>1
<1>11. CASE CallPrefix
  <2>1. /\ UNCHANGED <<schema, input>> /\ call' = "prefix" /\ input.kind = "row"
        /\ pc' = "returned" \/ (pc' = "header" /\ through' \in Columns)
    BY <1>11 DEF CallPrefix, Returning
  <2>2. Columns' = Columns  BY <2>1, HeaderStays
  <2> QED  BY <2>1, <2>2 DEF DecoderTypes
<1>12. CASE UNCHANGED vars
  <2>1. UNCHANGED <<schema, input, call, through, pc, result>>  BY <1>12 DEF vars
  <2>2. Columns' = Columns  BY <2>1, HeaderStays
  <2> QED  BY <2>1, <2>2 DEF DecoderTypes
<1> QED
  BY <1>1, <1>2, <1>3, <1>4, <1>5, <1>6, <1>7, <1>8, <1>9, <1>10, <1>11, <1>12 DEF Next

LEMMA RowStep ==
  ASSUME OnRow, [Next]_vars
  PROVE  RowInv'
<1>1. CASE Unpack
  <2>1. FALSE  BY <1>1 DEF OnRow, DecoderTypes, Unpack
  <2> QED  BY <2>1
<1>2. CASE ReadHeader  BY <1>2, HeaderStep
<1>3. CASE RejectHeader  BY <1>3, RejectHeaderStep
<1>4. CASE ColumnAction  BY <1>4, ExactLoop, PrefixLoop DEF OnRow, DecoderTypes
<1>5. CASE RejectTail \/ ReadTail  BY <1>5, ExactTail, PrefixTail DEF OnRow, DecoderTypes
<1>6. CASE Exactly  BY <1>6, ExactlyStep
<1>7. CASE CallPrefix  BY <1>7, CallPrefixStep
<1>8. CASE UNCHANGED vars  BY <1>8, RowStutters
<1> QED
  BY <1>1, <1>2, <1>3, <1>4, <1>5, <1>6, <1>7, <1>8 DEF Next, ColumnAction

(* The invariant holds of a row, of its prefixes, and of the row that a    *)
(* carrier held.                                                           *)
THEOREM DecoderInvariant == Spec => []DecoderInv
<1>1. Init => DecoderInv
  <2> SUFFICES ASSUME Init PROVE DecoderInv
    OBVIOUS
  <2>1. /\ schema \in Schema /\ input \in Input /\ call = "exact"
        /\ pc = IF input.kind = "carrier" THEN "unpack" ELSE "header"
    BY DEF Init
  <2>2. DecoderTypes  BY <2>1 DEF DecoderTypes
  <2>3. RowInv
    BY <2>1
    DEF RowInv, HeaderRead, ExactColumns, ExactDecoded, ExactReturned, PrefixHeader,
        PrefixColumns, PrefixAgreesWithTheRow
  <2> QED  BY <2>2, <2>3 DEF DecoderInv
<1>2. InputOK /\ Rebuilt /\ DecoderInv /\ [Next]_vars => DecoderInv'
  <2> SUFFICES ASSUME InputOK, Rebuilt, DecoderInv, [Next]_vars PROVE DecoderInv'
    OBVIOUS
  <2>1. /\ DecoderTypes'
        /\ input'.kind # "carrier" =>
              \/ input.kind # "carrier" /\ UNCHANGED <<schema, input>>
              \/ pc' = "header" /\ call' = "exact"
    BY TypesStep DEF DecoderInv
  <2>2. ASSUME input.kind # "carrier", UNCHANGED <<schema, input>> PROVE RowInv'
    BY <2>2, RowStep DEF OnRow, DecoderInv
  <2>3. ASSUME pc' = "header", call' = "exact" PROVE RowInv'
    BY <2>3
    DEF RowInv, HeaderRead, ExactColumns, ExactDecoded, ExactReturned, PrefixHeader,
        PrefixColumns, PrefixAgreesWithTheRow
  <2> QED  BY <2>1, <2>2, <2>3 DEF DecoderInv
<1>3. Spec => [](InputOK /\ Rebuilt)
  BY CarrierInvariant, PTL DEF CarrierInv
<1> QED
  BY <1>1, <1>2, <1>3, PTL DEF Spec

(* A prefix of a row is decoded as the row is, whatever the schema and the *)
(* bytes: the decoder that counts the Boolean tail back from the end of    *)
(* the row and the one that counts it on from the last field agree.        *)
THEOREM PrefixesAgree == Spec => []PrefixAgreesWithTheRow
<1>1. DecoderInv => PrefixAgreesWithTheRow
  <2>1. ASSUME DecoderTypes, input.kind = "carrier" PROVE call # "prefix"
    BY <2>1 DEF DecoderTypes
  <2> QED  BY <2>1 DEF DecoderInv, RowInv, PrefixAgreesWithTheRow
<1> QED
  BY <1>1, DecoderInvariant, PTL

---------------------------------------------------------------------------
(* The encoding of what was decoded: slices of the row *)

Bytes == 0..(BYTE - 1)

LEMMA DivMod ==
  ASSUME NEW w \in Nat \ {0}, NEW a \in 0..(w - 1), NEW b \in Nat
  PROVE  (a + w * b) % w = a /\ (a + w * b) \div w = b
<1> DEFINE p == w * b
           x == a + p
           q == x \div w
           r == x % w
<1>1. p \in Nat /\ x \in Nat
  <2>1. p \in Nat  OBVIOUS
  <2> HIDE DEF p
  <2> QED  BY <2>1
<1>2. q \in Int /\ r \in 0..(w - 1) /\ x = w * q + r
  <2> HIDE DEF p, x
  <2> QED  BY <1>1
<1> DEFINE d == w * (q - b)
<1>3. d = a - r /\ d \in Int
  <2>1. \A u, v \in Int : w * (u - v) = w * u - w * v /\ w * u \in Int /\ w * v \in Int
    OBVIOUS
  <2> HIDE DEF q, r, d
  <2>2. w * (q - b) = w * q - w * b /\ w * q \in Int /\ w * b \in Int  BY <1>2, <2>1
  <2> DEFINE y == w * q
  <2>3. y \in Int /\ p \in Int /\ a + p = y + r /\ d = y - p  BY <1>1, <1>2, <2>2 DEF d
  <2> HIDE DEF y, p
  <2> QED  BY <1>2, <2>3
<1>4. -w < d /\ d < w
  <2> HIDE DEF d, r, q
  <2> QED  BY <1>2, <1>3
<1>5. q = b
  <2> DEFINE e == q - b
  <2>1. e \in Int  BY <1>2
  <2> HIDE DEF e, q
  <2>2. ~(e >= 1)
    <3> SUFFICES ASSUME e >= 1 PROVE FALSE  OBVIOUS
    <3>1. w * e >= w  BY <2>1
    <3> QED  BY <1>3, <1>4, <3>1 DEF e
  <2>3. ~(e <= -1)
    <3> SUFFICES ASSUME e <= -1 PROVE FALSE  OBVIOUS
    <3>1. w * e <= -w  BY <2>1
    <3> QED  BY <1>3, <1>4, <3>1 DEF e
  <2> QED  BY <1>2, <2>1, <2>2, <2>3 DEF e
<1>6. r = a
  <2> HIDE DEF r
  <2> QED  BY <1>2, <1>3, <1>5
<1> QED  BY <1>5, <1>6

LEMMA ByteIs ==
  ASSUME Whole, NEW at \in Nat, at >= 2, at < input.declared
  PROVE  ByteAt(at) \in Bytes
<1>1. /\ input.rest \in Seq(Bytes) /\ input.declared \in Nat
  BY DEF Whole, InputOK, Inputs, Bytes
<1>2. input.declared <= Len(input.rest) + 2  BY DEF Whole
<1>3. Len(input.rest) \in Nat /\ \A i \in 1..Len(input.rest) : input.rest[i] \in Bytes
  BY <1>1
<1>4. at - 1 \in 1..Len(input.rest)  BY <1>1, <1>2, <1>3
<1> QED  BY <1>3, <1>4 DEF ByteAt

LEMMA SliceIs ==
  ASSUME Whole, NEW at \in Nat, at >= 2, NEW n \in Nat, at + n <= input.declared
  PROVE  /\ BytesAt(at, n) \in Seq(Bytes) /\ Len(BytesAt(at, n)) = n
         /\ \A j \in 1..n : BytesAt(at, n)[j] = ByteAt(at + j - 1)
<1> DEFINE a == at - 1
           b == at + n - 2
           rest == input.rest
<1>1. input.declared \in Nat /\ a \in Int /\ b \in Int  BY DeclaredIs
<1>2. ASSUME NEW i \in a..b PROVE rest[i] \in Bytes
  <2>1. i + 1 \in Nat /\ i + 1 >= 2 /\ i + 1 < input.declared /\ (i + 1) - 1 = i
    BY <1>1, <1>2
  <2>2. ByteAt(i + 1) \in Bytes  BY <2>1, ByteIs
  <2> QED  BY <2>1, <2>2 DEF ByteAt
<1>3. /\ b - a + 1 = n /\ (IF a <= b THEN b - a + 1 ELSE 0) = n
  OBVIOUS
<1> HIDE DEF a, b, rest
<1>4. /\ SubSeq(rest, a, b) \in Seq(Bytes)
      /\ Len(SubSeq(rest, a, b)) = IF a <= b THEN b - a + 1 ELSE 0
      /\ \A j \in 1..(b - a + 1) : SubSeq(rest, a, b)[j] = rest[a + j - 1]
  BY <1>1, <1>2, SubSeqProperties
<1>5. \A j \in 1..n : a + j - 1 = (at + j - 1) - 1  BY DEF a
<1>6. BytesAt(at, n) = SubSeq(rest, a, b)  BY DEF BytesAt, a, b, rest
<1> QED  BY <1>3, <1>4, <1>5, <1>6 DEF ByteAt, rest

LEMMA SlicesJoin ==
  ASSUME Whole, NEW at \in Nat, at >= 2, NEW n \in Nat, NEW m \in Nat,
         at + n + m <= input.declared
  PROVE  BytesAt(at, n) \o BytesAt(at + n, m) = BytesAt(at, n + m)
<1>1. input.declared \in Nat  BY DeclaredIs
<1> DEFINE s == BytesAt(at, n)
           t == BytesAt(at + n, m)
           u == BytesAt(at, n + m)
<1>2. s \in Seq(Bytes) /\ Len(s) = n /\ \A j \in 1..n : s[j] = ByteAt(at + j - 1)
  BY <1>1, SliceIs
<1>3. t \in Seq(Bytes) /\ Len(t) = m /\ \A j \in 1..m : t[j] = ByteAt((at + n) + j - 1)
  BY <1>1, SliceIs
<1>4. u \in Seq(Bytes) /\ Len(u) = n + m /\ \A j \in 1..(n + m) : u[j] = ByteAt(at + j - 1)
  BY <1>1, SliceIs
<1> HIDE DEF s, t, u
<1>5. /\ s \o t \in Seq(Bytes) /\ Len(s \o t) = n + m
      /\ \A j \in 1..(n + m) : (s \o t)[j] = IF j <= n THEN s[j] ELSE t[j - n]
  BY <1>2, <1>3, ConcatProperties
<1>6. ASSUME NEW j \in 1..(n + m) PROVE (s \o t)[j] = u[j]
  <2>1. CASE j <= n
    <3>1. j \in 1..n  BY <2>1
    <3> QED  BY <1>2, <1>4, <1>5, <1>6, <2>1, <3>1
  <2>2. CASE ~(j <= n)
    <3>1. j - n \in 1..m /\ (at + n) + (j - n) - 1 = at + j - 1  BY <2>2
    <3> QED  BY <1>3, <1>4, <1>5, <1>6, <2>2, <3>1
  <2> QED  BY <2>1, <2>2
<1>7. s \o t = u  BY <1>4, <1>5, <1>6, SeqEqual
<1> QED  BY <1>7 DEF s, t, u

LEMMA SmallSlices ==
  ASSUME Whole, NEW at \in Nat, at >= 2
  PROVE  /\ at <= input.declared => BytesAt(at, 0) = <<>>
         /\ at + 1 <= input.declared => BytesAt(at, 1) = <<ByteAt(at)>>
         /\ at + 2 <= input.declared => BytesAt(at, 2) = <<ByteAt(at), ByteAt(at + 1)>>
<1>1. input.declared \in Nat  BY DeclaredIs
<1>2. ASSUME at <= input.declared PROVE BytesAt(at, 0) = <<>>
  <2> DEFINE s == BytesAt(at, 0)
  <2>1. s \in Seq(Bytes) /\ Len(s) = 0  BY <1>1, <1>2, SliceIs
  <2> HIDE DEF s
  <2>2. s = <<>>  BY <2>1, EmptySeq
  <2> QED  BY <2>2 DEF s
<1>3. ASSUME at + 1 <= input.declared PROVE BytesAt(at, 1) = <<ByteAt(at)>>
  <2> DEFINE s == BytesAt(at, 1)
             x == ByteAt(at)
             t == <<x>>
  <2>1. s \in Seq(Bytes) /\ Len(s) = 1 /\ \A j \in 1..1 : s[j] = ByteAt(at + j - 1)
    BY <1>1, <1>3, SliceIs
  <2>2. x \in Bytes  BY <1>1, <1>3, ByteIs
  <2>3. at + 1 - 1 = at /\ 1 \in 1..1  OBVIOUS
  <2>4. s[1] = x  BY <2>1, <2>3
  <2> HIDE DEF s, x
  <2>5. t \in Seq(Bytes) /\ Len(t) = 1 /\ t[1] = x  BY <2>2
  <2> HIDE DEF t
  <2>6. \A j \in 1..Len(s) : s[j] = t[j]
    <3>1. \A j \in 1..1 : j = 1  OBVIOUS
    <3> QED  BY <2>1, <2>4, <2>5, <3>1
  <2>7. s = t  BY <2>1, <2>5, <2>6, SeqEqual
  <2> QED  BY <2>7 DEF s, t, x
<1>4. ASSUME at + 2 <= input.declared PROVE BytesAt(at, 2) = <<ByteAt(at), ByteAt(at + 1)>>
  <2> DEFINE s == BytesAt(at, 2)
             x == ByteAt(at)
             y == ByteAt(at + 1)
             t == <<x, y>>
  <2>1. s \in Seq(Bytes) /\ Len(s) = 2 /\ \A j \in 1..2 : s[j] = ByteAt(at + j - 1)
    BY <1>1, <1>4, SliceIs
  <2>2. x \in Bytes /\ y \in Bytes
    <3>1. at < input.declared /\ at + 1 < input.declared /\ at + 1 \in Nat /\ at + 1 >= 2
      BY <1>1, <1>4
    <3> QED  BY <3>1, ByteIs
  <2>3. at + 1 - 1 = at /\ at + 2 - 1 = at + 1 /\ 1 \in 1..2 /\ 2 \in 1..2  OBVIOUS
  <2>4. s[1] = x /\ s[2] = y  BY <2>1, <2>3
  <2> HIDE DEF s, x, y
  <2>5. t \in Seq(Bytes) /\ Len(t) = 2 /\ t[1] = x /\ t[2] = y  BY <2>2
  <2> HIDE DEF t
  <2>6. \A j \in 1..Len(s) : s[j] = t[j]
    <3>1. \A j \in 1..2 : j = 1 \/ j = 2  OBVIOUS
    <3> QED  BY <2>1, <2>4, <2>5, <3>1
  <2>7. s = t  BY <2>1, <2>5, <2>6, SeqEqual
  <2> QED  BY <2>7 DEF s, t, x, y
<1> QED  BY <1>2, <1>3, <1>4

(* A length is written as it was read. *)
LEMMA LengthIs ==
  ASSUME Whole, NEW at \in Nat, at >= 2, NEW c, Room(at, LengthWidth(c))
  PROVE  /\ LengthBytes(c, LittleEndian(at, LengthWidth(c))) = BytesAt(at, LengthWidth(c))
         /\ LengthWidth(c) \in {1, 2}
<1> DEFINE w == LengthWidth(c)
<1>1. w \in {1, 2}  BY DEF LengthWidth
<1>2. input.declared \in Nat  BY DeclaredIs
<1>3. CASE w = 1
  <2>1. at + 1 <= input.declared  BY <1>3 DEF Room
  <2> QED  BY <1>3, <2>1, SmallSlices DEF LengthBytes, LittleEndian
<1>4. CASE w = 2
  <2> DEFINE x == ByteAt(at)
             y == ByteAt(at + 1)
  <2>1. at + 2 <= input.declared  BY <1>4 DEF Room
  <2>2. x \in Bytes /\ y \in Bytes
    <3>1. at < input.declared /\ at + 1 < input.declared /\ at + 1 \in Nat /\ at + 1 >= 2
      BY <1>2, <2>1
    <3> QED  BY <3>1, ByteIs
  <2>3. BYTE \in Nat \ {0} /\ x \in 0..(BYTE - 1) /\ y \in Nat
    <3>1. BYTE \in Nat  BY ByteAssumption
    <3> HIDE DEF BYTE
    <3> QED  BY <2>2, <3>1 DEF Bytes
  <2>4. LittleEndian(at, w) = x + BYTE * y  BY <1>4 DEF LittleEndian
  <2>5. LengthBytes(c, x + BYTE * y) = <<(x + BYTE * y) % BYTE, (x + BYTE * y) \div BYTE>>
    BY <1>4 DEF LengthBytes
  <2>6. (x + BYTE * y) % BYTE = x /\ (x + BYTE * y) \div BYTE = y
    <3> HIDE DEF BYTE, x, y
    <3> QED  BY <2>3, DivMod
  <2>7. BytesAt(at, 2) = <<x, y>>  BY <2>1, SmallSlices
  <2> QED  BY <1>4, <2>4, <2>5, <2>6, <2>7
<1> QED  BY <1>1, <1>3, <1>4

LEMMA TakenIs ==
  ASSUME NEW kind, NEW at \in Nat, NEW n \in Nat, Take(kind, at, n).verdict = "Ok"
  PROVE  /\ at + n <= input.declared /\ Take(kind, at, n).end = at + n
         /\ Take(kind, at, n).value.kind = kind
         /\ Take(kind, at, n).value.bytes = BytesAt(at, n)
BY DEF Take, Got, Fault, Room, Value

LEMMA EncodingIs ==
  ASSUME NEW i, ~IsBoolean(i)
  PROVE  /\ values[i].kind = "Bytes" =>
              Encoding(i) = LengthBytes(schema.columns[i], Len(values[i].bytes)) \o values[i].bytes
         /\ values[i].kind = "OverflowPointer" =>
              Encoding(i) = LengthBytes(schema.columns[i],
                                        BYTE ^ LengthWidth(schema.columns[i]) - 1)
                              \o values[i].bytes
         /\ values[i].kind = "Numeric" =>
              Encoding(i) = <<Len(values[i].bytes) - 1>> \o values[i].bytes
         /\ values[i].kind \in {"Enum", "Date", "DateTime", "Int64", "Integer"} =>
              Encoding(i) = values[i].bytes
<1> DEFINE k == values[i].kind
           a == LengthBytes(schema.columns[i], Len(values[i].bytes)) \o values[i].bytes
           b == LengthBytes(schema.columns[i], BYTE ^ LengthWidth(schema.columns[i]) - 1)
                  \o values[i].bytes
           c == <<Len(values[i].bytes) - 1>> \o values[i].bytes
           d == <<values[i].bytes[1], 0>>
           e == values[i].bytes
<1>1. Encoding(i) =
        CASE k = "Null" \/ (IsBoolean(i) /\ ~Inline) -> <<>>
          [] k = "Bytes" -> a
          [] k = "OverflowPointer" -> b
          [] k = "Numeric" -> c
          [] k = "Boolean" /\ schema.boolean_tail = "InlineU16Le" -> d
          [] OTHER -> e
  BY Zenon DEF Encoding
<1> HIDE DEF k, a, b, c, d, e
<1>2. /\ k = "Bytes" => Encoding(i) = a
      /\ k = "OverflowPointer" => Encoding(i) = b
      /\ k = "Numeric" => Encoding(i) = c
      /\ k \in {"Enum", "Date", "DateTime", "Int64", "Integer"} => Encoding(i) = e
  BY <1>1
<1> QED  BY <1>2, Zenon DEF k, a, b, c, d, e

LEMMA FieldEncodes ==
  ASSUME Whole, NEW i \in Columns, NEW at \in Nat, at >= 2, ~IsBoolean(i),
         FieldAt(i, at).verdict = "Ok", values[i] = FieldAt(i, at).value
  PROVE  Encoding(i) = BytesAt(at, FieldAt(i, at).end - at)
<1> DEFINE c == schema.columns[i]
           f == FieldAt(i, at)
<1>0. schema.pointer_width \in Nat /\ input.declared \in Nat
  BY SchemaTypes, DeclaredIs DEF Whole
<1>1. ASSUME NEW w \in Nat, NEW kind \in {"Enum", "Date", "DateTime", "Int64", "Integer"},
             f = Take(kind, at, w)
      PROVE  Encoding(i) = BytesAt(at, f.end - at)
  <2>1. f.end = at + w /\ values[i].kind = kind /\ values[i].bytes = BytesAt(at, w)
    BY <1>1, TakenIs
  <2>2. Encoding(i) = values[i].bytes  BY <1>1, <2>1, EncodingIs
  <2> HIDE DEF f
  <2>3. f.end - at = w  BY <2>1
  <2> QED  BY <2>1, <2>2, <2>3
<1>2. CASE c.type = "Char"
  <2> DEFINE w == LengthWidth(c)
             length == LittleEndian(at, w)
             past == at + w
  <2>1. f = Variable(c, at) /\ f.verdict = "Ok"  BY <1>2 DEF FieldAt, NonBoolean
  <2>2. Room(at, w)  BY <2>1 DEF Variable, Fault
  <2>3. LengthBytes(c, length) = BytesAt(at, w) /\ w \in {1, 2}  BY <2>2, LengthIs
  <2>4. length \in Nat  BY <2>2, <2>3, LengthsAre
  <2>5. past \in Nat /\ past >= 2  BY <2>3
  <2>6. ASSUME NEW n \in Nat, NEW kind, f = Take(kind, past, n),
               Encoding(i) = LengthBytes(c, length) \o values[i].bytes
        PROVE  Encoding(i) = BytesAt(at, f.end - at)
    <3>1. past + n <= input.declared /\ f.end = past + n /\ values[i].bytes = BytesAt(past, n)
      BY <2>1, <2>5, <2>6, TakenIs
    <3> HIDE DEF w, f
    <3>2. at + w + n <= input.declared /\ w \in Nat  BY <2>3, <3>1
    <3>3. BytesAt(at, w) \o BytesAt(past, n) = BytesAt(at, w + n)
      BY <2>6, <3>2, SlicesJoin
    <3>4. f.end - at = w + n  BY <3>1, <3>2
    <3> QED  BY <2>3, <2>6, <3>1, <3>3, <3>4
  <2>7. CASE length = BYTE ^ w - 1
    <3>1. f = Overflow(past)  BY <2>1, <2>2, <2>7 DEF Variable
    <3>2. f = Take("OverflowPointer", past, schema.pointer_width)
      BY <2>1, <3>1 DEF Overflow, Fault
    <3>3. values[i].kind = "OverflowPointer"  BY <1>0, <2>1, <2>5, <3>2, TakenIs
    <3>4. Encoding(i) = LengthBytes(c, length) \o values[i].bytes
      <4>1. Encoding(i) = LengthBytes(c, BYTE ^ w - 1) \o values[i].bytes
        BY <3>3, EncodingIs, Zenon
      <4> QED  BY <2>7, <4>1, Zenon
    <3> HIDE DEF past, length
    <3> QED  BY <1>0, <2>6, <3>2, <3>4
  <2>8. CASE length # BYTE ^ w - 1
    <3>1. f = Take("Bytes", past, length)  BY <2>1, <2>2, <2>8 DEF Variable
    <3>2. values[i].kind = "Bytes" /\ values[i].bytes = BytesAt(past, length)
          /\ past + length <= input.declared
      BY <2>1, <2>4, <2>5, <3>1, TakenIs
    <3>3. Len(values[i].bytes) = length
      <4> HIDE DEF past, length
      <4> QED  BY <2>4, <2>5, <3>2, SliceIs
    <3>4. Encoding(i) = LengthBytes(c, length) \o values[i].bytes
      <4>1. Encoding(i) = LengthBytes(c, Len(values[i].bytes)) \o values[i].bytes
        BY <3>2, EncodingIs, Zenon
      <4> QED  BY <3>3, <4>1, Zenon
    <3> HIDE DEF past, length
    <3> QED  BY <2>4, <2>6, <3>1, <3>4
  <2> QED  BY <2>7, <2>8
<1>3. CASE c.type = "Numeric"
  <2> DEFINE b == ByteAt(at)
             past == at + 1
  <2>1. f = Numeric(at) /\ f.verdict = "Ok"  BY <1>3 DEF FieldAt, NonBoolean
  <2>2. Room(at, 2) /\ f = Take("Numeric", at + 1, b + 1)
    BY <2>1 DEF Numeric, Fault
  <2>3. at < input.declared /\ at + 1 <= input.declared  BY <1>0, <2>2 DEF Room
  <2>4. b \in Nat  BY <2>3, RowBytes
  <2>5. past \in Nat /\ past >= 2 /\ b + 1 \in Nat  BY <2>4
  <2> HIDE DEF b
  <2>6. /\ past + (b + 1) <= input.declared /\ f.end = past + (b + 1)
        /\ values[i].kind = "Numeric" /\ values[i].bytes = BytesAt(past, b + 1)
    BY <2>1, <2>2, <2>5, TakenIs
  <2>7. Len(values[i].bytes) = b + 1  BY <2>5, <2>6, SliceIs
  <2>8. Encoding(i) = <<Len(values[i].bytes) - 1>> \o values[i].bytes
    BY <2>6, EncodingIs
  <2>9. (b + 1) - 1 = b  BY <2>4
  <2>10. BytesAt(at, 1) = <<b>>  BY <2>3, SmallSlices DEF b
  <2>11. BytesAt(at, 1) \o BytesAt(at + 1, b + 1) = BytesAt(at, 1 + (b + 1))
    BY <2>5, <2>6, SlicesJoin
  <2>12. f.end - at = 1 + (b + 1)
    <3> HIDE DEF f
    <3> QED  BY <2>4, <2>6
  <2> QED  BY <2>6, <2>7, <2>8, <2>9, <2>10, <2>11, <2>12
<1>4. CASE c.type = "Enum"
  <2>1. f = Enum(c, at) /\ f.verdict = "Ok"  BY <1>4 DEF FieldAt, NonBoolean
  <2>2. c.width \in {1, 2, 4, 8} /\ f = Take("Enum", at, c.width)
    BY <2>1 DEF Enum, Fault
  <2>3. c.width \in Nat  BY <2>2
  <2> QED  BY <1>1, <2>2, <2>3
<1>5. CASE c.type \notin {"Char", "Numeric", "Enum"}
  <2>1. f = Fixed(c, at) /\ f.verdict = "Ok"  BY <1>5 DEF FieldAt, NonBoolean
  <2>2. CASE c.type = "Date"
    <3>1. f = Take("Date", at, 4)  BY <2>1, <2>2 DEF Fixed
    <3> QED  BY <1>1, <3>1
  <2>3. CASE c.type = "DateTime"
    <3>1. f = Take("DateTime", at, 8)  BY <2>1, <2>3 DEF Fixed
    <3> QED  BY <1>1, <3>1
  <2>4. CASE c.type \notin {"Date", "DateTime"}
    <3>1. c.width \in {1, 2, 4, 8} /\ f = Take(c.type, at, c.width)
      BY <2>1, <2>4 DEF Fixed, Integer, Fault
    <3>2. c.type \in {"Int64", "Integer"}
      <4>1. c.type \in {"Boolean", "Char", "Numeric", "Enum", "Date", "DateTime",
                        "Int64", "Integer"}
        <5> DEFINE C == [type : {"Boolean", "Char", "Numeric", "Enum", "Date", "DateTime",
                                 "Int64", "Integer"}, width : Nat, nullable : BOOLEAN]
        <5>1. schema.columns \in Seq(C)
          BY SchemaTypes DEF Whole, Schemas
        <5>2. i \in 1..Len(schema.columns)  BY DEF Columns
        <5> HIDE DEF C
        <5>3. c \in C  BY <5>1, <5>2
        <5> QED  BY <5>3 DEF C
      <4> QED  BY <1>5, <2>4, <4>1 DEF IsBoolean
    <3>3. c.width \in Nat  BY <3>1
    <3> QED  BY <1>1, <3>1, <3>2, <3>3
  <2> QED  BY <2>2, <2>3, <2>4
<1> QED  BY <1>2, <1>3, <1>4, <1>5

LEMMA WordEncodes ==
  ASSUME Whole, NEW i \in Columns, NEW at \in Nat, at >= 2, Worded, BooleanHere(i),
         WordFits(at), values[i] = Boolean(LittleEndian(at, Word))
  PROVE  Encoding(i) = BytesAt(at, (at + Word) - at)
<1> DEFINE n == LittleEndian(at, Word)
<1>1. IsBoolean(i) /\ Inline /\ Room(at, Word) /\ ~(n > 1)
  BY DEF BooleanHere, Worded, Inline, WordFits
<1>2. values[i].kind = "Boolean" /\ values[i].bytes = <<n>>  BY DEF Boolean, Value
<1>3. input.declared \in Nat  BY DeclaredIs
<1>4. CASE schema.boolean_tail = "InlineBytes"
  <2>1. Word = 1  BY <1>4 DEF Word
  <2>2. Encoding(i) = <<n>>  BY <1>1, <1>2, <1>4 DEF Encoding
  <2>3. at + 1 <= input.declared /\ (at + Word) - at = 1  BY <1>1, <2>1 DEF Room
  <2>4. n = ByteAt(at)  BY <2>1 DEF LittleEndian
  <2> QED  BY <2>2, <2>3, <2>4, SmallSlices
<1>5. CASE schema.boolean_tail = "InlineU16Le"
  <2> DEFINE x == ByteAt(at)
             y == ByteAt(at + 1)
  <2>1. Word = 2  BY <1>5 DEF Word
  <2>2. Encoding(i) = <<n, 0>>
    <3>1. Encoding(i) = <<values[i].bytes[1], 0>>  BY <1>1, <1>2, <1>5 DEF Encoding
    <3>2. values[i].bytes[1] = n  BY <1>2
    <3> QED  BY <3>1, <3>2
  <2>3. at + 2 <= input.declared /\ (at + Word) - at = 2  BY <1>1, <2>1 DEF Room
  <2>4. n = x + BYTE * y  BY <2>1 DEF LittleEndian
  <2>5. x \in Bytes /\ y \in Bytes
    <3>1. at < input.declared /\ at + 1 < input.declared /\ at + 1 \in Nat /\ at + 1 >= 2
      BY <1>3, <2>3
    <3> QED  BY <3>1, ByteIs
  <2>6. y = 0 /\ n = x
    <3>1. BYTE \in Nat  BY ByteAssumption
    <3>2. x \in 0..(BYTE - 1) /\ y \in 0..(BYTE - 1)  BY <2>5 DEF Bytes
    <3> HIDE DEF BYTE, x, y, n
    <3>3. ~(x + BYTE * y > 1)  BY <1>1, <2>4
    <3>4. ~(y >= 1)
      <4> SUFFICES ASSUME y >= 1 PROVE FALSE  OBVIOUS
      <4>1. BYTE >= 2 /\ y \in Nat /\ x \in Nat  BY <3>1, <3>2
      <4>2. \A a, b \in Nat : a >= 2 /\ b >= 1 => a * b >= 2 /\ a * b \in Nat  OBVIOUS
      <4>3. BYTE * y >= 2 /\ BYTE * y \in Nat  BY <3>1, <4>1, <4>2
      <4> DEFINE p == BYTE * y
      <4> HIDE DEF p
      <4> QED  BY <3>3, <4>1, <4>3 DEF p
    <3>5. y = 0  BY <3>1, <3>2, <3>4
    <3>6. x \in Nat /\ BYTE * 0 = 0  BY <3>1, <3>2
    <3> QED  BY <2>4, <3>5, <3>6
  <2>7. BytesAt(at, 2) = <<x, y>>  BY <2>3, SmallSlices
  <2> QED  BY <2>2, <2>3, <2>6, <2>7
<1> QED  BY <1>4, <1>5 DEF Worded

(* Every column is encoded as the bytes it was read from. *)
LEMMA ColumnEncodes ==
  ASSUME Whole, NEW cur, Trace(cur, Ends), Values(cur, Ends, values), TailValues(cur[Ends], values),
         ~Packed, cur[Ends] <= input.declared, NEW i \in Columns
  PROVE  Encoding(i) = BytesAt(cur[i], cur[i + 1] - cur[i])
<1>1. /\ Ends \in Nat /\ i \in 1..(Ends - 1) /\ i \in 1..Ends /\ i + 1 \in 1..Ends /\ i \in Nat
  BY SchemaTypes DEF Whole
<1>2. cur[i] \in Nat /\ cur[i] >= 2 /\ cur[i + 1] \in Nat  BY <1>1, TraceFacts
<1>3. Goes(i, cur[i], cur[i + 1])  BY <1>1 DEF Trace
<1>4. CASE Passed(i) /\ cur[i + 1] = cur[i]
  <2>1. Encoding(i) = <<>>
    <3>1. CASE ~Presence[i]
      <4>1. values[i].kind = "Null"  BY <3>1 DEF Values, Null, Value
      <4> QED  BY <4>1 DEF Encoding
    <3>2. CASE Presence[i] /\ IsBoolean(i) /\ ~Inline
      <4>1. i \in TailColumns(Presence)  BY <3>2 DEF TailColumns
      <4>2. values[i].kind = "Boolean"
        <5>1. PICK bit : values[i] = Boolean(bit)  BY <3>2, <4>1 DEF TailValues
        <5> QED  BY <5>1 DEF Boolean, Value
      <4>3. schema.boolean_tail # "InlineU16Le"  BY <3>2 DEF Inline
      <4> QED  BY <3>2, <4>2, <4>3 DEF Encoding
    <3> QED  BY <1>4, <3>1, <3>2 DEF Passed, WithinRun
  <2>2. cur[i + 1] - cur[i] = 0  BY <1>2, <1>4
  <2>3. cur[i] <= input.declared
    <3>1. cur[i] <= cur[Ends] /\ cur[Ends] \in Nat
      <4>1. Ends \in 1..Ends /\ i <= Ends  BY <1>1
      <4> QED  BY <1>1, <4>1, TraceFacts DEF Trace
    <3>2. input.declared \in Nat  BY DeclaredIs
    <3> QED  BY <1>2, <3>1, <3>2
  <2> QED  BY <1>2, <2>1, <2>2, <2>3, SmallSlices
<1>5. CASE FieldHere(i) /\ FieldAt(i, cur[i]).verdict = "Ok" /\ cur[i + 1] = FieldAt(i, cur[i]).end
  <2>1. values[i] = FieldAt(i, cur[i]).value  BY <1>1, <1>5 DEF Values, FieldValue
  <2> QED  BY <1>2, <1>5, <2>1, FieldEncodes DEF FieldHere
<1>6. CASE Worded /\ BooleanHere(i) /\ WordFits(cur[i]) /\ cur[i + 1] = cur[i] + Word
  <2>1. values[i] = Boolean(LittleEndian(cur[i], Word))  BY <1>1, <1>6 DEF Values, WordValue
  <2> QED  BY <1>2, <1>6, <2>1, WordEncodes
<1> QED  BY <1>3, <1>4, <1>5, <1>6 DEF Goes, StartsRun

---------------------------------------------------------------------------
(* Slices in a row: a sequence of slices flattens to the slice they make.  *)

Joins(g, s, n) == g = [i \in 1..n |-> IF i = 1 THEN s[i] ELSE g[i - 1] \o s[i]]

LEMMA Between ==
  ASSUME NEW u \in Nat, NEW v \in Nat, NEW w \in Nat, NEW d \in Nat, u <= v, v <= w, w <= d
  PROVE  /\ v - u \in Nat /\ w - v \in Nat /\ u + (v - u) = v
         /\ (v - u) + (w - v) = w - u /\ u + (v - u) + (w - v) <= d
         /\ v <= d
OBVIOUS

LEMMA Flattens ==
  ASSUME NEW n \in Nat, NEW s, Len(s) = n, NEW g, Joins(g, s, n)
  PROVE  /\ n = 0 => FlattenSeq(s) = s
         /\ n > 0 => FlattenSeq(s) = g[n]
<1> DEFINE Is(f) == f = [i \in 1..n |-> IF i = 1 THEN s[i] ELSE f[i - 1] \o s[i]]
           flat == CHOOSE f : Is(f)
<1>1. CASE n = 0  BY <1>1 DEF FlattenSeq
<1>2. CASE n > 0
  <2>1. FlattenSeq(s) = flat[n]
    <3>1. ~(n = 0)  BY <1>2
    <3> QED  BY <3>1, Zenon DEF FlattenSeq
  <2>2. Is(g)  BY Zenon DEF Joins
  <2>3. Is(flat)
    <3> HIDE DEF Is
    <3> QED  BY <2>2, Zenon
  <2>4. \A i \in 1..n : flat[i] = IF i = 1 THEN s[i] ELSE flat[i - 1] \o s[i]
    <3> HIDE DEF flat
    <3> QED  BY <2>3, Zenon
  <2>5. \A i \in 1..n : g[i] = IF i = 1 THEN s[i] ELSE g[i - 1] \o s[i]
    BY <2>2, Zenon
  <2> HIDE DEF flat
  <2> DEFINE Differ == {i \in 1..n : flat[i] # g[i]}
  <2>6. Differ = {}
    <3> SUFFICES ASSUME Differ # {} PROVE FALSE  OBVIOUS
    <3>1. Differ \in SUBSET Nat  OBVIOUS
    <3>2. PICK i \in Differ : \A j \in Differ : i <= j
      <4> HIDE DEF Differ
      <4> QED  BY <3>1, Least
    <3>3. i \in 1..n /\ flat[i] # g[i]  BY <3>2
    <3>4. i # 1  BY <2>4, <2>5, <3>3
    <3>5. i - 1 \in 1..n /\ ~(i <= i - 1)  BY <3>3, <3>4
    <3>6. flat[i - 1] = g[i - 1]  BY <3>2, <3>5
    <3>7. flat[i] = flat[i - 1] \o s[i]  BY <2>4, <3>3, <3>4, Zenon
    <3>8. g[i] = g[i - 1] \o s[i]  BY <2>5, <3>3, <3>4, Zenon
    <3> QED  BY <3>3, <3>6, <3>7, <3>8, Zenon
  <2>7. n \in 1..n  BY <1>2
  <2>8. flat[n] = g[n]  BY <2>6, <2>7
  <2> QED  BY <1>2, <2>1, <2>8
<1> QED  BY <1>1, <1>2

(* edge[i] is where part i begins, and edge[n + 1] where the last one ends. *)
Slices(s, edge, n) ==
  /\ s = [i \in 1..n |-> s[i]]
  /\ \A i \in 1..(n + 1) : edge[i] \in Nat /\ edge[i] >= 2
  /\ \A i, j \in 1..(n + 1) : i <= j => edge[i] <= edge[j]
  /\ edge[n + 1] <= input.declared
  /\ \A i \in 1..n : s[i] = BytesAt(edge[i], edge[i + 1] - edge[i])

LEMMA SlicesFlatten ==
  ASSUME Whole, NEW n \in Nat, NEW s, NEW edge, Slices(s, edge, n)
  PROVE  FlattenSeq(s) = BytesAt(edge[1], edge[n + 1] - edge[1])
<1> DEFINE a == edge[1]
           g == [i \in 1..n |-> BytesAt(a, edge[i + 1] - a)]
<1>0. input.declared \in Nat  BY DeclaredIs
<1>1. Len(s) = n
  <2>1. Len([i \in 1..n |-> s[i]]) = n  OBVIOUS
  <2>2. s = [i \in 1..n |-> s[i]]  BY DEF Slices
  <2> QED  BY <2>1, <2>2, Zenon
<1>2. 1 \in 1..(n + 1) /\ n + 1 \in 1..(n + 1) /\ a \in Nat /\ a >= 2
  <2>1. 1 \in 1..(n + 1) /\ n + 1 \in 1..(n + 1)  OBVIOUS
  <2> QED  BY <2>1 DEF Slices
<1>3. ASSUME NEW i \in 1..n
      PROVE  g[i] = IF i = 1 THEN s[i] ELSE g[i - 1] \o s[i]
  <2>0. s[i] = BytesAt(edge[i], edge[i + 1] - edge[i])  BY DEF Slices
  <2>1. CASE i = 1  BY <2>0, <2>1
  <2>2. CASE i # 1
    <3>1. i - 1 \in 1..n /\ (i - 1) + 1 = i /\ i \in 1..(n + 1) /\ i + 1 \in 1..(n + 1)
          /\ 1 <= i /\ i <= i + 1 /\ i + 1 <= n + 1
      BY <2>2
    <3> DEFINE b == edge[i]
               c == edge[i + 1]
               top == edge[n + 1]
               x == b - a
               y == c - b
    <3>2. /\ b \in Nat /\ c \in Nat /\ top \in Nat /\ a <= b /\ b <= c /\ c <= top
          /\ top <= input.declared
      BY <1>2, <3>1, Zenon DEF Slices
    <3>3. g[i - 1] = BytesAt(a, x) /\ g[i] = BytesAt(a, c - a) /\ s[i] = BytesAt(b, y)
      BY <2>0, <3>1
    <3> HIDE DEF g, a, b, c, top
    <3>4. c <= input.declared  BY <1>0, <3>2
    <3>5. x \in Nat /\ y \in Nat /\ a + x = b /\ x + y = c - a /\ a + x + y <= input.declared
      BY <1>0, <1>2, <3>2, <3>4, Between
    <3> HIDE DEF x, y
    <3>6. BytesAt(a, x) \o BytesAt(a + x, y) = BytesAt(a, x + y)
      BY <1>2, <3>5, SlicesJoin
    <3> QED  BY <2>2, <3>3, <3>5, <3>6
  <2> QED  BY <2>1, <2>2
<1>4. Joins(g, s, n)
  <2>1. g = [i \in 1..n |-> g[i]]  OBVIOUS
  <2> HIDE DEF g
  <2> QED  BY <1>3, <2>1, Zenon DEF Joins
<1>5. CASE n = 0
  <2>1. s = <<>>
    <3>1. 1..n = {}  BY <1>5
    <3>2. s = [i \in {} |-> s[i]]  BY <3>1, Zenon DEF Slices
    <3> QED  BY <3>2
  <2>2. FlattenSeq(s) = s
    <3> HIDE DEF g
    <3> QED  BY <1>1, <1>4, <1>5, Flattens
  <2>3. n + 1 = 1 /\ a - a = 0 /\ a <= input.declared  BY <1>2, <1>5 DEF Slices
  <2> QED  BY <1>2, <2>1, <2>2, <2>3, SmallSlices
<1>6. CASE n > 0
  <2>1. FlattenSeq(s) = g[n]
    <3> HIDE DEF g
    <3> QED  BY <1>1, <1>4, <1>6, Flattens
  <2>2. n \in 1..n  BY <1>6
  <2> QED  BY <2>1, <2>2
<1> QED  BY <1>5, <1>6

(* The present Booleans before a column, and before the next. *)
LEMMA Places ==
  ASSUME schema \in Schema
  PROVE  /\ \A i \in 1..Ends : Place(i) \in Nat
         /\ Place(1) = 0 /\ Place(Ends) = Cardinality(TailColumns(Presence))
         /\ \A i \in Columns : Place(i + 1) =
              IF i \in TailColumns(Presence) THEN Place(i) + 1 ELSE Place(i)
         /\ \A i, j \in 1..Ends : i <= j => Place(i) <= Place(j)
<1> DEFINE T == TailColumns(Presence)
           B(i) == {j \in T : j < i}
<1>1. Ends \in Nat /\ Columns = 1..(Ends - 1) /\ Ends >= 1  BY SchemaTypes
<1>2. T \subseteq Columns /\ IsFiniteSet(T)
  <2>1. T \subseteq Columns  BY DEF TailColumns
  <2>2. IsFiniteSet(Columns)
    <3> DEFINE top == Ends - 1
    <3>1. top \in Int  BY <1>1
    <3> HIDE DEF top
    <3>2. IsFiniteSet(1..top)  BY <3>1, FS_Interval
    <3> QED  BY <1>1, <3>2 DEF top
  <2> HIDE DEF T
  <2> QED  BY <2>1, <2>2, FS_Subset
<1>3. \A i : Place(i) = Cardinality(B(i))  BY DEF Place
<1> HIDE DEF T
<1>4. ASSUME NEW i PROVE IsFiniteSet(B(i)) /\ Cardinality(B(i)) \in Nat
  <2>1. B(i) \subseteq T  OBVIOUS
  <2> HIDE DEF B
  <2> QED  BY <1>2, <2>1, FS_Subset, FS_CardinalityType
<1>9. \A j \in T : j \in Int /\ j >= 1 /\ j <= Ends - 1  BY <1>1, <1>2
<1>5. B(1) = {} /\ B(Ends) = T
  <2>1. \A j \in T : ~(j < 1) /\ j < Ends  BY <1>1, <1>9
  <2> QED  BY <2>1
<1>6. Cardinality(B(1)) = 0
  <2> HIDE DEF B
  <2> QED  BY <1>5, FS_EmptySet
<1>7. ASSUME NEW i \in Columns
      PROVE  Cardinality(B(i + 1)) = IF i \in T THEN Cardinality(B(i)) + 1 ELSE Cardinality(B(i))
  <2>1. CASE i \in T
    <3>1. B(i + 1) = B(i) \cup {i} /\ i \notin B(i)
      <4>1. i \in Int /\ ~(i < i) /\ i < i + 1  BY <1>9, <2>1
      <4>2. \A j \in T : j < i + 1 <=> j < i \/ j = i  BY <1>9, <4>1
      <4> QED  BY <2>1, <4>1, <4>2
    <3> HIDE DEF B
    <3>2. Cardinality(B(i) \cup {i}) = Cardinality(B(i)) + 1  BY <1>4, <3>1, FS_AddElement
    <3> QED  BY <2>1, <3>1, <3>2
  <2>2. CASE i \notin T
    <3>1. B(i + 1) = B(i)
      <4>0. i \in Int  BY <1>1
      <4>1. \A j \in T : j < i + 1 <=> j < i  BY <1>9, <2>2, <4>0
      <4> QED  BY <4>1
    <3> HIDE DEF B
    <3> QED  BY <2>2, <3>1
  <2> QED  BY <2>1, <2>2
<1>8. ASSUME NEW i \in 1..Ends, NEW j \in 1..Ends, i <= j
      PROVE  Cardinality(B(i)) <= Cardinality(B(j))
  <2>0. i \in Int /\ j \in Int  BY <1>1
  <2>1. \A k \in T : k < i => k < j  BY <1>8, <1>9, <2>0
  <2>2. B(i) \subseteq B(j)  BY <2>1
  <2> HIDE DEF B
  <2> QED  BY <1>4, <2>2, FS_Subset
<1> HIDE DEF B
<1> QED  BY <1>3, <1>4, <1>5, <1>6, <1>7, <1>8 DEF T

LEMMA TailEncodes ==
  ASSUME Whole, NEW at \in Nat, at >= 2, at + Required <= input.declared,
         schema.boolean_tail = "Bytes", TailValues(at, values),
         \A i \in Columns : ~Presence[i] => values[i] = Null
  PROVE  TailEncoding = BytesAt(at, Required)
<1> DEFINE n == Len(schema.columns)
           part(i) == IF IsBoolean(i) /\ values[i] # Null THEN values[i].bytes ELSE <<>>
           s == [i \in 1..n |-> part(i)]
           edge == [i \in 1..(n + 1) |-> at + Place(i)]
<1>1. n \in Nat /\ Ends = n + 1 /\ Columns = 1..n /\ schema \in Schema
  BY SchemaTypes DEF Whole, Columns
<1>2. TailEncoding = FlattenSeq(s)  BY <1>1 DEF TailEncoding
<1>3. input.declared \in Nat  BY DeclaredIs
<1>4. Required = Place(n + 1) /\ Place(1) = 0
  BY <1>1, Places DEF Required, RequiredTail
<1>5. ASSUME NEW i \in 1..(n + 1) PROVE Place(i) \in Nat /\ edge[i] \in Nat /\ edge[i] >= 2
                                        /\ edge[i] = at + Place(i)
  <2>1. Place(i) \in Nat  BY <1>1, Places
  <2>2. edge[i] = at + Place(i)  OBVIOUS
  <2> HIDE DEF edge
  <2> QED  BY <2>1, <2>2
<1>6. ASSUME NEW i \in 1..(n + 1), NEW j \in 1..(n + 1), i <= j PROVE edge[i] <= edge[j]
  <2>1. Place(i) <= Place(j)  BY <1>1, <1>6, Places
  <2> HIDE DEF edge
  <2> QED  BY <1>5, <2>1
<1>7. 1 \in 1..(n + 1) /\ n + 1 \in 1..(n + 1)  BY <1>1
<1>8. edge[1] = at /\ edge[n + 1] = at + Required
  <2>1. at + 0 = at  OBVIOUS
  <2> HIDE DEF edge
  <2> QED  BY <1>4, <1>5, <1>7, <2>1
<1>9. ASSUME NEW i \in 1..n PROVE s[i] = BytesAt(edge[i], edge[i + 1] - edge[i])
  <2>0. /\ Place(i) \in Nat /\ edge[i] \in Nat /\ edge[i] = at + Place(i) /\ edge[i] >= 2
        /\ Place(i + 1) \in Nat /\ edge[i + 1] \in Nat /\ edge[i + 1] = at + Place(i + 1)
    <3>1. i \in 1..(n + 1) /\ i + 1 \in 1..(n + 1)  BY <1>1
    <3> HIDE DEF edge
    <3> QED  BY <1>5, <3>1
  <2>1. i \in Columns /\ i \in 1..(n + 1) /\ i + 1 \in 1..(n + 1) /\ i + 1 <= n + 1  BY <1>1
  <2>2. edge[i] <= edge[i + 1] /\ edge[i + 1] <= input.declared
    <3>1. i <= i + 1  BY <2>1
    <3>2. edge[i] <= edge[i + 1]  BY <1>6, <2>1, <3>1
    <3>3. edge[i + 1] <= edge[n + 1]  BY <1>6, <1>7, <2>1
    <3>4. edge[i + 1] \in Nat /\ edge[n + 1] \in Nat  BY <1>5, <1>7, <2>1
    <3>5. edge[n + 1] <= input.declared  BY <1>8
    <3> DEFINE p == edge[i + 1]
               q == edge[n + 1]
    <3> HIDE DEF p, q, edge, n
    <3>6. p <= input.declared  BY <1>3, <3>3, <3>4, <3>5 DEF p, q
    <3> QED  BY <3>2, <3>6 DEF p
  <2>3. CASE i \in TailColumns(Presence)
    <3>1. IsBoolean(i) /\ ~Inline  BY <2>3 DEF TailColumns, Inline
    <3>2. values[i] = Boolean(ByteAt(at + Place(i)))  BY <2>3, <3>1 DEF TailValues, TailAt
    <3>3. values[i] # Null /\ values[i].bytes = <<ByteAt(at + Place(i))>>
      BY <3>2 DEF Boolean, Null, Value
    <3>4. s[i] = <<ByteAt(edge[i])>>  BY <1>5, <2>1, <3>1, <3>3
    <3>5. Place(i + 1) = Place(i) + 1  BY <1>1, <2>1, <2>3, Places
    <3> HIDE DEF s, edge
    <3>6. edge[i + 1] - edge[i] = 1 /\ edge[i] + 1 <= input.declared
      BY <1>3, <2>0, <2>2, <3>5
    <3> QED  BY <2>0, <3>4, <3>6, SmallSlices
  <2>4. CASE i \notin TailColumns(Presence)
    <3>1. IsBoolean(i) => values[i] = Null  BY <2>1, <2>4 DEF TailColumns
    <3>2. s[i] = <<>>  BY <3>1
    <3>3. Place(i + 1) = Place(i)  BY <1>1, <2>1, <2>4, Places
    <3> HIDE DEF s, edge
    <3>4. edge[i + 1] - edge[i] = 0 /\ edge[i] <= input.declared
      BY <1>3, <2>0, <2>2, <3>3
    <3> QED  BY <2>0, <3>2, <3>4, SmallSlices
  <2> QED  BY <2>3, <2>4
<1>10. s = [i \in 1..n |-> s[i]]  OBVIOUS
<1>11. edge[n + 1] <= input.declared  BY <1>8
<1>12. edge[n + 1] - edge[1] = Required
  <2>1. Required \in Nat  BY <1>1, RequiredIs
  <2> QED  BY <1>8, <2>1
<1>13. FlattenSeq(s) = BytesAt(edge[1], edge[n + 1] - edge[1])
  <2> HIDE DEF s, edge, n
  <2>1. Slices(s, edge, n)  BY <1>5, <1>6, <1>9, <1>10, <1>11 DEF Slices
  <2> QED  BY <1>1, <2>1, SlicesFlatten
<1> QED  BY <1>2, <1>8, <1>12, <1>13

(* No byte of a row is lost or made up by the exact decoder: what it      *)
(* returns, encoded again column by column, is the body of the row, for    *)
(* every schema whose Booleans are not packed, every row and every carrier. *)
THEOREM NothingIsLost == Spec => []RowIsTheEncodingOfItsValues
<1>1. InputOK /\ Rebuilt /\ DecoderInv => RowIsTheEncodingOfItsValues
  <2> SUFFICES ASSUME InputOK, Rebuilt, DecoderInv, Done("exact"),
                      schema.boolean_tail \in {"Bytes", "InlineBytes", "InlineU16Le"}
               PROVE  BytesAt(BodyStart, input.declared - BodyStart) =
                        FlattenSeq([i \in Columns |-> Encoding(i)]) \o TailEncoding
    BY DEF RowIsTheEncodingOfItsValues
  <2>1. DecoderTypes /\ RowInv /\ input.kind # "carrier"
        /\ call = "exact" /\ pc = "returned" /\ result.verdict = "Ok"
    BY DEF DecoderInv, DecoderTypes, Done
  <2>2. PICK cur, m : HeaderFault = "Ok" /\ Ended(cur, m, "Ok", values)
    BY <2>1 DEF RowInv, ExactReturned, Outcome
  <2>3. Whole  BY <2>1, <2>2, HeaderIsWhole
  <2>4. /\ m = Ends /\ Trace(cur, Ends) /\ cur[Ends] = input.declared - Required
        /\ Values(cur, Ends, values) /\ TailValues(cur[Ends], values)
        /\ TailFits(cur[Ends])
    BY <2>2, <2>3, WholeOk
  <2> DEFINE n == Len(schema.columns)
             s == [i \in 1..n |-> Encoding(i)]
             T == cur[Ends]
  <2>5. n \in Nat /\ Ends = n + 1 /\ Columns = 1..n /\ schema \in Schema
    BY <2>3, SchemaTypes DEF Whole, Columns
  <2>6. input.declared \in Nat /\ Required \in Nat /\ BodyStart \in Nat /\ BodyStart >= 2
    BY <2>3, <2>5, DeclaredIs, RequiredIs, BodyStartsAt
  <2>7. \A i \in 1..Ends : cur[i] \in Nat /\ cur[i] >= 2  BY <2>3, <2>4, TraceFacts
  <2>8. /\ T \in Nat /\ T >= BodyStart /\ T + Required = input.declared /\ T <= input.declared
        /\ cur[1] = BodyStart
    <3>1. 1 \in 1..Ends /\ Ends \in 1..Ends /\ 1 <= Ends  BY <2>5
    <3>2. cur[1] = BodyStart /\ cur[1] <= T  BY <2>4, <3>1 DEF Trace
    <3>3. T \in Nat  BY <2>7, <3>1
    <3> QED  BY <2>4, <2>6, <3>2, <3>3
  <2>9. ASSUME NEW i \in 1..n PROVE s[i] = BytesAt(cur[i], cur[i + 1] - cur[i])
    <3>1. ~Packed  BY DEF Packed
    <3>2. i \in Columns  BY <2>5
    <3>3. Encoding(i) = BytesAt(cur[i], cur[i + 1] - cur[i])
      BY <2>3, <2>4, <2>8, <3>1, <3>2, ColumnEncodes
    <3> QED  BY <3>3
  <2>10. FlattenSeq(s) = BytesAt(BodyStart, T - BodyStart)
    <3>1. s = [i \in 1..n |-> s[i]]  OBVIOUS
    <3>2. \A i, j \in 1..(n + 1) : i <= j => cur[i] <= cur[j]  BY <2>4, <2>5 DEF Trace
    <3>3. \A i \in 1..(n + 1) : cur[i] \in Nat /\ cur[i] >= 2  BY <2>5, <2>7
    <3>4. cur[n + 1] <= input.declared /\ cur[n + 1] = T  BY <2>5, <2>8
    <3> HIDE DEF s, n, T
    <3>5. Slices(s, cur, n)  BY <2>9, <3>1, <3>2, <3>3, <3>4 DEF Slices
    <3>6. FlattenSeq(s) = BytesAt(cur[1], cur[n + 1] - cur[1])
      BY <2>3, <2>5, <3>5, SlicesFlatten
    <3> QED  BY <2>8, <3>4, <3>6
  <2>11. TailEncoding = BytesAt(T, Required)
    <3>1. CASE schema.boolean_tail = "Bytes"
      BY <2>3, <2>4, <2>6, <2>8, <3>1, TailEncodes DEF Values
    <3>2. CASE schema.boolean_tail # "Bytes"
      <4>1. TailEncoding = <<>>  BY <3>2 DEF TailEncoding
      <4>2. Required = 0  BY <3>2 DEF Required, RequiredTail
      <4>3. T >= 2  BY <2>6, <2>8
      <4> QED  BY <2>3, <2>8, <4>1, <4>2, <4>3, SmallSlices
    <3> QED  BY <3>1, <3>2
  <2> DEFINE x == T - BodyStart
  <2>12. x \in Nat /\ BodyStart + x = T /\ BodyStart + x + Required <= input.declared
         /\ x + Required = input.declared - BodyStart
    <3> HIDE DEF T
    <3> QED  BY <2>6, <2>8
  <2>13. BytesAt(BodyStart, x) \o BytesAt(BodyStart + x, Required) = BytesAt(BodyStart, x + Required)
    <3> HIDE DEF x
    <3> QED  BY <2>3, <2>6, <2>12, SlicesJoin
  <2>14. [i \in Columns |-> Encoding(i)] = s  BY <2>5
  <2> HIDE DEF x, s, T
  <2> QED  BY <2>10, <2>11, <2>12, <2>13, <2>14 DEF x
<1>2. Spec => [](InputOK /\ Rebuilt)
  BY CarrierInvariant, PTL DEF CarrierInv
<1> QED
  BY <1>1, <1>2, DecoderInvariant, PTL

---------------------------------------------------------------------------
(* Numbers and dates: what callers make of what was decoded                *)

(* A set of numbers that has 0 and, below n, the next of each it has.      *)
LEMMA UpTo ==
  ASSUME NEW n \in Nat, NEW S, 0 \in S, \A i \in 0..(n - 1) : i \in S => i + 1 \in S
  PROVE  \A i \in 0..n : i \in S
<1> DEFINE Missing == {i \in 0..n : i \notin S}
<1> SUFFICES ASSUME Missing # {} PROVE FALSE  OBVIOUS
<1>1. PICK i \in Missing : \A j \in Missing : i <= j
  <2>1. Missing \in SUBSET Nat  OBVIOUS
  <2> HIDE DEF Missing
  <2> QED  BY <2>1, Least
<1>2. i \in 0..n /\ i \notin S /\ i # 0  BY <1>1
<1>3. i - 1 \in 0..(n - 1) /\ i - 1 \notin Missing /\ (i - 1) + 1 = i  BY <1>1, <1>2
<1>4. i - 1 \in S  BY <1>2, <1>3
<1> QED  BY <1>2, <1>3, <1>4

(* v holds what the first i digits of s stand for.                         *)
Counts(v, base, s) ==
  v = [i \in 0..Len(s) |-> IF i = 0 THEN 0 ELSE base * v[i - 1] + s[i]]

Horner(v, base, s) ==
  /\ v \in [0..Len(s) -> Nat] /\ v[0] = 0
  /\ \A i \in 0..(Len(s) - 1) : v[i + 1] = base * v[i] + s[i + 1]

LEMMA CountsExist ==
  ASSUME NEW base \in Nat, NEW s \in Seq(Nat)
  PROVE  \E v : Counts(v, base, s) /\ Horner(v, base, s)
<1> DEFINE n == Len(s)
           Upto(v, k) == /\ v \in [0..k -> Nat] /\ v[0] = 0
                         /\ \A i \in 0..(k - 1) : v[i + 1] = base * v[i] + s[i + 1]
           S == {k \in 0..n : \E v : Upto(v, k)}
<1>1. n \in Nat /\ \A i \in 1..n : s[i] \in Nat  OBVIOUS
<1>2. 0 \in S
  <2> DEFINE z == [i \in 0..0 |-> 0]
  <2>1. z \in [0..0 -> Nat] /\ z[0] = 0  OBVIOUS
  <2>2. \A i \in 0..(0 - 1) : z[i + 1] = base * z[i] + s[i + 1]  OBVIOUS
  <2>3. Upto(z, 0)  BY <2>1, <2>2, Zenon
  <2> HIDE DEF Upto
  <2> QED  BY <1>1, <2>3
<1>3. ASSUME NEW k \in 0..(n - 1), k \in S PROVE k + 1 \in S
  <2>1. PICK v : Upto(v, k)  BY <1>3
  <2> DEFINE w == [i \in 0..(k + 1) |-> IF i <= k THEN v[i] ELSE base * v[k] + s[k + 1]]
  <2>2. k \in Nat /\ k + 1 \in 0..n /\ v[k] \in Nat /\ s[k + 1] \in Nat  BY <1>1, <2>1
  <2>3. base * v[k] \in Nat /\ base * v[k] + s[k + 1] \in Nat
    <3> DEFINE a == v[k]
    <3>1. a \in Nat  BY <2>2
    <3> HIDE DEF a
    <3>2. base * a \in Nat  BY <3>1
    <3> QED  BY <2>2, <3>2 DEF a
  <2>4. w \in [0..(k + 1) -> Nat] /\ w[0] = 0  BY <2>1, <2>2, <2>3
  <2>5. \A i \in 0..((k + 1) - 1) : w[i + 1] = base * w[i] + s[i + 1]
    <3> SUFFICES ASSUME NEW i \in 0..((k + 1) - 1)
                 PROVE  w[i + 1] = base * w[i] + s[i + 1]
      OBVIOUS
    <3>1. CASE i = k  BY <2>2, <3>1
    <3>2. CASE i # k
      <4>1. i \in 0..(k - 1) /\ i <= k /\ i + 1 <= k /\ i + 1 \in 0..(k + 1) /\ i \in 0..(k + 1)
        BY <2>2, <3>2
      <4>2. w[i + 1] = v[i + 1] /\ w[i] = v[i]  BY <4>1
      <4> QED  BY <2>1, <4>1, <4>2
    <3> QED  BY <3>1, <3>2
  <2>6. Upto(w, k + 1)  BY <2>4, <2>5, Zenon
  <2> QED  BY <2>2, <2>6
<1>4. n \in S
  <2> HIDE DEF S
  <2>1. \A i \in 0..n : i \in S  BY <1>1, <1>2, <1>3, UpTo
  <2> QED  BY <1>1, <2>1
<1>5. PICK v : Upto(v, n)  BY <1>4
<1>6. Horner(v, base, s)  BY <1>5 DEF Horner
<1>7. v = [i \in 0..n |-> v[i]]  BY <1>5
<1>8. \A i \in 0..n : v[i] = IF i = 0 THEN 0 ELSE base * v[i - 1] + s[i]
  <2> SUFFICES ASSUME NEW i \in 0..n, i # 0 PROVE v[i] = base * v[i - 1] + s[i]
    BY <1>5
  <2>1. i - 1 \in 0..(n - 1) /\ (i - 1) + 1 = i  BY <1>1
  <2> QED  BY <1>5, <2>1
<1>9. v = [i \in 0..n |-> IF i = 0 THEN 0 ELSE base * v[i - 1] + s[i]]
  BY <1>7, <1>8, Zenon
<1> QED  BY <1>6, <1>9 DEF Counts

(* What digits stand for is the end of such a count.                       *)
LEMMA Counted ==
  ASSUME NEW base \in Nat, NEW s \in Seq(Nat)
  PROVE  \E v : Horner(v, base, s) /\ NumberIn(base, s) = v[Len(s)]
<1> DEFINE v == CHOOSE v : Counts(v, base, s)
<1>1. Counts(v, base, s)  BY CountsExist, Zenon
<1>2. PICK w : Counts(w, base, s) /\ Horner(w, base, s)  BY CountsExist
<1>3. NumberIn(base, s) = v[Len(s)]
  BY Zenon DEF NumberIn, Counts
<1> HIDE DEF v
<1>4. \A i \in 0..Len(s) : v[i] = w[i]
  <2> DEFINE S == {i \in 0..Len(s) : v[i] = w[i]}
  <2>0. Len(s) \in Nat  OBVIOUS
  <2>1. \A i \in 0..Len(s) : v[i] = IF i = 0 THEN 0 ELSE base * v[i - 1] + s[i]
    BY <1>1, Zenon DEF Counts
  <2>2. \A i \in 0..Len(s) : w[i] = IF i = 0 THEN 0 ELSE base * w[i - 1] + s[i]
    BY <1>2, Zenon DEF Counts
  <2>3. 0 \in S  BY <2>0, <2>1, <2>2
  <2>4. ASSUME NEW i \in 0..(Len(s) - 1), i \in S PROVE i + 1 \in S
    <3>1. i + 1 \in 0..Len(s) /\ i + 1 # 0 /\ (i + 1) - 1 = i /\ v[i] = w[i]  BY <2>0, <2>4
    <3>2. v[i + 1] = base * v[i] + s[i + 1]  BY <2>1, <3>1
    <3>3. w[i + 1] = base * w[i] + s[i + 1]  BY <2>2, <3>1
    <3> QED  BY <3>1, <3>2, <3>3
  <2> HIDE DEF S
  <2>5. \A i \in 0..Len(s) : i \in S  BY <2>0, <2>3, <2>4, UpTo
  <2> QED  BY <2>5 DEF S
<1>5. v[Len(s)] = w[Len(s)]  BY <1>4
<1> QED  BY <1>2, <1>3, <1>5

LEMMA ZerosAre ==
  ASSUME NEW n \in Nat
  PROVE  /\ Zeros(n) \in Seq(0..9) /\ Zeros(n) \in Seq(Nat)
         /\ Len(Zeros(n)) = n
         /\ \A i \in 1..n : Zeros(n)[i] = 0
BY DEF Zeros

LEMMA Joined ==
  ASSUME NEW s \in Seq(Nat), NEW t \in Seq(Nat)
  PROVE  /\ s \o t \in Seq(Nat) /\ Len(s \o t) = Len(s) + Len(t)
         /\ \A i \in 1..Len(s) : (s \o t)[i] = s[i]
         /\ \A i \in 1..Len(t) : (s \o t)[Len(s) + i] = t[i]
OBVIOUS

(* Leading zeros do not count.                                             *)
LEMMA LeadingZeros ==
  ASSUME NEW base \in Nat, NEW n \in Nat, NEW s \in Seq(Nat)
  PROVE  NumberIn(base, Zeros(n) \o s) = NumberIn(base, s)
<1> DEFINE z == Zeros(n)
           t == z \o s
           m == Len(s)
<1>1. /\ z \in Seq(Nat) /\ Len(z) = n /\ \A i \in 1..n : z[i] = 0
      /\ m \in Nat
  BY ZerosAre
<1> HIDE DEF z
<1>2. /\ t \in Seq(Nat) /\ Len(t) = n + m
      /\ \A i \in 1..n : t[i] = 0
      /\ \A i \in 1..m : t[n + i] = s[i]
  BY <1>1, Joined
<1> HIDE DEF t
<1>3. PICK v : Horner(v, base, t) /\ NumberIn(base, t) = v[Len(t)]
  BY <1>2, Counted
<1>4. PICK w : Horner(w, base, s) /\ NumberIn(base, s) = w[m]
  BY Counted
<1>5. \A i \in 0..(n + m - 1) : v[i + 1] = base * v[i] + t[i + 1]
  BY <1>2, <1>3 DEF Horner
<1>6. \A i \in 0..n : i \in {j \in 0..n : v[j] = 0}
  <2> DEFINE S == {j \in 0..n : v[j] = 0}
  <2>1. 0 \in S  BY <1>3 DEF Horner
  <2>2. ASSUME NEW i \in 0..(n - 1), i \in S PROVE i + 1 \in S
    <3>1. i \in 0..(n + m - 1) /\ i + 1 \in 1..n /\ v[i] = 0  BY <1>1, <2>2
    <3>2. v[i + 1] = base * 0 + 0  BY <1>2, <1>5, <3>1
    <3> QED  BY <3>1, <3>2
  <2> HIDE DEF S
  <2>3. \A i \in 0..n : i \in S  BY <2>1, <2>2, UpTo
  <2> QED  BY <2>3 DEF S
<1>7. \A i \in 0..m : i \in {j \in 0..m : v[n + j] = w[j]}
  <2> DEFINE S == {j \in 0..m : v[n + j] = w[j]}
  <2>1. 0 \in S
    <3>1. v[n + 0] = 0 /\ w[0] = 0  BY <1>4, <1>6 DEF Horner
    <3> QED  BY <1>1, <3>1
  <2>2. ASSUME NEW i \in 0..(m - 1), i \in S PROVE i + 1 \in S
    <3>1. /\ n + i \in 0..(n + m - 1) /\ i + 1 \in 1..m /\ i + 1 \in 0..m
          /\ (n + i) + 1 = n + (i + 1)
      BY <1>1
    <3>5. v[n + i] = w[i]  BY <2>2
    <3>2. v[n + (i + 1)] = base * v[n + i] + t[n + (i + 1)]  BY <1>5, <3>1
    <3>3. w[i + 1] = base * w[i] + s[i + 1]  BY <1>4, <2>2 DEF Horner
    <3>4. t[n + (i + 1)] = s[i + 1]  BY <1>2, <3>1
    <3> QED  BY <3>1, <3>2, <3>3, <3>4, <3>5
  <2> HIDE DEF S
  <2>3. \A i \in 0..m : i \in S  BY <1>1, <2>1, <2>2, UpTo
  <2> QED  BY <2>3 DEF S
<1>8. v[n + m] = w[m]  BY <1>1, <1>7
<1> QED  BY <1>2, <1>3, <1>4, <1>8 DEF t, z

(* A number is zero only if its digits are.                                *)
LEMMA NumberIsZero ==
  ASSUME NEW s \in Seq(Nat), s # <<>>, s[1] # 0
  PROVE  NumberIn(10, s) \in Nat \ {0}
<1> DEFINE n == Len(s)
<1>1. n \in Nat \ {0} /\ \A i \in 1..n : s[i] \in Nat  OBVIOUS
<1>2. PICK v : Horner(v, 10, s) /\ NumberIn(10, s) = v[n]  BY Counted
<1>3. \A i \in 0..n : i \in {j \in 0..n : j = 0 \/ v[j] # 0}
  <2> DEFINE S == {j \in 0..n : j = 0 \/ v[j] # 0}
  <2>1. 0 \in S  BY <1>1
  <2>2. ASSUME NEW i \in 0..(n - 1), i \in S PROVE i + 1 \in S
    <3>0. i \in 0..n /\ i \in Nat /\ i + 1 \in 1..n /\ s[i + 1] \in Nat  BY <1>1
    <3>1. v[i] \in Nat /\ v[i + 1] = 10 * v[i] + s[i + 1]
      <4>1. v \in [0..n -> Nat]  BY <1>2 DEF Horner
      <4>2. v[i + 1] = 10 * v[i] + s[i + 1]  BY <1>2 DEF Horner
      <4> HIDE DEF n
      <4> QED  BY <3>0, <4>1, <4>2
    <3>3. i = 0 => s[i + 1] # 0  BY <1>1
    <3>4. i # 0 => v[i] # 0  BY <2>2
    <3> DEFINE a == v[i]
               b == s[i + 1]
    <3>5. a \in Nat /\ b \in Nat /\ (a # 0 \/ b # 0)  BY <3>0, <3>1, <3>3, <3>4
    <3>6. 10 * a + b # 0
      <4> HIDE DEF a, b
      <4> QED  BY <3>5
    <3> QED  BY <1>1, <3>0, <3>1, <3>6
  <2> HIDE DEF S
  <2>3. \A i \in 0..n : i \in S  BY <1>1, <2>1, <2>2, UpTo
  <2> QED  BY <2>3 DEF S
<1>4. v[n] \in Nat /\ v[n] # 0  BY <1>1, <1>2, <1>3 DEF Horner
<1> QED  BY <1>2, <1>4

LEMMA NumberTypes ==
  ASSUME NEW base \in Nat, NEW s \in Seq(Nat)
  PROVE  /\ NumberIn(base, s) \in Nat
         /\ Len(s) = 0 => NumberIn(base, s) = 0
         /\ Len(s) = 1 => NumberIn(base, s) = s[1]
         /\ Len(s) = 2 => NumberIn(base, s) = base * s[1] + s[2]
         /\ Len(s) = 3 => NumberIn(base, s) = base * (base * s[1] + s[2]) + s[3]
<1> DEFINE n == Len(s)
<1>1. n \in Nat  OBVIOUS
<1>2. PICK v : Horner(v, base, s) /\ NumberIn(base, s) = v[n]  BY Counted
<1>3. v[n] \in Nat /\ v[0] = 0  BY <1>1, <1>2 DEF Horner
<1>4. \A i \in 0..(n - 1) : v[i + 1] = base * v[i] + s[i + 1]  BY <1>2 DEF Horner
<1>5. ASSUME n >= 1 PROVE v[1] = s[1]
  <2>1. 0 \in 0..(n - 1) /\ 0 + 1 = 1 /\ s[1] \in Nat  BY <1>1, <1>5
  <2>2. v[1] = base * 0 + s[1]  BY <1>3, <1>4, <2>1
  <2> QED  BY <2>1, <2>2
<1>6. ASSUME n >= 2 PROVE v[2] = base * s[1] + s[2]
  <2>1. 1 \in 0..(n - 1) /\ 1 + 1 = 2  BY <1>1, <1>6
  <2> QED  BY <1>1, <1>4, <1>5, <1>6, <2>1
<1>7. ASSUME n >= 3 PROVE v[3] = base * (base * s[1] + s[2]) + s[3]
  <2>1. 2 \in 0..(n - 1) /\ 2 + 1 = 3  BY <1>1, <1>7
  <2> QED  BY <1>1, <1>4, <1>6, <1>7, <2>1
<1> HIDE DEF n
<1>8. /\ v[n] \in Nat
      /\ n = 0 => v[n] = 0
      /\ n = 1 => v[n] = s[1]
      /\ n = 2 => v[n] = base * s[1] + s[2]
      /\ n = 3 => v[n] = base * (base * s[1] + s[2]) + s[3]
  BY <1>3, <1>5, <1>6, <1>7
<1> QED  BY <1>2, <1>8 DEF n

(* Zeros that follow multiply, one by one, by the base.                    *)
LEMMA MoreZeros ==
  ASSUME NEW base \in Nat, NEW n \in Nat, NEW s \in Seq(Nat)
  PROVE  \E v \in [0..n -> Nat] :
           /\ v[0] = NumberIn(base, s)
           /\ v[n] = NumberIn(base, s \o Zeros(n))
           /\ \A j \in 0..(n - 1) : v[j + 1] = base * v[j]
<1> DEFINE z == Zeros(n)
           t == s \o z
           m == Len(s)
<1>1. /\ z \in Seq(Nat) /\ Len(z) = n /\ \A i \in 1..n : z[i] = 0
      /\ m \in Nat
  BY ZerosAre
<1> HIDE DEF z
<1>2. /\ t \in Seq(Nat) /\ Len(t) = m + n
      /\ \A i \in 1..m : t[i] = s[i]
      /\ \A i \in 1..n : t[m + i] = 0
  <2>1. t \in Seq(Nat) /\ Len(t) = m + n  BY <1>1, Joined
  <2>2. \A i \in 1..m : t[i] = s[i]  BY <1>1, Joined
  <2>3. \A i \in 1..n : t[m + i] = z[i]  BY <1>1, Joined
  <2> QED  BY <1>1, <2>1, <2>2, <2>3
<1> HIDE DEF t
<1>3. PICK v : Horner(v, base, t) /\ NumberIn(base, t) = v[m + n]
  BY <1>2, Counted
<1>4. PICK w : Horner(w, base, s) /\ NumberIn(base, s) = w[m]
  BY Counted
<1>5. /\ \A i \in 0..(m + n - 1) : v[i + 1] = base * v[i] + t[i + 1]
      /\ \A i \in 0..(m + n) : v[i] \in Nat
      /\ v[0] = 0
  <2> DEFINE k == m + n
  <2>0. Len(t) = k  BY <1>2
  <2>1. \A i \in 0..(k - 1) : v[i + 1] = base * v[i] + t[i + 1]
    BY <1>3, <2>0 DEF Horner
  <2>2. v \in [0..k -> Nat] /\ v[0] = 0
    BY <1>3, <2>0 DEF Horner
  <2> HIDE DEF k
  <2>3. \A i \in 0..k : v[i] \in Nat  BY <2>2
  <2> QED  BY <2>1, <2>2, <2>3 DEF k
<1>6. /\ \A i \in 0..(m - 1) : w[i + 1] = base * w[i] + s[i + 1]
      /\ w[0] = 0
  BY <1>4 DEF Horner
<1>7. v[m] = w[m]
  <2> DEFINE S == {j \in 0..m : v[j] = w[j]}
  <2>1. 0 \in S  BY <1>1, <1>5, <1>6
  <2>2. ASSUME NEW i \in 0..(m - 1), i \in S PROVE i + 1 \in S
    <3>1. i \in 0..(m + n - 1) /\ i + 1 \in 1..m /\ i + 1 \in 0..m  BY <1>1
    <3>2. v[i] = w[i]  BY <2>2
    <3>3. t[i + 1] = s[i + 1]  BY <1>2, <3>1
    <3>4. v[i + 1] = base * w[i] + s[i + 1]  BY <1>5, <3>1, <3>2, <3>3
    <3> QED  BY <1>6, <3>1, <3>4
  <2>3. \A i \in 0..m : i \in S
    <3> HIDE DEF S
    <3> QED  BY <1>1, <2>1, <2>2, UpTo
  <2> QED  BY <1>1, <2>3
<1> DEFINE r == [j \in 0..n |-> v[m + j]]
<1>8. r \in [0..n -> Nat] /\ r[0] = v[m] /\ r[n] = v[m + n]  BY <1>1, <1>5
<1>9. ASSUME NEW j \in 0..(n - 1) PROVE r[j + 1] = base * r[j]
  <2>1. /\ m + j \in 0..(m + n - 1) /\ j + 1 \in 1..n /\ (m + j) + 1 = m + (j + 1)
        /\ j \in 0..n /\ j + 1 \in 0..n /\ m + j \in 0..(m + n)
    BY <1>1
  <2>2. v[m + (j + 1)] = base * v[m + j] + 0  BY <1>2, <1>5, <2>1
  <2>3. base * v[m + j] \in Nat  BY <1>5, <2>1
  <2> QED  BY <2>1, <2>2, <2>3
<1> HIDE DEF r
<1>10. /\ r[0] = NumberIn(base, s)
       /\ r[n] = NumberIn(base, s \o Zeros(n))
  BY <1>3, <1>4, <1>7, <1>8 DEF t, z
<1> QED  BY <1>8, <1>9, <1>10

LEMMA One ==
  ASSUME NEW base \in Nat
  PROVE  <<1>> \in Seq(Nat) /\ NumberIn(base, <<1>>) = 1
<1> DEFINE one == <<1>>
<1>1. one \in Seq(Nat) /\ Len(one) = 1 /\ one[1] = 1  OBVIOUS
<1> HIDE DEF one
<1>2. one \in Seq(Nat) /\ NumberIn(base, one) = 1  BY <1>1, NumberTypes
<1> QED  BY <1>2 DEF one

(* They multiply by a power.                                               *)
LEMMA Powers ==
  ASSUME NEW base \in Nat, NEW n \in Nat
  PROVE  \E u \in [0..n -> Nat] :
           u[0] = 1 /\ u[n] = Power(base, n)
           /\ \A j \in 0..(n - 1) : u[j + 1] = base * u[j]
<1> DEFINE one == <<1>>
<1>1. one \in Seq(Nat) /\ NumberIn(base, one) = 1  BY One
<1>2. Power(base, n) = NumberIn(base, one \o Zeros(n))
  BY DEF Power
<1> HIDE DEF one
<1>3. PICK u \in [0..n -> Nat] :
        /\ u[0] = NumberIn(base, one)
        /\ u[n] = NumberIn(base, one \o Zeros(n))
        /\ \A j \in 0..(n - 1) : u[j + 1] = base * u[j]
  BY <1>1, MoreZeros
<1> QED  BY <1>1, <1>2, <1>3

LEMMA TrailingZeros ==
  ASSUME NEW base \in Nat, NEW n \in Nat, NEW s \in Seq(Nat)
  PROVE  /\ Power(base, n) \in Nat
         /\ NumberIn(base, s \o Zeros(n))
              = NumberIn(base, s) * Power(base, n)
<1> DEFINE value == NumberIn(base, s)
<1>2. value \in Nat  BY NumberTypes
<1>3. PICK v \in [0..n -> Nat] :
        /\ v[0] = value
        /\ v[n] = NumberIn(base, s \o Zeros(n))
        /\ \A j \in 0..(n - 1) : v[j + 1] = base * v[j]
  BY MoreZeros
<1>4. PICK u \in [0..n -> Nat] :
        /\ u[0] = 1 /\ u[n] = Power(base, n)
        /\ \A j \in 0..(n - 1) : u[j + 1] = base * u[j]
  BY Powers
<1>5. u[n] \in Nat  BY <1>4
<1> DEFINE S == {j \in 0..n : v[j] = value * u[j]}
<1> HIDE DEF value
<1>6. 0 \in S  BY <1>2, <1>3, <1>4
<1>7. ASSUME NEW j \in 0..(n - 1), j \in S PROVE j + 1 \in S
  <2>1. j \in 0..n /\ j + 1 \in 0..n /\ u[j] \in Nat  BY <1>4
  <2>2. v[j] = value * u[j]  BY <1>7
  <2> DEFINE x == u[j]
  <2>3. x \in Nat  BY <2>1
  <2> HIDE DEF x
  <2>4. base * (value * x) = value * (base * x)  BY <1>2, <2>3
  <2>5. v[j + 1] = base * (value * x) /\ u[j + 1] = base * x
    BY <1>3, <1>4, <2>2 DEF x
  <2> QED  BY <2>1, <2>4, <2>5
<1>8. v[n] = value * u[n]
  <2> HIDE DEF S
  <2>1. \A j \in 0..n : j \in S  BY <1>6, <1>7, UpTo
  <2> QED  BY <2>1 DEF S
<1> QED  BY <1>3, <1>4, <1>5, <1>8 DEF value

LEMMA PowerSteps ==
  ASSUME NEW base \in Nat, NEW n \in Nat
  PROVE  /\ Power(base, 0) = 1
         /\ Power(base, n + 1) = base * Power(base, n)
<1>1. Power(base, 0) = 1  BY Powers
<1>2. PICK u \in [0..n -> Nat] :
        /\ u[0] = 1 /\ u[n] = Power(base, n)
        /\ \A j \in 0..(n - 1) : u[j + 1] = base * u[j]
  BY Powers
<1>3. PICK w \in [0..(n + 1) -> Nat] :
        /\ w[0] = 1 /\ w[n + 1] = Power(base, n + 1)
        /\ \A j \in 0..((n + 1) - 1) : w[j + 1] = base * w[j]
  <2>1. n + 1 \in Nat  OBVIOUS
  <2> QED  BY <2>1, Powers
<1> DEFINE S == {j \in 0..n : u[j] = w[j]}
<1>4. 0 \in S  BY <1>2, <1>3
<1>5. ASSUME NEW j \in 0..(n - 1), j \in S PROVE j + 1 \in S
  <2>1. j \in 0..((n + 1) - 1) /\ j + 1 \in 0..n  OBVIOUS
  <2> QED  BY <1>2, <1>3, <1>5, <2>1
<1>6. u[n] = w[n]
  <2> HIDE DEF S
  <2>1. \A j \in 0..n : j \in S  BY <1>4, <1>5, UpTo
  <2> QED  BY <2>1 DEF S
<1>7. w[n + 1] = base * w[n]
  <2>1. n \in 0..((n + 1) - 1)  OBVIOUS
  <2> QED  BY <1>3, <2>1
<1> QED  BY <1>1, <1>2, <1>3, <1>6, <1>7

(* A base-100 digit is two digits.                                         *)
LEMMA PowersOfHundred ==
  ASSUME NEW n \in Nat
  PROVE  Power(10, 2 * n) = Power(100, n)
<1> DEFINE S == {i \in 0..n : Power(10, 2 * i) = Power(100, i)}
<1>1. 0 \in S  BY PowerSteps
<1>2. ASSUME NEW i \in 0..(n - 1), i \in S PROVE i + 1 \in S
  <2> DEFINE x == Power(10, 2 * i)
  <2>1. i \in Nat /\ i + 1 \in 0..n /\ 2 * i \in Nat /\ 2 * i + 1 \in Nat  OBVIOUS
  <2>2. x = Power(100, i)  BY <1>2
  <2>3. x \in Nat  BY <2>1, One, TrailingZeros
  <2>4. Power(10, 2 * i + 1) = 10 * x  BY <2>1, PowerSteps
  <2>5. Power(10, (2 * i + 1) + 1) = 10 * (10 * x)  BY <2>1, <2>4, PowerSteps
  <2>6. Power(100, i + 1) = 100 * x  BY <2>1, <2>2, PowerSteps
  <2>7. 2 * (i + 1) = (2 * i + 1) + 1  BY <2>1
  <2> HIDE DEF x
  <2>8. 10 * (10 * x) = 100 * x  BY <2>3
  <2> QED  BY <2>1, <2>5, <2>6, <2>7, <2>8
<1>3. \A i \in 0..n : i \in S
  <2> HIDE DEF S
  <2> QED  BY <1>1, <1>2, UpTo
<1> QED  BY <1>3

LEMMA SmallNumbers ==
  ASSUME NEW k \in Nat, NEW s \in Seq(0..k)
  PROVE  s \in Seq(Nat) /\ Len(s) \in Nat /\ \A i \in 1..Len(s) : s[i] \in 0..k
OBVIOUS

LEMMA OctetIs ==
  ASSUME NEW x \in Octets
  PROVE  x \in Nat /\ x <= 255
BY DEF Octets

LEMMA OctetNumbers ==
  ASSUME NEW s \in Seq(Octets)
  PROVE  s \in Seq(Nat) /\ Len(s) \in Nat /\ \A i \in 1..Len(s) : s[i] \in Octets
<1> DEFINE k == 255
<1>1. k \in Nat /\ Octets = 0..k  BY DEF Octets
<1> HIDE DEF k
<1>2. s \in Seq(0..k)  BY <1>1
<1> QED  BY <1>1, <1>2, SmallNumbers

(* The pairs of digits stand for the base-100 digits.                      *)
LEMMA PairsAre ==
  ASSUME token \in Tokens, ~InvalidDigit
  PROVE  /\ Pairs \in Seq(0..9) /\ Len(Pairs) = 2 * Len(token.digits)
         /\ NumberIn(10, Pairs) = NumberIn(100, token.digits)
<1> DEFINE d == token.digits
           n == Len(d)
           p == Pairs
<1>0. d \in Seq(Octets)  BY DEF Tokens
<1>1. n \in Nat /\ d \in Seq(Nat) /\ \A i \in 1..n : d[i] \in Octets
  <2> HIDE DEF d
  <2> QED  BY <1>0, OctetNumbers
<1>2. \A i \in 1..n : d[i] \in Nat /\ d[i] <= 99
  <2>1. \A i \in 1..n : ~(d[i] > 99)  BY DEF InvalidDigit
  <2> SUFFICES ASSUME NEW i \in 1..n PROVE d[i] \in Nat /\ d[i] <= 99  OBVIOUS
  <2> DEFINE x == d[i]
  <2>2. x \in Octets /\ ~(x > 99)  BY <1>1, <2>1
  <2> HIDE DEF x
  <2>3. x \in Nat /\ x <= 99  BY <2>2, OctetIs
  <2> QED  BY <2>3 DEF x
<1>3. p = [i \in 1..(2 * n) |->
             IF i % 2 = 1 THEN d[(i + 1) \div 2] \div 10 ELSE d[i \div 2] % 10]
  BY DEF Pairs
<1> HIDE DEF d, p
<1> HIDE DEF n
<1>4. \A i \in 1..(2 * n) :
        (IF i % 2 = 1 THEN d[(i + 1) \div 2] \div 10 ELSE d[i \div 2] % 10) \in 0..9
  <2> SUFFICES ASSUME NEW i \in 1..(2 * n)
               PROVE  (IF i % 2 = 1 THEN d[(i + 1) \div 2] \div 10 ELSE d[i \div 2] % 10) \in 0..9
    OBVIOUS
  <2>1. CASE i % 2 = 1
    <3>1. (i + 1) \div 2 \in 1..n  BY <1>1, <2>1
    <3> DEFINE x == d[(i + 1) \div 2]
    <3>2. x \in Nat /\ x <= 99  BY <1>2, <3>1
    <3> HIDE DEF x
    <3>3. x \div 10 \in 0..9  BY <3>2
    <3> QED  BY <2>1, <3>3 DEF x
  <2>2. CASE i % 2 # 1
    <3>1. i \div 2 \in 1..n  BY <1>1, <2>2
    <3> DEFINE x == d[i \div 2]
    <3>2. x \in Nat /\ x <= 99  BY <1>2, <3>1
    <3> HIDE DEF x
    <3>3. x % 10 \in 0..9  BY <3>2
    <3> QED  BY <2>2, <3>3 DEF x
  <2> QED  BY <2>1, <2>2
<1>5. p \in Seq(0..9) /\ Len(p) = 2 * n
  <2>1. 2 * n \in Nat  BY <1>1
  <2> DEFINE m == 2 * n
  <2> HIDE DEF m
  <2>2. p \in [1..m -> 0..9]  BY <1>3, <1>4 DEF m
  <2> QED  BY <2>1, <2>2 DEF m
<1>6. \A i \in 1..n : p[2 * i - 1] = d[i] \div 10 /\ p[2 * i] = d[i] % 10
  <2> SUFFICES ASSUME NEW i \in 1..n
               PROVE  p[2 * i - 1] = d[i] \div 10 /\ p[2 * i] = d[i] % 10
    OBVIOUS
  <2>1. /\ 2 * i - 1 \in 1..(2 * n) /\ (2 * i - 1) % 2 = 1 /\ ((2 * i - 1) + 1) \div 2 = i
        /\ 2 * i \in 1..(2 * n) /\ (2 * i) % 2 # 1 /\ (2 * i) \div 2 = i
    BY <1>1
  <2> QED  BY <1>3, <2>1
<1>7. p \in Seq(Nat)  BY <1>5
<1>8. PICK v : Horner(v, 10, p) /\ NumberIn(10, p) = v[2 * n]
  BY <1>5, <1>7, Counted
<1>9. PICK w : Horner(w, 100, d) /\ NumberIn(100, d) = w[n]
  BY <1>1, Counted DEF n
<1>10. /\ \A i \in 0..(2 * n - 1) : v[i + 1] = 10 * v[i] + p[i + 1]
       /\ \A i \in 0..(2 * n) : v[i] \in Nat
       /\ v[0] = 0
  BY <1>5, <1>8 DEF Horner
<1>11. /\ \A i \in 0..(n - 1) : w[i + 1] = 100 * w[i] + d[i + 1]
       /\ w[0] = 0
  BY <1>9 DEF Horner, n
<1> DEFINE S == {i \in 0..n : v[2 * i] = w[i]}
<1>12. 0 \in S  BY <1>1, <1>10, <1>11
<1>13. ASSUME NEW i \in 0..(n - 1), i \in S PROVE i + 1 \in S
  <2>1. /\ 2 * i \in 0..(2 * n - 1) /\ 2 * i + 1 \in 0..(2 * n - 1) /\ i + 1 \in 1..n
        /\ 2 * (i + 1) - 1 = 2 * i + 1 /\ 2 * (i + 1) = (2 * i + 1) + 1 /\ i + 1 \in 0..n
        /\ 2 * i \in 0..(2 * n)
    BY <1>1
  <2> DEFINE x == d[i + 1]
             y == v[2 * i]
  <2>2. x \in Nat /\ x <= 99 /\ y \in Nat /\ y = w[i]  BY <1>2, <1>10, <1>13, <2>1
  <2>3. v[2 * i + 1] = 10 * y + (x \div 10)  BY <1>6, <1>10, <2>1
  <2>4. v[(2 * i + 1) + 1] = 10 * v[2 * i + 1] + (x % 10)  BY <1>6, <1>10, <2>1
  <2>5. w[i + 1] = 100 * y + x  BY <1>11, <2>2
  <2> HIDE DEF x, y
  <2>6. 10 * (10 * y + (x \div 10)) + (x % 10) = 100 * y + x  BY <2>2
  <2> QED  BY <2>1, <2>3, <2>4, <2>5, <2>6
<1>14. v[2 * n] = w[n]
  <2> HIDE DEF S
  <2>1. \A i \in 0..n : i \in S  BY <1>1, <1>12, <1>13, UpTo
  <2> QED  BY <1>1, <2>1 DEF S
<1> QED  BY <1>5, <1>8, <1>9, <1>14 DEF p, d, n

LEMMA SameSeq ==
  ASSUME NEW s \in Seq(Nat), NEW t \in Seq(Nat), Len(s) = Len(t),
         \A i \in 1..Len(s) : s[i] = t[i]
  PROVE  s = t
BY SeqEqual

(* Trimming leaves the number, and a coefficient that begins with zero     *)
(* only if it is that.                                                     *)
LEMMA CanonicalIs ==
  ASSUME NEW s \in Seq(0..9), s # <<>>
  PROVE  /\ Canonical(s) \in Seq(0..9) /\ Canonical(s) # <<>>
         /\ NumberIn(10, Canonical(s)) = NumberIn(10, s)
<1> DEFINE n == Len(s)
<1>1. n \in Nat /\ n > 0 /\ s \in Seq(Nat) /\ \A i \in 1..n : s[i] \in 0..9
  <2>1. n > 0  OBVIOUS
  <2> QED  BY <2>1, SmallNumbers
<1>2. CASE \A i \in 1..n : s[i] = 0
  <2>1. Canonical(s) = <<0>>  BY <1>2 DEF Canonical
  <2>2. <<0>> \in Seq(0..9) /\ <<0>> # <<>>  OBVIOUS
  <2>3. NumberIn(10, <<0>>) = 0
    <3> DEFINE zero == <<0>>
    <3>1. zero \in Seq(Nat) /\ Len(zero) = 1 /\ zero[1] = 0  OBVIOUS
    <3> HIDE DEF zero
    <3>2. NumberIn(10, zero) = 0  BY <3>1, NumberTypes
    <3> QED  BY <3>2 DEF zero
  <2>4. NumberIn(10, s) = 0
    <3>1. s = Zeros(n) \o <<>>  BY <1>1, <1>2 DEF Zeros
    <3>2. <<>> \in Seq(Nat) /\ Len(<<>>) = 0  OBVIOUS
    <3>3. NumberIn(10, <<>>) = 0  BY <3>2, NumberTypes
    <3>4. NumberIn(10, Zeros(n) \o <<>>) = NumberIn(10, <<>>)
      BY <1>1, <3>2, LeadingZeros
    <3> QED  BY <3>1, <3>3, <3>4
  <2> QED  BY <2>1, <2>2, <2>3, <2>4
<1>3. CASE ~(\A i \in 1..n : s[i] = 0)
  <2> DEFINE k == FirstNonZero(s)
             t == SubSeq(s, k, n)
  <2>1. \E i \in 1..n : s[i] # 0 /\ \A j \in 1..(i - 1) : s[j] = 0
    <3> DEFINE S == {i \in 1..n : s[i] # 0}
    <3>1. S \in SUBSET Nat /\ S # {}  BY <1>3
    <3>2. PICK i \in S : \A j \in S : i <= j
      <4> HIDE DEF S
      <4> QED  BY <3>1, Least
    <3>3. i \in 1..n /\ s[i] # 0  BY <3>2
    <3>4. \A j \in 1..(i - 1) : j \in 1..n /\ ~(i <= j)  BY <1>1, <3>3
    <3> QED  BY <3>2, <3>3, <3>4
  <2>2. k \in 1..n /\ s[k] # 0 /\ \A j \in 1..(k - 1) : s[j] = 0
    BY <2>1, Zenon DEF FirstNonZero
  <2>3. Canonical(s) = t  BY <1>3 DEF Canonical
  <2> HIDE DEF k
  <2>9. k \in Nat /\ k - 1 \in Nat  BY <1>1, <2>2
  <2>4. t \in Seq(0..9) /\ Len(t) = n - k + 1 /\ \A i \in 1..(n - k + 1) : t[i] = s[k + i - 1]
    BY <1>1, <2>2
  <2>5. s = Zeros(k - 1) \o t
    <3> DEFINE z == Zeros(k - 1)
    <3>1. z \in Seq(Nat) /\ Len(z) = k - 1 /\ \A i \in 1..(k - 1) : z[i] = 0
      BY <2>9, ZerosAre
    <3> HIDE DEF z, t
    <3>2. t \in Seq(Nat)  BY <2>4, SmallNumbers
    <3> HIDE DEF n
    <3>3. /\ z \o t \in Seq(Nat) /\ Len(z \o t) = n
          /\ \A i \in 1..(k - 1) : (z \o t)[i] = 0
          /\ \A i \in 1..(n - k + 1) : (z \o t)[(k - 1) + i] = s[k + i - 1]
      <4>1. /\ z \o t \in Seq(Nat) /\ Len(z \o t) = (k - 1) + (n - k + 1)
            /\ \A i \in 1..(k - 1) : (z \o t)[i] = z[i]
            /\ \A i \in 1..(n - k + 1) : (z \o t)[(k - 1) + i] = t[i]
        <5> DEFINE m == n - k + 1
                   q == k - 1
        <5>1. Len(t) = m /\ Len(z) = q  BY <2>4, <3>1
        <5> HIDE DEF m, q
        <5>2. /\ z \o t \in Seq(Nat) /\ Len(z \o t) = q + m
              /\ \A i \in 1..q : (z \o t)[i] = z[i]
              /\ \A i \in 1..m : (z \o t)[q + i] = t[i]
          BY <3>1, <3>2, <5>1, Joined
        <5> QED  BY <5>2 DEF m, q
      <4>2. (k - 1) + (n - k + 1) = n  BY <1>1, <2>9
      <4> QED  BY <2>4, <3>1, <4>1, <4>2
    <3>4. \A i \in 1..n : (z \o t)[i] = s[i]
      <4> SUFFICES ASSUME NEW i \in 1..n PROVE (z \o t)[i] = s[i]  OBVIOUS
      <4>1. CASE i < k  BY <2>2, <2>9, <3>3, <4>1
      <4>2. CASE ~(i < k)
        <5> DEFINE j == i - k + 1
        <5>1. j \in 1..(n - k + 1) /\ (k - 1) + j = i /\ k + j - 1 = i  BY <1>1, <2>9, <4>2
        <5> QED  BY <3>3, <5>1
      <4> QED  BY <4>1, <4>2
    <3>5. z \o t = s
      <4> DEFINE zt == z \o t
      <4>1. zt \in Seq(Nat) /\ Len(zt) = Len(s) /\ \A i \in 1..Len(s) : zt[i] = s[i]
        BY <3>3, <3>4 DEF n
      <4> HIDE DEF zt
      <4>2. Len(s) = Len(zt) /\ \A i \in 1..Len(s) : s[i] = zt[i]  BY <4>1
      <4>3. s = zt  BY <1>1, <4>1, <4>2, SameSeq
      <4> QED  BY <4>3 DEF zt
    <3> QED  BY <3>5 DEF z
  <2>6. k - 1 \in Nat /\ t \in Seq(Nat) /\ t # <<>>
    <3>1. n - k + 1 > 0  BY <1>1, <2>2
    <3> HIDE DEF t, n
    <3>2. t \in Seq(Nat)  BY <2>4, SmallNumbers
    <3> QED  BY <2>4, <2>9, <3>1, <3>2
  <2>7. NumberIn(10, s) = NumberIn(10, t)
    <3> HIDE DEF t
    <3> QED  BY <2>5, <2>6, LeadingZeros
  <2> QED  BY <2>3, <2>4, <2>6, <2>7
<1> QED  BY <1>2, <1>3

Canonic(c) == c = <<0>> \/ c[1] # 0

LEMMA ZeroIs == <<0>> \in Seq(0..9) /\ <<0>> # <<>> /\ NumberIn(10, <<0>>) = 0
<1> DEFINE zero == <<0>>
<1>1. zero \in Seq(0..9) /\ zero \in Seq(Nat) /\ Len(zero) = 1 /\ zero[1] = 0  OBVIOUS
<1>2. zero # <<>>  OBVIOUS
<1> HIDE DEF zero
<1>3. NumberIn(10, zero) = 0  BY <1>1, NumberTypes
<1> QED  BY <1>1, <1>2, <1>3 DEF zero

LEMMA NotEmpty ==
  ASSUME NEW d \in Seq(Nat), Len(d) > 0
  PROVE  d # <<>>
  OBVIOUS

LEMMA Triple ==
  ASSUME NEW S, NEW a \in S, NEW b \in S, NEW c \in S
  PROVE  LET d == <<a, b, c>>
         IN  d \in Seq(S) /\ Len(d) = 3 /\ d[1] = a /\ d[2] = b /\ d[3] = c
OBVIOUS

(* A short number is written with its digits.                              *)
LEMMA DigitsAre ==
  ASSUME NEW n \in Nat, n <= 999
  PROVE  /\ DigitsOf(n) \in Seq(0..9) /\ DigitsOf(n) # <<>>
         /\ NumberIn(10, DigitsOf(n)) = n
         /\ Canonic(DigitsOf(n))
<1> DEFINE d == DigitsOf(n)
<1>1. CASE n < 10
  <2>1. d = <<n>>  BY <1>1 DEF DigitsOf
  <2>2. d \in Seq(0..9) /\ d \in Seq(Nat) /\ Len(d) = 1 /\ d[1] = n
    <3>1. n \in 0..9  BY <1>1
    <3> HIDE DEF d
    <3> QED  BY <2>1, <3>1
  <2>3. n = 0 => d = <<0>>  BY <2>1
  <2> HIDE DEF d
  <2>4. NumberIn(10, d) = n  BY <2>2, NumberTypes
  <2>5. d # <<>>
    <3>1. d \in Seq(Nat) /\ Len(d) > 0  BY <2>2
    <3> QED  BY <3>1, NotEmpty
  <2>6. Canonic(d)  BY <2>2, <2>3 DEF Canonic
  <2> QED  BY <2>2, <2>4, <2>5, <2>6 DEF d
<1>2. CASE n >= 10 /\ n < 100
  <2> DEFINE a == n \div 10
             c == n % 10
  <2>1. a \in 1..9 /\ c \in 0..9 /\ 10 * a + c = n  BY <1>2
  <2>2. d = <<a, c>>  BY <1>2 DEF DigitsOf
  <2> HIDE DEF a, c, d
  <2>3. d \in Seq(0..9) /\ d \in Seq(Nat) /\ Len(d) = 2 /\ d[1] = a /\ d[2] = c
    <3>1. a \in 0..9 /\ a \in Nat /\ c \in Nat  BY <2>1
    <3> QED  BY <2>1, <2>2, <3>1
  <2>4. NumberIn(10, d) = n  BY <2>1, <2>3, NumberTypes
  <2>5. d # <<>>
    <3>1. d \in Seq(Nat) /\ Len(d) > 0  BY <2>3
    <3> QED  BY <3>1, NotEmpty
  <2>6. Canonic(d)  BY <2>1, <2>3 DEF Canonic
  <2> QED  BY <2>3, <2>4, <2>5, <2>6 DEF d
<1>3. CASE n >= 100
  <2> DEFINE a == n \div 100
             b == (n \div 10) % 10
             c == n % 10
  <2>1. a \in 1..9 /\ b \in 0..9 /\ c \in 0..9 /\ 10 * (10 * a + b) + c = n  BY <1>3
  <2>2. d = <<a, b, c>>  BY <1>3 DEF DigitsOf
  <2> HIDE DEF a, b, c, d
  <2>3. d \in Seq(0..9) /\ d \in Seq(Nat) /\ Len(d) = 3 /\ d[1] = a /\ d[2] = b /\ d[3] = c
    <3>1. a \in 0..9 /\ a \in Nat /\ b \in Nat /\ c \in Nat  BY <2>1
    <3>2. d \in Seq(Nat)  BY <2>2, <3>1, Triple
    <3> DEFINE S == 0..9
    <3>3. a \in S /\ b \in S /\ c \in S  BY <3>1, <2>1
    <3> HIDE DEF S
    <3>4. d \in Seq(S) /\ Len(d) = 3 /\ d[1] = a /\ d[2] = b /\ d[3] = c
      BY <2>2, <3>3, Triple
    <3> QED  BY <3>2, <3>4 DEF S
  <2>4. NumberIn(10, d) = n
    <3>1. NumberIn(10, d) = 10 * (10 * d[1] + d[2]) + d[3]
      BY <2>3, NumberTypes
    <3> QED  BY <2>1, <2>3, <3>1
  <2>5. d # <<>>
    <3>1. d \in Seq(Nat) /\ Len(d) > 0  BY <2>3
    <3> QED  BY <3>1, NotEmpty
  <2>6. Canonic(d)  BY <2>1, <2>3 DEF Canonic
  <2> QED  BY <2>3, <2>4, <2>5, <2>6 DEF d
<1> QED  BY <1>1, <1>2, <1>3

(* A decimal is made of digits, and is canonical if it is negative; one    *)
(* that was read stands for its token.                                     *)
IsDecimal ==
  /\ decimal.negative \in BOOLEAN /\ decimal.scale \in Nat
  /\ decimal.coefficient \in Seq(0..9) /\ decimal.coefficient # <<>>
  /\ decimal.negative => Canonic(decimal.coefficient)

Excess == IF Shift > 0 THEN Shift ELSE 0
Lack == IF Shift < 0 THEN -Shift ELSE 0

Stands ==
  LET value == NumberIn(10, decimal.coefficient)
  IN  IF token.digits = <<>>
      THEN decimal.scale = 0 /\ Sign(decimal.negative) * value = ShortValue
      ELSE /\ ~decimal.negative /\ decimal.scale = 2 * Lack
           /\ value = NumberIn(100, token.digits) * Power(100, Excess)

NumberInv ==
  /\ token \in Tokens \cup {NoToken}
  /\ value_pc = "token" => token \in Tokens
  /\ value_pc \in {"decimal", "text"} => IsDecimal /\ (token # NoToken => Stands)
  /\ value_pc = "text" =>
       text.whole \in Seq(Nat) /\ text.fraction \in Seq(Nat) /\ text.negative \in BOOLEAN
  /\ TextIsPlain

LEMMA ReadShortStep ==
  ASSUME NumberInv, ReadShort
  PROVE  NumberInv'
<1> DEFINE n == Abs(ShortValue)
           c == DigitsOf(n)
           v == ShortValue
<1>1. token.exponent \in Octets /\ token.digits = <<>> /\ token' = token /\ token \in Tokens
  BY DEF NumberInv, Tokens, ReadShort
<1>2. v \in -127..128
  <2> DEFINE e == token.exponent
  <2>1. v = 128 - e  BY DEF ShortValue
  <2>2. e \in Nat /\ e <= 255  BY <1>1, OctetIs
  <2> HIDE DEF e, v
  <2> QED  BY <2>1, <2>2
<1>3. n \in Nat /\ n <= 999 /\ n = IF v < 0 THEN -v ELSE v
  <2>1. n = IF v < 0 THEN -v ELSE v  BY DEF Abs
  <2> HIDE DEF n, v
  <2> QED  BY <1>2, <2>1
<1>4. decimal' = [negative |-> v < 0, coefficient |-> c, scale |-> 0] /\ value_pc' = "decimal"
  BY DEF ReadShort
<1> HIDE DEF n, v
<1>5. /\ c \in Seq(0..9) /\ c # <<>> /\ NumberIn(10, c) = n /\ Canonic(c)
  BY <1>3, DigitsAre
<1> HIDE DEF c
<1>6. ShortValue' = v  BY <1>1 DEF ShortValue, v
<1>7. IsDecimal'  BY <1>2, <1>4, <1>5 DEF IsDecimal
<1>8. Stands'
  <2>1. Sign(v < 0) * n = v
    BY <1>2, <1>3 DEF Sign
  <2>2. decimal'.negative = (v < 0) /\ decimal'.coefficient = c /\ decimal'.scale = 0
    BY <1>4
  <2>3. NumberIn(10, decimal'.coefficient) = n  BY <1>5, <2>2
  <2>4. Sign(decimal'.negative) = Sign(v < 0)  BY <2>2
  <2> QED  BY <1>1, <1>6, <2>1, <2>2, <2>3, <2>4 DEF Stands
<1>9. TextIsPlain'  BY <1>4 DEF TextIsPlain
<1> QED  BY <1>1, <1>4, <1>7, <1>8, <1>9 DEF NumberInv

LEMMA ReadLongStep ==
  ASSUME NumberInv, ReadLong
  PROVE  NumberInv'
<1> DEFINE s == Canonical(Pairs)
           k == IF Shift >= 0 THEN 2 * Shift ELSE 0
           z == Zeros(k)
           c == s \o z
           B == NumberIn(100, token.digits)
<1>1. /\ token.exponent \in Octets /\ token.digits # <<>> /\ token' = token /\ token \in Tokens
      /\ token.digits \in Seq(Octets) /\ ~InvalidDigit
  BY DEF NumberInv, Tokens, ReadLong
<1>2. Shift \in Int
  <2> DEFINE e == token.exponent
  <2>1. Shift = e - 192  BY DEF Shift
  <2>2. e \in Nat /\ e <= 255  BY <1>1, OctetIs
  <2> HIDE DEF e
  <2> QED  BY <2>1, <2>2
<1>3. k \in Nat /\ k = 2 * Excess /\ Excess \in Nat /\ Lack \in Nat
      /\ (IF Shift >= 0 THEN 0 ELSE 2 * (-Shift)) = 2 * Lack
  BY <1>2 DEF Excess, Lack
<1>4. decimal' = [negative |-> FALSE, coefficient |-> c, scale |-> 2 * Lack]
      /\ value_pc' = "decimal"
  BY <1>3 DEF ReadLong
<1>5. /\ Pairs \in Seq(0..9) /\ Pairs # <<>>
      /\ NumberIn(10, Pairs) = B
  <2> DEFINE p == Pairs
             d == token.digits
  <2>1. p \in Seq(0..9) /\ Len(p) = 2 * Len(d) /\ NumberIn(10, p) = B
    BY <1>1, PairsAre
  <2>2. d \in Seq(Octets) /\ d # <<>>  BY <1>1
  <2> HIDE DEF p, d
  <2>3. Len(d) \in Nat /\ Len(d) > 0  BY <2>2
  <2>4. p # <<>>  BY <2>1, <2>3
  <2> QED  BY <2>1, <2>4 DEF p
<1>6. s \in Seq(0..9) /\ s # <<>> /\ NumberIn(10, s) = B
  BY <1>5, CanonicalIs
<1>7. z \in Seq(0..9) /\ z \in Seq(Nat)
  <2> HIDE DEF k
  <2> QED  BY <1>3, ZerosAre
<1>8. NumberIn(10, c) = B * Power(10, k)
  <2> HIDE DEF s, k
  <2>1. s \in Seq(Nat)  BY <1>6, SmallNumbers
  <2> QED  BY <1>3, <1>6, <2>1, TrailingZeros
<1>9. Power(10, k) = Power(100, Excess)
  <2> HIDE DEF k
  <2> QED  BY <1>3, PowersOfHundred
<1>10. c \in Seq(0..9) /\ c # <<>>
  <2> HIDE DEF s, z
  <2> QED  BY <1>6, <1>7
<1>11. UNCHANGED <<Shift, Excess, Lack>>  BY <1>1 DEF Shift, Excess, Lack
<1> HIDE DEF c, B
<1>12. IsDecimal'  BY <1>3, <1>4, <1>10 DEF IsDecimal
<1>13. Stands'
  <2>1. ~decimal'.negative /\ decimal'.coefficient = c /\ decimal'.scale = 2 * Lack
    BY <1>4
  <2>2. NumberIn(10, decimal'.coefficient) = B * Power(100, Excess)
    BY <1>8, <1>9, <2>1
  <2> QED  BY <1>1, <1>11, <2>1, <2>2 DEF Stands, B
<1>14. TextIsPlain'  BY <1>4 DEF TextIsPlain
<1> QED  BY <1>1, <1>4, <1>12, <1>13, <1>14 DEF NumberInv

(* What is cut in two is the whole when put together.                      *)
LEMMA CutIs ==
  ASSUME NEW s \in Seq(Nat), NEW k \in 1..Len(s)
  PROVE  LET a == SubSeq(s, 1, k)
             b == SubSeq(s, k + 1, Len(s))
         IN  /\ a \in Seq(Nat) /\ b \in Seq(Nat)
             /\ Len(a) = k /\ Len(b) = Len(s) - k /\ a \o b = s
<1>1. Len(s) \in Nat /\ \A i \in 1..Len(s) : s[i] \in Nat  OBVIOUS
<1>2. SubSeq(s, 1, k) \in Seq(Nat) /\ Len(SubSeq(s, 1, k)) = k
  <2>1. \A i \in 1..k : s[i] \in Nat  BY <1>1
  <2>2. k >= 1 /\ k \in Int  BY <1>1
  <2> QED  BY <2>1, <2>2, SubSeqProperties
<1>3. SubSeq(s, k + 1, Len(s)) \in Seq(Nat) /\ Len(SubSeq(s, k + 1, Len(s))) = Len(s) - k
  <2> DEFINE n == Len(s)
             j == k + 1
  <2>1. \A i \in j..n : s[i] \in Nat  BY <1>1
  <2>2. j \in Int /\ n \in Int /\ (IF j <= n THEN n - j + 1 ELSE 0) = n - k  BY <1>1
  <2> HIDE DEF j, n
  <2>3. SubSeq(s, j, n) \in Seq(Nat) /\ Len(SubSeq(s, j, n)) = n - k
    BY <2>1, <2>2, SubSeqProperties
  <2> QED  BY <2>3 DEF j, n
<1>4. SubSeq(s, 1, k) \o SubSeq(s, k + 1, Len(s)) = SubSeq(s, 1, Len(s))
  <2>1. /\ 1 \in 1..(Len(s) + 1) /\ k \in (1 - 1)..Len(s) /\ Len(s) \in k..Len(s)
    BY <1>1
  <2> QED  BY <2>1, ConcatAdjacentSubSeq
<1>5. SubSeq(s, 1, Len(s)) = s  BY SubSeqFull
<1> QED  BY <1>2, <1>3, <1>4, <1>5

LEMMA RenderStep ==
  ASSUME NumberInv, Render
  PROVE  NumberInv'
<1> DEFINE c == decimal.coefficient
           pad == Padding
           z == Zeros(pad)
           digits == z \o c
           split == Len(digits) - decimal.scale
           front == SubSeq(digits, 1, split)
           fraction == SubSeq(digits, split + 1, Len(digits))
<1>1. /\ IsDecimal /\ (token # NoToken => Stands) /\ token \in Tokens \cup {NoToken}
      /\ UNCHANGED <<token, decimal>> /\ value_pc' = "text"
      /\ text' = [negative |-> Signed, whole |-> front, fraction |-> fraction]
  BY DEF NumberInv, Render
<1>2. c \in Seq(Nat) /\ c \in Seq(0..9) /\ c # <<>> /\ decimal.scale \in Nat
  BY <1>1, SmallNumbers DEF IsDecimal
<1>3. /\ pad \in Nat
      /\ pad = IF decimal.scale >= Len(c) THEN decimal.scale + 1 - Len(c) ELSE 0
      /\ Len(c) \in Nat
  <2>1. Len(c) \in Nat  BY <1>2
  <2> QED  BY <1>2, <2>1 DEF Padding
<1> HIDE DEF pad
<1>4. z \in Seq(Nat) /\ Len(z) = pad  BY <1>3, ZerosAre
<1>5. digits \in Seq(Nat) /\ Len(digits) = pad + Len(c)
  <2> HIDE DEF z, c
  <2> QED  BY <1>2, <1>4, Joined
<1>6. split \in 1..Len(digits) /\ Len(digits) - split = decimal.scale
  <2> DEFINE m == Len(c)
             r == decimal.scale
             n == Len(digits)
  <2>1. m \in Nat /\ r \in Nat /\ n = pad + m /\ split = n - r
    BY <1>2, <1>3, <1>5
  <2>2. pad = IF r >= m THEN r + 1 - m ELSE 0  BY <1>3
  <2>3. m # 0  BY <1>2
  <2> HIDE DEF m, r, n, split
  <2>4. split \in 1..n /\ n - split = r  BY <1>3, <2>1, <2>2, <2>3
  <2> QED  BY <2>4 DEF n, r
<1>7. /\ front \in Seq(Nat) /\ fraction \in Seq(Nat) /\ Len(front) = split
      /\ Len(fraction) = decimal.scale
      /\ front \o fraction = digits
  <2> HIDE DEF digits, split
  <2> QED  BY <1>5, <1>6, CutIs
<1>8. front # <<>>
  <2>1. Len(front) > 0  BY <1>6, <1>7
  <2> HIDE DEF front
  <2> QED  BY <1>7, <2>1
<1>9. NumberIn(10, front \o fraction) = NumberIn(10, c)
  <2> HIDE DEF front, fraction, c
  <2> QED  BY <1>2, <1>3, <1>7, LeadingZeros
<1>10. Signed <=> (decimal.negative /\ NumberIn(10, c) # 0)
  <2>1. ASSUME c = << 0 >> PROVE NumberIn(10, c) = 0
    <3> HIDE DEF c
    <3> QED  BY <2>1, ZeroIs
  <2>2. ASSUME decimal.negative, c # << 0 >> PROVE NumberIn(10, c) # 0
    <3>1. c[1] # 0  BY <1>1, <2>2 DEF IsDecimal, Canonic
    <3> HIDE DEF c
    <3> QED  BY <1>2, <3>1, NumberIsZero
  <2> QED  BY <2>1, <2>2 DEF Signed
<1>11. Signed \in BOOLEAN  BY <1>1 DEF Signed, IsDecimal
<1> HIDE DEF front, fraction
<1>12. text'.whole = front /\ text'.fraction = fraction /\ text'.negative = Signed
  BY <1>1
<1>13. TextIsPlain'
  BY <1>1, <1>7, <1>8, <1>9, <1>10, <1>11, <1>12 DEF TextIsPlain
<1>14. IsDecimal' /\ (token' # NoToken => Stands')
  BY <1>1 DEF IsDecimal, Stands, ShortValue, Shift, Excess, Lack
<1> QED  BY <1>1, <1>7, <1>11, <1>12, <1>13, <1>14 DEF NumberInv

LEMMA OtherNumberSteps ==
  ASSUME NumberInv, RejectDigit \/ Later \/ UNCHANGED valueVars
  PROVE  NumberInv'
<1> USE DEF number, time, valueVars
<1>1. /\ UNCHANGED <<token, decimal, text>>
      /\ value_pc' = value_pc \/ value_pc' = "failed"
  BY DEF RejectDigit, Later
<1>2. CASE value_pc' = value_pc
  BY <1>1, <1>2 DEF NumberInv, IsDecimal, Stands, Excess, Lack, TextIsPlain,
     Shift, ShortValue
<1>3. CASE value_pc' = "failed"
  BY <1>1, <1>3 DEF NumberInv, TextIsPlain
<1> QED  BY <1>1, <1>2, <1>3

(* Of every token, and of every decimal that can be made.                  *)
THEOREM NumbersAreKept == ValueSpec => []NumberInv
<1>1. ValueInit => NumberInv
  <2> SUFFICES ASSUME ValueInit PROVE NumberInv  OBVIOUS
  <2>1. TextIsPlain /\ value_pc # "text"
    BY DEF ValueInit, TextIsPlain
  <2>2. /\ token \in Tokens \cup {NoToken}
        /\ value_pc = "token" => token \in Tokens
    BY TokenAssumption DEF ValueInit
  <2>3. ASSUME value_pc = "decimal"
        PROVE  IsDecimal /\ token = NoToken
    <3>1. decimal \in Canonicals /\ token = NoToken
      BY <2>3, MadeAssumption DEF ValueInit
    <3>2. decimal.coefficient # <<>>  BY <3>1, ZeroIs DEF Canonicals
    <3>3. Canonic(decimal.coefficient)  BY <3>1 DEF Canonicals, Canonic
    <3> QED  BY <3>1, <3>2, <3>3 DEF IsDecimal, Canonicals
  <2> QED  BY <2>1, <2>2, <2>3 DEF NumberInv
<1>2. NumberInv /\ [ValueNext]_(valueVars) => NumberInv'
  BY ReadShortStep, ReadLongStep, RenderStep, OtherNumberSteps DEF ValueNext
<1> QED  BY <1>1, <1>2, PTL DEF ValueSpec

(* Every text that is rendered, of whatever number, is a plain decimal:    *)
(* it has a digit before the point and the scale's digits after it, they   *)
(* stand for what the coefficient stands for, and zero has no sign         *)
(* (to_plain_string).                                                      *)
THEOREM TextsArePlain == ValueSpec => []TextIsPlain
<1>1. NumberInv => TextIsPlain  BY DEF NumberInv
<1> QED  BY <1>1, NumbersAreKept, PTL

(* And the text of a token, of every length and with every exponent,       *)
(* reads back as exactly the token's number (read_numeric_legacy and       *)
(* to_plain_string): leading zeros that are dropped, zeros appended for    *)
(* the exponent, zeros padded before the point and the scale never change  *)
(* a value.                                                                *)
THEOREM TextsAreTheTokens == ValueSpec => []RenderingIsTheToken
<1>1. ASSUME NumberInv PROVE RenderingIsTheToken
  <2> SUFFICES ASSUME value_pc = "text", token # NoToken
               PROVE  IF token.digits = <<>>
                      THEN TextNumber = ShortValue /\ text.fraction = <<>>
                      ELSE TextNumber * Power(100, Lack) =
                             NumberIn(100, token.digits) * Power(100, Excess)
                               * Power(10, Len(text.fraction))
    BY DEF RenderingIsTheToken, Lack, Excess
  <2> DEFINE c == NumberIn(10, decimal.coefficient)
             t == NumberIn(10, text.whole \o text.fraction)
             B == NumberIn(100, token.digits)
             P == Power(100, Excess)
             L == Power(100, Lack)
  <2>1. IsDecimal /\ Stands /\ TextIsPlain /\ token \in Tokens
        /\ text.fraction \in Seq(Nat)
    BY <1>1 DEF NumberInv
  <2>2. /\ t = c /\ Len(text.fraction) = decimal.scale
        /\ text.negative = (decimal.negative /\ c # 0)
    BY <2>1 DEF TextIsPlain
  <2>3. c \in Nat
    BY <2>1, NumberTypes, SmallNumbers DEF IsDecimal
  <2>4. TextNumber = Sign(text.negative) * c
    BY <2>2 DEF TextNumber
  <2>5. CASE token.digits = <<>>
    <3>1. decimal.scale = 0 /\ Sign(decimal.negative) * c = ShortValue
      BY <2>1, <2>5 DEF Stands
    <3>2. Sign(text.negative) * c = Sign(decimal.negative) * c
      <4> HIDE DEF c
      <4> QED  BY <2>1, <2>2, <2>3 DEF Sign, IsDecimal
    <3>3. text.fraction = <<>>  BY <2>1, <2>2, <3>1
    <3> QED  BY <2>4, <2>5, <3>1, <3>2, <3>3
  <2>6. CASE token.digits # <<>>
    <3>1. ~decimal.negative /\ decimal.scale = 2 * Lack /\ c = B * P
      BY <2>1, <2>6 DEF Stands
    <3>2. TextNumber = c
      <4>1. ~text.negative  BY <2>2, <3>1
      <4>2. Sign(text.negative) = 1  BY <4>1 DEF Sign
      <4> HIDE DEF c
      <4> QED  BY <2>3, <2>4, <4>2
    <3>3. Lack \in Nat
      <4> DEFINE e == token.exponent
      <4>1. Shift = e - 192  BY DEF Shift
      <4>2. e \in Nat /\ e <= 255  BY <2>1, OctetIs DEF Tokens
      <4> HIDE DEF e
      <4> QED  BY <4>1, <4>2 DEF Lack
    <3>4. Power(10, Len(text.fraction)) = L
      BY <2>2, <3>1, <3>3, PowersOfHundred
    <3> QED  BY <2>6, <3>1, <3>2, <3>4
  <2> QED  BY <2>5, <2>6
<1> QED  BY <1>1, NumbersAreKept, PTL

---------------------------------------------------------------------------
(* Dates.  A day is counted as the doy-th of the y-th year of an era of     *)
(* four hundred, years beginning on the first of March: the formula finds   *)
(* these three, and the next day is found from them.                        *)

LEMMA EraIs ==
  ASSUME NEW z \in Int
  PROVE  /\ Era(z) \in Int /\ z - Era(z) * 146097 >= 0
         /\ z - Era(z) * 146097 <= 146096
<1>1. CASE z >= 0  BY <1>1 DEF Era, Quotient
<1>2. CASE z < 0  BY <1>2 DEF Era, Quotient
<1> QED  BY <1>1, <1>2

(* The day of an era on which its y-th year begins, on the first of March. *)
Start(y) == 365 * y + y \div 4 - y \div 100

DaysIn(y) == IF (y + 1) % 4 = 0 /\ ((y + 1) % 100 # 0 \/ y = 399) THEN 366 ELSE 365

YearOf(doe) == (doe - doe \div 1460 + doe \div 36524 - doe \div 146096) \div 365

LEMMA YearExists ==
  ASSUME NEW doe \in Nat, doe <= 146096
  PROVE  \E y, doy \in Nat : y <= 399 /\ doy < DaysIn(y) /\ doe = Start(y) + doy
<1> DEFINE c == IF doe = 146096 THEN 3 ELSE doe \div 36524
           d == doe - 36524 * c
           q == d \div 1461
           f == d - 1461 * q
           r == IF f = 1460 THEN 3 ELSE f \div 365
           doy == f - 365 * r
           y == 100 * c + 4 * q + r
<1>1. c \in 0..3 /\ d \in Nat /\ d <= 36524 /\ (d = 36524 => c = 3) /\ doe = 36524 * c + d  OBVIOUS
<1> HIDE DEF c, d
<1>2. q \in 0..24 /\ f \in Nat /\ f <= 1460 /\ d = 1461 * q + f /\ (f = 1460 /\ q = 24 => c = 3)  BY <1>1
<1> HIDE DEF q, f
<1>3. r \in 0..3 /\ doy \in 0..365 /\ f = 365 * r + doy /\ (doy = 365 => r = 3)  BY <1>2
<1> HIDE DEF r, doy
<1>4. y \in Nat /\ y <= 399 /\ y \div 4 = 25 * c + q /\ y \div 100 = c  BY <1>1, <1>2, <1>3
<1>5. doe = Start(y) + doy  BY <1>1, <1>2, <1>3, <1>4 DEF Start
<1>6. doy \in Nat /\ doy < DaysIn(y)
  <2>1. CASE doy = 365
    <3>1. r = 3 /\ f = 1460 /\ (q = 24 => c = 3)  BY <1>2, <1>3, <2>1
    <3>2. (y + 1) % 4 = 0  BY <1>1, <1>2, <3>1
    <3>3. (y + 1) % 100 # 0 \/ y = 399  BY <1>1, <1>2, <3>1
    <3> QED  BY <2>1, <3>2, <3>3 DEF DaysIn
  <2>2. CASE doy # 365  BY <1>3, <2>2 DEF DaysIn
  <2> QED  BY <2>1, <2>2
<1> HIDE DEF y
<1> QED  BY <1>4, <1>5, <1>6

LEMMA YearIs ==
  ASSUME NEW y \in Nat, y <= 399, NEW doy \in Nat, doy < DaysIn(y)
  PROVE  /\ YearOf(Start(y) + doy) = y
         /\ Start(y) + doy \in Nat /\ Start(y) + doy <= 146096
<1> DEFINE c == y \div 100
           q == (y % 100) \div 4
           r == y % 4
           doe == Start(y) + doy
<1>1. c \in 0..3 /\ q \in 0..24 /\ r \in 0..3 /\ y = 100 * c + 4 * q + r /\ y \div 4 = 25 * c + q
  OBVIOUS
<1>2. doe = 36524 * c + 1461 * q + 365 * r + doy  BY <1>1 DEF Start
<1>3. doy \in 0..365 /\ (doy = 365 => r = 3 /\ (q = 24 => c = 3))
  <2>1. DaysIn(y) \in {365, 366} /\ (DaysIn(y) = 366 => (y + 1) % 4 = 0 /\ ((y + 1) % 100 # 0 \/ y = 399))
    BY DEF DaysIn
  <2> HIDE DEF c, q, r
  <2>2. (y + 1) % 4 = 0 => r = 3  BY <1>1
  <2>3. (y + 1) % 100 # 0 /\ r = 3 => q # 24  BY <1>1
  <2> QED  BY <1>1, <2>1, <2>2, <2>3
<1> HIDE DEF c, q, r, doe
<1>4. doe \in Nat /\ doe <= 146096  BY <1>1, <1>2, <1>3
<1> DEFINE last == IF doe = 146096 THEN 1 ELSE 0
           over == IF 24 * c + q + 365 * r + doy >= 1460 THEN 1 ELSE 0
           e == c + last
           k == 25 * c + q + over
<1>5. /\ last \in 0..1 /\ over \in 0..1 /\ e \in Nat /\ k \in Nat
      /\ 146096 * last <= doe /\ doe < 146096 * last + 146096
      /\ 36524 * e <= doe /\ doe < 36524 * e + 36524
      /\ doy - over >= 0 /\ doy - over <= 364
      /\ (doy = 365 => over = 1)
  <2>1. last = 1 <=> c = 3 /\ q = 24 /\ doy = 365  BY <1>1, <1>2, <1>3
  <2>2. last \in 0..1 /\ (last = 1 <=> doe = 146096)  OBVIOUS
  <2>3. over \in 0..1 /\ (over = 1 <=> 24 * c + q + 365 * r + doy >= 1460)  OBVIOUS
  <2> HIDE DEF last, over
  <2> QED  BY <1>1, <1>2, <1>3, <1>4, <2>1, <2>2, <2>3
<1>6. 1460 * k <= doe /\ doe < 1460 * k + 1460
  <2>1. over \in 0..1 /\ (over = 1 <=> 24 * c + q + 365 * r + doy >= 1460)  OBVIOUS
  <2> HIDE DEF over
  <2> QED  BY <1>1, <1>2, <1>3, <2>1
<1> HIDE DEF last, over, e, k
<1>7. doe \div 146096 = last  BY <1>4, <1>5
<1>8. doe \div 36524 = e  BY <1>4, <1>5
<1>9. doe \div 1460 = k  BY <1>4, <1>5, <1>6
<1>10. doe - k + e - last = 365 * y + (doy - over)
  BY <1>1, <1>2, <1>5 DEF e, k
<1>11. (doe - k + e - last) \div 365 = y
  <2> DEFINE n == doe - k + e - last
             m == doy - over
  <2>1. m \in Int /\ m >= 0 /\ m <= 364 /\ n = 365 * y + m  BY <1>5, <1>10
  <2> HIDE DEF n, m
  <2>2. n \div 365 = y  BY <2>1
  <2> QED  BY <2>2 DEF n
<1>12. YearOf(doe) = y  BY <1>7, <1>8, <1>9, <1>11 DEF YearOf
<1> QED  BY <1>4, <1>12 DEF doe

(* The day of such a year on which its m-th month begins.                  *)
First(m) == (153 * m + 2) \div 5
MonthAt(doy) == (5 * doy + 2) \div 153

LEMMA MonthIs ==
  ASSUME NEW doy \in Nat, doy <= 365
  PROVE  /\ MonthAt(doy) \in 0..11 /\ First(MonthAt(doy)) \in Nat
         /\ First(MonthAt(doy)) <= doy /\ doy < First(MonthAt(doy) + 1)
<1> DEFINE m == MonthAt(doy)
<1>1. m \in Nat /\ m <= 11 /\ 153 * m <= 5 * doy + 2 /\ 5 * doy + 2 < 153 * m + 153
  BY DEF MonthAt
<1> HIDE DEF m
<1>2. First(m) \in Nat /\ 5 * First(m) <= 153 * m + 2 /\ 153 * m + 2 < 5 * First(m) + 5
  BY <1>1 DEF First
<1>3. /\ First(m + 1) \in Nat /\ 5 * First(m + 1) <= 153 * (m + 1) + 2
      /\ 153 * (m + 1) + 2 < 5 * First(m + 1) + 5
  BY <1>1 DEF First
<1> QED  BY <1>1, <1>2, <1>3 DEF m

LEMMA MonthOnly ==
  ASSUME NEW doy \in Nat, NEW m \in Nat, First(m) <= doy, doy < First(m + 1)
  PROVE  MonthAt(doy) = m
<1>2. First(m) \in Nat /\ 153 * m + 2 < 5 * First(m) + 5
  BY DEF First
<1>3. First(m + 1) \in Nat /\ 5 * First(m + 1) <= 153 * (m + 1) + 2
  BY DEF First
<1>4. 153 * m <= 5 * doy + 2 /\ 5 * doy + 2 < 153 * m + 153
  BY <1>2, <1>3
<1> QED  BY <1>4 DEF MonthAt

DateOf(era, y, doy) ==
  LET m == MonthAt(doy)
  IN  [year |-> y + era * 400 + (IF Month(m) <= 2 THEN 1 ELSE 0),
       month |-> Month(m),
       day |-> doy - First(m) + 1]

IsDay(z, era, y, doy) ==
  /\ era \in Int /\ y \in Nat /\ y <= 399 /\ doy \in Nat /\ doy < DaysIn(y)
  /\ z = 146097 * era + (Start(y) + doy)

LEMMA DayExists ==
  ASSUME NEW z \in Int
  PROVE  \E era, y, doy : IsDay(z, era, y, doy)
<1> DEFINE era == Era(z)
           doe == z - era * 146097
<1>1. era \in Int /\ doe \in Nat /\ doe <= 146096 /\ z = 146097 * era + doe
  BY EraIs
<1> HIDE DEF era, doe
<1>2. PICK y, doy \in Nat : y <= 399 /\ doy < DaysIn(y) /\ doe = Start(y) + doy
  BY <1>1, YearExists
<1>3. IsDay(z, era, y, doy)  BY <1>1, <1>2 DEF IsDay
<1> QED  BY <1>3

Shifted(minutes) == UnixDay(Days(minutes)) + 719468

LEMMA YmdIs ==
  ASSUME NEW minutes \in Int, NEW era, NEW y, NEW doy, IsDay(Shifted(minutes), era, y, doy)
  PROVE  Ymd(minutes) = DateOf(era, y, doy)
<1> DEFINE z == Shifted(minutes)
           doe == z - Era(z) * 146097
           yoe == Quotient(doe - Quotient(doe, 1460) + Quotient(doe, 36524)
                        - Quotient(doe, 146096), 365)
           d == doe - (365 * yoe + Quotient(yoe, 4) - Quotient(yoe, 100))
           mp == Quotient(5 * d + 2, 153)
           month == Month(mp)
<1>1. Ymd(minutes) = [year |-> yoe + Era(z) * 400 + (IF month <= 2 THEN 1 ELSE 0),
                      month |-> month,
                      day |-> d - Quotient(153 * mp + 2, 5) + 1]
  BY SMT DEF Ymd, Shifted
<1>2. /\ era \in Int /\ y \in Nat /\ y <= 399 /\ doy \in Nat /\ doy < DaysIn(y) /\ z \in Int
      /\ z = 146097 * era + (Start(y) + doy)
  <2>1. z \in Int  BY DEF Shifted, UnixDay, Days
  <2> QED  BY <2>1 DEF IsDay
<1>3. YearOf(Start(y) + doy) = y /\ Start(y) + doy \in Nat /\ Start(y) + doy <= 146096
  BY <1>2, YearIs
<1>4. Era(z) = era /\ doe = Start(y) + doy
  <2> DEFINE e == Era(z)
             n == Start(y) + doy
  <2> HIDE DEF z
  <2>1. e \in Int /\ z - e * 146097 >= 0 /\ z - e * 146097 <= 146096  BY <1>2, EraIs
  <2>2. n \in Nat /\ n <= 146096 /\ z = 146097 * era + n  BY <1>2, <1>3
  <2>0. era \in Int /\ z \in Int  BY <1>2
  <2> HIDE DEF e, n
  <2>3. e = era  BY <2>0, <2>1, <2>2
  <2>4. z - era * 146097 = n  BY <2>0, <2>2
  <2>5. z - e * 146097 = n  BY <2>3, <2>4
  <2> QED  BY <2>3, <2>5 DEF e, n
<1> HIDE DEF doe
<1>5. yoe = y
  <2>1. doe \in Nat  BY <1>3, <1>4
  <2>2. /\ Quotient(doe, 1460) = doe \div 1460 /\ Quotient(doe, 36524) = doe \div 36524
        /\ Quotient(doe, 146096) = doe \div 146096
    BY <2>1 DEF Quotient
  <2> DEFINE n == doe - doe \div 1460 + doe \div 36524 - doe \div 146096
  <2>3. n \in Nat  BY <2>1
  <2> HIDE DEF n
  <2>4. Quotient(n, 365) = n \div 365  BY <2>3 DEF Quotient
  <2>5. n \div 365 = y  BY <1>3, <1>4 DEF YearOf, n
  <2> QED  BY <2>2, <2>4, <2>5 DEF n
<1> HIDE DEF yoe
<1>6. d = doy
  <2>1. Quotient(y, 4) = y \div 4 /\ Quotient(y, 100) = y \div 100  BY <1>2 DEF Quotient
  <2> QED  BY <1>2, <1>4, <1>5, <2>1 DEF Start
<1> HIDE DEF d
<1>7. mp = MonthAt(doy) /\ mp \in Nat
  <2>1. mp = (5 * doy + 2) \div 153  BY <1>2, <1>6 DEF Quotient
  <2>2. (5 * doy + 2) \div 153 \in Nat  BY <1>2
  <2> QED  BY <2>1, <2>2 DEF MonthAt
<1> HIDE DEF mp
<1>8. Quotient(153 * mp + 2, 5) = First(mp)  BY <1>7 DEF Quotient, First
<1> QED  BY <1>1, <1>4, <1>5, <1>6, <1>7, <1>8 DEF DateOf

LEMMA Firsts ==
  /\ First(0) = 0 /\ First(1) = 31 /\ First(2) = 61 /\ First(3) = 92 /\ First(4) = 122
  /\ First(5) = 153 /\ First(6) = 184 /\ First(7) = 214 /\ First(8) = 245 /\ First(9) = 275
  /\ First(10) = 306 /\ First(11) = 337 /\ First(12) = 367
  BY DEF First

(* The day after a day of an era.                                          *)
LEMMA NextDay ==
  ASSUME NEW z, NEW era, NEW y, NEW doy, IsDay(z, era, y, doy)
  PROVE  \/ doy + 1 < DaysIn(y) /\ IsDay(z + 1, era, y, doy + 1)
         \/ doy + 1 = DaysIn(y) /\ y < 399 /\ IsDay(z + 1, era, y + 1, 0)
         \/ doy + 1 = DaysIn(y) /\ y = 399 /\ IsDay(z + 1, era + 1, 0, 0)
<1>1. /\ era \in Int /\ y \in Nat /\ y <= 399 /\ doy \in Nat /\ doy < DaysIn(y)
      /\ z = 146097 * era + (Start(y) + doy)
  BY DEF IsDay
<1>2. DaysIn(y) \in {365, 366} /\ DaysIn(0) > 0 /\ DaysIn(y + 1) > 0  BY DEF DaysIn
<1>3. Start(y) \in Int /\ Start(y + 1) \in Int  BY <1>1 DEF Start
<1>4. CASE doy + 1 < DaysIn(y)
  <2>1. z + 1 = 146097 * era + (Start(y) + (doy + 1))  BY <1>1, <1>3
  <2> QED  BY <1>1, <1>4, <2>1 DEF IsDay
<1>5. CASE doy + 1 = DaysIn(y) /\ y < 399
  <2>1. Start(y + 1) = Start(y) + DaysIn(y)
    <3> DEFINE q == y \div 4
               c == y \div 100
               f == y - 4 * q
               g == y - 100 * c
    <3>1. /\ q \in Nat /\ f \in 0..3 /\ y = 4 * q + f
          /\ c \in Nat /\ g \in Nat /\ g <= 99 /\ y = 100 * c + g
      BY <1>1
    <3>2. DaysIn(y) = IF f = 3 /\ g # 99 THEN 366 ELSE 365
      BY <1>1, <1>5 DEF DaysIn
    <3> HIDE DEF q, c, f, g
    <3>3. (y + 1) \div 4 = IF f = 3 THEN q + 1 ELSE q  BY <3>1
    <3>4. (y + 1) \div 100 = IF g = 99 THEN c + 1 ELSE c  BY <3>1
    <3>5. g = 99 => f = 3  BY <3>1
    <3>6. Start(y) = 365 * y + q - c  BY DEF Start, q, c
    <3>7. Start(y + 1) = 365 * (y + 1) + (y + 1) \div 4 - (y + 1) \div 100  BY DEF Start
    <3> QED  BY <1>1, <3>1, <3>2, <3>3, <3>4, <3>5, <3>6, <3>7
  <2>2. z + 1 = 146097 * era + (Start(y + 1) + 0)  BY <1>1, <1>2, <1>3, <1>5, <2>1
  <2> QED  BY <1>1, <1>2, <1>5, <2>2 DEF IsDay
<1>6. CASE doy + 1 = DaysIn(y) /\ y = 399
  <2>1. Start(399) = 145731 /\ Start(0) = 0 /\ DaysIn(399) = 366  BY DEF Start, DaysIn
  <2>2. z + 1 = 146097 * (era + 1) + (Start(0) + 0)  BY <1>1, <1>6, <2>1
  <2> QED  BY <1>1, <1>2, <1>6, <2>2 DEF IsDay
<1> QED  BY <1>1, <1>2, <1>4, <1>5, <1>6

(* The months of the calendar are those of the formula.                    *)
LEMMA MonthLengths ==
  ASSUME NEW era \in Int, NEW y \in Nat, y <= 399, NEW m \in 0..11
  PROVE  LengthOf(y + era * 400 + (IF Month(m) <= 2 THEN 1 ELSE 0), Month(m))
           = (IF m = 11 THEN DaysIn(y) ELSE First(m + 1)) - First(m)
<1> DEFINE year == y + era * 400 + 1
<1>1. CASE m = 11
  <2>1. Month(m) = 2  BY <1>1 DEF Month
  <2>2. IsLeap(year) <=> DaysIn(y) = 366
    <3>1. year \in Int /\ year = (y + 1) + 400 * era  OBVIOUS
    <3>2. year % 4 = (y + 1) % 4 /\ year % 100 = (y + 1) % 100 /\ year % 400 = (y + 1) % 400
      OBVIOUS
    <3>3. (y + 1) % 400 = 0 <=> y = 399  OBVIOUS
    <3> QED  BY <3>2, <3>3 DEF IsLeap, DaysIn
  <2>3. DaysIn(y) \in {365, 366}  BY DEF DaysIn
  <2>4. LengthOf(year, 2) = IF IsLeap(year) THEN 29 ELSE 28  BY DEF LengthOf
  <2>5. First(11) = 337  BY Firsts
  <2> HIDE DEF year
  <2> QED  BY <1>1, <2>1, <2>2, <2>3, <2>4, <2>5 DEF year
<1>2. CASE m # 11
  <2> DEFINE n == Month(m)
             yr == y + era * 400 + (IF n <= 2 THEN 1 ELSE 0)
  <2>1. n \in {1, 3, 4, 5, 6, 7, 8, 9, 10, 11, 12}
        /\ (n = 1 => m = 10) /\ (n # 1 => n = m + 3)
    BY <1>2 DEF Month
  <2> HIDE DEF n, yr
  <2>2. LengthOf(yr, n) = IF n \in {4, 6, 9, 11} THEN 30 ELSE 31
    BY <2>1 DEF LengthOf
  <2>3. First(m + 1) - First(m) = IF n \in {4, 6, 9, 11} THEN 30 ELSE 31
    BY <1>2, <2>1, Firsts
  <2> QED  BY <1>2, <2>2, <2>3 DEF n, yr
<1> QED  BY <1>1, <1>2

Date(yr, mo, da) == [year |-> yr, month |-> mo, day |-> da]

LEMMA After ==
  ASSUME NEW yr \in Int, NEW mo \in 1..12, NEW da \in Nat, NEW len \in Nat,
         LengthOf(yr, mo) = len
  PROVE  /\ da < len => DayAfter(Date(yr, mo, da)) = Date(yr, mo, da + 1)
         /\ da = len /\ mo < 12 => DayAfter(Date(yr, mo, da)) = Date(yr, mo + 1, 1)
         /\ da = len /\ mo = 12 => DayAfter(Date(yr, mo, da)) = Date(yr + 1, 1, 1)
<1> DEFINE d == Date(yr, mo, da)
<1>1. d.year = yr /\ d.month = mo /\ d.day = da  BY DEF Date
<1>2. CASE da < len
  <2>1. DayAfter(d) = [d EXCEPT !.day = @ + 1]  BY <1>1, <1>2 DEF DayAfter
  <2>2. [d EXCEPT !.day = @ + 1] = Date(yr, mo, da + 1)  BY DEF Date
  <2> QED  BY <1>2, <2>1, <2>2
<1>3. CASE da = len /\ mo < 12
  <2>1. DayAfter(d) = [year |-> yr, month |-> mo + 1, day |-> 1]
    BY <1>1, <1>3 DEF DayAfter
  <2> QED  BY <1>3, <2>1 DEF Date
<1>4. CASE da = len /\ mo = 12
  <2>1. DayAfter(d) = [year |-> yr + 1, month |-> 1, day |-> 1]  BY <1>1, <1>4 DEF DayAfter
  <2> QED  BY <1>4, <2>1 DEF Date
<1> QED  BY <1>2, <1>3, <1>4

LEMMA DateAfter ==
  ASSUME NEW z, NEW era, NEW y, NEW doy, IsDay(z, era, y, doy)
  PROVE  \E e, n, d : IsDay(z + 1, e, n, d) /\ DateOf(e, n, d) = DayAfter(DateOf(era, y, doy))
<1> DEFINE m == MonthAt(doy)
           mo == Month(m)
           yr == y + era * 400 + (IF mo <= 2 THEN 1 ELSE 0)
           da == doy - First(m) + 1
           len == (IF m = 11 THEN DaysIn(y) ELSE First(m + 1)) - First(m)
<1>1. era \in Int /\ y \in Nat /\ y <= 399 /\ doy \in Nat /\ doy < DaysIn(y)
  BY DEF IsDay
<1>2. DaysIn(y) \in {365, 366}  BY DEF DaysIn
<1>3. m \in 0..11 /\ First(m) \in Nat /\ First(m) <= doy /\ doy < First(m + 1)
  BY <1>1, <1>2, MonthIs
<1>4. DateOf(era, y, doy) = Date(yr, mo, da)  BY DEF DateOf, Date
<1>5. LengthOf(yr, mo) = len  BY <1>1, <1>3, MonthLengths
<1> HIDE DEF m
<1>6. mo \in 1..12 /\ (mo <= 2 <=> m >= 10) /\ (mo = IF m < 10 THEN m + 3 ELSE m - 9)
  BY <1>3 DEF Month
<1>7. /\ First(m + 1) \in Nat /\ len \in Nat
      /\ m = 11 => First(m) = 337 /\ First(m + 1) = 367
      /\ m < 11 => First(m + 1) <= 337
  BY <1>2, <1>3, Firsts
<1> HIDE DEF mo
<1>8. yr \in Int /\ da \in Nat /\ yr = y + era * 400 + (IF m >= 10 THEN 1 ELSE 0)
  BY <1>1, <1>3, <1>6
<1> HIDE DEF yr
<1>0. yr \in Int /\ mo \in 1..12 /\ da \in Nat /\ len \in Nat /\ LengthOf(yr, mo) = len
  BY <1>5, <1>6, <1>7, <1>8
<1>9. CASE doy + 1 < DaysIn(y) /\ doy + 1 < First(m + 1)
  <2>1. IsDay(z + 1, era, y, doy + 1)  BY <1>1, <1>2, <1>9, NextDay
  <2>2. MonthAt(doy + 1) = m  BY <1>1, <1>3, <1>9, MonthOnly
  <2>3. DateOf(era, y, doy + 1) = Date(yr, mo, da + 1)
    <3>1. DateOf(era, y, doy + 1) = Date(yr, mo, (doy + 1) - First(m) + 1)
      BY <2>2 DEF DateOf, Date, yr, mo
    <3>2. (doy + 1) - First(m) + 1 = da + 1  BY <1>1, <1>3
    <3> QED  BY <3>1, <3>2
  <2>4. da < len  BY <1>1, <1>2, <1>3, <1>7, <1>9
  <2> HIDE DEF da, len
  <2>5. DayAfter(Date(yr, mo, da)) = Date(yr, mo, da + 1)
    BY <1>0, <2>4, After
  <2> QED  BY <1>4, <2>1, <2>3, <2>5
<1>10. CASE doy + 1 < DaysIn(y) /\ doy + 1 = First(m + 1)
  <2>1. IsDay(z + 1, era, y, doy + 1)  BY <1>1, <1>2, <1>10, NextDay
  <2>2. m < 11 /\ m + 1 \in 0..11  BY <1>2, <1>3, <1>7, <1>10
  <2>3. First(m + 1) < First(m + 2)  BY <2>2, <1>3, Firsts
  <2>4. MonthAt(doy + 1) = m + 1
    <3>1. (m + 1) + 1 = m + 2 /\ m + 1 \in Nat /\ doy + 1 \in Nat  BY <1>1, <1>3
    <3> QED  BY <1>10, <2>3, <3>1, MonthOnly
  <2> DEFINE next == Month(m + 1)
             nyr == y + era * 400 + (IF next <= 2 THEN 1 ELSE 0)
  <2>5. DateOf(era, y, doy + 1) = Date(nyr, next, 1)
    <3>1. DateOf(era, y, doy + 1) = Date(nyr, next, (doy + 1) - First(m + 1) + 1)
      BY <2>4 DEF DateOf, Date
    <3>2. (doy + 1) - First(m + 1) + 1 = 1  BY <1>1, <1>10
    <3> QED  BY <3>1, <3>2
  <2>6. next = IF mo = 12 THEN 1 ELSE mo + 1  BY <1>3, <1>6, <2>2 DEF Month
  <2>7. nyr = IF mo = 12 THEN yr + 1 ELSE yr
    <3>1. next <= 2 <=> m >= 9  BY <1>3, <1>6, <2>2, <2>6
    <3>2. mo = 12 <=> m = 9  BY <1>3, <1>6, <2>2
    <3> HIDE DEF next
    <3> QED  BY <1>1, <1>3, <1>8, <3>1, <3>2
  <2>8. da = len  BY <1>1, <1>3, <1>7, <1>10, <2>2
  <2> HIDE DEF da, len, next, nyr
  <2>9. DayAfter(Date(yr, mo, da)) = Date(nyr, next, 1)
    <3>1. mo < 12 => DayAfter(Date(yr, mo, da)) = Date(yr, mo + 1, 1)  BY <1>0, <2>8, After
    <3>2. mo = 12 => DayAfter(Date(yr, mo, da)) = Date(yr + 1, 1, 1)  BY <1>0, <2>8, After
    <3> QED  BY <1>0, <2>6, <2>7, <3>1, <3>2
  <2> QED  BY <1>4, <2>1, <2>5, <2>9
<1>11. CASE doy + 1 = DaysIn(y)
  <2>1. m = 11 /\ mo = 2 /\ da = len
    <3>1. m = 11  BY <1>1, <1>2, <1>3, <1>7, <1>11
    <3> QED  BY <1>1, <1>3, <1>6, <1>11, <3>1
  <2> DEFINE nyr == y + era * 400 + 1
  <2>2. nyr = yr /\ nyr \in Int  BY <1>1, <1>8, <2>1
  <2>3. DayAfter(Date(yr, mo, da)) = Date(yr, 3, 1)
    <3> HIDE DEF da, len
    <3> QED  BY <1>0, <2>1, After
  <2>4. MonthAt(0) = 0 /\ Month(0) = 3 /\ First(0) = 0  BY DEF MonthAt, Month, First
  <2>5. CASE y < 399
    <3>1. IsDay(z + 1, era, y + 1, 0)  BY <1>1, <1>2, <1>11, <2>5, NextDay
    <3>2. DateOf(era, y + 1, 0) = Date((y + 1) + era * 400 + 0, 3, 1)  BY <2>4 DEF DateOf, Date
    <3>3. (y + 1) + era * 400 + 0 = nyr  BY <1>1
    <3> QED  BY <1>4, <2>2, <2>3, <3>1, <3>2, <3>3
  <2>6. CASE y = 399
    <3>1. IsDay(z + 1, era + 1, 0, 0)  BY <1>1, <1>2, <1>11, <2>6, NextDay
    <3>2. DateOf(era + 1, 0, 0) = Date(0 + (era + 1) * 400 + 0, 3, 1)  BY <2>4 DEF DateOf, Date
    <3>3. 0 + (era + 1) * 400 + 0 = nyr  BY <1>1, <2>6
    <3> QED  BY <1>4, <2>2, <2>3, <3>1, <3>2, <3>3
  <2> QED  BY <1>1, <2>5, <2>6
<1> QED  BY <1>1, <1>2, <1>3, <1>7, <1>9, <1>10, <1>11

LEMMA Epochs ==
  ASSUME NEW minutes \in Int
  PROVE  /\ minutes \div 1440 = 0 => Ymd(minutes) = [year |-> 1600, month |-> 2, day |-> 29]
         /\ minutes \div 1440 = 135081 => Ymd(minutes) = [year |-> 1970, month |-> 1, day |-> 1]
<1>1. ASSUME minutes \div 1440 = 0
      PROVE  Ymd(minutes) = [year |-> 1600, month |-> 2, day |-> 29]
  <2>1. Shifted(minutes) = 584387  BY <1>1 DEF Shifted, UnixDay, Days
  <2>2. DaysIn(399) = 366 /\ Start(399) = 145731  BY DEF DaysIn, Start
  <2>3. IsDay(584387, 3, 399, 365)  BY <2>2 DEF IsDay
  <2>4. Ymd(minutes) = DateOf(3, 399, 365)  BY <2>1, <2>3, YmdIs
  <2>5. MonthAt(365) = 11 /\ First(11) = 337 /\ Month(11) = 2  BY DEF MonthAt, First, Month
  <2> QED  BY <2>4, <2>5 DEF DateOf
<1>2. ASSUME minutes \div 1440 = 135081
      PROVE  Ymd(minutes) = [year |-> 1970, month |-> 1, day |-> 1]
  <2>1. Shifted(minutes) = 719468  BY <1>2 DEF Shifted, UnixDay, Days
  <2>2. DaysIn(369) = 365 /\ Start(369) = 134774  BY DEF DaysIn, Start
  <2>3. IsDay(719468, 4, 369, 306)  BY <2>2 DEF IsDay
  <2>4. Ymd(minutes) = DateOf(4, 369, 306)  BY <2>1, <2>3, YmdIs
  <2>5. MonthAt(306) = 10 /\ First(10) = 306 /\ Month(10) = 1  BY DEF MonthAt, First, Month
  <2> QED  BY <2>4, <2>5 DEF DateOf
<1> QED  BY <1>1, <1>2

(* The date of the next day is the day after the date.                     *)
LEMMA NextDate ==
  ASSUME NEW a \in Int, NEW b \in Int, b \div 1440 = a \div 1440 + 1
  PROVE  Ymd(b) = DayAfter(Ymd(a))
<1>1. Shifted(a) \in Int /\ Shifted(b) = Shifted(a) + 1
  BY DEF Shifted, UnixDay, Days
<1>2. PICK era, y, doy : IsDay(Shifted(a), era, y, doy)  BY <1>1, DayExists
<1>3. PICK e, n, d : /\ IsDay(Shifted(a) + 1, e, n, d)
                     /\ DateOf(e, n, d) = DayAfter(DateOf(era, y, doy))
  BY <1>2, DateAfter
<1>4. Ymd(a) = DateOf(era, y, doy)  BY <1>2, YmdIs
<1>5. Ymd(b) = DateOf(e, n, d)  BY <1>1, <1>3, YmdIs
<1> QED  BY <1>3, <1>4, <1>5

LEMMA SameDate ==
  ASSUME NEW a, NEW b, b \div 1440 = a \div 1440
  PROVE  Ymd(b) = Ymd(a)
BY DEF Ymd, Days

LEMMA DateSteps ==
  ASSUME raw_minutes \in Int, date = Ymd(raw_minutes), [ValueNext]_(valueVars)
  PROVE  /\ raw_minutes' \in Int /\ date' = Ymd(raw_minutes')
         /\ [date' = IF raw_minutes' \div 1440 = raw_minutes \div 1440
                       THEN date ELSE DayAfter(date)]_(time)
<1>1. CASE UNCHANGED <<raw_minutes, date>>
  BY <1>1 DEF time
<1>2. CASE Later
  <2>1. raw_minutes' = raw_minutes + STEP /\ date' = Ymd(raw_minutes')
    BY <1>2 DEF Later
  <2> DEFINE a == raw_minutes
             b == raw_minutes'
  <2>2. a \in Int /\ b \in Int /\ (b \div 1440 = a \div 1440 \/ b \div 1440 = a \div 1440 + 1)
    <3>1. STEP \in Int /\ STEP >= 1 /\ STEP <= 1439  BY StepAssumption
    <3> QED  BY <2>1, <3>1
  <2> HIDE DEF a, b
  <2>3. Ymd(b) = IF b \div 1440 = a \div 1440 THEN Ymd(a)
                         ELSE DayAfter(Ymd(a))
    BY <2>2, NextDate, SameDate
  <2> QED  BY <2>1, <2>2, <2>3 DEF a, b
<1>3. CASE ~Later
  BY <1>1, <1>3 DEF ValueNext, ReadShort, RejectDigit, ReadLong,
     Render, number, time, valueVars
<1> QED  BY <1>2, <1>3

(* The dates of all minute counts, before and after the epoch and year     *)
(* zero without bound, are those of the Gregorian calendar (SaDate::ymd):  *)
(* day zero and the first of 1970 are where they belong, and from any time *)
(* to one less than a day later the date stays or becomes the next day's,  *)
(* over the end of every month, every leap day, century and era.           *)
THEOREM EveryDayIsGregorian == ValueSpec => DatesAreGregorian
<1> DEFINE Dated == raw_minutes \in Int /\ date = Ymd(raw_minutes)
           Step == date' = IF raw_minutes' \div 1440 = raw_minutes \div 1440
                             THEN date ELSE DayAfter(date)
           First1 == raw_minutes \in 0..1439 => date = [year |-> 1600, month |-> 2, day |-> 29]
           First2 == raw_minutes \div 1440 = 135081 =>
                       date = [year |-> 1970, month |-> 1, day |-> 1]
<1>1. ValueInit => Dated  BY SpanAssumption DEF ValueInit
<1>2. Dated /\ [ValueNext]_(valueVars) => Dated' /\ [Step]_(time)
  BY DateSteps
<1>3. Dated => First1 /\ First2
  <2> SUFFICES ASSUME Dated PROVE First1 /\ First2  OBVIOUS
  <2>1. First2  BY Epochs
  <2>2. ASSUME raw_minutes \in 0..1439 PROVE raw_minutes \div 1440 = 0
    BY <2>2
  <2>3. First1  BY <2>2, Epochs
  <2> QED  BY <2>1, <2>3
<1> HIDE DEF Dated
<1>4. ValueSpec => []Dated /\ [][Step]_(time)
  BY <1>1, <1>2, PTL DEF ValueSpec
<1>5. ValueSpec => []First1 /\ []First2
  BY <1>3, <1>4, PTL
<1> QED  BY <1>4, <1>5 DEF DatesAreGregorian
=============================================================================
