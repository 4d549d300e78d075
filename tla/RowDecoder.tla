----------------------------- MODULE RowDecoder -----------------------------
(***************************************************************************)
(* The three entry points of row_decoder.rs: decode_row_exact (decode_row  *)
(* and the check of its end), decode_materialized_row_record_exact, which  *)
(* unpacks a carrier and calls it, and decode_row_prefix_and_boolean_tail. *)
(*                                                                         *)
(* One behaviour decodes one row exactly and then, from the same bytes and *)
(* schema, any prefix of it.  The two decoders find the Boolean tail from  *)
(* different ends of the row and are written apart.  A decoded value keeps *)
(* its kind and the bytes it was made from; what a number, a date or a     *)
(* text is worth is left to other modules.                                 *)
(***************************************************************************)
EXTENDS Integers, Sequences, FiniteSets, SequencesExt

CONSTANTS
  BYTE_BITS,       \* bits of a byte: 8 in the code
  DIGIT_MAX,       \* the largest base-100 digit: 99
  ROW_SIZE_LIMIT,  \* sizes are cut to less: ROW_SIZE_MASK + 1
  Schema,          \* the schemas a caller may pass
  Input            \* the rows and the carriers a caller may pass

ASSUME WidthAssumption ==
  BYTE_BITS \in Nat \ {0} /\ DIGIT_MAX \in Nat /\ ROW_SIZE_LIMIT \in Nat \ {0}

BYTE == 2 ^ BYTE_BITS

ASSUME ByteAssumption == BYTE \in Nat

Inputs(kinds) ==
  [kind : kinds, len : Nat, declared : Nat, flags : Nat, continued : BOOLEAN,
   rest : Seq(0..(BYTE - 1))]

ASSUME InputAssumption == Input \subseteq Inputs({"row", "carrier"})

(* A row that has a size word is followed by the rest of it.               *)
ASSUME RowAssumption ==
  \A i \in Input : i.kind = "row" /\ i.len >= 2 => i.len = Len(i.rest) + 2

Schemas ==
  [columns : Seq([type : {"Boolean", "Char", "Numeric", "Enum", "Date", "DateTime",
                          "Int64", "Integer"},
                  width : Nat, nullable : BOOLEAN]),
   boolean_tail : {"Bytes", "PackedMsbFirst", "InlineBytes", "InlinePackedRunsMsbFirst",
                   "InlinePackedRunsLsbFirst", "InlineU16Le"},
   enum_fixed_width : BOOLEAN, pointer : {"Unsupported", "Pointer"}, pointer_width : Nat,
   variable_length : {"U8", "U16Le", "DeclaredWidth"}, wide_at_or_above : Nat,
   null_msb : BOOLEAN, set_is_present : BOOLEAN,
   coverage : {"NullableColumns", "AllColumns"}, row_prefix : Nat]

ASSUME SchemaAssumption == Schema \subseteq Schemas

VARIABLES
  schema,
  input,    \* what is decoded; a carrier is replaced by the row it holds
  call,     \* "exact" or "prefix"
  through,  \* through_ordinal of the prefix
  pc,       \* "unpack", "header", "columns", "tail", "decoded", "returned"
  present,  \* which columns are not null
  cursor,   \* where the next field begins in the row
  column,   \* the column it belongs to
  values,   \* column by column, what has been decoded
  result,   \* the verdict, and the length a prefix leaves opaque
  whole     \* history: verdict and values of the exact call

decoding == <<present, cursor, column, values>>
vars == <<schema, input, call, through, pc, decoding, result, whole>>

Columns == 1..Len(schema.columns)
IsBoolean(i) == schema.columns[i].type = "Boolean"

Value(kind, bytes) == [kind |-> kind, bytes |-> bytes]
Null == Value("Null", <<>>)
Unread == Value("Unread", <<>>)
Boolean(b) == Value("Boolean", <<b>>)

Returning(verdict, opaque) ==
  /\ pc' = "returned"
  /\ result' = [verdict |-> verdict, opaque |-> opaque]

Fails(verdict) == Returning(verdict, 0) /\ UNCHANGED decoding

Pending == [verdict |-> "Pending", opaque |-> 0]

Init ==
  /\ schema \in Schema
  /\ input \in Input
  /\ call = "exact" /\ through = 0
  /\ pc = IF input.kind = "carrier" THEN "unpack" ELSE "header"
  /\ present = <<>> /\ cursor = 0 /\ column = 1 /\ values = <<>>
  /\ result = Pending
  /\ whole = [verdict |-> "Pending", values |-> <<>>]

---------------------------------------------------------------------------
(* The row's bytes, by their offset in the row, and its bits.              *)

ByteAt(at) == input.rest[at - 1]
BytesAt(at, n) == SubSeq(input.rest, at - 1, at + n - 2)
Room(at, n) == at + n <= input.declared

LittleEndian(at, n) ==
  IF n = 1 THEN ByteAt(at) ELSE ByteAt(at) + BYTE * ByteAt(at + 1)

Bit(byte, ordinal, msb) ==
  LET place == ordinal % BYTE_BITS
  IN  (byte \div 2 ^ (IF msb THEN BYTE_BITS - 1 - place ELSE place)) % 2

ByteCount(bits) == (bits + BYTE_BITS - 1) \div BYTE_BITS

BitAt(at, ordinal, msb) == Bit(ByteAt(at + ordinal \div BYTE_BITS), ordinal, msb)

---------------------------------------------------------------------------
(* decode_materialized_row_record_exact: the envelope                      *)

CarrierHeader == IF input.continued THEN 9 ELSE 3

CarrierFault ==
  CASE \/ input.len < 3
       \/ input.declared \notin CarrierHeader..input.len -> "MissingRowHeader"
    [] input.declared # input.len -> "TrailingMaterializedRowCarrier"
    [] input.continued -> "ContinuedMaterializedRowCarrier"
    [] input.flags # 0 -> "UnsupportedMaterializedRowCarrierFlags"
    [] OTHER -> "Ok"

(* The size word of the rebuilt row is a u16 that the row header masks.    *)
Unpack ==
  /\ pc = "unpack"
  /\ \/ CarrierFault # "Ok" /\ Fails(CarrierFault) /\ UNCHANGED input
     \/ /\ CarrierFault = "Ok"
        /\ pc' = "header"
        /\ LET size == Len(input.rest) + 2
           IN  input' = [input EXCEPT !.kind = "payload", !.len = size,
                          !.declared = size % ROW_SIZE_LIMIT,
                          !.flags = size \div ROW_SIZE_LIMIT]
        /\ UNCHANGED <<decoding, result>>
  /\ UNCHANGED <<schema, call, through, whole>>

---------------------------------------------------------------------------
(* row_header_and_presence                                                 *)

NullableBefore(i) == Cardinality({j \in 1..(i - 1) : schema.columns[j].nullable})

BitmapStart == 2 + schema.row_prefix
BitmapBits ==
  IF schema.coverage = "AllColumns" THEN Len(schema.columns)
                                    ELSE NullableBefore(Len(schema.columns) + 1)
BodyStart == BitmapStart + ByteCount(BitmapBits)

(* Mutant: the flags that were cut from the size word are not looked at. *)
MutHeaderFault ==
  CASE input.len < 2 -> "MissingRowHeader"
    [] input.declared \notin 2..input.len -> "InvalidRowSize"
    [] input.declared < BodyStart -> "Truncated"
    [] OTHER -> "Ok"

HeaderFault ==
  CASE input.len < 2 -> "MissingRowHeader"
    [] input.declared \notin 2..input.len -> "InvalidRowSize"
    [] input.flags # 0 -> "UnsupportedRowFlags"
    [] input.declared < BodyStart -> "Truncated"
    [] OTHER -> "Ok"

BitmapIndex(i) ==
  IF schema.coverage = "AllColumns" THEN i - 1 ELSE NullableBefore(i)

Presence ==
  [i \in Columns |->
    schema.columns[i].nullable =>
      (BitAt(BitmapStart, BitmapIndex(i), schema.null_msb) = 1) = schema.set_is_present]

---------------------------------------------------------------------------
(* The Boolean tail.  `bools` are the present Boolean columns.             *)

Inline == schema.boolean_tail \notin {"Bytes", "PackedMsbFirst"}

TailColumns(there) == {i \in Columns : IsBoolean(i) /\ there[i]}

RequiredTail(there) ==
  CASE schema.boolean_tail = "Bytes" -> Cardinality(TailColumns(there))
    [] schema.boolean_tail = "PackedMsbFirst" -> ByteCount(Cardinality(TailColumns(there)))
    [] OTHER -> 0

(* Asked by the prefix decoder before it reads a field.                    *)
TailMisfits(there) == BodyStart + RequiredTail(there) > input.declared

ReadHeader ==
  /\ pc = "header"
  /\ HeaderFault = "Ok"
  /\ present' = Presence
  /\ cursor' = BodyStart
  /\ column' = 1
  /\ values' = [i \in Columns |-> IF call = "exact" THEN Null ELSE Unread]
  /\ IF call = "prefix" /\ TailMisfits(present')
       THEN Returning("TruncatedBooleanTail", 0)
       ELSE pc' = "columns" /\ UNCHANGED result
  /\ UNCHANGED <<schema, input, call, through, whole>>

RejectHeader ==
  /\ pc = "header"
  /\ HeaderFault # "Ok"
  /\ Fails(HeaderFault)
  /\ UNCHANGED <<schema, input, call, through, whole>>

---------------------------------------------------------------------------
(* take, decode_non_boolean and what it calls: the field at an offset      *)

Got(kind, bytes, end) ==
  [verdict |-> "Ok", value |-> Value(kind, bytes), end |-> end]
Fault(verdict) == [verdict |-> verdict, value |-> Null, end |-> 0]

Take(kind, at, n) ==
  IF Room(at, n) THEN Got(kind, BytesAt(at, n), at + n) ELSE Fault("Truncated")

LengthWidth(c) ==
  CASE schema.variable_length = "U8" -> 1
    [] schema.variable_length = "U16Le" -> 2
    [] OTHER -> IF c.width >= schema.wide_at_or_above THEN 2 ELSE 1

Overflow(at) ==
  CASE schema.pointer = "Unsupported" -> Fault("OverflowValue")
    [] schema.pointer_width = 0 -> Fault("InvalidOverflowPointerWidth")
    [] OTHER -> Take("OverflowPointer", at, schema.pointer_width)

(* Mutant: the text begins after the first byte of a length of two. *)
MutVariable(c, at) ==
  LET width == LengthWidth(c)
  IN  IF ~Room(at, width) THEN Fault("Truncated")
      ELSE IF LittleEndian(at, width) = BYTE ^ width - 1 THEN Overflow(at + width)
      ELSE Take("Bytes", at + 1, LittleEndian(at, width))

Variable(c, at) ==
  LET width == LengthWidth(c)
  IN  IF ~Room(at, width) THEN Fault("Truncated")
      ELSE IF LittleEndian(at, width) = BYTE ^ width - 1 THEN Overflow(at + width)
      ELSE Take("Bytes", at + width, LittleEndian(at, width))

(* Count, exponent or marker, and the digits, if any.                      *)
Numeric(at) ==
  CASE ~Room(at, 2) \/ ~Room(at + 2, ByteAt(at)) -> Fault("Truncated")
    [] \E i \in 1..ByteAt(at) : ByteAt(at + 1 + i) > DIGIT_MAX ->
         Fault("InvalidNumericDigit")
    [] OTHER -> Take("Numeric", at + 1, ByteAt(at) + 1)

Integer(c, at) ==
  IF c.width \in (IF c.type = "Int64" THEN {8} ELSE {1, 2, 4, 8})
    THEN Take(c.type, at, c.width)
    ELSE Fault("InvalidIntegerWidth")

Fixed(c, at) ==
  CASE c.type = "Date" -> Take("Date", at, 4)
    [] c.type = "DateTime" -> Take("DateTime", at, 8)
    [] OTHER -> Integer(c, at)

Enum(c, at) ==
  CASE ~schema.enum_fixed_width -> Fault("UnsupportedEnum")
    [] c.width \notin {1, 2, 4, 8} -> Fault("InvalidEnumWidth")
    [] OTHER -> Take("Enum", at, c.width)

NonBoolean(c, at) ==
  CASE c.type = "Char" -> Variable(c, at)
    [] c.type = "Numeric" -> Numeric(at)
    [] c.type = "Enum" -> Enum(c, at)
    [] OTHER -> Fixed(c, at)

---------------------------------------------------------------------------
(* The loop over the columns, up to the last, or through a prefix.         *)

LastColumn == IF call = "prefix" THEN through ELSE Len(schema.columns)

AtColumn == pc = "columns" /\ column <= LastColumn

(* The field at the cursor is decoded to the values of its columns.        *)
Decoded(end, decoded) ==
  /\ values' = [i \in Columns |-> IF i \in DOMAIN decoded THEN decoded[i] ELSE values[i]]
  /\ cursor' = end
  /\ column' = column + 1
  /\ UNCHANGED <<present, pc, result>>

(* The rest of a packed run is read with its first column, and Booleans of *)
(* a tail are read after the loop.                                         *)
InRun ==
  /\ schema.boolean_tail \in {"InlinePackedRunsMsbFirst", "InlinePackedRunsLsbFirst"}
  /\ column > 1 /\ IsBoolean(column - 1) /\ present[column - 1]

SkipColumn ==
  /\ AtColumn
  /\ ~present[column] \/ (IsBoolean(column) /\ (~Inline \/ InRun))
  /\ values' = [values EXCEPT ![column] =
       IF ~present[column] /\ ~IsBoolean(column) THEN Null ELSE @]
  /\ column' = column + 1
  /\ UNCHANGED <<schema, input, call, through, pc, present, cursor, result, whole>>

Word == IF schema.boolean_tail = "InlineU16Le" THEN 2 ELSE 1

WordFault ==
  CASE ~Room(cursor, Word) -> "Truncated"
    [] LittleEndian(cursor, Word) > 1 ->
         IF Word = 2 THEN "InvalidBooleanU16" ELSE "InvalidBooleanByte"
    [] OTHER -> "Ok"

ReadBooleanWord ==
  /\ AtColumn
  /\ present[column] /\ IsBoolean(column)
  /\ schema.boolean_tail \in {"InlineBytes", "InlineU16Le"}
  /\ \/ WordFault # "Ok" /\ Fails(WordFault)
     \/ /\ WordFault = "Ok"
        /\ Decoded(cursor + Word,
                   [i \in {column} |-> Boolean(LittleEndian(cursor, Word))])
  /\ UNCHANGED <<schema, input, call, through, whole>>

(* inline_boolean_run_end: the last column of the run that begins here     *)
RunEnd ==
  CHOOSE end \in column..Len(schema.columns) :
    /\ \A i \in column..end : IsBoolean(i) /\ present[i]
    /\ end < Len(schema.columns) => ~(IsBoolean(end + 1) /\ present[end + 1])

RunMsb == schema.boolean_tail = "InlinePackedRunsMsbFirst"

ReadBooleanRun ==
  /\ AtColumn
  /\ present[column] /\ IsBoolean(column)
  /\ schema.boolean_tail \in {"InlinePackedRunsMsbFirst", "InlinePackedRunsLsbFirst"}
  /\ ~InRun
  /\ LET end == cursor + ByteCount(RunEnd - column + 1)
     IN  IF end > input.declared THEN Fails("Truncated")
         ELSE Decoded(end, [i \in {i \in column..RunEnd : i <= LastColumn} |->
                              Boolean(BitAt(cursor, i - column, RunMsb))])
  /\ UNCHANGED <<schema, input, call, through, whole>>

Overlaps(end) ==
  call = "prefix" /\ ~Inline /\ end > input.declared - RequiredTail(present)

ReadField ==
  /\ AtColumn
  /\ present[column] /\ ~IsBoolean(column)
  /\ LET field == NonBoolean(schema.columns[column], cursor)
     IN  CASE field.verdict # "Ok" -> Fails(field.verdict)
           [] field.verdict = "Ok" /\ Overlaps(field.end) ->
                Fails("PrefixOverlapsBooleanTail")
           [] OTHER -> Decoded(field.end, [i \in {column} |-> field.value])
  /\ UNCHANGED <<schema, input, call, through, whole>>

---------------------------------------------------------------------------
(* The tail: after the last field of the row, or at the end of the row.    *)

(* Mutant: only the Booleans of the prefix are counted back from the end. *)
MutTailStart ==
  IF call = "exact" THEN cursor
  ELSE input.declared - RequiredTail([i \in Columns |-> present[i] /\ i <= through])

TailStart ==
  IF call = "exact" THEN cursor ELSE input.declared - RequiredTail(present)

TailOrdinal(i) == Cardinality({j \in TailColumns(present) : j < i})

TailValue(i) ==
  IF schema.boolean_tail = "Bytes" THEN ByteAt(TailStart + TailOrdinal(i))
  ELSE BitAt(TailStart, TailOrdinal(i), TRUE)

InvalidTailByte ==
  schema.boolean_tail = "Bytes" /\ \E i \in TailColumns(present) : TailValue(i) > 1

AfterColumns == pc = "columns" /\ column > LastColumn

ShortTail == ~Room(TailStart, RequiredTail(present))

RejectTail ==
  /\ AfterColumns
  /\ \/ ShortTail /\ Fails("TruncatedBooleanTail")
     \/ ~ShortTail /\ InvalidTailByte /\ Fails("InvalidBooleanByte")
  /\ UNCHANGED <<schema, input, call, through, whole>>

(* What lies between the prefix and the tail is opaque, and never negative. *)
PrefixVerdict == IF cursor > TailStart THEN "PrefixOverlapsBooleanTail" ELSE "Ok"

ReadTail ==
  /\ AfterColumns
  /\ ~ShortTail /\ ~InvalidTailByte
  /\ values' = [i \in Columns |->
       IF ~Inline /\ i \in TailColumns(present) THEN Boolean(TailValue(i))
                                                ELSE values[i]]
  /\ IF call = "exact"
       THEN pc' = "decoded" /\ cursor' = TailStart + RequiredTail(present)
            /\ UNCHANGED result
       ELSE /\ UNCHANGED cursor
            /\ Returning(PrefixVerdict, TailStart - cursor)
  /\ UNCHANGED <<schema, input, call, through, present, column, whole>>

(* decode_row has returned; decode_row_exact looks at what it left.        *)
Exactly ==
  /\ pc = "decoded"
  /\ Returning(IF cursor = input.declared THEN "Ok" ELSE "TrailingData", 0)
  /\ UNCHANGED <<schema, input, call, through, decoding, whole>>

(* The caller asks for a prefix of the row that was decoded exactly.       *)
CallPrefix ==
  /\ pc = "returned" /\ call = "exact" /\ input.kind = "row"
  /\ \E t \in 0..(Len(schema.columns) + 1) :
       /\ through' = t
       /\ IF t \in Columns THEN pc' = "header" /\ result' = Pending
          ELSE Returning("PrefixOrdinalOutOfRange", 0)
  /\ call' = "prefix"
  /\ whole' = [verdict |-> result.verdict, values |-> values]
  /\ present' = <<>> /\ cursor' = 0 /\ column' = 1 /\ values' = <<>>
  /\ UNCHANGED <<schema, input>>

Next ==
  \/ Unpack \/ ReadHeader \/ RejectHeader
  \/ SkipColumn \/ ReadBooleanWord \/ ReadBooleanRun \/ ReadField
  \/ RejectTail \/ ReadTail \/ Exactly \/ CallPrefix

Spec == Init /\ [][Next]_vars

---------------------------------------------------------------------------

Done(which) == pc = "returned" /\ call = which /\ result.verdict = "Ok"

LengthBytes(c, n) ==
  IF LengthWidth(c) = 1 THEN <<n>> ELSE <<n % BYTE, n \div BYTE>>

Encoding(i) ==
  LET c == schema.columns[i]
      n == Len(values[i].bytes)
  IN  CASE values[i].kind = "Null" \/ (IsBoolean(i) /\ ~Inline) -> <<>>
        [] values[i].kind = "Bytes" -> LengthBytes(c, n) \o values[i].bytes
        [] values[i].kind = "OverflowPointer" ->
             LengthBytes(c, BYTE ^ LengthWidth(c) - 1) \o values[i].bytes
        [] values[i].kind = "Numeric" -> <<n - 1>> \o values[i].bytes
        [] values[i].kind = "Boolean" /\ schema.boolean_tail = "InlineU16Le" ->
             <<values[i].bytes[1], 0>>
        [] OTHER -> values[i].bytes

TailEncoding ==
  IF schema.boolean_tail # "Bytes" THEN <<>>
  ELSE FlattenSeq([i \in Columns |->
         IF IsBoolean(i) /\ values[i] # Null THEN values[i].bytes ELSE <<>>])

(* What decode_row_exact makes of a row loses nothing of it: unless its     *)
(* Booleans are packed, which leaves bits unused, the body of a row that    *)
(* was decoded exactly is the encoding of the values, byte by byte.         *)
RowIsTheEncodingOfItsValues ==
  Done("exact")
  /\ schema.boolean_tail \in {"Bytes", "InlineBytes", "InlineU16Le"} =>
       BytesAt(BodyStart, input.declared - BodyStart) =
         FlattenSeq([i \in Columns |-> Encoding(i)]) \o TailEncoding

(* A carrier decoded exactly has had its whole payload decoded: its length  *)
(* is never cut by the mask of the row header to that of a shorter row.     *)
CarrierIsDecodedWhole ==
  Done("exact") /\ input.kind = "payload" => cursor = Len(input.rest) + 2

Agrees(partial) ==
  \A i \in Columns : partial[i] # Unread => partial[i] = whole.values[i]

(* A row is decoded exactly if and only if its whole prefix is decoded with *)
(* nothing left opaque; and every shorter prefix of it is decoded too, with *)
(* the values of the exact decoding.  The two decoders, which find the tail *)
(* from different ends, never contradict each other.                        *)
PrefixAgreesWithTheRow ==
  pc = "returned" /\ call = "prefix" /\ through \in Columns =>
    /\ whole.verdict = "Ok" => result.verdict = "Ok" /\ Agrees(values)
    /\ through = Len(schema.columns) /\ result = [verdict |-> "Ok", opaque |-> 0] =>
         whole.verdict = "Ok"
=============================================================================
