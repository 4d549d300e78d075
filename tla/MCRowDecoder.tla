---------------------------- MODULE MCRowDecoder ----------------------------
(* TLC instance of RowDecoder: bytes of two bits, rows of up to five bytes  *)
(* after their size, carriers of payloads up to the size limit and beyond,  *)
(* and schemas of up to three columns under every Boolean layout.           *)
EXTENDS RowDecoder

Col(type, width, nullable) == [type |-> type, width |-> width, nullable |-> nullable]
B == Col("Boolean", 0, FALSE)
NB == Col("Boolean", 0, TRUE)
C == Col("Char", 1, TRUE)
W == Col("Char", 9, FALSE)
I == Col("Integer", 1, FALSE)

(* The first three look at the Boolean runs and the tail, *)
(* the others at one field each.                          *)
BooleanColumns == {<<NB, NB, B>>, <<C, B, NB>>, <<NB, I, B>>}
FieldColumns ==
  {<<C, W>>, <<Col("Numeric", 0, TRUE), I>>, <<Col("Integer", 3, FALSE)>>,
   <<Col("Int64", 4, FALSE)>>, <<Col("Int64", 8, FALSE)>>, <<Col("Enum", 1, FALSE)>>,
   <<Col("Enum", 3, FALSE)>>, <<Col("Date", 4, FALSE)>>, <<Col("DateTime", 8, FALSE)>>}

BooleanTails ==
  {"Bytes", "PackedMsbFirst", "InlineBytes", "InlinePackedRunsMsbFirst",
   "InlinePackedRunsLsbFirst", "InlineU16Le"}

Plain ==
  [columns |-> <<I>>, boolean_tail |-> "Bytes", enum_fixed_width |-> FALSE,
   pointer |-> "Unsupported", pointer_width |-> 0, variable_length |-> "U8",
   wide_at_or_above |-> 4, null_msb |-> TRUE, set_is_present |-> TRUE,
   coverage |-> "NullableColumns", row_prefix |-> 0]

MCSchema ==
  {[Plain EXCEPT !.columns = c, !.boolean_tail = b, !.null_msb = m, !.coverage = v,
                 !.set_is_present = (v = "AllColumns")] :
     c \in BooleanColumns, b \in BooleanTails, m \in BOOLEAN,
     v \in {"NullableColumns", "AllColumns"}}
  \cup
  {[Plain EXCEPT !.columns = c, !.variable_length = v, !.row_prefix = p,
                 !.pointer = IF p = 0 THEN "Unsupported" ELSE "Pointer",
                 !.pointer_width = IF v = "U8" THEN 1 ELSE 0,
                 !.enum_fixed_width = (p = 1)] :
     c \in FieldColumns, v \in {"U8", "U16Le", "DeclaredWidth"}, p \in {0, 1}}

Strings(n, bytes) == UNION {[1..k -> bytes] : k \in 0..n}
Same(k, byte) == [i \in 1..k |-> byte]

Row(rest, less, flags) ==
  [kind |-> "row", len |-> Len(rest) + 2, declared |-> Len(rest) + 2 - less,
   flags |-> flags, continued |-> FALSE, rest |-> rest]
Carrier(rest, less, flags, continued) ==
  [kind |-> "carrier", len |-> Len(rest) + 3, declared |-> Len(rest) + 3 - less,
   flags |-> flags, continued |-> continued, rest |-> rest]

MCInput ==
  {Row(s, 0, 0) : s \in Strings(3, 0..3) \cup [1..4 -> {0, 1, 3}] \cup [1..5 -> {1, 3}]}
  \cup {Row(Same(k, b), 0, 0) : k \in 6..9, b \in 0..1}
  \cup {Row(<<1, 1, 1>>, less, flags) : less \in -1..4, flags \in 0..1}
  \cup {[Row(<<>>, 0, 0) EXCEPT !.len = 1, !.declared = 0]}
  \cup {Carrier(Same(k, b), 0, 0, FALSE) : k \in 0..10, b \in 0..1}
  \cup {Carrier(<<1, 1>>, less, flags, c) : less \in -1..3, flags \in 0..1, c \in BOOLEAN}
=============================================================================
