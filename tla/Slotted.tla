------------------------------ MODULE Slotted ------------------------------
(***************************************************************************)
(* SlottedPage::parse of slotted.rs: find_slot_directory tries every start *)
(* and both byte orders, scan_from reads one candidate word by word, the   *)
(* best candidate is kept; row_slots, which slices the page by the         *)
(* directory found; and slot_rows of the CLI (main.rs), which slices it    *)
(* once more to print it.                                                  *)
(*                                                                         *)
(* One behaviour is the parse of one plaintext page, or one directory made *)
(* by a caller, whose fields are public.  All widths derive from BYTE, the *)
(* number of values of a byte: 256 in the code.                            *)
(***************************************************************************)
EXTENDS Integers, Sequences, FiniteSets

CONSTANTS
  BYTE,             \* values of a byte
  SEARCH_LIMIT,     \* the directory is searched before this offset
  SLOT_OFFSET_MIN,  \* least row offset
  TRAILER_START,    \* end of the row area, SLOT_OFFSET_MAX too
  MIN_LIVE_SLOTS,   \* a directory has at least so many live slots
  Page,             \* the pages, as far as they are searched
  GivenSlots        \* the slots a caller may put in a directory of its own

ASSUME LayoutAssumption ==
  /\ BYTE \in Nat \ {0} /\ SEARCH_LIMIT \in Nat
  /\ SLOT_OFFSET_MIN \in Nat \ {0} /\ TRAILER_START \in 1..(BYTE * BYTE)
  /\ MIN_LIVE_SLOTS \in Nat \ {0}
ASSUME PageAssumption == Page \subseteq [0..(SEARCH_LIMIT - 1) -> 0..(BYTE - 1)]
ASSUME GivenAssumption == GivenSlots \subseteq Seq(0..(BYTE * BYTE - 1))

VARIABLES
  page,          \* the plaintext
  pc,            \* "start": before scan_from, "scan": in its loop, "found";
                 \* or "given", when the directory is a caller's
  start,         \* where scan_from was told to start
  big_endian,    \* the byte order it was told to read
  pos,           \* the word it looks at next
  leading_zero,  \* it skipped a zero word
  array_start,   \* where the slots begin
  slots,         \* the slots so far, deleted ones included
  prev,          \* the last live slot, or more than any
  best           \* the best candidates so far: none or one directory

scan == <<pos, leading_zero, array_start, slots, prev>>
vars == <<page, pc, start, big_endian, scan, best>>

---------------------------------------------------------------------------

Word(at, be) ==
  IF be THEN page[at] * BYTE + page[at + 1] ELSE page[at] + page[at + 1] * BYTE

IsSlotOffset(value) == value \in SLOT_OFFSET_MIN..(TRAILER_START - 1)

NoSlot == BYTE * BYTE
SeenLive == prev # NoSlot

LiveOf(s) == {i \in 1..Len(s) : s[i] # 0}
LiveCount(s) == Cardinality(LiveOf(s))

Search == page \in Page /\ pc = "start" /\ best = {}

Given ==
  /\ page = [at \in 0..(SEARCH_LIMIT - 1) |-> 0]
  /\ pc = "given"
  /\ \E s \in GivenSlots :
       best = {[scan_start |-> 0, array_start |-> 0, end |-> 2 * Len(s), slots |-> s,
                leading_zero |-> FALSE, big_endian |-> FALSE]}

Init ==
  /\ start = 0
  /\ big_endian = FALSE
  /\ pos = 0 /\ leading_zero = FALSE /\ array_start = 0
  /\ slots = <<>> /\ prev = NoSlot
  /\ Search \/ Given

---------------------------------------------------------------------------
(* scan_from *)

LeadingZero ==
  /\ start + 3 < SEARCH_LIMIT
  /\ Word(start, big_endian) = 0
  /\ IsSlotOffset(Word(start + 2, big_endian))

BeginScan ==
  /\ pc = "start"
  /\ start < SEARCH_LIMIT
  /\ pc' = "scan"
  /\ leading_zero' = LeadingZero
  /\ array_start' = IF LeadingZero THEN start + 2 ELSE start
  /\ pos' = array_start'
  /\ slots' = <<>>
  /\ prev' = NoSlot
  /\ UNCHANGED <<page, start, big_endian, best>>

Value == Word(pos, big_endian)

(* Mutant: equal offsets are taken as well. *)
MutIsNextSlot ==
  /\ pc = "scan" /\ pos + 1 < SEARCH_LIMIT
  /\ IsSlotOffset(Value) /\ Value <= prev

IsNextSlot ==
  /\ pc = "scan" /\ pos + 1 < SEARCH_LIMIT
  /\ IsSlotOffset(Value) /\ Value < prev

IsDeletedSlot ==
  pc = "scan" /\ pos + 1 < SEARCH_LIMIT /\ Value = 0 /\ SeenLive

PushSlot ==
  /\ IsNextSlot
  /\ prev' = Value
  /\ slots' = Append(slots, Value)
  /\ pos' = pos + 2
  /\ UNCHANGED <<page, pc, start, big_endian, leading_zero, array_start, best>>

PushDeleted ==
  /\ IsDeletedSlot
  /\ slots' = Append(slots, 0)
  /\ pos' = pos + 2
  /\ UNCHANGED <<page, pc, start, big_endian, leading_zero, array_start, prev, best>>

IsDirectory ==
  /\ LiveCount(slots) >= MIN_LIVE_SLOTS
  /\ \A i \in LiveOf(slots) : pos <= slots[i]

---------------------------------------------------------------------------
(* find_slot_directory *)

(* Mutant: the last of several equally good candidates wins. *)
MutBetter(d) ==
  \/ LiveCount(slots) > LiveCount(d.slots)
  \/ LiveCount(slots) = LiveCount(d.slots) /\ Len(slots) >= Len(d.slots)

(* Mutant: the first candidate is kept. *)
MutFirstIsBest(d) == FALSE

Better(d) ==
  \/ LiveCount(slots) > LiveCount(d.slots)
  \/ LiveCount(slots) = LiveCount(d.slots) /\ Len(slots) > Len(d.slots)

ScannedDirectory ==
  [scan_start |-> start, array_start |-> array_start, end |-> pos, slots |-> slots,
   leading_zero |-> leading_zero, big_endian |-> big_endian]

(* The little-endian candidate of a start comes before the big-endian one. *)
AdvanceStart ==
  /\ pc' = "start"
  /\ big_endian' = ~big_endian
  /\ start' = IF big_endian THEN start + 1 ELSE start

EndScan ==
  /\ pc = "scan"
  /\ ~IsNextSlot /\ ~IsDeletedSlot
  /\ best' = IF IsDirectory /\ \A d \in best : Better(d) THEN {ScannedDirectory} ELSE best
  /\ AdvanceStart
  /\ UNCHANGED <<page, scan>>

EndSearch ==
  /\ pc = "start"
  /\ start = SEARCH_LIMIT
  /\ pc' = "found"
  /\ UNCHANGED <<page, start, big_endian, scan, best>>

Next == BeginScan \/ PushSlot \/ PushDeleted \/ EndScan \/ EndSearch

Spec == Init /\ [][Next]_vars

---------------------------------------------------------------------------
(* SlottedPage::row_slots: the live offsets, sorted, bound each other; each *)
(* live slot gets the bounds of its offset under its own index.  Of equal   *)
(* offsets only the last has bounds.                                        *)

(* Sorted: the k-th offset is the one with fewer than k live slots below it *)
(* and at least k up to it.                                                 *)
Offsets(d) == {d.slots[i] : i \in LiveOf(d.slots)}

Below(d, o) == {i \in LiveOf(d.slots) : d.slots[i] < o}
UpTo(d, o) == {i \in LiveOf(d.slots) : d.slots[i] <= o}

Ascending(d) ==
  [k \in 1..LiveCount(d.slots) |->
     CHOOSE o \in Offsets(d) : /\ Cardinality(Below(d, o)) < k
                               /\ k <= Cardinality(UpTo(d, o))]

(* Mutant: the rows of offsets that occur twice are lost. *)
MutBounds(d) ==
  LET live == Ascending(d)
      next(k) == IF k < Len(live) THEN live[k + 1] ELSE TRAILER_START
  IN  {[from |-> live[k], to |-> next(k)] :
         k \in {i \in 1..Len(live) : /\ live[i] < next(i) /\ next(i) <= TRAILER_START
                                     /\ \A j \in 1..(i - 1) : live[j] # live[i]}}

Bounds(d) ==
  LET live == Ascending(d)
      next(k) == IF k < Len(live) THEN live[k + 1] ELSE TRAILER_START
  IN  {[from |-> live[k], to |-> next(k)] :
         k \in {i \in 1..Len(live) : live[i] < next(i) /\ next(i) <= TRAILER_START}}

RowSlots(d) ==
  UNION {{[slot |-> i - 1, from |-> b.from, to |-> b.to] :
            b \in {c \in Bounds(d) : c.from = d.slots[i]}} : i \in LiveOf(d.slots)}

(* slot_rows: every entry in directory order, the deleted ones included; a *)
(* row ends at the next of the sorted offsets, each taken once.            *)

(* Mutant: a row ends where the entry before it in the directory starts. *)
MutEndOf(d, off) ==
  LET i == CHOOSE j \in LiveOf(d.slots) : d.slots[j] = off
  IN  IF i = 1 THEN TRAILER_START ELSE d.slots[i - 1]

EndOf(d, off) ==
  LET above == {o \in Offsets(d) : o > off}
  IN  IF above = {} THEN TRAILER_START
      ELSE CHOOSE o \in above : \A p \in above : o <= p

NoRow == [from |-> 0, to |-> 0]

SlotRow(d, i) ==
  LET off == d.slots[i]
      end == EndOf(d, off)
  IN  IF off # 0 /\ off < end /\ end <= TRAILER_START
      THEN [from |-> off, to |-> end] ELSE NoRow

---------------------------------------------------------------------------
(* Properties *)

Directory == [scan_start : Nat, array_start : Nat, end : Nat, slots : Seq(Nat),
              leading_zero : BOOLEAN, big_endian : BOOLEAN]

(* Every live slot of the directory found yields one row, under its own    *)
(* index; the rows do not overlap each other, the directory or the trailer, *)
(* and together they fill the row area from the least offset on.           *)
RowsTileTheRowArea ==
  pc # "given" => \A d \in best :
    LET rows == RowSlots(d)
    IN  /\ \A i \in LiveOf(d.slots) :
             \E r \in rows : r.slot = i - 1 /\ r.from = d.slots[i] /\ r.from < r.to
        /\ \A r \in rows : d.end <= r.from /\ r.to <= TRAILER_START
        /\ \A r, s \in rows : r.slot # s.slot => r.to <= s.from \/ s.to <= r.from
        /\ \A r \in rows : r.to = TRAILER_START \/ \E s \in rows : s.from = r.to

(* The two ways the code slices a page agree on every directory, a caller's *)
(* included, in whatever order and however often it names its offsets: what *)
(* slots prints under an index is the row row_slots gives that index, and   *)
(* what it prints as deleted row_slots leaves out.                          *)
TwoViewsAgree ==
  \A d \in best : \A i \in 1..Len(d.slots) :
    {[from |-> r.from, to |-> r.to] : r \in {q \in RowSlots(d) : q.slot = i - 1}} =
      {SlotRow(d, i)} \ {NoRow}

(* What a directory is, without a scan: from a on, words in one byte order *)
(* that are zero or strictly descending row offsets, the first one live,   *)
(* as far as they go, and all before the rows.                             *)
Fits(a, k) == a + 2 * k + 1 < SEARCH_LIMIT

Extends(a, k, be) ==
  LET w(j) == Word(a + 2 * j, be)
  IN  \/ w(k) = 0
      \/ IsSlotOffset(w(k)) /\ \A j \in 0..(k - 1) : w(j) # 0 => w(k) < w(j)

IsRun(a, n, be) ==
  LET w(k) == Word(a + 2 * k, be)
  IN  /\ \A k \in 0..(n - 1) : Fits(a, k) /\ Extends(a, k, be)
      /\ w(0) # 0
      /\ Fits(a, n) => ~Extends(a, n, be)
      /\ \A k \in 0..(n - 1) : w(k) # 0 => a + 2 * n <= w(k)

LiveWords(a, n, be) == {k \in 0..(n - 1) : Word(a + 2 * k, be) # 0}

(* The search finds a directory whenever the page has one, and none of the *)
(* page's directories has more live slots than the one found.              *)
FindsTheLongest ==
  pc = "found" =>
    \A be \in BOOLEAN, a \in 0..(SEARCH_LIMIT - 2), n \in 1..(SEARCH_LIMIT \div 2) :
      LET live == Cardinality(LiveWords(a, n, be))
      IN  a + 2 * n <= SEARCH_LIMIT /\ live >= MIN_LIVE_SLOTS /\ IsRun(a, n, be) =>
            \E d \in best : LiveCount(d.slots) >= live

(* "true iff a 0x0000 sentinel word preceded the array" (slotted.rs:37):   *)
(* of the two scans that see the same array, the one that saw the sentinel *)
(* is kept, whatever other candidates there are.                           *)
LeadingZeroIsTold ==
  pc = "found" =>
    \A d \in best :
      d.leading_zero <=> d.array_start >= 2 /\ Word(d.array_start - 2, d.big_endian) = 0

(* "Number of deleted (zero) slots between live entries" (slotted.rs:54):  *)
(* each zero that is counted has a live slot on either side.               *)
DeletedSlotsAreInterior ==
  pc # "given" => \A d \in best : \A i \in (1..Len(d.slots)) \ LiveOf(d.slots) :
    \E j, k \in LiveOf(d.slots) : j < i /\ i < k
=============================================================================
