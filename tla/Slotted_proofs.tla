---------------------------- MODULE Slotted_proofs ----------------------------
(***************************************************************************)
(* The slot directory, for every page, byte width and search limit: the    *)
(* scan reads what a run of the page is (ScanInv), the best candidate is    *)
(* at least as long as every run whose start has been tried (BestInv), and  *)
(* the two ways of slicing the page by a directory agree.                   *)
(***************************************************************************)
EXTENDS Slotted, FiniteSetTheorems, SequenceTheorems, WellFoundedInduction, TLAPS

---------------------------------------------------------------------------
(* The inductive invariant *)

(* The words of the page are numbers, and where the search stands. *)
TypesInv ==
  /\ page \in [0..(SEARCH_LIMIT - 1) -> 0..(BYTE - 1)]
  /\ pc \in {"start", "scan", "found", "given"}
  /\ start \in 0..SEARCH_LIMIT
  /\ big_endian \in BOOLEAN
  /\ pc = "scan" => start < SEARCH_LIMIT
  /\ pc = "found" => start = SEARCH_LIMIT
  /\ best \subseteq Directory

(* scan_from at s: the sentinel it skips, and where its slots begin. *)
Sentinel(s, be) ==
  /\ s + 3 < SEARCH_LIMIT
  /\ Word(s, be) = 0
  /\ IsSlotOffset(Word(s + 2, be))

FirstSlot(s, be) == IF Sentinel(s, be) THEN s + 2 ELSE s

(* The slots so far are the words of the page from array_start on, each    *)
(* extending the ones before it.                                           *)
Read ==
  /\ slots \in Seq(Nat)
  /\ pos = array_start + 2 * Len(slots)
  /\ \A k \in 0..(Len(slots) - 1) :
       /\ slots[k + 1] = Word(array_start + 2 * k, big_endian)
       /\ Fits(array_start, k)
       /\ Extends(array_start, k, big_endian)
  /\ Len(slots) > 0 => slots[1] # 0

(* prev is the last live slot, which is the least so far. *)
Lowest ==
  /\ prev = NoSlot => Len(slots) = 0
  /\ prev # NoSlot => \E i \in LiveOf(slots) : prev = slots[i]
  /\ \A i \in LiveOf(slots) : prev <= slots[i]

ScanInv ==
  pc = "scan" =>
    /\ leading_zero = Sentinel(start, big_endian)
    /\ array_start = FirstSlot(start, big_endian)
    /\ Read
    /\ Lowest

(* The scans that are over. *)
Past(s, be) == s < start \/ (s = start /\ big_endian /\ ~be)

(* d is no shorter than a directory with so many live slots and slots. *)
NoShorter(d, live, n) ==
  \/ LiveCount(d.slots) > live
  \/ LiveCount(d.slots) = live /\ Len(d.slots) >= n

BestInv ==
  pc # "given" =>
    \A s \in 0..(SEARCH_LIMIT - 1), be \in BOOLEAN, n \in Nat \ {0} :
      LET a == FirstSlot(s, be)
          live == Cardinality(LiveWords(a, n, be))
      IN  Past(s, be) /\ IsRun(a, n, be) /\ live >= MIN_LIVE_SLOTS =>
            \E d \in best : NoShorter(d, live, n)

(* A directory found descends, ends before its rows, and tells its zero. *)
Descends(d) == \A i, j \in LiveOf(d.slots) : i < j => d.slots[j] < d.slots[i]

EndsBeforeRows(d) ==
  \A i \in LiveOf(d.slots) : d.end <= d.slots[i] /\ d.slots[i] < TRAILER_START

TellsZero(d) ==
  d.leading_zero <=>
    (d.array_start >= 2 /\ Word(d.array_start - 2, d.big_endian) = 0)

FoundInv ==
  pc # "given" => \A d \in best : Descends(d) /\ EndsBeforeRows(d) /\ TellsZero(d)

SlottedInv == TypesInv /\ ScanInv /\ BestInv /\ FoundInv

---------------------------------------------------------------------------
(* Arithmetic of the layout *)

LEMMA SlotOffsets ==
  ASSUME NEW value, IsSlotOffset(value)
  PROVE  value \in Nat /\ value # 0 /\ value < TRAILER_START /\ value < NoSlot
<1> DEFINE m == BYTE * BYTE
<1>1. m \in Int  BY LayoutAssumption
<1>2. TRAILER_START \in 1..m /\ SLOT_OFFSET_MIN \in Nat \ {0}  BY LayoutAssumption
<1>3. NoSlot = m  BY DEF NoSlot
<1> HIDE DEF m
<1> QED  BY <1>1, <1>2, <1>3 DEF IsSlotOffset

LEMMA LiveSlots ==
  ASSUME NEW s \in Seq(Nat)
  PROVE  /\ IsFiniteSet(LiveOf(s)) /\ LiveCount(s) \in Nat
         /\ LiveOf(s) \subseteq 1..Len(s)
         /\ LiveOf(s) = {} => LiveCount(s) = 0
<1>1. IsFiniteSet(1..Len(s))  BY FS_Interval
<1>2. LiveOf(s) \subseteq 1..Len(s)  BY DEF LiveOf
<1>3. IsFiniteSet(LiveOf(s))  BY <1>1, <1>2, FS_Subset
<1>4. LiveCount(s) \in Nat  BY <1>3, FS_CardinalityType DEF LiveCount
<1>5. LiveOf(s) = {} => LiveCount(s) = 0  BY FS_EmptySet DEF LiveCount
<1> QED  BY <1>2, <1>3, <1>4, <1>5

---------------------------------------------------------------------------
(* Types and the scan *)

LEMMA InitSlotted == Init => SlottedInv
<1> SUFFICES ASSUME Init PROVE SlottedInv  OBVIOUS
<1>1. start = 0 /\ 0 \in 0..SEARCH_LIMIT /\ big_endian = FALSE  BY LayoutAssumption DEF Init
<1>2. CASE Search
  <2>1. page \in [0..(SEARCH_LIMIT - 1) -> 0..(BYTE - 1)]  BY <1>2, PageAssumption DEF Search
  <2>2. TypesInv  BY <1>1, <1>2, <2>1 DEF Search, TypesInv
  <2>3. ScanInv /\ FoundInv  BY <1>2 DEF Search, ScanInv, FoundInv
  <2>4. BestInv  BY <1>1, <1>2 DEF Search, BestInv, Past
  <2> QED  BY <2>2, <2>3, <2>4 DEF SlottedInv
<1>3. CASE Given
  <2>1. page \in [0..(SEARCH_LIMIT - 1) -> 0..(BYTE - 1)]
    <3>1. 0 \in 0..(BYTE - 1)  BY LayoutAssumption
    <3> QED  BY <1>3, <3>1 DEF Given
  <2>2. best \subseteq Directory
    <3>1. PICK s \in GivenSlots :
            best = {[scan_start |-> 0, array_start |-> 0, end |-> 2 * Len(s), slots |-> s,
                     leading_zero |-> FALSE, big_endian |-> FALSE]}
      BY <1>3 DEF Given
    <3>2. s \in Seq(0..(BYTE * BYTE - 1))  BY GivenAssumption
    <3>3. s \in Seq(Nat) /\ 2 * Len(s) \in Nat
      <4> DEFINE top == BYTE * BYTE - 1
      <4>1. s \in Seq(0..top)  BY <3>2
      <4>2. top \in Int  BY LayoutAssumption
      <4> HIDE DEF top
      <4>3. 0..top \subseteq Nat  BY <4>2
      <4> DEFINE D == 0..top
      <4>4. s \in Seq(D) /\ D \subseteq Nat  BY <4>1, <4>3
      <4> HIDE DEF D
      <4>5. Len(s) \in Nat /\ s = [i \in 1..Len(s) |-> s[i]]
            /\ \A i \in 1..Len(s) : s[i] \in Nat
        BY <4>4
      <4> QED  BY <4>5
    <3> QED  BY <3>1, <3>3 DEF Directory
  <2>3. TypesInv  BY <1>1, <1>3, <2>1, <2>2 DEF Given, TypesInv
  <2>4. ScanInv /\ FoundInv /\ BestInv  BY <1>3 DEF Given, ScanInv, FoundInv, BestInv
  <2> QED  BY <2>3, <2>4 DEF SlottedInv
<1> QED  BY <1>2, <1>3 DEF Init

LEMMA StepTypes ==
  ASSUME TypesInv, ScanInv, [Next]_vars
  PROVE  TypesInv'
<1> USE LayoutAssumption DEF TypesInv
<1>1. CASE BeginScan  BY <1>1 DEF BeginScan
<1>2. CASE PushSlot  BY <1>2 DEF PushSlot, IsNextSlot
<1>3. CASE PushDeleted  BY <1>3 DEF PushDeleted, IsDeletedSlot
<1>4. CASE EndScan
  <2>1. start \in Nat /\ start < SEARCH_LIMIT  BY <1>4 DEF EndScan
  <2>2. ScannedDirectory \in Directory
    <3>1. Read /\ leading_zero = Sentinel(start, big_endian)
          /\ array_start = FirstSlot(start, big_endian)
      BY <1>4 DEF EndScan, ScanInv
    <3>2. leading_zero \in BOOLEAN  BY <3>1 DEF Sentinel
    <3>3. array_start \in Nat  BY <2>1, <3>1 DEF FirstSlot
    <3>4. slots \in Seq(Nat) /\ pos \in Nat  BY <3>1, <3>3 DEF Read
    <3> QED  BY <2>1, <3>2, <3>3, <3>4 DEF ScannedDirectory, Directory
  <2> QED  BY <1>4, <2>1, <2>2 DEF EndScan, AdvanceStart
<1>5. CASE EndSearch  BY <1>5 DEF EndSearch
<1>6. CASE UNCHANGED vars  BY <1>6 DEF vars, scan
<1> QED  BY <1>1, <1>2, <1>3, <1>4, <1>5, <1>6 DEF Next

(* One more word of the run. *)
LEMMA ReadNext ==
  ASSUME Read, Lowest, array_start \in Nat, IsNextSlot
  PROVE  /\ Extends(array_start, Len(slots), big_endian)
         /\ Fits(array_start, Len(slots))
<1> DEFINE n == Len(slots)
<1>1. n \in Nat /\ pos = array_start + 2 * n /\ slots \in Seq(Nat)  BY DEF Read
<1>2. IsSlotOffset(Value) /\ Value < prev /\ pos + 1 < SEARCH_LIMIT  BY DEF IsNextSlot
<1>3. Value = Word(array_start + 2 * n, big_endian)  BY <1>1 DEF Value
<1>4. ASSUME NEW j \in 0..(n - 1), Word(array_start + 2 * j, big_endian) # 0
      PROVE  Value < Word(array_start + 2 * j, big_endian)
  <2>1. slots[j + 1] = Word(array_start + 2 * j, big_endian)  BY DEF Read
  <2>2. j + 1 \in LiveOf(slots)  BY <1>1, <1>4, <2>1 DEF LiveOf
  <2>3. prev <= slots[j + 1]  BY <2>2 DEF Lowest
  <2>4. prev \in Nat
    <3>1. prev # NoSlot  BY <1>1, <1>4 DEF Lowest
    <3> QED  BY <3>1, <1>1 DEF Lowest, LiveOf
  <2>5. Value \in Nat /\ slots[j + 1] \in Nat  BY <1>1, <1>2, SlotOffsets
  <2> QED  BY <1>2, <2>1, <2>3, <2>4, <2>5
<1> HIDE DEF n
<1>5. Extends(array_start, n, big_endian)  BY <1>2, <1>3, <1>4 DEF Extends
<1>6. Fits(array_start, n)  BY <1>1, <1>2 DEF Fits
<1> QED  BY <1>5, <1>6 DEF n

LEMMA ArrayStart ==
  ASSUME TypesInv, ScanInv, pc = "scan"
  PROVE  array_start \in Nat /\ Read /\ Lowest
<1>1. start \in Nat /\ array_start = FirstSlot(start, big_endian)
  BY LayoutAssumption DEF TypesInv, ScanInv
<1>2. array_start \in Nat  BY <1>1 DEF FirstSlot
<1> QED  BY <1>2 DEF ScanInv

(* Appending the word at pos keeps what Read says, in the unchanged page. *)
LEMMA ReadOn ==
  ASSUME Read, array_start \in Nat, NEW v \in Nat,
         v = Value,
         Extends(array_start, Len(slots), big_endian), Fits(array_start, Len(slots)),
         Len(slots) = 0 => v # 0,
         UNCHANGED <<page, array_start, big_endian>>,
         slots' = Append(slots, v), pos' = pos + 2
  PROVE  Read'
<1> DEFINE n == Len(slots)
           s == Append(slots, v)
<1>1. n \in Nat /\ slots \in Seq(Nat) /\ pos = array_start + 2 * n  BY DEF Read
<1>2. s \in Seq(Nat) /\ Len(s) = n + 1 /\ s[n + 1] = v /\ \A i \in 1..n : s[i] = slots[i]
  BY <1>1
<1>3. \A k \in 0..n : /\ s[k + 1] = Word(array_start + 2 * k, big_endian)
                      /\ Fits(array_start, k)
                      /\ Extends(array_start, k, big_endian)
  <2> TAKE k \in 0..n
  <2>1. CASE k = n
    <3>1. v = Word(array_start + 2 * n, big_endian)  BY <1>1 DEF Value
    <3> QED  BY <2>1, <3>1, <1>2
  <2>2. CASE k # n
    <3>1. k \in 0..(Len(slots) - 1) /\ k + 1 \in 1..n  BY <1>1, <2>2
    <3>2. s[k + 1] = slots[k + 1]  BY <3>1, <1>2
    <3> QED  BY <3>1, <3>2 DEF Read
  <2> QED  BY <2>1, <2>2
<1>4. s[1] # 0
  <2>1. CASE n = 0  BY <1>2, <2>1
  <2>2. CASE n # 0
    <3>1. slots[1] # 0 /\ 1 \in 1..n  BY <1>1, <2>2 DEF Read
    <3> QED  BY <3>1, <1>2
  <2> QED  BY <2>1, <2>2
<1> HIDE DEF s
<1>5. slots' = s  BY DEF s
<1>6. Len(slots') - 1 = n /\ slots' \in Seq(Nat) /\ pos' = array_start' + 2 * Len(slots')
      /\ slots'[1] # 0
  <2>1. slots' \in Seq(Nat) /\ Len(slots') = n + 1 /\ slots'[1] # 0  BY <1>2, <1>4, <1>5
  <2> HIDE DEF n
  <2>2. (n + 1) - 1 = n /\ pos + 2 = array_start + 2 * (n + 1)  BY <1>1
  <2> QED  BY <2>1, <2>2
<1> HIDE DEF n
<1>7. \A k \in 0..n : /\ slots'[k + 1] = (Word(array_start + 2 * k, big_endian))'
                      /\ Fits(array_start, k)'
                      /\ Extends(array_start, k, big_endian)'
  BY <1>3, <1>5 DEF Fits, Extends, Word, IsSlotOffset
<1> QED  BY <1>6, <1>7 DEF Read

LEMMA StepScan ==
  ASSUME TypesInv, ScanInv, [Next]_vars
  PROVE  ScanInv'
<1>1. CASE BeginScan
  <2>1. leading_zero' = Sentinel(start, big_endian)'
    BY <1>1 DEF BeginScan, LeadingZero, Sentinel, Word, IsSlotOffset
  <2>2. array_start' = FirstSlot(start, big_endian)'
    BY <1>1, <2>1 DEF BeginScan, FirstSlot
  <2>3. array_start' \in Nat
    BY <1>1, LayoutAssumption DEF BeginScan, TypesInv
  <2>4. Read'
    <3>1. slots' = <<>> /\ pos' = array_start'  BY <1>1 DEF BeginScan
    <3>2. Len(slots') = 0 /\ slots' \in Seq(Nat)  BY <3>1
    <3> DEFINE m == Len(slots')
    <3>3. m = 0 /\ pos' = array_start'  BY <3>1, <3>2
    <3> HIDE DEF m
    <3>4. pos' = array_start' + 2 * m
      <4>1. \A a \in Nat : a + 2 * 0 = a  OBVIOUS
      <4> QED  BY <2>3, <3>3, <4>1
    <3>5. \A k \in 0..(m - 1) : FALSE  BY <3>3
    <3> QED  BY <3>2, <3>4, <3>5 DEF Read, m
  <2>5. Lowest'
    <3>1. slots' = <<>> /\ prev' = NoSlot /\ NoSlot' = NoSlot
      BY <1>1 DEF BeginScan, NoSlot
    <3> QED  BY <3>1 DEF Lowest, LiveOf
  <2> QED  BY <2>1, <2>2, <2>4, <2>5 DEF ScanInv
<1>2. CASE PushSlot
  <2>1. pc = "scan" /\ UNCHANGED <<page, pc, start, big_endian, leading_zero, array_start>>
    BY <1>2 DEF PushSlot, IsNextSlot
  <2>2. array_start \in Nat /\ Read /\ Lowest  BY <2>1, ArrayStart
  <2>3. Value \in Nat /\ Value # 0 /\ Value < NoSlot /\ Value < prev
    BY <1>2, SlotOffsets DEF PushSlot, IsNextSlot
  <2>4. Read'
    <3>1. Extends(array_start, Len(slots), big_endian) /\ Fits(array_start, Len(slots))
      BY <1>2, <2>2, ReadNext DEF PushSlot
    <3>2. slots' = Append(slots, Value) /\ pos' = pos + 2  BY <1>2 DEF PushSlot
    <3> QED  BY <2>1, <2>2, <2>3, <3>1, <3>2, ReadOn
  <2>5. Lowest'
    <3> DEFINE v == Value
    <3>1. slots' = Append(slots, v) /\ prev' = v /\ slots \in Seq(Nat)
      BY <1>2, <2>2 DEF PushSlot, Read
    <3>2. v \in Nat /\ v # 0 /\ v < NoSlot /\ v < prev  BY <2>3
    <3> HIDE DEF v
    <3>3. Len(slots') = Len(slots) + 1 /\ Len(slots) \in Nat
          /\ slots'[Len(slots) + 1] = v /\ \A i \in 1..Len(slots) : slots'[i] = slots[i]
      BY <3>1, <3>2
    <3>4. Len(slots) + 1 \in LiveOf(slots')  BY <3>2, <3>3 DEF LiveOf
    <3>5. \A i \in LiveOf(slots') : prev' <= slots'[i]
      <4> TAKE i \in LiveOf(slots')
      <4>1. CASE i = Len(slots) + 1  BY <4>1, <3>1, <3>2, <3>3
      <4>2. CASE i # Len(slots) + 1
        <5>1. i \in LiveOf(slots) /\ slots'[i] = slots[i]  BY <3>3, <4>2 DEF LiveOf
        <5>2. prev <= slots[i] /\ slots[i] \in Nat  BY <2>2, <3>1, <5>1 DEF Lowest, LiveOf
        <5>3. prev \in Nat  BY <2>2, <3>1, <5>1 DEF Lowest, LiveOf
        <5> QED  BY <3>1, <3>2, <5>1, <5>2, <5>3
      <4> QED  BY <4>1, <4>2
    <3>6. prev' # NoSlot /\ NoSlot \in Int  BY <3>1, <3>2, LayoutAssumption DEF NoSlot
    <3>7. NoSlot' = NoSlot /\ LiveOf(slots)' = LiveOf(slots')  BY DEF NoSlot, LiveOf
    <3> QED  BY <3>1, <3>3, <3>4, <3>5, <3>6, <3>7 DEF Lowest
  <2>6. leading_zero' = Sentinel(start, big_endian)'
        /\ array_start' = FirstSlot(start, big_endian)'
    BY <2>1 DEF ScanInv, FirstSlot, Sentinel, Word, IsSlotOffset
  <2> QED  BY <2>4, <2>5, <2>6 DEF ScanInv
<1>3. CASE PushDeleted
  <2>1. pc = "scan"
        /\ UNCHANGED <<page, pc, start, big_endian, leading_zero, array_start, prev>>
    BY <1>3 DEF PushDeleted, IsDeletedSlot
  <2>2. array_start \in Nat /\ Read /\ Lowest  BY <2>1, ArrayStart
  <2>3. slots' = Append(slots, 0) /\ pos' = pos + 2 /\ prev # NoSlot /\ Value = 0
        /\ pos + 1 < SEARCH_LIMIT
    BY <1>3 DEF PushDeleted, IsDeletedSlot, SeenLive
  <2>4. slots \in Seq(Nat) /\ Len(slots) \in Nat /\ pos = array_start + 2 * Len(slots)
    BY <2>2 DEF Read
  <2>5. Len(slots) # 0  BY <2>2, <2>3, <2>4 DEF Lowest, LiveOf
  <2>6. Read'
    <3>1. Extends(array_start, Len(slots), big_endian) /\ Fits(array_start, Len(slots))
      BY <2>3, <2>4 DEF Extends, Fits, Value
    <3> QED  BY <2>1, <2>2, <2>3, <2>5, <3>1, ReadOn
  <2>7. Lowest'
    <3>1. Len(slots') = Len(slots) + 1 /\ slots'[Len(slots) + 1] = 0
          /\ \A i \in 1..Len(slots) : slots'[i] = slots[i]
      BY <2>3, <2>4
    <3>2. LiveOf(slots') = LiveOf(slots) /\ \A i \in LiveOf(slots) : slots'[i] = slots[i]
      BY <2>4, <3>1 DEF LiveOf
    <3>3. NoSlot' = NoSlot /\ LiveOf(slots)' = LiveOf(slots')  BY DEF NoSlot, LiveOf
    <3> QED  BY <2>1, <2>2, <2>3, <3>2, <3>3 DEF Lowest
  <2>8. leading_zero' = Sentinel(start, big_endian)'
        /\ array_start' = FirstSlot(start, big_endian)'
    BY <2>1 DEF ScanInv, FirstSlot, Sentinel, Word, IsSlotOffset
  <2> QED  BY <2>6, <2>7, <2>8 DEF ScanInv
<1>4. CASE EndScan  BY <1>4 DEF EndScan, AdvanceStart, ScanInv
<1>5. CASE EndSearch  BY <1>5 DEF EndSearch, ScanInv
<1>6. CASE UNCHANGED vars
  BY <1>6 DEF vars, scan, ScanInv, Read, Lowest, Sentinel, FirstSlot, Fits, Extends, Word,
              IsSlotOffset, LiveOf, NoSlot
<1> QED  BY <1>1, <1>2, <1>3, <1>4, <1>5, <1>6 DEF Next

---------------------------------------------------------------------------
(* What a scan reads is a run of the page *)

LEMMA SamePage ==
  ASSUME page' = page, NEW a, NEW n, NEW be
  PROVE  /\ IsRun(FirstSlot(a, be), n, be)' = IsRun(FirstSlot(a, be), n, be)
         /\ LiveWords(FirstSlot(a, be), n, be)' = LiveWords(FirstSlot(a, be), n, be)
         /\ Word(a, be)' = Word(a, be)
<1>1. Word(a, be)' = Word(a, be)  BY DEF Word
<1>2. LiveWords(FirstSlot(a, be), n, be)' = LiveWords(FirstSlot(a, be), n, be)
  BY DEF LiveWords, FirstSlot, Sentinel, Word, IsSlotOffset
<1>3. IsRun(FirstSlot(a, be), n, be)' = IsRun(FirstSlot(a, be), n, be)
  <2>1. \A at : Word(at, be)' = Word(at, be)  BY DEF Word
  <2>2. FirstSlot(a, be)' = FirstSlot(a, be)
    BY DEF FirstSlot, Sentinel, Word, IsSlotOffset
  <2>3. \A b, k : Extends(b, k, be)' = Extends(b, k, be)
    BY DEF Extends, Word, IsSlotOffset
  <2> QED  BY <2>1, <2>2, <2>3 DEF IsRun, Fits
<1> QED  BY <1>1, <1>2, <1>3

(* Two runs from the same place in the same order end at the same place. *)
LEMMA RunLength ==
  ASSUME NEW a, NEW be, NEW m \in Nat, NEW n \in Nat,
         \A k \in 0..(m - 1) : Fits(a, k) /\ Extends(a, k, be),
         Fits(a, m) => ~Extends(a, m, be),
         \A k \in 0..(n - 1) : Fits(a, k) /\ Extends(a, k, be),
         Fits(a, n) => ~Extends(a, n, be)
  PROVE  m = n
<1>1. ~(m < n)
  <2>1. m < n => m \in 0..(n - 1)  OBVIOUS
  <2> QED  BY <2>1
<1>2. ~(n < m)
  <2>1. n < m => n \in 0..(m - 1)  OBVIOUS
  <2> QED  BY <2>1
<1> QED  BY <1>1, <1>2

(* The live slots read are the live words of the page. *)
LEMMA LiveSlotsAreWords ==
  ASSUME Read
  PROVE  LiveCount(slots) = Cardinality(LiveWords(array_start, Len(slots), big_endian))
<1> DEFINE words == LiveWords(array_start, Len(slots), big_endian)
           live == LiveOf(slots)
           f == [k \in words |-> k + 1]
<1>1. Len(slots) \in Nat /\ slots \in Seq(Nat)  BY DEF Read
<1>2. \A k \in 0..(Len(slots) - 1) : slots[k + 1] = Word(array_start + 2 * k, big_endian)
  BY DEF Read
<1>3. words \subseteq 0..(Len(slots) - 1)  BY DEF LiveWords
<1>4. \A k \in words : k + 1 \in live
  <2> TAKE k \in words
  <2>1. k \in 0..(Len(slots) - 1) /\ k + 1 \in 1..Len(slots)  BY <1>1, <1>3
  <2>2. slots[k + 1] # 0  BY <1>2, <2>1 DEF LiveWords
  <2> QED  BY <2>1, <2>2 DEF LiveOf
<1>5. \A i \in live : i - 1 \in words /\ (i - 1) + 1 = i
  <2> TAKE i \in live
  <2>1. i \in 1..Len(slots) /\ slots[i] # 0  BY DEF LiveOf
  <2>2. i - 1 \in 0..(Len(slots) - 1) /\ (i - 1) + 1 = i  BY <1>1, <2>1
  <2>3. Word(array_start + 2 * (i - 1), big_endian) # 0
    <3> DEFINE j == i - 1
    <3>1. j \in 0..(Len(slots) - 1) /\ j + 1 = i  BY <2>2
    <3> HIDE DEF j
    <3>2. Word(array_start + 2 * j, big_endian) # 0  BY <1>2, <2>1, <3>1
    <3> QED  BY <3>2 DEF j
  <2> QED  BY <2>2, <2>3 DEF LiveWords
<1>6. \A k \in words : k \in Int  BY <1>1, <1>3
<1> HIDE DEF words, live
<1>7. IsFiniteSet(words)
  <2>1. Len(slots) - 1 \in Int  BY <1>1
  <2>2. IsFiniteSet(0..(Len(slots) - 1))  BY <2>1, FS_Interval
  <2> QED  BY <1>3, <2>2, FS_Subset
<1>8. f \in Bijection(words, live)
  <2>1. f \in [words -> live]  BY <1>4
  <2>2. \A j, k \in words : f[j] = f[k] => j = k  BY <1>6
  <2>3. \A i \in live : \E k \in words : f[k] = i  BY <1>5
  <2> QED  BY <2>1, <2>2, <2>3 DEF Bijection, Injection, Surjection, IsInjective
<1>9. Cardinality(words) = Cardinality(live)
  BY <1>7, <1>8, FS_Bijection DEF ExistsBijection
<1> QED  BY <1>9 DEF words, live, LiveCount

(* Where the scan stops, no word extends what it read. *)
LEMMA ScanStops ==
  ASSUME Read, Lowest, array_start \in Nat, pc = "scan",
         ~IsNextSlot, ~IsDeletedSlot,
         Fits(array_start, Len(slots)), Extends(array_start, Len(slots), big_endian)
  PROVE  Len(slots) = 0 /\ Value = 0
<1> DEFINE n == Len(slots)
<1>1. n \in Nat /\ slots \in Seq(Nat) /\ pos = array_start + 2 * n  BY DEF Read
<1>2. pos + 1 < SEARCH_LIMIT /\ Value = Word(array_start + 2 * n, big_endian)
  BY <1>1 DEF Fits, Value
<1>3. CASE Value = 0
  <2>1. prev = NoSlot  BY <1>2, <1>3 DEF IsDeletedSlot, SeenLive
  <2> QED  BY <1>3, <2>1 DEF Lowest
<1>4. CASE Value # 0
  <2>1. IsSlotOffset(Value)
        /\ \A j \in 0..(n - 1) :
             Word(array_start + 2 * j, big_endian) # 0
               => Value < Word(array_start + 2 * j, big_endian)
    BY <1>2, <1>4 DEF Extends
  <2>2. ~(Value < prev)  BY <1>2, <2>1 DEF IsNextSlot
  <2>3. prev # NoSlot  BY <2>1, <2>2, SlotOffsets
  <2>4. PICK i \in LiveOf(slots) : prev = slots[i]  BY <2>3 DEF Lowest
  <2>5. i \in 1..n /\ slots[i] # 0  BY <2>4 DEF LiveOf
  <2> DEFINE j == i - 1
  <2>6. j \in 0..(n - 1) /\ j + 1 = i  BY <1>1, <2>5
  <2> HIDE DEF j
  <2>7. slots[j + 1] = Word(array_start + 2 * j, big_endian)  BY <2>6 DEF Read
  <2> QED  BY <2>1, <2>2, <2>4, <2>5, <2>6, <2>7
<1> QED  BY <1>3, <1>4

LEMMA RunIsScanned ==
  ASSUME TypesInv, ScanInv, pc = "scan", ~IsNextSlot, ~IsDeletedSlot,
         NEW n \in Nat \ {0}, IsRun(array_start, n, big_endian)
  PROVE  /\ n = Len(slots)
         /\ LiveCount(slots) = Cardinality(LiveWords(array_start, n, big_endian))
         /\ \A i \in LiveOf(slots) : pos <= slots[i]
<1> DEFINE a == array_start
           m == Len(slots)
<1>1. a \in Nat /\ Read /\ Lowest  BY ArrayStart
<1>2. m \in Nat /\ slots \in Seq(Nat) /\ pos = a + 2 * m  BY <1>1 DEF Read
<1>3. /\ \A k \in 0..(n - 1) : Fits(a, k) /\ Extends(a, k, big_endian)
      /\ Word(a + 2 * 0, big_endian) # 0
      /\ Fits(a, n) => ~Extends(a, n, big_endian)
      /\ \A k \in 0..(n - 1) :
           Word(a + 2 * k, big_endian) # 0 => a + 2 * n <= Word(a + 2 * k, big_endian)
  BY DEF IsRun
<1>4. ASSUME Fits(a, m), Extends(a, m, big_endian) PROVE FALSE
  <2>1. m = 0 /\ Value = 0  BY <1>1, <1>4, ScanStops
  <2>2. Value = Word(a + 2 * 0, big_endian)
    <3>1. pos = a + 2 * 0  BY <1>2, <2>1
    <3> QED  BY <3>1 DEF Value
  <2> QED  BY <1>3, <2>1, <2>2
<1>5. \A k \in 0..(m - 1) : Fits(a, k) /\ Extends(a, k, big_endian)  BY <1>1 DEF Read
<1>6. n = m
  <2> HIDE DEF a, m
  <2>1. n \in Nat  OBVIOUS
  <2> QED  BY <1>2, <1>3, <1>4, <1>5, <2>1, RunLength
<1>7. ASSUME NEW i \in LiveOf(slots) PROVE pos <= slots[i]
  <2> DEFINE j == i - 1
  <2>1. i \in 1..m /\ slots[i] # 0  BY DEF LiveOf
  <2>2. j \in 0..(m - 1) /\ j + 1 = i  BY <1>2, <2>1
  <2> HIDE DEF j
  <2>3. slots[j + 1] = Word(a + 2 * j, big_endian)  BY <1>1, <2>2 DEF Read
  <2> QED  BY <1>2, <1>3, <1>6, <2>1, <2>2, <2>3
<1> QED  BY <1>1, <1>6, <1>7, LiveSlotsAreWords

LEMMA ScannedIsRun ==
  ASSUME TypesInv, ScanInv, pc = "scan", ~IsNextSlot, ~IsDeletedSlot, IsDirectory
  PROVE  /\ Len(slots) \in Nat \ {0}
         /\ IsRun(array_start, Len(slots), big_endian)
         /\ LiveCount(slots) = Cardinality(LiveWords(array_start, Len(slots), big_endian))
<1> DEFINE a == array_start
           m == Len(slots)
<1>1. a \in Nat /\ Read /\ Lowest  BY ArrayStart
<1>2. m \in Nat /\ slots \in Seq(Nat) /\ pos = a + 2 * m  BY <1>1 DEF Read
<1>3. m # 0
  <2>1. m = 0 => LiveOf(slots) = {}  BY <1>2 DEF LiveOf
  <2>2. LiveCount(slots) # 0
    <3>1. LiveCount(slots) \in Nat  BY <1>2, LiveSlots
    <3> QED  BY <3>1, LayoutAssumption DEF IsDirectory
  <2> QED  BY <1>2, <2>1, <2>2, LiveSlots
<1>4. Fits(a, m) => ~Extends(a, m, big_endian)  BY <1>1, <1>3, ScanStops
<1>5. Word(a + 2 * 0, big_endian) # 0
  <2>1. 0 \in 0..(m - 1) /\ slots[1] # 0  BY <1>1, <1>2, <1>3 DEF Read
  <2>2. slots[0 + 1] = Word(a + 2 * 0, big_endian)  BY <1>1, <2>1 DEF Read
  <2> QED  BY <2>1, <2>2
<1>6. ASSUME NEW k \in 0..(m - 1), Word(a + 2 * k, big_endian) # 0
      PROVE  a + 2 * m <= Word(a + 2 * k, big_endian)
  <2>1. slots[k + 1] = Word(a + 2 * k, big_endian)  BY <1>1 DEF Read
  <2>2. k + 1 \in LiveOf(slots)  BY <1>2, <1>6, <2>1 DEF LiveOf
  <2> QED  BY <1>2, <2>1, <2>2 DEF IsDirectory
<1>7. \A k \in 0..(m - 1) : Fits(a, k) /\ Extends(a, k, big_endian)  BY <1>1 DEF Read
<1>8. IsRun(a, m, big_endian)  BY <1>4, <1>5, <1>6, <1>7 DEF IsRun
<1> QED  BY <1>1, <1>2, <1>3, <1>8, LiveSlotsAreWords

---------------------------------------------------------------------------
(* The best candidate dominates the scans that are over *)

LEMMA EndScanBest ==
  ASSUME TypesInv, ScanInv, BestInv, EndScan
  PROVE  BestInv'
<1>1. /\ pc = "scan" /\ pc' = "start" /\ ~IsNextSlot /\ ~IsDeletedSlot /\ page' = page
      /\ big_endian' = ~big_endian
      /\ start' = IF big_endian THEN start + 1 ELSE start
      /\ start \in Nat /\ big_endian \in BOOLEAN /\ best \subseteq Directory
  BY LayoutAssumption DEF EndScan, AdvanceStart, TypesInv
<1>2. best' = IF IsDirectory /\ \A d \in best : Better(d) THEN {ScannedDirectory} ELSE best
  BY DEF EndScan
<1>3. array_start = FirstSlot(start, big_endian)  BY <1>1 DEF ScanInv
<1>4. slots \in Seq(Nat) /\ Len(slots) \in Nat /\ LiveCount(slots) \in Nat
  BY <1>1, ArrayStart, LiveSlots DEF Read
<1>5. \A d \in best : LiveCount(d.slots) \in Nat /\ Len(d.slots) \in Nat
  BY <1>1, LiveSlots DEF Directory
<1>6. ASSUME NEW live \in Nat, NEW n \in Nat, NEW d \in best, NoShorter(d, live, n)
      PROVE  \E e \in best' : NoShorter(e, live, n)
  <2>1. CASE best' = best  BY <1>6, <2>1
  <2>2. CASE best' = {ScannedDirectory} /\ Better(d)
    <3>1. NoShorter(ScannedDirectory, live, n)
      BY <1>4, <1>5, <1>6, <2>2 DEF NoShorter, Better, ScannedDirectory
    <3> QED  BY <2>2, <3>1
  <2> QED  BY <1>2, <2>1, <2>2
<1>7. ASSUME NEW s \in 0..(SEARCH_LIMIT - 1), NEW be \in BOOLEAN, NEW n \in Nat \ {0},
             Past(s, be)', IsRun(FirstSlot(s, be), n, be),
             Cardinality(LiveWords(FirstSlot(s, be), n, be)) >= MIN_LIVE_SLOTS
      PROVE  \E d \in best' :
               NoShorter(d, Cardinality(LiveWords(FirstSlot(s, be), n, be)), n)
  <2> DEFINE live == Cardinality(LiveWords(FirstSlot(s, be), n, be))
  <2>1. live \in Nat
    <3>1. IsFiniteSet(0..(n - 1)) BY FS_Interval
    <3>2. LiveWords(FirstSlot(s, be), n, be) \subseteq 0..(n - 1)  BY DEF LiveWords
    <3> QED  BY <3>1, <3>2, FS_Subset, FS_CardinalityType
  <2>2. CASE Past(s, be)
    <3>1. PICK d \in best : NoShorter(d, live, n)  BY <1>1, <1>7, <2>2 DEF BestInv
    <3> HIDE DEF live
    <3> QED  BY <1>6, <2>1, <3>1 DEF live
  <2>3. CASE ~Past(s, be)
    <3>1. s = start /\ be = big_endian  BY <1>1, <1>7, <2>3 DEF Past
    <3>2. FirstSlot(s, be) = array_start  BY <1>3, <3>1
    <3>3. n = Len(slots) /\ LiveCount(slots) = live /\ \A i \in LiveOf(slots) : pos <= slots[i]
      BY <1>1, <1>7, <3>1, <3>2, RunIsScanned
    <3> HIDE DEF live
    <3>4. IsDirectory
      <4>1. live >= MIN_LIVE_SLOTS  BY <1>7 DEF live
      <4> QED  BY <3>3, <4>1 DEF IsDirectory
    <3>5. CASE \A d \in best : Better(d)
      <4>1. best' = {ScannedDirectory}  BY <1>2, <3>4, <3>5
      <4>2. NoShorter(ScannedDirectory, live, n)
        BY <1>4, <2>1, <3>3 DEF NoShorter, ScannedDirectory
      <4> QED  BY <4>1, <4>2 DEF live
    <3>6. CASE \E d \in best : ~Better(d)
      <4>1. PICK d \in best : ~Better(d)  BY <3>6
      <4>2. NoShorter(d, live, n)  BY <1>4, <1>5, <3>3, <4>1 DEF NoShorter, Better
      <4>3. best' = best  BY <1>2, <3>6
      <4> QED  BY <4>2, <4>3 DEF live
    <3> QED  BY <3>5, <3>6
  <2> QED  BY <2>2, <2>3
<1>8. ASSUME NEW s \in 0..(SEARCH_LIMIT - 1), NEW be \in BOOLEAN, NEW n \in Nat \ {0}
      PROVE  (LET a == FirstSlot(s, be)
                  live == Cardinality(LiveWords(a, n, be))
              IN  Past(s, be) /\ IsRun(a, n, be) /\ live >= MIN_LIVE_SLOTS =>
                    \E d \in best : NoShorter(d, live, n))'
  <2>1. /\ IsRun(FirstSlot(s, be), n, be)' = IsRun(FirstSlot(s, be), n, be)
        /\ LiveWords(FirstSlot(s, be), n, be)' = LiveWords(FirstSlot(s, be), n, be)
    BY <1>1, SamePage
  <2>2. \A d, live : NoShorter(d, live, n)' = NoShorter(d, live, n)
    BY DEF NoShorter, LiveCount, LiveOf
  <2> QED  BY <1>7, <2>1, <2>2
<1> QED  BY <1>8 DEF BestInv

(* Nothing else ends a scan. *)
LEMMA StepBest ==
  ASSUME TypesInv, ScanInv, BestInv, [Next]_vars
  PROVE  BestInv'
<1>1. CASE EndScan  BY <1>1, EndScanBest
<1>2. CASE UNCHANGED <<page, start, big_endian, best>> /\ pc' # "given"
  <2>1. pc # "given"  BY <1>2 DEF Next, vars, BeginScan, PushSlot, IsNextSlot, PushDeleted,
                             IsDeletedSlot, EndScan, EndSearch
  <2>2. ASSUME NEW s \in 0..(SEARCH_LIMIT - 1), NEW be \in BOOLEAN, NEW n \in Nat \ {0}
        PROVE  (LET a == FirstSlot(s, be)
                    live == Cardinality(LiveWords(a, n, be))
                IN  Past(s, be) /\ IsRun(a, n, be) /\ live >= MIN_LIVE_SLOTS =>
                      \E d \in best : NoShorter(d, live, n))'
    <3>1. /\ IsRun(FirstSlot(s, be), n, be)' = IsRun(FirstSlot(s, be), n, be)
          /\ LiveWords(FirstSlot(s, be), n, be)' = LiveWords(FirstSlot(s, be), n, be)
      BY <1>2, SamePage
    <3>2. Past(s, be)' = Past(s, be) /\ best' = best  BY <1>2 DEF Past
    <3>3. \A d, live : NoShorter(d, live, n)' = NoShorter(d, live, n)
      BY DEF NoShorter, LiveCount, LiveOf
    <3> QED  BY <2>1, <3>1, <3>2, <3>3 DEF BestInv
  <2> QED  BY <2>2 DEF BestInv
<1>3. CASE pc' = "given"  BY <1>3 DEF BestInv
<1>4. EndScan \/ UNCHANGED <<page, start, big_endian, best>>
  BY DEF Next, vars, BeginScan, PushSlot, PushDeleted, EndSearch
<1> QED  BY <1>1, <1>2, <1>3, <1>4

---------------------------------------------------------------------------
(* The directory found *)

LEMMA ScannedDescends ==
  ASSUME TypesInv, ScanInv, pc = "scan", IsDirectory
  PROVE  Descends(ScannedDirectory) /\ EndsBeforeRows(ScannedDirectory)
<1> DEFINE a == array_start
           m == Len(slots)
<1>1. a \in Nat /\ Read /\ m \in Nat /\ slots \in Seq(Nat)  BY ArrayStart DEF Read
<1>2. ASSUME NEW i \in LiveOf(slots)
      PROVE  /\ i \in 1..m /\ IsSlotOffset(slots[i])
             /\ \A j \in LiveOf(slots) : j < i => slots[i] < slots[j]
  <2> DEFINE k == i - 1
  <2>1. i \in 1..m /\ slots[i] # 0  BY DEF LiveOf
  <2>2. k \in 0..(m - 1) /\ k + 1 = i  BY <1>1, <2>1
  <2> HIDE DEF k
  <2>3. slots[k + 1] = Word(a + 2 * k, big_endian) /\ Extends(a, k, big_endian)
    BY <1>1, <2>2 DEF Read
  <2>4. IsSlotOffset(slots[i])
        /\ \A l \in 0..(k - 1) :
             Word(a + 2 * l, big_endian) # 0 => slots[i] < Word(a + 2 * l, big_endian)
    BY <2>1, <2>2, <2>3 DEF Extends
  <2>5. ASSUME NEW j \in LiveOf(slots), j < i PROVE slots[i] < slots[j]
    <3> DEFINE l == j - 1
    <3>1. j \in 1..m /\ slots[j] # 0  BY DEF LiveOf
    <3>2. l \in 0..(k - 1) /\ l \in 0..(m - 1) /\ l + 1 = j  BY <1>1, <2>1, <2>2, <2>5, <3>1
    <3> HIDE DEF l
    <3>3. slots[l + 1] = Word(a + 2 * l, big_endian)  BY <1>1, <3>2 DEF Read
    <3> QED  BY <2>4, <3>1, <3>2, <3>3
  <2> QED  BY <2>1, <2>4, <2>5
<1>3. \A i \in LiveOf(slots) : slots[i] < TRAILER_START  BY <1>2, SlotOffsets
<1>4. \A i \in LiveOf(slots) : pos <= slots[i]  BY DEF IsDirectory
<1>5. ScannedDirectory.slots = slots /\ ScannedDirectory.end = pos  BY DEF ScannedDirectory
<1> HIDE DEF a, m
<1>6. Descends(ScannedDirectory)  BY <1>2, <1>5 DEF Descends
<1>7. EndsBeforeRows(ScannedDirectory)  BY <1>3, <1>4, <1>5 DEF EndsBeforeRows
<1> QED  BY <1>6, <1>7

(* Had there been a zero before the array that this scan did not skip, the *)
(* scan from that zero would have read the same slots, and earlier.        *)
LEMMA ScannedTellsZero ==
  ASSUME TypesInv, ScanInv, BestInv, pc = "scan", ~IsNextSlot, ~IsDeletedSlot, IsDirectory,
         \A d \in best : Better(d)
  PROVE  TellsZero(ScannedDirectory)
<1> DEFINE m == Len(slots)
           s == start - 2
<1>1. start \in Nat /\ start < SEARCH_LIMIT /\ SEARCH_LIMIT \in Nat
      /\ big_endian \in BOOLEAN /\ best \subseteq Directory
  BY LayoutAssumption DEF TypesInv
<1>2. leading_zero = Sentinel(start, big_endian) /\ array_start = FirstSlot(start, big_endian)
      /\ Read /\ slots \in Seq(Nat)
  BY DEF ScanInv, Read
<1>3. /\ ScannedDirectory.leading_zero = leading_zero
      /\ ScannedDirectory.array_start = array_start
      /\ ScannedDirectory.big_endian = big_endian
  BY DEF ScannedDirectory
<1>4. CASE leading_zero
  <2>1. array_start = start + 2 /\ Word(start, big_endian) = 0
    BY <1>2, <1>4 DEF FirstSlot, Sentinel
  <2>2. array_start - 2 = start /\ array_start >= 2  BY <1>1, <2>1
  <2> QED  BY <1>3, <1>4, <2>1, <2>2 DEF TellsZero
<1>5. CASE ~leading_zero
  <2>1. array_start = start  BY <1>2, <1>5 DEF FirstSlot
  <2> SUFFICES ASSUME start >= 2, Word(start - 2, big_endian) = 0
               PROVE  FALSE
    BY <1>2, <1>3, <1>5, <2>1 DEF TellsZero, Sentinel
  <2>2. m \in Nat \ {0} /\ IsRun(array_start, m, big_endian)
        /\ LiveCount(slots) = Cardinality(LiveWords(array_start, m, big_endian))
    BY ScannedIsRun
  <2>3. s \in 0..(SEARCH_LIMIT - 1) /\ s + 2 = start /\ Past(s, big_endian)
    BY <1>1 DEF Past
  <2>4. Sentinel(s, big_endian)
    <3>1. 0 \in 0..(m - 1)  BY <2>2
    <3>2. /\ Fits(start, 0) /\ Extends(start, 0, big_endian)
          /\ Word(start + 2 * 0, big_endian) # 0
      BY <2>1, <2>2, <3>1 DEF IsRun
    <3>3. start + 2 * 0 = start  BY <1>1
    <3>4. IsSlotOffset(Word(start, big_endian)) /\ start + 1 < SEARCH_LIMIT
      BY <3>2, <3>3 DEF Extends, Fits
    <3>5. s + 3 < SEARCH_LIMIT  BY <1>1, <3>4
    <3> QED  BY <2>3, <3>4, <3>5 DEF Sentinel
  <2>5. FirstSlot(s, big_endian) = array_start  BY <2>1, <2>3, <2>4 DEF FirstSlot
  <2> HIDE DEF s, m
  <2>6. LiveCount(slots) >= MIN_LIVE_SLOTS  BY DEF IsDirectory
  <2>7. PICK d \in best : NoShorter(d, LiveCount(slots), m)
    <3>1. pc # "given"  OBVIOUS
    <3> QED  BY <1>1, <2>2, <2>3, <2>5, <2>6, <3>1 DEF BestInv
  <2>8. Better(d)  BY <2>7
  <2>9. LiveCount(d.slots) \in Nat /\ Len(d.slots) \in Nat /\ LiveCount(slots) \in Nat
    <3>1. d.slots \in Seq(Nat)  BY <1>1, <2>7 DEF Directory
    <3> QED  BY <1>2, <3>1, LiveSlots
  <2> QED  BY <2>2, <2>7, <2>8, <2>9 DEF NoShorter, Better, m
<1>6. leading_zero \in BOOLEAN  BY <1>2 DEF Sentinel
<1> QED  BY <1>4, <1>5, <1>6

LEMMA StepFound ==
  ASSUME TypesInv, ScanInv, BestInv, FoundInv, [Next]_vars
  PROVE  FoundInv'
<1>1. page' = page
  BY DEF Next, vars, BeginScan, PushSlot, PushDeleted, EndScan, EndSearch
<1>2. \A d : /\ Descends(d)' = Descends(d)
             /\ EndsBeforeRows(d)' = EndsBeforeRows(d)
             /\ TellsZero(d)' = TellsZero(d)
  BY <1>1 DEF Descends, EndsBeforeRows, TellsZero, LiveOf, Word
<1>3. CASE EndScan
  <2>1. pc = "scan" /\ ~IsNextSlot /\ ~IsDeletedSlot  BY <1>3 DEF EndScan
  <2>2. \A d \in best : Descends(d) /\ EndsBeforeRows(d) /\ TellsZero(d)
    BY <2>1 DEF FoundInv
  <2>3. CASE best' = best  BY <1>2, <2>2, <2>3 DEF FoundInv
  <2>4. CASE IsDirectory /\ (\A d \in best : Better(d)) /\ best' = {ScannedDirectory}
    <3> DEFINE e == ScannedDirectory
    <3>1. Descends(e) /\ EndsBeforeRows(e) /\ TellsZero(e)
      BY <2>1, <2>4, ScannedDescends, ScannedTellsZero
    <3>2. \A d \in best' : Descends(d) /\ EndsBeforeRows(d) /\ TellsZero(d)
      BY <2>4, <3>1
    <3> QED  BY <1>2, <3>2 DEF FoundInv
  <2> QED  BY <1>3, <2>3, <2>4 DEF EndScan
<1>4. CASE ~EndScan
  <2>1. best' = best /\ (pc = "given" => pc' = "given")
    BY <1>4 DEF Next, vars, BeginScan, PushSlot, IsNextSlot, PushDeleted, IsDeletedSlot,
                EndSearch
  <2> QED  BY <1>2, <2>1 DEF FoundInv
<1> QED  BY <1>3, <1>4

(* The inductive invariant. *)
LEMMA SlottedInvariant == Spec => []SlottedInv
<1>1. ASSUME SlottedInv, [Next]_vars PROVE SlottedInv'
  BY <1>1, StepTypes, StepScan, StepBest, StepFound DEF SlottedInv
<1> QED  BY InitSlotted, <1>1, PTL DEF Spec

(* find_slot_directory finds a directory on every page that has one, and   *)
(* none of the page's directories has more live slots.                     *)
THEOREM LongestIsFound == Spec => []FindsTheLongest
<1>1. ASSUME SlottedInv PROVE FindsTheLongest
  <2> SUFFICES ASSUME pc = "found", NEW be \in BOOLEAN, NEW a \in 0..(SEARCH_LIMIT - 2),
                      NEW n \in 1..(SEARCH_LIMIT \div 2),
                      Cardinality(LiveWords(a, n, be)) >= MIN_LIVE_SLOTS, IsRun(a, n, be)
               PROVE  \E d \in best :
                        LiveCount(d.slots) >= Cardinality(LiveWords(a, n, be))
    BY DEF FindsTheLongest
  <2>1. start = SEARCH_LIMIT /\ best \subseteq Directory /\ SEARCH_LIMIT \in Nat
    BY <1>1, LayoutAssumption DEF SlottedInv, TypesInv
  <2>2. FirstSlot(a, be) = a
    <3>1. Word(a + 2 * 0, be) # 0  BY DEF IsRun
    <3>2. a + 2 * 0 = a  OBVIOUS
    <3> QED  BY <3>1, <3>2 DEF FirstSlot, Sentinel
  <2>3. a \in 0..(SEARCH_LIMIT - 1) /\ n \in Nat \ {0} /\ Past(a, be)
    BY <2>1 DEF Past
  <2>4. PICK d \in best : NoShorter(d, Cardinality(LiveWords(a, n, be)), n)
    BY <1>1, <2>2, <2>3 DEF SlottedInv, BestInv
  <2>5. LiveCount(d.slots) \in Nat  BY <2>1, <2>4, LiveSlots DEF Directory
  <2>6. Cardinality(LiveWords(a, n, be)) \in Nat
    <3>1. IsFiniteSet(0..(n - 1))  BY FS_Interval
    <3>2. LiveWords(a, n, be) \subseteq 0..(n - 1)  BY DEF LiveWords
    <3> QED  BY <3>1, <3>2, FS_Subset, FS_CardinalityType
  <2> QED  BY <2>4, <2>5, <2>6 DEF NoShorter
<1> QED  BY <1>1, SlottedInvariant, PTL

(* The directory found says that a zero word precedes its array exactly    *)
(* when one does.                                                          *)
THEOREM ZeroIsTold == Spec => []LeadingZeroIsTold
<1>1. ASSUME SlottedInv PROVE LeadingZeroIsTold
  BY <1>1 DEF SlottedInv, FoundInv, TellsZero, LeadingZeroIsTold
<1> QED  BY <1>1, SlottedInvariant, PTL

---------------------------------------------------------------------------
(* Sorting the live offsets *)

LEMMA Least ==
  ASSUME NEW S \in SUBSET Nat, S # {}
  PROVE  \E n \in S : \A m \in S : n <= m
<1>1. \E n \in S : \A m \in S : <<m, n>> \notin OpToRel(<, Nat)
  BY NatLessThanWellFounded, WFMin, Zenon
<1>2. \A m, n \in Nat : m < n => <<m, n>> \in OpToRel(<, Nat)
  BY DEF OpToRel
<1>3. \E n \in S : \A m \in S : ~(m < n)
  BY <1>1, <1>2, Zenon
<1> QED
  BY <1>3

(* Of two sets of live slots the smaller one has no more elements, and as  *)
(* many only if they are the same.                                         *)
LEMMA FewerLive ==
  ASSUME NEW s \in Seq(Nat), NEW I, NEW J, I \subseteq J, J \subseteq LiveOf(s)
  PROVE  /\ Cardinality(I) \in Nat /\ Cardinality(J) \in Nat
         /\ Cardinality(I) <= Cardinality(J)
         /\ Cardinality(I) = Cardinality(J) => I = J
<1>1. IsFiniteSet(LiveOf(s))  BY LiveSlots
<1>2. IsFiniteSet(J)  BY <1>1, FS_Subset
<1>3. IsFiniteSet(I)  BY <1>2, FS_Subset
<1>4. Cardinality(I) \in Nat /\ Cardinality(J) \in Nat  BY <1>2, <1>3, FS_CardinalityType
<1>5. Cardinality(I) <= Cardinality(J) /\ (Cardinality(I) = Cardinality(J) => I = J)
  BY <1>2, FS_Subset
<1> QED  BY <1>4, <1>5

(* A slot with the highest offset: the one with the fewest above it. *)
LEMMA Highest ==
  ASSUME NEW s \in Seq(Nat), NEW I, I \subseteq LiveOf(s), I # {}
  PROVE  \E i \in I : \A j \in I : s[j] <= s[i]
<1> DEFINE Above(i) == {j \in I : s[j] > s[i]}
           N == {Cardinality(Above(i)) : i \in I}
<1>1. \A i \in I : s[i] \in Nat  BY DEF LiveOf
<1>2. \A i \in I : Above(i) \subseteq LiveOf(s)  OBVIOUS
<1>3. \A i \in I : Cardinality(Above(i)) \in Nat  BY <1>2, FewerLive
<1>4. N \in SUBSET Nat /\ N # {}  BY <1>3
<1>5. \E n \in N : \A m \in N : n <= m
  <2> HIDE DEF N
  <2> QED  BY <1>4, Least
<1>6. PICK i \in I : \A j \in I : Cardinality(Above(i)) <= Cardinality(Above(j))
  <2> HIDE DEF Above
  <2> QED  BY <1>5
<1>7. ASSUME NEW j \in I, s[j] > s[i] PROVE FALSE
  <2>1. Above(j) \subseteq Above(i) /\ j \in Above(i) /\ j \notin Above(j)  BY <1>1, <1>7
  <2>2. Cardinality(Above(i)) <= Cardinality(Above(j))  BY <1>6
  <2>3. Above(i) \subseteq LiveOf(s)  BY <1>2
  <2> HIDE DEF Above
  <2>4. /\ Cardinality(Above(j)) \in Nat /\ Cardinality(Above(i)) \in Nat
        /\ Cardinality(Above(j)) <= Cardinality(Above(i))
        /\ Cardinality(Above(j)) = Cardinality(Above(i)) => Above(j) = Above(i)
    BY <2>1, <2>3, FewerLive
  <2> QED  BY <2>1, <2>2, <2>4
<1>8. \A j \in I : s[j] <= s[i]
  <2> TAKE j \in I
  <2>1. ~(s[j] > s[i])  BY <1>7
  <2> QED  BY <1>1, <2>1
<1> QED  BY <1>8

LEMMA OffsetsAre ==
  ASSUME NEW d, d.slots \in Seq(Nat)
  PROVE  /\ Offsets(d) \subseteq Nat \ {0}
         /\ \A i \in LiveOf(d.slots) : d.slots[i] \in Offsets(d)
         /\ \A o : Below(d, o) \subseteq LiveOf(d.slots) /\ UpTo(d, o) \subseteq LiveOf(d.slots)
         /\ \A o : Cardinality(Below(d, o)) \in Nat /\ Cardinality(UpTo(d, o)) \in Nat
         /\ \A o, p \in Offsets(d) : o < p => UpTo(d, o) \subseteq Below(d, p)
         /\ \A o, p \in Offsets(d) : o < p => Cardinality(UpTo(d, o)) <= Cardinality(Below(d, p))
<1>1. \A i \in LiveOf(d.slots) : d.slots[i] \in Nat \ {0}  BY DEF LiveOf
<1>2. Offsets(d) \subseteq Nat \ {0} /\ \A i \in LiveOf(d.slots) : d.slots[i] \in Offsets(d)
  BY <1>1 DEF Offsets
<1>3. \A o : Below(d, o) \subseteq LiveOf(d.slots) /\ UpTo(d, o) \subseteq LiveOf(d.slots)
  BY DEF Below, UpTo
<1>4. \A o : Cardinality(Below(d, o)) \in Nat /\ Cardinality(UpTo(d, o)) \in Nat
  BY <1>3, FewerLive
<1>5. ASSUME NEW o \in Offsets(d), NEW p \in Offsets(d), o < p
      PROVE  UpTo(d, o) \subseteq Below(d, p)
  BY <1>1, <1>2, <1>5 DEF UpTo, Below
<1>6. \A o, p \in Offsets(d) : o < p => Cardinality(UpTo(d, o)) <= Cardinality(Below(d, p))
  BY <1>3, <1>5, FewerLive
<1> QED  BY <1>2, <1>3, <1>4, <1>5, <1>6

(* There is a k-th offset. *)
LEMMA KthOffset ==
  ASSUME NEW d, d.slots \in Seq(Nat), NEW k \in 1..LiveCount(d.slots)
  PROVE  \E o \in Offsets(d) : Cardinality(Below(d, o)) < k /\ k <= Cardinality(UpTo(d, o))
<1> DEFINE s == d.slots
           F == {o \in Offsets(d) : k <= Cardinality(UpTo(d, o))}
<1>1. LiveCount(s) \in Nat /\ LiveOf(s) # {}  BY LiveSlots
<1>2. \A i \in LiveOf(s) : s[i] \in Nat /\ s[i] \in Offsets(d)  BY DEF LiveOf, Offsets
<1>3. F # {}
  <2>1. PICK i \in LiveOf(s) : \A j \in LiveOf(s) : s[j] <= s[i]  BY <1>1, Highest
  <2>2. UpTo(d, s[i]) = LiveOf(s)  BY <2>1 DEF UpTo
  <2> QED  BY <1>2, <2>1, <2>2 DEF LiveCount
<1>4. F \in SUBSET Nat  BY OffsetsAre
<1>5. PICK o \in F : \A p \in F : o <= p
  <2> HIDE DEF F
  <2> QED  BY <1>3, <1>4, Least
<1>6. ASSUME k <= Cardinality(Below(d, o)) PROVE FALSE
  <2>1. Below(d, o) # {}
    <3>1. Below(d, o) = {} => Cardinality(Below(d, o)) = 0  BY FS_EmptySet, Zenon
    <3>2. k \in Nat \ {0}  BY <1>1
    <3> QED  BY <1>6, <3>1, <3>2
  <2>2. Below(d, o) \subseteq LiveOf(s)  BY OffsetsAre
  <2>3. PICK i \in Below(d, o) : \A j \in Below(d, o) : s[j] <= s[i]
    BY <2>1, <2>2, Highest
  <2>4. s[i] < o /\ s[i] \in Offsets(d) /\ o \in Nat  BY <1>2, <1>4, <2>2, <2>3 DEF Below
  <2>5. Below(d, o) \subseteq UpTo(d, s[i])  BY <2>2, <2>3 DEF UpTo
  <2>6. UpTo(d, s[i]) \subseteq LiveOf(s)  BY OffsetsAre
  <2>7. Cardinality(Below(d, o)) <= Cardinality(UpTo(d, s[i]))
        /\ Cardinality(Below(d, o)) \in Nat /\ Cardinality(UpTo(d, s[i])) \in Nat
    BY <2>5, <2>6, FewerLive
  <2>8. s[i] \in F  BY <1>6, <2>4, <2>7
  <2>9. o <= s[i]  BY <1>5, <2>8
  <2> QED  BY <1>2, <2>2, <2>3, <2>4, <2>9
<1>7. Cardinality(Below(d, o)) \in Nat  BY OffsetsAre
<1> QED  BY <1>5, <1>6, <1>7

(* Ascending is the live offsets in order; of the places that name an      *)
(* offset the last is the number of live slots up to it.                   *)
LEMMA AscendingIsSorted ==
  ASSUME NEW d, d.slots \in Seq(Nat)
  PROVE  /\ Len(Ascending(d)) = LiveCount(d.slots)
         /\ \A k \in 1..LiveCount(d.slots) :
              /\ Ascending(d)[k] \in Offsets(d)
              /\ Cardinality(Below(d, Ascending(d)[k])) < k
              /\ k <= Cardinality(UpTo(d, Ascending(d)[k]))
         /\ \A k, l \in 1..LiveCount(d.slots) : k <= l => Ascending(d)[k] <= Ascending(d)[l]
         /\ \A o \in Offsets(d) : /\ Cardinality(UpTo(d, o)) \in 1..LiveCount(d.slots)
                                  /\ Ascending(d)[Cardinality(UpTo(d, o))] = o
<1> DEFINE n == LiveCount(d.slots)
           A == Ascending(d)
           Kth(k, o) == Cardinality(Below(d, o)) < k /\ k <= Cardinality(UpTo(d, o))
<1>1. n \in Nat  BY LiveSlots
<1>2. A = [k \in 1..n |-> CHOOSE o \in Offsets(d) : Kth(k, o)]  BY DEF Ascending
<1>3. \A k \in 1..n : \E o \in Offsets(d) : Kth(k, o)  BY KthOffset
<1>4. Len(A) = n  BY <1>1, <1>2
<1>5. \A k \in 1..n : A[k] \in Offsets(d) /\ Kth(k, A[k])
  <2> HIDE DEF Kth, n, A
  <2> QED  BY <1>2, <1>3
<1>6. Offsets(d) \subseteq Nat
      /\ \A o : Cardinality(Below(d, o)) \in Nat /\ Cardinality(UpTo(d, o)) \in Nat
  BY OffsetsAre
<1>7. ASSUME NEW k \in Int, NEW l \in Int, k <= l,
             NEW o \in Offsets(d), NEW p \in Offsets(d), Kth(k, o), Kth(l, p)
      PROVE  o <= p
  <2>1. p < o => Cardinality(UpTo(d, p)) <= Cardinality(Below(d, o))  BY OffsetsAre
  <2> QED  BY <1>6, <1>7, <2>1
<1>8. ASSUME NEW o \in Offsets(d)
      PROVE  /\ Cardinality(UpTo(d, o)) \in 1..n
             /\ A[Cardinality(UpTo(d, o))] = o
  <2> DEFINE k == Cardinality(UpTo(d, o))
  <2>1. PICK i \in LiveOf(d.slots) : d.slots[i] = o  BY DEF Offsets
  <2>2. i \in UpTo(d, o) /\ i \notin Below(d, o)  BY <1>6, <2>1 DEF UpTo, Below
  <2>3. Below(d, o) \subseteq UpTo(d, o)
    <3>1. \A j \in LiveOf(d.slots) : d.slots[j] \in Nat  BY <1>6, OffsetsAre
    <3> QED  BY <1>6, <3>1 DEF UpTo, Below
  <2>4. UpTo(d, o) \subseteq LiveOf(d.slots)  BY OffsetsAre
  <2>5. Cardinality(Below(d, o)) < k /\ k <= n /\ k \in Nat
    <3>1. Cardinality(Below(d, o)) <= k /\ Cardinality(Below(d, o)) # k
      BY <2>2, <2>3, <2>4, FewerLive
    <3>2. k <= n  BY <2>4, FewerLive DEF LiveCount
    <3> QED  BY <1>6, <3>1, <3>2
  <2>6. k \in 1..n /\ Kth(k, o)
    <3>1. k \in 1..n  BY <1>1, <1>6, <2>5
    <3> QED  BY <2>5, <3>1
  <2> HIDE DEF k
  <2>7. A[k] \in Offsets(d) /\ Kth(k, A[k])  BY <1>5, <2>6
  <2> HIDE DEF A, Kth
  <2>8. A[k] <= o /\ o <= A[k]
    <3>1. k \in Int /\ k <= k  BY <2>5
    <3> QED  BY <1>7, <2>6, <2>7, <3>1
  <2>9. A[k] = o  BY <1>6, <2>7, <2>8
  <2> QED  BY <2>6, <2>9 DEF k
<1>9. \A k, l \in 1..n : k <= l => A[k] <= A[l]
  <2> SUFFICES ASSUME NEW k \in 1..n, NEW l \in 1..n, k <= l PROVE A[k] <= A[l]  OBVIOUS
  <2>1. k \in Int /\ l \in Int  BY <1>1
  <2>2. A[k] \in Offsets(d) /\ Kth(k, A[k]) /\ A[l] \in Offsets(d) /\ Kth(l, A[l])  BY <1>5
  <2> HIDE DEF A, Kth
  <2> QED  BY <1>7, <2>1, <2>2
<1> QED  BY <1>4, <1>5, <1>8, <1>9

---------------------------------------------------------------------------
(* The two ways to slice *)

LEMMA EndOfIs ==
  ASSUME NEW d, d.slots \in Seq(Nat), NEW o \in Offsets(d)
  PROVE  \/ /\ EndOf(d, o) = TRAILER_START
            /\ \A p \in Offsets(d) : p <= o
         \/ /\ EndOf(d, o) \in Offsets(d)
            /\ EndOf(d, o) > o
            /\ \A p \in Offsets(d) : p > o => EndOf(d, o) <= p
<1> DEFINE above == {p \in Offsets(d) : p > o}
<1>1. Offsets(d) \subseteq Nat  BY OffsetsAre
<1>2. EndOf(d, o) = IF above = {} THEN TRAILER_START
                    ELSE CHOOSE p \in above : \A q \in above : p <= q
  BY DEF EndOf
<1>3. CASE above = {}
  <2>1. \A p \in Offsets(d) : p <= o  BY <1>1, <1>3
  <2> QED  BY <1>2, <1>3, <2>1
<1>4. CASE above # {}
  <2>1. above \in SUBSET Nat  BY <1>1
  <2> HIDE DEF above
  <2>2. \E p \in above : \A q \in above : p <= q  BY <1>4, <2>1, Least
  <2>3. EndOf(d, o) \in above /\ \A q \in above : EndOf(d, o) <= q
    <3> DEFINE Lowest1(p) == \A q \in above : p <= q
    <3>1. \E p \in above : Lowest1(p)  BY <2>2
    <3>2. EndOf(d, o) = CHOOSE p \in above : Lowest1(p)  BY <1>2, <1>4
    <3> HIDE DEF Lowest1
    <3>3. EndOf(d, o) \in above /\ Lowest1(EndOf(d, o))  BY <3>1, <3>2
    <3> QED  BY <3>3 DEF Lowest1
  <2> QED  BY <2>3 DEF above
<1> QED  BY <1>3, <1>4

(* The bounds that row_slots keeps, one for each offset that fits: the     *)
(* next entry of the sorted slots is the next offset only after the last   *)
(* of equal entries.                                                       *)
Kept(d) == {o \in Offsets(d) : o < EndOf(d, o) /\ EndOf(d, o) <= TRAILER_START}

LEMMA BoundsAreKept ==
  ASSUME NEW d, d.slots \in Seq(Nat)
  PROVE  Bounds(d) = {[from |-> o, to |-> EndOf(d, o)] : o \in Kept(d)}
<1> DEFINE n == LiveCount(d.slots)
           A == Ascending(d)
           last(o) == Cardinality(UpTo(d, o))
           next(k) == IF k < n THEN A[k + 1] ELSE TRAILER_START
           fits(k) == A[k] < next(k) /\ next(k) <= TRAILER_START
<1>1. /\ n \in Nat /\ Len(A) = n
      /\ \A k \in 1..n : A[k] \in Offsets(d) /\ k <= last(A[k])
      /\ \A k, l \in 1..n : k <= l => A[k] <= A[l]
      /\ \A o \in Offsets(d) : last(o) \in 1..n /\ A[last(o)] = o
  BY AscendingIsSorted, LiveSlots
<1>2. Bounds(d) = {[from |-> A[k], to |-> next(k)] : k \in {i \in 1..n : fits(i)}}
  BY <1>1 DEF Bounds
<1>3. Offsets(d) \subseteq Nat  BY OffsetsAre
<1>4. \A o, p \in Offsets(d) : o < p => last(o) < last(p)
  <2> SUFFICES ASSUME NEW o \in Offsets(d), NEW p \in Offsets(d), o < p
               PROVE  last(o) < last(p)
    OBVIOUS
  <2>1. last(o) \in 1..n /\ last(p) \in 1..n /\ A[last(o)] = o /\ A[last(p)] = p  BY <1>1
  <2>2. last(p) <= last(o) => p <= o
    <3> HIDE DEF last, A, n
    <3> QED  BY <1>1, <2>1
  <2> HIDE DEF last, A, n
  <2> QED  BY <1>1, <1>3, <2>1, <2>2
<1> HIDE DEF n, A, last
<1>5. ASSUME NEW o \in Offsets(d) PROVE next(last(o)) = EndOf(d, o)
  <2>1. last(o) \in 1..n /\ A[last(o)] = o  BY <1>1
  <2>2. \A p \in Offsets(d) : p \in Nat /\ last(p) \in 1..n /\ A[last(p)] = p  BY <1>1, <1>3
  <2>3. CASE last(o) < n
    <3> DEFINE e == A[last(o) + 1]
    <3>1. last(o) + 1 \in 1..n /\ last(o) <= last(o) + 1  BY <1>1, <2>1, <2>3
    <3>2. e \in Offsets(d) /\ last(o) + 1 <= last(e) /\ o <= e  BY <1>1, <2>1, <3>1
    <3>3. e # o  BY <1>1, <2>1, <3>2
    <3>4. ASSUME NEW p \in Offsets(d), p > o PROVE e <= p
      <4>1. last(o) < last(p)  BY <1>4, <3>4
      <4>2. last(o) + 1 <= last(p) /\ last(p) \in 1..n  BY <1>1, <2>1, <2>2, <4>1
      <4>3. A[last(o) + 1] <= A[last(p)]  BY <1>1, <3>1, <4>2
      <4> QED  BY <2>2, <4>3
    <3> HIDE DEF e
    <3>5. e \in Nat /\ o \in Nat /\ e > o  BY <2>2, <3>2, <3>3
    <3>6. ~(e <= o)  BY <3>5
    <3>7. /\ EndOf(d, o) \in Offsets(d) /\ EndOf(d, o) > o
          /\ \A p \in Offsets(d) : p > o => EndOf(d, o) <= p
      BY <3>2, <3>6, EndOfIs
    <3>8. EndOf(d, o) <= e /\ e <= EndOf(d, o) /\ EndOf(d, o) \in Nat
      BY <1>3, <3>2, <3>4, <3>5, <3>7
    <3>9. EndOf(d, o) = e  BY <3>5, <3>8
    <3> QED  BY <2>3, <3>9 DEF e
  <2>4. CASE ~(last(o) < n)
    <3>1. ASSUME NEW p \in Offsets(d), p > o PROVE FALSE
      <4>1. last(o) < last(p) /\ last(p) \in 1..n  BY <1>1, <1>4, <3>1
      <4> QED  BY <1>1, <2>1, <2>4, <4>1
    <3>2. EndOf(d, o) = TRAILER_START  BY <3>1, EndOfIs
    <3> QED  BY <2>4, <3>2
  <2> QED  BY <2>3, <2>4
<1>6. ASSUME NEW k \in 1..n, fits(k) PROVE k = last(A[k]) /\ A[k] \in Offsets(d)
  <2>1. A[k] \in Offsets(d) /\ k <= last(A[k]) /\ last(A[k]) \in 1..n
        /\ A[last(A[k])] = A[k]
    BY <1>1
  <2> DEFINE l == last(A[k])
  <2>2. l \in 1..n /\ k <= l /\ A[l] = A[k] /\ A[k] \in Nat  BY <1>3, <2>1
  <2> HIDE DEF l
  <2>3. ASSUME k < l PROVE FALSE
    <3>1. k < n /\ k + 1 \in 1..n /\ k + 1 <= l  BY <1>1, <2>2, <2>3
    <3>2. A[k + 1] <= A[l] /\ A[k + 1] \in Nat  BY <1>1, <1>3, <2>2, <3>1
    <3>3. A[k] < A[k + 1]  BY <1>6, <3>1
    <3> QED  BY <2>2, <3>2, <3>3
  <2>4. k = l  BY <1>1, <2>2, <2>3
  <2> QED  BY <2>1, <2>4 DEF l
<1>7. ASSUME NEW b \in Bounds(d)
      PROVE  b \in {[from |-> o, to |-> EndOf(d, o)] : o \in Kept(d)}
  <2>1. PICK k \in 1..n : fits(k) /\ b = [from |-> A[k], to |-> next(k)]  BY <1>2
  <2>2. k = last(A[k]) /\ A[k] \in Offsets(d)  BY <1>6, <2>1
  <2>3. next(last(A[k])) = EndOf(d, A[k])  BY <1>5, <2>2
  <2>4. next(k) = EndOf(d, A[k])
    <3> HIDE DEF next
    <3> QED  BY <2>2, <2>3
  <2> HIDE DEF next
  <2> QED  BY <2>1, <2>2, <2>4 DEF Kept
<1>8. ASSUME NEW o \in Kept(d)
      PROVE  [from |-> o, to |-> EndOf(d, o)] \in Bounds(d)
  <2>1. o \in Offsets(d) /\ o < EndOf(d, o) /\ EndOf(d, o) <= TRAILER_START  BY DEF Kept
  <2>2. next(last(o)) = EndOf(d, o) /\ last(o) \in 1..n /\ A[last(o)] = o  BY <1>1, <1>5, <2>1
  <2> HIDE DEF next
  <2> QED  BY <1>2, <2>1, <2>2
<1> QED  BY <1>7, <1>8

Row(d, i) == [slot |-> i - 1, from |-> d.slots[i], to |-> EndOf(d, d.slots[i])]

LEMMA RowSlotsAre ==
  ASSUME NEW d, d.slots \in Seq(Nat)
  PROVE  RowSlots(d) = {Row(d, i) : i \in {j \in LiveOf(d.slots) : d.slots[j] \in Kept(d)}}
<1>1. Bounds(d) = {[from |-> o, to |-> EndOf(d, o)] : o \in Kept(d)}  BY BoundsAreKept
<1>2. ASSUME NEW r \in RowSlots(d)
      PROVE  r \in {Row(d, i) : i \in {j \in LiveOf(d.slots) : d.slots[j] \in Kept(d)}}
  <2>1. PICK i \in LiveOf(d.slots), b \in Bounds(d) :
          b.from = d.slots[i] /\ r = [slot |-> i - 1, from |-> b.from, to |-> b.to]
    BY DEF RowSlots
  <2>2. PICK o \in Kept(d) : b = [from |-> o, to |-> EndOf(d, o)]  BY <1>1
  <2>3. o = d.slots[i] /\ r = Row(d, i)  BY <2>1, <2>2 DEF Row
  <2> QED  BY <2>2, <2>3
<1>3. ASSUME NEW i \in LiveOf(d.slots), d.slots[i] \in Kept(d)
      PROVE  Row(d, i) \in RowSlots(d)
  <2> DEFINE b == [from |-> d.slots[i], to |-> EndOf(d, d.slots[i])]
  <2>1. b \in Bounds(d)  BY <1>1, <1>3
  <2>2. b.from = d.slots[i] /\ Row(d, i) = [slot |-> i - 1, from |-> b.from, to |-> b.to]
    BY DEF Row
  <2> HIDE DEF b
  <2> QED  BY <2>1, <2>2 DEF RowSlots
<1> QED  BY <1>2, <1>3

LEMMA ViewsAgree ==
  ASSUME NEW d, d.slots \in Seq(Nat), NEW i \in 1..Len(d.slots)
  PROVE  {[from |-> r.from, to |-> r.to] : r \in {q \in RowSlots(d) : q.slot = i - 1}} =
           {SlotRow(d, i)} \ {NoRow}
<1> DEFINE off == d.slots[i]
           mine == {q \in RowSlots(d) : q.slot = i - 1}
<1>1. \A j \in LiveOf(d.slots) : j \in 1..Len(d.slots) /\ d.slots[j] \in Offsets(d)
  BY OffsetsAre DEF LiveOf
<1>2. RowSlots(d) = {Row(d, j) : j \in {k \in LiveOf(d.slots) : d.slots[k] \in Kept(d)}}
  BY RowSlotsAre
<1>3. \A q \in mine : i \in LiveOf(d.slots) /\ off \in Kept(d) /\ q = Row(d, i)
  <2> TAKE q \in mine
  <2>1. PICK j \in LiveOf(d.slots) : d.slots[j] \in Kept(d) /\ q = Row(d, j)  BY <1>2
  <2>2. j - 1 = i - 1 /\ j \in Int /\ i \in Int  BY <1>1, <2>1 DEF Row
  <2>3. j = i  BY <2>2
  <2> QED  BY <2>1, <2>3
<1>4. CASE i \in LiveOf(d.slots) /\ off \in Kept(d)
  <2>1. Row(d, i) \in mine  BY <1>2, <1>4 DEF Row
  <2>2. mine = {Row(d, i)}  BY <1>3, <2>1
  <2>3. off # 0 /\ off < EndOf(d, off) /\ EndOf(d, off) <= TRAILER_START
    BY <1>4 DEF LiveOf, Kept
  <2>4. SlotRow(d, i) = [from |-> off, to |-> EndOf(d, off)]  BY <2>3 DEF SlotRow
  <2>5. SlotRow(d, i) # NoRow  BY <2>3, <2>4 DEF NoRow
  <2>6. [from |-> Row(d, i).from, to |-> Row(d, i).to] = SlotRow(d, i)  BY <2>4 DEF Row
  <2> HIDE DEF mine
  <2> QED  BY <2>2, <2>5, <2>6 DEF mine
<1>5. CASE ~(i \in LiveOf(d.slots) /\ off \in Kept(d))
  <2>1. mine = {}  BY <1>3, <1>5
  <2>2. SlotRow(d, i) = NoRow
    <3>1. off # 0 => i \in LiveOf(d.slots) /\ off \in Offsets(d)  BY <1>1 DEF LiveOf
    <3>2. ~(off # 0 /\ off < EndOf(d, off) /\ EndOf(d, off) <= TRAILER_START)
      BY <1>5, <3>1 DEF Kept
    <3> QED  BY <3>2 DEF SlotRow
  <2> HIDE DEF mine
  <2> QED  BY <2>1, <2>2 DEF mine
<1> QED  BY <1>4, <1>5

(* slots prints under an index the row that row_slots gives that index.    *)
THEOREM TwoViewsAreOne == Spec => []TwoViewsAgree
<1>1. ASSUME SlottedInv PROVE TwoViewsAgree
  <2>1. \A d \in best : d.slots \in Seq(Nat)
    BY <1>1 DEF SlottedInv, TypesInv, Directory
  <2> QED  BY <2>1, ViewsAgree DEF TwoViewsAgree
<1> QED  BY <1>1, SlottedInvariant, PTL

LEMMA Tiles ==
  ASSUME NEW d, d.slots \in Seq(Nat), Descends(d), EndsBeforeRows(d)
  PROVE  LET rows == RowSlots(d)
         IN  /\ \A i \in LiveOf(d.slots) :
                  \E r \in rows : r.slot = i - 1 /\ r.from = d.slots[i] /\ r.from < r.to
             /\ \A r \in rows : d.end <= r.from /\ r.to <= TRAILER_START
             /\ \A r, s \in rows : r.slot # s.slot => r.to <= s.from \/ s.to <= r.from
             /\ \A r \in rows : r.to = TRAILER_START \/ \E s \in rows : s.from = r.to
<1> DEFINE live == LiveOf(d.slots)
           off(i) == d.slots[i]
<1>1. \A i \in live : i \in 1..Len(d.slots) /\ off(i) \in Nat /\ off(i) \in Offsets(d)
  BY OffsetsAre DEF LiveOf
<1>2. \A o \in Offsets(d) : o \in Nat /\ o < TRAILER_START /\ \E i \in live : off(i) = o
  BY <1>1 DEF EndsBeforeRows, Offsets
<1>3. TRAILER_START \in Int
  <2> DEFINE top == BYTE * BYTE
  <2>1. TRAILER_START \in 1..top /\ top \in Int  BY LayoutAssumption
  <2> HIDE DEF top
  <2> QED  BY <2>1
<1>4. ASSUME NEW o \in Offsets(d)
      PROVE  /\ o \in Kept(d) /\ o < EndOf(d, o) /\ EndOf(d, o) <= TRAILER_START
             /\ EndOf(d, o) \in Int
             /\ EndOf(d, o) = TRAILER_START \/ EndOf(d, o) \in Offsets(d)
             /\ \A p \in Offsets(d) : p > o => EndOf(d, o) <= p
  <2>1. \/ EndOf(d, o) = TRAILER_START /\ \A p \in Offsets(d) : p <= o
        \/ /\ EndOf(d, o) \in Offsets(d) /\ EndOf(d, o) > o
           /\ \A p \in Offsets(d) : p > o => EndOf(d, o) <= p
    BY EndOfIs
  <2>2. o < EndOf(d, o) /\ EndOf(d, o) <= TRAILER_START /\ EndOf(d, o) \in Int
    BY <1>2, <1>3, <2>1
  <2>3. o \in Kept(d)  BY <2>2 DEF Kept
  <2>4. \A p \in Offsets(d) : p > o => EndOf(d, o) <= p  BY <1>2, <2>1
  <2> QED  BY <2>1, <2>2, <2>3, <2>4
<1>5. RowSlots(d) = {Row(d, i) : i \in live}
  <2>1. {j \in live : off(j) \in Kept(d)} = live  BY <1>1, <1>4
  <2> QED  BY <2>1, RowSlotsAre
<1>6. \A i \in live : /\ Row(d, i).slot = i - 1 /\ Row(d, i).from = off(i)
                      /\ Row(d, i).to = EndOf(d, off(i))
  BY DEF Row
<1>7. \A i, j \in live : i # j => off(i) # off(j)
  <2> SUFFICES ASSUME NEW i \in live, NEW j \in live, i # j PROVE off(i) # off(j)  OBVIOUS
  <2>1. i < j \/ j < i  BY <1>1
  <2>2. i < j => off(j) < off(i)  BY DEF Descends
  <2>3. j < i => off(i) < off(j)  BY DEF Descends
  <2> QED  BY <1>1, <2>1, <2>2, <2>3
<1> HIDE DEF live, off
<1>8. \A i \in live :
        \E r \in RowSlots(d) : r.slot = i - 1 /\ r.from = off(i) /\ r.from < r.to
  <2> TAKE i \in live
  <2>1. Row(d, i) \in RowSlots(d)  BY <1>5
  <2>2. off(i) < EndOf(d, off(i))  BY <1>1, <1>4
  <2> QED  BY <1>6, <2>1, <2>2
<1>9. \A i \in live : d.end <= off(i) /\ EndOf(d, off(i)) <= TRAILER_START
  BY <1>1, <1>4 DEF EndsBeforeRows, live, off
<1>10. \A i, j \in live : i # j => EndOf(d, off(i)) <= off(j) \/ EndOf(d, off(j)) <= off(i)
  <2> SUFFICES ASSUME NEW i \in live, NEW j \in live, i # j
               PROVE  EndOf(d, off(i)) <= off(j) \/ EndOf(d, off(j)) <= off(i)
    OBVIOUS
  <2>1. off(i) > off(j) \/ off(j) > off(i)  BY <1>1, <1>7
  <2> QED  BY <1>1, <1>4, <2>1
<1>11. \A i \in live : EndOf(d, off(i)) = TRAILER_START
                       \/ \E j \in live : off(j) = EndOf(d, off(i))
  BY <1>1, <1>2, <1>4
<1>12. \A r \in RowSlots(d) : d.end <= r.from /\ r.to <= TRAILER_START
  BY <1>5, <1>6, <1>9
<1>13. ASSUME NEW r \in RowSlots(d), NEW s \in RowSlots(d), r.slot # s.slot
       PROVE  r.to <= s.from \/ s.to <= r.from
  <2>1. PICK i \in live : r = Row(d, i)  BY <1>5
  <2>2. PICK j \in live : s = Row(d, j)  BY <1>5
  <2>3. i # j  BY <1>13, <2>1, <2>2
  <2> QED  BY <1>6, <1>10, <2>1, <2>2, <2>3
<1>14. ASSUME NEW r \in RowSlots(d)
       PROVE  r.to = TRAILER_START \/ \E s \in RowSlots(d) : s.from = r.to
  <2>1. PICK i \in live : r = Row(d, i)  BY <1>5
  <2>2. CASE EndOf(d, off(i)) = TRAILER_START  BY <1>6, <2>1, <2>2
  <2>3. CASE \E j \in live : off(j) = EndOf(d, off(i))
    <3>1. PICK j \in live : off(j) = EndOf(d, off(i))  BY <2>3
    <3>2. Row(d, j) \in RowSlots(d)  BY <1>5
    <3> QED  BY <1>6, <2>1, <3>1, <3>2
  <2> QED  BY <1>11, <2>2, <2>3
<1> QED  BY <1>8, <1>12, <1>13, <1>14 DEF live, off

(* The rows of a directory found are its live slots, they are disjoint and *)
(* fill the row area.                                                      *)
THEOREM RowsFillTheRowArea == Spec => []RowsTileTheRowArea
<1>1. ASSUME SlottedInv PROVE RowsTileTheRowArea
  <2> SUFFICES ASSUME pc # "given", NEW d \in best
               PROVE  LET rows == RowSlots(d)
         IN  /\ \A i \in LiveOf(d.slots) :
                  \E r \in rows : r.slot = i - 1 /\ r.from = d.slots[i] /\ r.from < r.to
             /\ \A r \in rows : d.end <= r.from /\ r.to <= TRAILER_START
             /\ \A r, s \in rows : r.slot # s.slot => r.to <= s.from \/ s.to <= r.from
             /\ \A r \in rows : r.to = TRAILER_START \/ \E s \in rows : s.from = r.to
    BY DEF RowsTileTheRowArea
  <2>1. d.slots \in Seq(Nat)  BY <1>1 DEF SlottedInv, TypesInv, Directory
  <2>2. Descends(d) /\ EndsBeforeRows(d)  BY <1>1 DEF SlottedInv, FoundInv
  <2> QED  BY <2>1, <2>2, Tiles
<1> QED  BY <1>1, SlottedInvariant, PTL
=============================================================================
