-------------------------- MODULE PagePermutation --------------------------
(***************************************************************************)
(* permute_sector_in_place and permute_power_of_two_in_place of            *)
(* page_permutation.rs.                                                    *)
(*                                                                         *)
(* One behaviour is one call, which the caller may follow by a call with   *)
(* the negated key on the same buffer.  The walk overwrites the buffer it  *)
(* reads, one byte per step.  All widths derive from BYTE, the number of   *)
(* values of a byte: 256 in the code.                                      *)
(***************************************************************************)
EXTENDS Integers

CONSTANTS
  BYTE,                         \* values of a byte, an even number
  PAGE_PERMUTATION_SECTOR_LEN,  \* 512 in the code
  Call,                         \* the arguments of a call
  Image                         \* what the buffer may hold, for any length

I16 == BYTE * BYTE
I32_MIN == -((I16 * I16) \div 2)

Byte == 0..(BYTE - 1)

ASSUME ByteAssumption == BYTE \in Nat \ {0} /\ BYTE % 2 = 0
ASSUME CallAssumption ==
  Call \subseteq [sector : BOOLEAN, len : Nat, start : Nat, tail : Nat, key : Int]
ASSUME ImageAssumption ==
  \A image \in Image, c \in Call : \A i \in 0..(c.len - 1) : image[i] \in Byte

VARIABLES
  call,      \* the arguments; `sector`: through permute_sector_in_place
  pc,        \* "check", "cycle" or "returned"
  bytes,     \* the buffer
  current,   \* the index written next
  seed,      \* the value added to the byte moved next
  first,     \* the byte at start before it was overwritten
  result,    \* Ok or the error
  original,  \* history: the buffer before the first call
  written,   \* history: the indices this call has written
  calls      \* history: the number of calls

vars == <<call, pc, bytes, current, seed, first, result, original, written, calls>>

---------------------------------------------------------------------------
(* The parts of the key *)

OddOf(n) == n - (n % 2) + 1    \* n | 1
Signed(r) == IF r >= I16 \div 2 THEN r - I16 ELSE r

Magnitude == IF call.key < 0 THEN -call.key ELSE call.key
Low8 == Magnitude % BYTE
Increment == OddOf((Magnitude \div BYTE) % BYTE)

(* Mutant: the stride is not made odd. *)
MutRawStride == (((Magnitude \div I16) % I16) + Low8) % I16

RawStride == OddOf((((Magnitude \div I16) % I16) + Low8) % I16)

Stride == IF call.key < 0 THEN -Signed(RawStride) ELSE Signed(RawStride)

Boundary == call.start + call.tail

(* Mutant: off by one in the number of steps the negative key undoes. *)
MutFactor == IF call.len < BYTE THEN Boundary + call.len ELSE Boundary

Factor == IF call.len < BYTE THEN Boundary + 1 + call.len ELSE Boundary + 1

FirstSeed ==
  IF call.key < 0 THEN ((Increment * (Factor % BYTE)) - Low8) % BYTE ELSE Low8

---------------------------------------------------------------------------
(* validate_bounds *)

(* No divisor but 1 is odd. *)
PowerOfTwo(n) == n # 0 /\ \A q \in 2..n : n % q = 0 => q % 2 = 0

InvalidSectorLength == call.sector /\ call.len # PAGE_PERMUTATION_SECTOR_LEN
InvalidActiveRange == call.start + call.tail >= call.len
ValidCall == ~InvalidSectorLength /\ PowerOfTwo(call.len) /\ ~InvalidActiveRange

(* Mutant: the tail is one byte too short. *)
MutLast == call.len - call.tail

Last == call.len - 1 - call.tail

Active == call.start..Last

---------------------------------------------------------------------------
(* next_in_active_range: the first candidate, at most len of them, that is *)
(* in the active range.                                                    *)

Candidate(n) == (current + n * Stride) % call.len

(* Mutant: the search gives up one candidate too early. *)
MutHits == {n \in 1..(call.len - 1) : Candidate(n) \in Active}

Hits == {n \in 1..call.len : Candidate(n) \in Active}

FirstHit == {n \in Hits : \A m \in Hits : n <= m}

---------------------------------------------------------------------------

Init ==
  /\ call \in Call
  /\ pc = "check"
  /\ \E image \in Image : bytes = [i \in 0..(call.len - 1) |-> image[i]]
  /\ current = 0
  /\ seed = 0
  /\ first = 0
  /\ result = "Pending"
  /\ original = bytes
  /\ written = {}
  /\ calls = 1

Return(verdict) ==
  /\ pc' = "returned"
  /\ result' = verdict
  /\ UNCHANGED <<call, first, original, calls>>

Reject ==
  /\ pc = "check"
  /\ \/ InvalidSectorLength /\ Return("InvalidSectorLength")
     \/ /\ ~InvalidSectorLength /\ ~PowerOfTwo(call.len)
        /\ Return("NonPowerOfTwoLength")
     \/ /\ ~InvalidSectorLength /\ PowerOfTwo(call.len) /\ InvalidActiveRange
        /\ Return("InvalidActiveRange")
  /\ UNCHANGED <<bytes, current, seed, written>>

ZeroKey ==
  /\ pc = "check" /\ ValidCall
  /\ call.key = 0
  /\ Return("Ok")
  /\ UNCHANGED <<bytes, current, seed, written>>

Begin ==
  /\ pc = "check" /\ ValidCall
  /\ call.key # 0
  /\ pc' = "cycle"
  /\ current' = call.start
  /\ seed' = FirstSeed
  /\ first' = bytes[call.start]
  /\ UNCHANGED <<call, bytes, result, original, written, calls>>

Closes(next) == next = call.start

Put(value) ==
  /\ bytes' = [bytes EXCEPT ![current] = (value + seed) % BYTE]
  /\ written' = written \cup {current}

Move(next) ==
  /\ ~Closes(next)
  /\ Put(bytes[next])
  /\ seed' = (seed + Increment) % BYTE
  /\ current' = next
  /\ UNCHANGED <<call, pc, first, result, original, calls>>

Close(next) ==
  /\ Closes(next)
  /\ Put(first)
  /\ Return("Ok")
  /\ UNCHANGED <<current, seed>>

NoActiveCycle ==
  /\ Return("NoActiveCycle")
  /\ UNCHANGED <<bytes, current, seed, written>>

Cycle ==
  /\ pc = "cycle"
  /\ IF Hits = {} THEN NoActiveCycle
     ELSE \E n \in FirstHit : Move(Candidate(n)) \/ Close(Candidate(n))

Permute == Reject \/ ZeroKey \/ Begin \/ Cycle

(* The caller applies the negated key to what it got; i32::MIN has none. *)
CallNegated ==
  /\ pc = "returned" /\ result = "Ok"
  /\ calls = 1
  /\ call.key # I32_MIN
  /\ call' = [call EXCEPT !.key = -@]
  /\ pc' = "check"
  /\ result' = "Pending"
  /\ written' = {}
  /\ calls' = 2
  /\ UNCHANGED <<bytes, current, seed, first, original>>

Next == Permute \/ CallNegated

Spec == Init /\ [][Next]_vars

---------------------------------------------------------------------------
(* Properties *)

(* Every variable keeps to its type, and the walk to the active range. *)
TypeOK ==
  /\ call \in [sector : BOOLEAN, len : Nat, start : Nat, tail : Nat, key : Int]
  /\ pc \in {"check", "cycle", "returned"}
  /\ bytes \in [0..(call.len - 1) -> Byte]
  /\ original \in [0..(call.len - 1) -> Byte]
  /\ current \in Nat
  /\ pc = "cycle" => current \in Active /\ Active \subseteq 0..(call.len - 1)
  /\ seed \in Byte /\ first \in Byte
  /\ written \subseteq Nat
  /\ calls \in {1, 2}

(* The bytes outside start..=len-1-tail are never touched, and none is     *)
(* when the arguments are refused or the key is zero.                      *)
InactiveUntouched ==
  /\ \A i \in 0..(call.len - 1) :
       i < call.start \/ i >= call.len - call.tail => bytes[i] = original[i]
  /\ result \notin {"Pending", "Ok"} \/ call.key = 0 => bytes = original

(* Every byte is moved exactly once: none is read or written after it has  *)
(* been overwritten, and when the call returns all active ones have been.  *)
EachByteMovedOnce ==
  /\ pc = "cycle" => current \notin written
  /\ pc = "returned" /\ result = "Ok" /\ call.key # 0 => written = Active

(* "Power-of-two length and odd stride make this unreachable for a valid   *)
(* active range" (page_permutation.rs:116).                                *)
CycleIsFound == result # "NoActiveCycle"

(* The call with the negated key restores the buffer, whatever the range,  *)
(* for every length of at least half the values of a byte.  For a shorter  *)
(* one the distinct seed of the negative branch is no inverse.             *)
NegatedKeyRestores ==
  calls = 2 /\ pc = "returned" /\ ((2 * call.len) % BYTE) = 0 => bytes = original

=============================================================================
