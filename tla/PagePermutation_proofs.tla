----------------------- MODULE PagePermutation_proofs -----------------------
(***************************************************************************)
(* What the in-place permutation does to the buffer, for every width of a  *)
(* byte, every buffer, range and key: it stays in the active range, leaves *)
(* the rest alone, and its search for the next index never fails.          *)
(***************************************************************************)
EXTENDS PagePermutation, FiniteSetTheorems, WellFoundedInduction, TLAPS

LEMMA ModRange ==
  ASSUME NEW a \in Int, NEW b \in Nat \ {0}
  PROVE  a % b \in 0..(b - 1)
OBVIOUS

(* A whole number of turns leads back. *)
LEMMA FullTurn ==
  ASSUME NEW len \in Nat \ {0}, NEW c \in 0..(len - 1), NEW s \in Int
  PROVE  (c + len * s) % len = c
<1> DEFINE r == (c + len * s) % len
           q == (c + len * s) \div len
<1>1. len * s \in Int
  OBVIOUS
<1>2. /\ q \in Int /\ r \in 0..(len - 1)
      /\ c + len * s = len * q + r
  BY <1>1
<1>3. c - r = len * (q - s)
  BY <1>1, <1>2
<1>4. q - s \in Int /\ r \in Int
  BY <1>2
<1> HIDE DEF q, r
<1>5. CASE q - s >= 1
  <2>1. len * (q - s) >= len
    BY <1>4, <1>5
  <2> QED
    BY <1>2, <1>3, <1>4, <2>1
<1>6. CASE q - s <= -1
  <2>1. len * (q - s) <= -len
    BY <1>4, <1>6
  <2> QED
    BY <1>2, <1>3, <1>4, <2>1
<1>7. CASE q - s = 0
  BY <1>2, <1>3, <1>7 DEF r
<1> QED
  BY <1>4, <1>5, <1>6, <1>7

---------------------------------------------------------------------------
(* The inductive invariant: a walk and a second call have passed the       *)
(* validation, and the buffer is the caller's until the first walk.        *)

Checked ==
  /\ pc = "cycle" \/ calls = 2 \/ result = "Ok" => ValidCall
  /\ pc = "cycle" => call.key # 0
  /\ pc # "returned" => result = "Pending"
  /\ pc = "check" /\ calls = 1 => bytes = original

PermuteInv == TypeOK /\ InactiveUntouched /\ CycleIsFound /\ Checked

CallType == [sector : BOOLEAN, len : Nat, start : Nat, tail : Nat, key : Int]

(* The numbers taken from the key are integers, and the seed is a byte. *)
LEMMA KeyParts ==
  ASSUME call \in CallType
  PROVE  FirstSeed \in Byte /\ Increment \in Int /\ Stride \in Int
<1>0. call.key \in Int /\ call.len \in Nat /\ call.start \in Nat /\ call.tail \in Nat
  BY DEF CallType
<1>1. Magnitude \in Int
  BY <1>0 DEF Magnitude
<1>2. Low8 \in Byte /\ Low8 \in Int
  BY <1>1, ModRange, ByteAssumption DEF Low8, Byte
<1>3. Increment \in Int
  <2>1. Magnitude \div BYTE \in Int
    BY <1>1, ByteAssumption
  <2>2. (Magnitude \div BYTE) % BYTE \in Int
    BY <2>1, ByteAssumption
  <2> QED
    BY <2>2 DEF Increment, OddOf
<1>4. Stride \in Int
  <2>1. I16 \in Nat \ {0}
    BY ByteAssumption DEF I16
  <2>2. Magnitude \div I16 \in Int
    BY <1>1, <2>1
  <2>3. (Magnitude \div I16) % I16 \in Int
    BY <2>1, <2>2
  <2>4. (((Magnitude \div I16) % I16) + Low8) % I16 \in Int
    BY <1>2, <2>1, <2>3
  <2>5. RawStride \in Int
    BY <2>4 DEF RawStride, OddOf
  <2>6. Signed(RawStride) \in Int
    BY <2>1, <2>5 DEF Signed
  <2> QED
    BY <2>6 DEF Stride
<1>5. FirstSeed \in Byte
  <2>1. Factor \in Int
    BY <1>0 DEF Factor, Boundary
  <2>2. Factor % BYTE \in Int
    BY <2>1, ByteAssumption
  <2>3. (Increment * (Factor % BYTE)) - Low8 \in Int
    BY <1>2, <1>3, <2>2
  <2>4. ((Increment * (Factor % BYTE)) - Low8) % BYTE \in 0..(BYTE - 1)
    BY <2>3, ModRange, ByteAssumption
  <2> QED
    BY <1>2, <2>4 DEF FirstSeed, Byte
<1> QED
  BY <1>3, <1>4, <1>5

(* A valid call has a nonempty active range inside the buffer. *)
LEMMA ActiveRange ==
  ASSUME call \in CallType, ValidCall
  PROVE  /\ call.start \in Active /\ Active \subseteq 0..(call.len - 1)
         /\ call.len \in Nat \ {0}
         /\ \A i \in Active : call.start <= i /\ i < call.len - call.tail
BY DEF CallType, ValidCall, InvalidActiveRange, Active, Last

(* The search comes back to the current index at the latest. *)
LEMMA SearchSucceeds ==
  ASSUME call \in CallType, ValidCall, current \in Active
  PROVE  Hits # {}
<1>1. call.len \in Nat \ {0} /\ current \in 0..(call.len - 1) /\ Stride \in Int
  BY ActiveRange, KeyParts
<1>2. Candidate(call.len) = current
  BY <1>1, FullTurn DEF Candidate
<1>3. call.len \in 1..call.len
  BY <1>1
<1> QED
  BY <1>2, <1>3 DEF Hits

---------------------------------------------------------------------------

LEMMA InitPermute == Init => PermuteInv
<1> SUFFICES ASSUME Init PROVE PermuteInv
  OBVIOUS
<1>1. call \in CallType /\ bytes \in [0..(call.len - 1) -> Byte]
  BY CallAssumption, ImageAssumption DEF Init, CallType
<1>2. 0 \in Byte
  BY ByteAssumption DEF Byte
<1>3. TypeOK
  BY <1>1, <1>2 DEF Init, TypeOK, CallType
<1> QED
  BY <1>3 DEF Init, PermuteInv, InactiveUntouched, CycleIsFound, Checked

LEMMA CheckStep == PermuteInv /\ (Reject \/ ZeroKey \/ Begin) => PermuteInv'
<1> SUFFICES ASSUME PermuteInv, Reject \/ ZeroKey \/ Begin PROVE PermuteInv'
  OBVIOUS
<1>0. /\ call \in CallType /\ TypeOK /\ Checked /\ InactiveUntouched
      /\ UNCHANGED <<call, bytes, original, calls, written>> /\ pc = "check"
  BY DEF PermuteInv, TypeOK, CallType, Reject, ZeroKey, Begin, Return
<1>1. CASE Reject
  <2>1. /\ pc' = "returned" /\ UNCHANGED <<current, seed, first>> /\ ~ValidCall
        /\ result' \in {"InvalidSectorLength", "NonPowerOfTwoLength", "InvalidActiveRange"}
    BY <1>1 DEF Reject, Return, ValidCall
  <2>2. calls = 1 /\ bytes = original
    BY <1>0, <2>1 DEF Checked, TypeOK
  <2>3. TypeOK'
    BY <1>0, <2>1 DEF TypeOK
  <2> QED
    BY <1>0, <2>1, <2>2, <2>3
       DEF PermuteInv, InactiveUntouched, CycleIsFound, Checked
<1>2. CASE ZeroKey
  <2>1. /\ pc' = "returned" /\ UNCHANGED <<current, seed, first>> /\ ValidCall
        /\ result' = "Ok"
    BY <1>2 DEF ZeroKey, Return
  <2>2. TypeOK'
    BY <1>0, <2>1 DEF TypeOK
  <2>3. ValidCall'
    BY <1>0, <2>1 DEF ValidCall, InvalidSectorLength, InvalidActiveRange, PowerOfTwo
  <2> QED
    BY <1>0, <2>1, <2>2, <2>3
       DEF PermuteInv, InactiveUntouched, CycleIsFound, Checked
<1>3. CASE Begin
  <2>1. /\ pc' = "cycle" /\ current' = call.start /\ seed' = FirstSeed
        /\ first' = bytes[call.start] /\ UNCHANGED result /\ ValidCall /\ call.key # 0
    BY <1>3 DEF Begin
  <2>2. call.start \in Active /\ Active \subseteq 0..(call.len - 1) /\ FirstSeed \in Byte
    BY <1>0, <2>1, ActiveRange, KeyParts
  <2>3. bytes[call.start] \in Byte /\ call.start \in Nat /\ Active' = Active
    BY <1>0, <2>2 DEF TypeOK, CallType, Active, Last
  <2>4. TypeOK'
    BY <1>0, <2>1, <2>2, <2>3 DEF TypeOK
  <2>5. ValidCall'
    BY <1>0, <2>1 DEF ValidCall, InvalidSectorLength, InvalidActiveRange, PowerOfTwo
  <2> QED
    BY <1>0, <2>1, <2>4, <2>5
       DEF PermuteInv, InactiveUntouched, CycleIsFound, Checked
<1> QED
  BY <1>1, <1>2, <1>3

LEMMA CycleStep == PermuteInv /\ Cycle => PermuteInv'
<1> SUFFICES ASSUME PermuteInv, Cycle PROVE PermuteInv'
  OBVIOUS
<1>0. /\ call \in CallType /\ TypeOK /\ Checked /\ InactiveUntouched
      /\ ValidCall /\ pc = "cycle" /\ current \in Active /\ call.key # 0
  BY DEF PermuteInv, TypeOK, CallType, Checked, Cycle
<1>1. PICK n \in FirstHit : Move(Candidate(n)) \/ Close(Candidate(n))
  BY <1>0, SearchSucceeds DEF Cycle
<1> DEFINE next == Candidate(n)
<1>2. next \in Active
  BY <1>1 DEF FirstHit, Hits
<1>3. /\ Active \subseteq 0..(call.len - 1) /\ call.start \in Active
      /\ \A i \in Active : call.start <= i /\ i < call.len - call.tail
  BY <1>0, ActiveRange
<1> HIDE DEF next
<1>4. UNCHANGED <<call, original, first, calls>> /\ Active' = Active /\ ValidCall'
  BY <1>0, <1>1 DEF Move, Close, Return, Active, Last, ValidCall, InvalidSectorLength,
                    InvalidActiveRange, PowerOfTwo
<1>5. PICK value \in Byte : Put(value)
  <2>1. first \in Byte /\ bytes[next] \in Byte
    BY <1>0, <1>2, <1>3 DEF TypeOK
  <2> QED
    BY <1>1, <2>1 DEF Move, Close, next
<1>6. (value + seed) % BYTE \in Byte
  <2>1. value + seed \in Int
    BY <1>0, <1>5, ByteAssumption DEF TypeOK, Byte
  <2> QED
    BY <2>1, ModRange, ByteAssumption DEF Byte
<1>7. bytes' \in [0..(call.len - 1) -> Byte] /\ written' \subseteq Nat
  BY <1>0, <1>5, <1>6 DEF Put, TypeOK
<1>8. \A i \in 0..(call.len - 1) : i # current => bytes'[i] = bytes[i]
  BY <1>0, <1>5 DEF Put, TypeOK
<1>9. /\ seed' \in Byte
      /\ \/ pc' = "cycle" /\ current' = next /\ UNCHANGED result
         \/ pc' = "returned" /\ UNCHANGED current /\ result' = "Ok"
  <2>1. CASE Move(next)
    <3>1. seed + Increment \in Int
      BY <1>0, KeyParts, ByteAssumption DEF TypeOK, Byte
    <3>2. (seed + Increment) % BYTE \in Byte
      BY <3>1, ModRange, ByteAssumption DEF Byte
    <3> QED
      BY <1>0, <2>1, <3>2 DEF Move
  <2>2. CASE Close(next)
    BY <1>0, <2>2 DEF Close, Return, TypeOK
  <2> QED
    BY <1>1, <2>1, <2>2 DEF next
<1>10. TypeOK'
  <2>1. current' \in Nat /\ (pc' = "cycle" => current' \in Active)
    BY <1>0, <1>2, <1>3, <1>9 DEF TypeOK
  <2> QED
    BY <1>0, <1>3, <1>4, <1>7, <1>9, <2>1 DEF TypeOK
<1>11. InactiveUntouched'
  <2>1. ASSUME NEW i \in 0..(call.len - 1),
               i < call.start \/ i >= call.len - call.tail
        PROVE  bytes'[i] = original[i]
    <3>1. i # current
      BY <1>0, <1>3, <2>1 DEF CallType
    <3> QED
      BY <1>0, <1>8, <2>1, <3>1 DEF InactiveUntouched
  <2> QED
    BY <1>0, <1>4, <1>9, <2>1 DEF InactiveUntouched, Checked
<1>12. CycleIsFound' /\ Checked'
  BY <1>0, <1>4, <1>9 DEF CycleIsFound, Checked
<1> QED
  BY <1>10, <1>11, <1>12 DEF PermuteInv

LEMMA NegatedStep == PermuteInv /\ CallNegated => PermuteInv'
<1> SUFFICES ASSUME PermuteInv, CallNegated PROVE PermuteInv'
  OBVIOUS
<1>1. /\ TypeOK /\ Checked /\ InactiveUntouched /\ result = "Ok" /\ ValidCall
      /\ call' = [call EXCEPT !.key = -call.key] /\ pc' = "check"
      /\ result' = "Pending" /\ written' = {} /\ calls' = 2
      /\ UNCHANGED <<bytes, current, seed, first, original>>
  BY DEF PermuteInv, Checked, CallNegated
<1>2. /\ call' \in CallType /\ call'.key = -call.key
      /\ call'.len = call.len /\ call'.start = call.start /\ call'.tail = call.tail
      /\ call'.sector = call.sector
  BY <1>1 DEF TypeOK, CallType
<1>3. TypeOK'
  BY <1>1, <1>2 DEF TypeOK, CallType
<1>4. ValidCall'
  BY <1>1, <1>2 DEF ValidCall, InvalidSectorLength, InvalidActiveRange, PowerOfTwo
<1>5. call'.key = 0 => call.key = 0
  BY <1>1, <1>2 DEF TypeOK
<1>6. InactiveUntouched'
  BY <1>1, <1>2, <1>5 DEF InactiveUntouched
<1> QED
  BY <1>1, <1>3, <1>4, <1>6 DEF PermuteInv, CycleIsFound, Checked

(* PermuteInv is an invariant. *)
THEOREM PermuteInvariant == Spec => []PermuteInv
<1>1. PermuteInv /\ [Next]_vars => PermuteInv'
  <2>1. PermuteInv /\ UNCHANGED vars => PermuteInv'
    BY DEF vars, PermuteInv, TypeOK, InactiveUntouched, CycleIsFound, Checked, Active, Last,
           ValidCall, InvalidSectorLength, InvalidActiveRange, PowerOfTwo
  <2> QED
    BY <2>1, CheckStep, CycleStep, NegatedStep DEF Next, Permute
<1> QED
  BY <1>1, InitPermute, PTL DEF Spec

(* The bytes outside the active range keep their values, and all do when   *)
(* the call is refused.                                                    *)
THEOREM KeepsInactiveBytes == Spec => []InactiveUntouched
<1>1. PermuteInv => InactiveUntouched
  BY DEF PermuteInv
<1> QED
  BY <1>1, PermuteInvariant, PTL

(* The error that the code calls unreachable is. *)
THEOREM NeverLosesTheCycle == Spec => []CycleIsFound
<1>1. PermuteInv => CycleIsFound
  BY DEF PermuteInv
<1> QED
  BY <1>1, PermuteInvariant, PTL

(* The walk stays in the buffer and in the widths of the code. *)
THEOREM PermuteTypeCorrect == Spec => []TypeOK
<1>1. PermuteInv => TypeOK
  BY DEF PermuteInv
<1> QED
  BY <1>1, PermuteInvariant, PTL

---------------------------------------------------------------------------
(* An odd stride visits every index of a buffer whose length is a power of *)
(* two before it comes back.                                               *)

LEMMA Least ==
  ASSUME NEW S \in SUBSET Nat, S # {}
  PROVE  \E n \in S : \A m \in S : n <= m
<1>1. \E n \in S : \A m \in S : <<m, n>> \notin OpToRel(<, Nat)
  BY NatLessThanWellFounded, WFMin
<1>2. \A m, n \in Nat : m < n => <<m, n>> \in OpToRel(<, Nat)
  BY DEF OpToRel
<1>3. \E n \in S : \A m \in S : ~(m < n)
  BY <1>1, <1>2, Zenon
<1> QED
  BY <1>3

LEMMA Divisible ==
  ASSUME NEW n \in Nat \ {0}, NEW k \in Int
  PROVE  (n * k) % n = 0
<1>1. (0 + n * k) % n = 0
  BY FullTurn
<1>2. n * k \in Int
  OBVIOUS
<1> QED
  BY <1>1, <1>2

LEMMA Quotient ==
  ASSUME NEW a \in Int, NEW n \in Nat \ {0}
  PROVE  \E q \in Int : a = n * q + (a % n)
<1>1. a \div n \in Int /\ a = n * (a \div n) + (a % n)
  OBVIOUS
<1> QED
  BY <1>1

LEMMA NoShortTurn ==
  ASSUME NEW n \in Nat, PowerOfTwo(n), NEW s \in Int, s % 2 = 1, NEW d \in 1..(n - 1)
  PROVE  (d * s) % n # 0
<1> DEFINE Z == {e \in Nat : e # 0 /\ (e * s) % n = 0}
<1>1. n \in Nat \ {0}
  BY DEF PowerOfTwo
<1>2. n \in Z
  BY <1>1, Divisible
<1>3. PICK e \in Z : \A f \in Z : e <= f
  <2>1. Z \in SUBSET Nat /\ Z # {}
    BY <1>2
  <2> HIDE DEF Z
  <2> QED
    BY <2>1, Least
<1>4. e \in Nat \ {0} /\ (e * s) % n = 0 /\ e <= n
  BY <1>2, <1>3
<1>5. PICK t \in Int : e * s = n * t
  <2>1. e * s \in Int
    BY <1>4
  <2>2. PICK t \in Int : e * s = n * t + ((e * s) % n)
    BY <1>1, <2>1, Quotient
  <2> QED
    BY <1>1, <1>4, <2>2
<1>6. PICK q \in Int : n = e * q + (n % e)
  <2>1. n \in Int /\ e \in Nat \ {0}
    BY <1>1, <1>4
  <2> QED
    BY <2>1, Quotient
<1>7. n % e \in 0..(e - 1)
  <2>1. n \in Int /\ e \in Nat \ {0}
    BY <1>1, <1>4
  <2> QED
    BY <2>1, ModRange
<1>8. n % e = 0
  <2> DEFINE r == n % e
  <2> SUFFICES ASSUME r # 0 PROVE FALSE
    OBVIOUS
  <2>1. r \in Nat /\ r < e /\ r = n - e * q
    BY <1>1, <1>4, <1>6, <1>7
  <2> HIDE DEF r
  <2>2. r * s = n * s - q * (e * s)
    BY <1>1, <1>4, <2>1
  <2>3. r * s = n * (s - q * t)
    BY <1>1, <1>5, <2>2
  <2>4. (r * s) % n = 0
    BY <1>1, <2>3, Divisible
  <2>5. r \in Z
    BY <2>1, <2>4
  <2> QED
    BY <1>3, <1>4, <2>1, <2>5
<1>9. n = e * q
  BY <1>4, <1>6, <1>8
<1>10. q \in 1..n
  <2>1. q > 0
    BY <1>1, <1>4, <1>9
  <2>2. e * q >= q
    BY <1>4, <2>1
  <2> QED
    BY <1>9, <2>1, <2>2
<1>11. n % q = 0
  <2>1. n = q * e
    BY <1>4, <1>9
  <2> QED
    BY <1>4, <1>10, <2>1, Divisible
<1>12. s = q * t
  <2>1. e * s = e * (q * t)
    BY <1>4, <1>5, <1>9
  <2>2. q * t \in Int
    OBVIOUS
  <2> QED
    BY <1>4, <2>1, <2>2
<1>13. q % 2 = 1
  <2> SUFFICES ASSUME q % 2 = 0 PROVE FALSE
    BY <1>10
  <2>1. PICK h \in Int : q = 2 * h
    BY <1>10
  <2>2. s = 2 * (h * t) /\ h * t \in Int
    BY <1>12, <2>1
  <2> QED
    BY <2>2
<1>14. q = 1
  BY <1>10, <1>11, <1>13 DEF PowerOfTwo
<1>15. e = n
  BY <1>4, <1>9, <1>14
<1>16. d \notin Z
  BY <1>3, <1>4, <1>15
<1> QED
  BY <1>16

(* Two indices reached by a and b turns are the same only if a = b. *)
LEMMA TurnsAreNew ==
  ASSUME NEW n \in Nat, PowerOfTwo(n), NEW s \in Int, s % 2 = 1, NEW c \in Int,
         NEW a \in 0..(n - 1), NEW b \in 0..(n - 1), (c + a * s) % n = (c + b * s) % n
  PROVE  a = b
<1>1. n \in Nat \ {0}
  BY DEF PowerOfTwo
<1>2. ASSUME NEW x \in 0..(n - 1), NEW y \in 0..(n - 1), x < y,
             (c + x * s) % n = (c + y * s) % n
      PROVE  FALSE
  <2>1. c + x * s \in Int /\ c + y * s \in Int
    OBVIOUS
  <2>2. PICK k \in Int : c + x * s = n * k + ((c + x * s) % n)
    BY <1>1, <2>1, Quotient
  <2>3. PICK l \in Int : c + y * s = n * l + ((c + y * s) % n)
    BY <1>1, <2>1, Quotient
  <2>4. (c + x * s) % n \in Int
    BY <1>1, <2>1
  <2>5. y * s - x * s = n * l - n * k
    BY <1>1, <1>2, <2>2, <2>3, <2>4
  <2>6. (y - x) * s = n * (l - k)
    BY <1>1, <2>5
  <2>7. ((y - x) * s) % n = 0
    BY <1>1, <2>6, Divisible
  <2>8. y - x \in 1..(n - 1)
    BY <1>1, <1>2
  <2> QED
    BY <2>7, <2>8, NoShortTurn
<1> QED
  BY <1>1, <1>2

LEMMA ModAdd ==
  ASSUME NEW n \in Nat \ {0}, NEW x \in Int, NEW y \in Int
  PROVE  ((x % n) + y) % n = (x + y) % n
<1>2. PICK k \in Int : x = n * k + (x % n)
  BY Quotient
<1>3. (x % n) + y \in Int
  OBVIOUS
<1>4. PICK l \in Int : (x % n) + y = n * l + (((x % n) + y) % n)
  BY <1>3, Quotient
<1> DEFINE r == ((x % n) + y) % n
           q == k + l
<1>5. r \in 0..(n - 1)
  BY <1>3, ModRange
<1>6. x + y = r + n * q /\ q \in Int
  BY <1>2, <1>4, <1>5
<1> HIDE DEF r, q
<1>7. (r + n * q) % n = r
  BY <1>5, <1>6, FullTurn
<1> QED
  BY <1>6, <1>7 DEF r

TurnOf(len, s, i, n) == (i + n * s) % len

(* Turns add up. *)
LEMMA TurnsAdd ==
  ASSUME NEW n \in Nat \ {0}, NEW s \in Int, NEW c \in Int, NEW a \in Int, NEW b \in Int
  PROVE  TurnOf(n, s, TurnOf(n, s, c, a), b) = TurnOf(n, s, c, a + b)
<1> DEFINE x == c + a * s
           y == b * s
<1>1. x \in Int /\ y \in Int /\ c + (a + b) * s = x + y
  OBVIOUS
<1> HIDE DEF x, y
<1>2. ((x % n) + y) % n = (x + y) % n
  BY <1>1, ModAdd
<1> QED
  BY <1>1, <1>2 DEF x, y, TurnOf

(* Every index is reached. *)
LEMMA TurnsReachAll ==
  ASSUME NEW n \in Nat, PowerOfTwo(n), NEW s \in Int, s % 2 = 1, NEW c \in Int,
         NEW i \in 0..(n - 1)
  PROVE  \E a \in 0..(n - 1) : (c + a * s) % n = i
<1> DEFINE S == 0..(n - 1)
           f == [a \in S |-> (c + a * s) % n]
<1>1. n \in Nat \ {0}
  BY DEF PowerOfTwo
<1>2. f \in [S -> S]
  <2>1. \A a \in S : c + a * s \in Int
    OBVIOUS
  <2>2. \A a \in S : (c + a * s) % n \in S
    BY <1>1, <2>1, ModRange
  <2> QED
    BY <2>2
<1>3. \A a, b \in S : f[a] = f[b] => a = b
  BY TurnsAreNew
<1>4. IsFiniteSet(S)
  BY FS_Interval
<1>5. i \in S
  OBVIOUS
<1> HIDE DEF f, S
<1>6. f \in Injection(S, S)
  BY <1>2, <1>3 DEF Injection, IsInjective
<1>7. f \in Surjection(S, S)
  BY <1>4, <1>6, FS_Injection
<1>8. \E a \in S : f[a] = i
  BY <1>5, <1>7 DEF Surjection
<1> QED
  BY <1>8 DEF f, S

LEMMA OddStride ==
  ASSUME call \in CallType
  PROVE  Stride \in Int /\ Stride % 2 = 1
<1>1. \A n \in Int : OddOf(n) \in Int /\ OddOf(n) % 2 = 1
  BY DEF OddOf
<1>2. I16 \in Nat \ {0} /\ I16 % 2 = 0
  <2>1. PICK h \in Int : BYTE = 2 * h
    <3>1. \A b \in Nat : b % 2 = 0 => b = 2 * (b \div 2) /\ b \div 2 \in Int
      OBVIOUS
    <3> QED
      BY <3>1, ByteAssumption
  <2>2. BYTE * BYTE = 2 * (h * BYTE) /\ h * BYTE \in Int
    BY <2>1, ByteAssumption
  <2>3. BYTE * BYTE \in Nat \ {0}
    BY ByteAssumption
  <2> QED
    BY <2>2, <2>3 DEF I16
<1>3. RawStride \in Int /\ RawStride % 2 = 1
  <2>1. call.key \in Int /\ Magnitude \in Int /\ Low8 \in Int
    BY ByteAssumption DEF CallType, Magnitude, Low8
  <2>2. Magnitude \div I16 \in Int
    BY <1>2, <2>1
  <2>3. (Magnitude \div I16) % I16 \in Int
    BY <1>2, <2>2
  <2>4. (((Magnitude \div I16) % I16) + Low8) % I16 \in Int
    BY <1>2, <2>1, <2>3
  <2> QED
    BY <1>1, <2>4 DEF RawStride
<1>4. Signed(RawStride) \in Int /\ Signed(RawStride) % 2 = 1
  BY <1>2, <1>3 DEF Signed
<1> QED
  BY <1>4 DEF Stride

---------------------------------------------------------------------------
(* The walk.  The index reached from i by n strides, wherever i is. *)

Turn(i, n) == TurnOf(call.len, Stride, i, n)

(* After t turns the walk has written the active indices of the turns      *)
(* before, and stands on a new one.                                        *)
Walked(t) ==
  /\ current = Turn(call.start, t)
  /\ written = {Turn(call.start, m) : m \in 0..(t - 1)} \cap Active

WalkPlace ==
  /\ pc = "cycle" => \E t \in 0..(call.len - 1) : Walked(t)
  /\ pc = "returned" /\ result = "Ok" /\ call.key # 0 => written = Active
  /\ pc = "check" => written = {}

LEMMA TurnsCompose ==
  ASSUME call \in CallType, ValidCall, NEW i \in Int, NEW a \in Int, NEW b \in Int
  PROVE  Turn(Turn(i, a), b) = Turn(i, a + b)
BY ActiveRange, OddStride, TurnsAdd DEF Turn

LEMMA TurnsReturn ==
  ASSUME call \in CallType, ValidCall, NEW i \in 0..(call.len - 1)
  PROVE  Turn(i, 0) = i /\ Turn(i, call.len) = i
<1> DEFINE n == call.len
           s == Stride
<1>1. n \in Nat \ {0} /\ s \in Int /\ i \in 0..(n - 1)
  BY ActiveRange, OddStride
<1> HIDE DEF n, s
<1>2. (i + n * 0) % n = i /\ (i + n * s) % n = i
  BY <1>1, FullTurn
<1>3. i + 0 * s = i + n * 0
  BY <1>1
<1> QED
  BY <1>2, <1>3 DEF Turn, TurnOf, n, s

LEMMA TurnsInRange ==
  ASSUME call \in CallType, ValidCall, NEW i \in Int, NEW a \in Int
  PROVE  Turn(i, a) \in 0..(call.len - 1)
<1>1. i + a * Stride \in Int /\ call.len \in Nat \ {0}
  BY ActiveRange, OddStride
<1> QED
  BY <1>1, ModRange DEF Turn, TurnOf

LEMMA TurnsAreNewHere ==
  ASSUME call \in CallType, ValidCall, NEW i \in Int,
         NEW a \in 0..(call.len - 1), NEW b \in 0..(call.len - 1), Turn(i, a) = Turn(i, b)
  PROVE  a = b
BY ActiveRange, OddStride, TurnsAreNew DEF Turn, TurnOf, ValidCall

LEMMA TurnsReachAllHere ==
  ASSUME call \in CallType, ValidCall, NEW i \in Int, NEW j \in 0..(call.len - 1)
  PROVE  \E a \in 0..(call.len - 1) : Turn(i, a) = j
BY ActiveRange, OddStride, TurnsReachAll DEF Turn, TurnOf, ValidCall

(* A step of the walk, seen as turns: it goes on to turn t + n and passes   *)
(* no active index on its way, or, after call.len turns, comes back.        *)
LEMMA StepTurns ==
  ASSUME call \in CallType, ValidCall, NEW t \in 0..(call.len - 1), Walked(t),
         NEW n \in FirstHit
  PROVE  /\ current \notin written
         /\ Candidate(n) \in Active /\ n \in 1..(call.len - t)
         /\ Candidate(n) = Turn(call.start, t + n)
         /\ \A m \in (t + 1)..(t + n - 1) : Turn(call.start, m) \notin Active
         /\ Candidate(n) = call.start <=> t + n = call.len
         /\ Candidate(n) = call.start \/ Candidate(n) \notin written \cup {current}
<1>1. /\ call.start \in Active /\ Active \subseteq 0..(call.len - 1)
      /\ call.len \in Nat \ {0} /\ call.start \in 0..(call.len - 1)
      /\ current = Turn(call.start, t)
      /\ written = {Turn(call.start, m) : m \in 0..(t - 1)} \cap Active
  BY ActiveRange DEF Walked
<1> HIDE DEF Active
<1> DEFINE start == call.start
           len == call.len
<1>2. \A m \in Int : Candidate(m) = Turn(start, t + m)
  <2> SUFFICES ASSUME NEW m \in Int PROVE Candidate(m) = Turn(start, t + m)
    OBVIOUS
  <2>1. Candidate(m) = Turn(Turn(start, t), m)
    BY <1>1 DEF Candidate, Turn, TurnOf
  <2>2. start \in Int /\ t \in Int
    BY <1>1
  <2> HIDE DEF start
  <2> QED
    BY <2>1, <2>2, TurnsCompose
<1> HIDE DEF start, len
<1>3. n \in Hits /\ \A m \in Hits : n <= m
  BY DEF FirstHit
<1>4. n \in 1..len /\ Candidate(n) \in Active
  BY <1>3 DEF Hits, len
<1>5. start \in Active /\ len \in Nat \ {0} /\ t \in 0..(len - 1) /\ start \in 0..(len - 1)
  BY <1>1 DEF start, len
<1>6. n <= len - t
  <2>1. len - t \in 1..len
    BY <1>5
  <2>2. t + (len - t) = len
    BY <1>5
  <2>3. Candidate(len - t) = start
    <3>1. Candidate(len - t) = Turn(start, len)
      BY <1>2, <1>5, <2>2
    <3> QED
      BY <1>5, <3>1, TurnsReturn DEF len
  <2>4. len - t \in Hits
    BY <1>5, <2>1, <2>3 DEF Hits, len
  <2> QED
    BY <1>3, <2>4
<1>7. \A m \in (t + 1)..(t + n - 1) : Turn(start, m) \notin Active
  <2> SUFFICES ASSUME NEW m \in (t + 1)..(t + n - 1), Turn(start, m) \in Active
               PROVE  FALSE
    OBVIOUS
  <2>1. m - t \in 1..len /\ m - t < n /\ t + (m - t) = m
    BY <1>4, <1>5
  <2>2. Candidate(m - t) = Turn(start, m)
    BY <1>2, <2>1
  <2>3. m - t \in Hits
    BY <2>1, <2>2 DEF Hits, len
  <2> QED
    BY <1>3, <1>4, <2>1, <2>3
<1>8. current \notin written
  <2> SUFFICES ASSUME NEW m \in 0..(t - 1), Turn(start, m) = Turn(start, t)
               PROVE  FALSE
    BY <1>1 DEF start
  <2>1. m \in 0..(len - 1) /\ m # t /\ start \in Int
    BY <1>5
  <2> QED
    BY <1>5, <2>1, TurnsAreNewHere DEF len
<1>9. Candidate(n) = start <=> t + n = len
  <2>1. ASSUME t + n = len PROVE Candidate(n) = start
    <3>1. Candidate(n) = Turn(start, len)
      BY <1>2, <1>4, <2>1
    <3> QED
      BY <1>5, <3>1, TurnsReturn DEF len
  <2>2. ASSUME t + n # len, Candidate(n) = start PROVE FALSE
    <3>1. t + n \in 0..(len - 1) /\ t + n # 0 /\ 0 \in 0..(len - 1)
      BY <1>4, <1>5, <1>6, <2>2
    <3>2. Turn(start, t + n) = Turn(start, 0)
      <4>1. Turn(start, 0) = start
        BY <1>5, TurnsReturn DEF len
      <4> QED
        BY <1>2, <1>4, <2>2, <4>1
    <3> QED
      BY <1>5, <3>1, <3>2, TurnsAreNewHere DEF len
  <2> QED
    BY <2>1, <2>2
<1>10. Candidate(n) = start \/ Candidate(n) \notin written \cup {current}
  <2> SUFFICES ASSUME t + n # len, NEW m \in 0..t, Turn(start, m) = Turn(start, t + n)
               PROVE  FALSE
    <3>1. Candidate(n) = Turn(start, t + n)
      BY <1>2, <1>4
    <3>2. \A i \in written \cup {current} : \E m \in 0..t : i = Turn(start, m)
      BY <1>1, <1>5 DEF start
    <3> QED
      BY <1>9, <3>1, <3>2
  <2>1. m \in 0..(len - 1) /\ t + n \in 0..(len - 1) /\ m # t + n /\ start \in Int
    BY <1>4, <1>5, <1>6
  <2> QED
    BY <2>1, TurnsAreNewHere DEF len
<1> QED
  BY <1>2, <1>4, <1>5, <1>6, <1>7, <1>8, <1>9, <1>10 DEF start, len

LEMMA PlaceStep ==
  ASSUME PermuteInv, WalkPlace, [Next]_vars
  PROVE  WalkPlace'
<1>1. CASE Reject \/ ZeroKey
  BY <1>1 DEF Reject, ZeroKey, Return, WalkPlace, ValidCall
<1>2. CASE Begin
  <2>1. /\ call \in CallType /\ ValidCall /\ pc' = "cycle" /\ current' = call.start
        /\ written = {} /\ UNCHANGED <<written, call>>
    BY <1>2 DEF PermuteInv, TypeOK, CallType, Begin, WalkPlace
  <2>2. call.len \in Nat \ {0} /\ 0 \in 0..(call.len - 1) /\ Turn(call.start, 0) = call.start
    <3>1. call.len \in Nat \ {0} /\ call.start \in 0..(call.len - 1)
      BY <2>1, ActiveRange
    <3> QED
      BY <2>1, <3>1, TurnsReturn
  <2>3. Turn(call.start, 0)' = Turn(call.start, 0)
    BY <2>1 DEF Turn, TurnOf, Stride, RawStride, Magnitude, Low8
  <2>4. Walked(0)'
    BY <2>1, <2>2, <2>3 DEF Walked
  <2> QED
    BY <2>1, <2>2, <2>4 DEF WalkPlace
<1>3. CASE Cycle
  <2>0. /\ call \in CallType /\ ValidCall /\ pc = "cycle" /\ current \in Active
    BY <1>3 DEF PermuteInv, TypeOK, CallType, Checked, Cycle
  <2>1. PICK n \in FirstHit : Move(Candidate(n)) \/ Close(Candidate(n))
    BY <1>3, <2>0, SearchSucceeds DEF Cycle
  <2>2. PICK t \in 0..(call.len - 1) : Walked(t)
    BY <2>0 DEF WalkPlace
  <2>3. /\ call.len \in Nat \ {0} /\ Active \subseteq 0..(call.len - 1)
        /\ call.start \in Int
    BY <2>0, ActiveRange DEF CallType
  <2>4. /\ n \in 1..(call.len - t)
        /\ Candidate(n) = Turn(call.start, t + n)
        /\ \A m \in (t + 1)..(t + n - 1) : Turn(call.start, m) \notin Active
        /\ Candidate(n) = call.start <=> t + n = call.len
    BY <2>0, <2>2, StepTurns
  <2>5. /\ written' = written \cup {current} /\ UNCHANGED call
        /\ current = Turn(call.start, t)
        /\ written = {Turn(call.start, m) : m \in 0..(t - 1)} \cap Active
    BY <2>1, <2>2 DEF Move, Close, Put, Return, Walked
  <2>6. Active' = Active /\ \A m \in Int : Turn(call.start, m)' = Turn(call.start, m)
    BY <2>5 DEF Active, Last, Turn, TurnOf, Stride, RawStride, Magnitude, Low8
  <2> HIDE DEF Active
  <2>7. written' = {Turn(call.start, m) : m \in 0..(t + n - 1)} \cap Active
    <3>1. \A m \in 0..(t + n - 1) : m \in 0..(t - 1) \/ m = t \/ m \in (t + 1)..(t + n - 1)
      BY <2>3, <2>4
    <3>2. 0..(t - 1) \subseteq 0..(t + n - 1) /\ t \in 0..(t + n - 1)
      BY <2>3, <2>4
    <3> QED
      BY <2>0, <2>4, <2>5, <3>1, <3>2
  <2>8. CASE Move(Candidate(n))
    <3>1. /\ pc' = "cycle" /\ current' = Turn(call.start, t + n)
          /\ t + n \in 0..(call.len - 1)
      BY <2>0, <2>3, <2>4, <2>8 DEF Move, Closes
    <3>2. PICK u \in Int : u = t + n
      BY <2>3, <2>4
    <3>3. Walked(u)'
      <4>1. {Turn(call.start, m) : m \in 0..(u - 1)}' = {Turn(call.start, m) : m \in 0..(u - 1)}
        BY <2>6
      <4>2. Turn(call.start, u)' = Turn(call.start, u)
        BY <2>6
      <4>3. written' = {Turn(call.start, m) : m \in 0..(u - 1)} \cap Active'
        <5>1. 0..(t + n - 1) = 0..(u - 1)
          BY <2>3, <2>4, <3>2
        <5> QED
          BY <2>6, <2>7, <5>1
      <4>4. current' = Turn(call.start, u)'
        BY <3>1, <3>2, <4>2
      <4> QED
        BY <4>1, <4>3, <4>4 DEF Walked
    <3> QED
      BY <2>5, <3>1, <3>2, <3>3 DEF WalkPlace
  <2>9. CASE Close(Candidate(n))
    <3>1. pc' = "returned" /\ t + n = call.len
      BY <2>4, <2>9 DEF Close, Closes, Return
    <3>2. written' = Active
      <4>1. \A i \in Active : \E m \in 0..(call.len - 1) : Turn(call.start, m) = i
        BY <2>0, <2>3, TurnsReachAllHere
      <4>2. Active \subseteq {Turn(call.start, m) : m \in 0..(t + n - 1)}
        <5> SUFFICES ASSUME NEW i \in Active
                     PROVE  \E m \in 0..(t + n - 1) : Turn(call.start, m) = i
          OBVIOUS
        <5>1. PICK m \in 0..(call.len - 1) : Turn(call.start, m) = i
          BY <4>1
        <5>2. m \in 0..(t + n - 1)
          BY <2>3, <2>4, <3>1
        <5> QED
          BY <5>1, <5>2
      <4> QED
        BY <2>7, <4>2
    <3> QED
      BY <2>6, <3>1, <3>2 DEF WalkPlace
  <2> QED
    BY <2>1, <2>8, <2>9
<1>4. CASE CallNegated
  BY <1>4 DEF CallNegated, WalkPlace
<1>5. CASE UNCHANGED vars
  BY <1>5 DEF vars, WalkPlace, Walked, Turn, TurnOf, Active, Last, Stride, RawStride, Magnitude, Low8
<1> QED
  BY <1>1, <1>2, <1>3, <1>4, <1>5 DEF Next, Permute

LEMMA PlaceInvariant == Spec => []WalkPlace
<1>1. Init => WalkPlace
  BY DEF Init, WalkPlace
<1> QED
  BY <1>1, PlaceStep, PermuteInvariant, PTL DEF Spec

(* No index is written twice, and a call that succeeds has written all the *)
(* active ones: the in-place walk is one cycle, for every buffer and key.  *)
THEOREM WalksOneCycle == Spec => []EachByteMovedOnce
<1>1. PermuteInv /\ WalkPlace => EachByteMovedOnce
  <2> SUFFICES ASSUME PermuteInv, WalkPlace, pc = "cycle" PROVE current \notin written
    BY DEF WalkPlace, EachByteMovedOnce
  <2>1. call \in CallType /\ ValidCall /\ current \in Active
    BY DEF PermuteInv, TypeOK, CallType, Checked
  <2>2. PICK t \in 0..(call.len - 1) : Walked(t)
    BY DEF WalkPlace
  <2>3. Hits # {} /\ Hits \in SUBSET Nat
    BY <2>1, SearchSucceeds DEF Hits
  <2>4. PICK n \in Hits : \A m \in Hits : n <= m
    BY <2>3, Least
  <2> QED
    BY <2>1, <2>2, <2>4, StepTurns DEF FirstHit
<1> QED
  BY <1>1, PlaceInvariant, PermuteInvariant, PTL

---------------------------------------------------------------------------
(* The negated key.  Its stride leads from each active index back to the    *)
(* one before.                                                              *)

LeadsWith(s, i, j) ==
  \E n \in 1..call.len :
    /\ j = TurnOf(call.len, s, i, n)
    /\ \A m \in 1..(n - 1) : TurnOf(call.len, s, i, m) \notin Active

LEMMA LeadsBack ==
  ASSUME call \in CallType, ValidCall, NEW s \in Int, NEW i \in Active, NEW j \in Active,
         LeadsWith(s, i, j)
  PROVE  LeadsWith(-s, j, i)
<1>1. PICK n \in 1..call.len :
        /\ j = TurnOf(call.len, s, i, n)
        /\ \A m \in 1..(n - 1) : TurnOf(call.len, s, i, m) \notin Active
  BY DEF LeadsWith
<1>2. call.len \in Nat \ {0} /\ i \in 0..(call.len - 1) /\ j \in Int /\ n \in Int
  BY ActiveRange
<1> DEFINE len == call.len
<1>3. \A m \in Int : TurnOf(len, -s, j, m) = TurnOf(len, s, i, n - m)
  <2> SUFFICES ASSUME NEW m \in Int
               PROVE  TurnOf(len, -s, j, m) = TurnOf(len, s, i, n - m)
    OBVIOUS
  <2>1. TurnOf(len, -s, j, m) = TurnOf(len, s, j, -m)
    <3>1. m * (-s) = (-m) * s
      OBVIOUS
    <3> QED
      BY <3>1 DEF TurnOf
  <2> HIDE DEF len
  <2>2. len \in Nat \ {0} /\ i \in Int /\ -m \in Int /\ j = TurnOf(len, s, i, n)
    BY <1>1, <1>2 DEF len
  <2>3. TurnOf(len, s, TurnOf(len, s, i, n), -m) = TurnOf(len, s, i, n + (-m))
    BY <1>2, <2>2, TurnsAdd
  <2>4. n + (-m) = n - m
    BY <1>2
  <2> QED
    BY <2>1, <2>2, <2>3, <2>4
<1>4. TurnOf(len, s, i, n - n) = i
  <2>1. n - n = 0 /\ i + 0 * s = i /\ i % len = i
    BY <1>2
  <2> QED
    BY <2>1 DEF TurnOf
<1>5. i = TurnOf(len, -s, j, n)
  BY <1>2, <1>3, <1>4
<1>6. \A m \in 1..(n - 1) : TurnOf(len, -s, j, m) \notin Active
  <2> SUFFICES ASSUME NEW m \in 1..(n - 1) PROVE TurnOf(len, -s, j, m) \notin Active
    OBVIOUS
  <2>1. n - m \in 1..(n - 1)
    BY <1>2
  <2> QED
    BY <1>1, <1>3, <2>1
<1> QED
  BY <1>5, <1>6 DEF LeadsWith

LEMMA LeadsToOne ==
  ASSUME call \in CallType, NEW s, NEW i, NEW j \in Active, NEW k \in Active,
         LeadsWith(s, i, j), LeadsWith(s, i, k)
  PROVE  j = k
<1>1. PICK n \in 1..call.len :
        /\ j = TurnOf(call.len, s, i, n)
        /\ \A m \in 1..(n - 1) : TurnOf(call.len, s, i, m) \notin Active
  BY DEF LeadsWith
<1>2. PICK l \in 1..call.len :
        /\ k = TurnOf(call.len, s, i, l)
        /\ \A m \in 1..(l - 1) : TurnOf(call.len, s, i, m) \notin Active
  BY DEF LeadsWith
<1>3. n \in Nat /\ l \in Nat /\ n >= 1 /\ l >= 1
  BY DEF CallType
<1>4. CASE n < l
  <2>1. n \in 1..(l - 1)
    BY <1>3, <1>4
  <2> QED
    BY <1>1, <1>2, <2>1
<1>5. CASE l < n
  <2>1. l \in 1..(n - 1)
    BY <1>3, <1>5
  <2> QED
    BY <1>1, <1>2, <2>1
<1>6. CASE l = n
  BY <1>1, <1>2, <1>6
<1> QED
  BY <1>3, <1>4, <1>5, <1>6

(* One step of the walk in these terms. *)
WalkTo(next) ==
  /\ current \in Active \ written /\ next \in Active /\ LeadsWith(Stride, current, next)
  /\ written' = written \cup {current} /\ written \subseteq Active
  /\ UNCHANGED <<call, original, first, calls>>
  /\ IF next = call.start
     THEN /\ pc' = "returned" /\ result' = "Ok" /\ written' = Active
          /\ bytes' = [bytes EXCEPT ![current] = (first + seed) % BYTE]
     ELSE /\ pc' = "cycle" /\ current' = next /\ next \notin written'
          /\ UNCHANGED result
          /\ seed' = (seed + Increment) % BYTE
          /\ bytes' = [bytes EXCEPT ![current] = (bytes[next] + seed) % BYTE]

LEMMA OneStep ==
  ASSUME PermuteInv, WalkPlace, Cycle
  PROVE  \E next \in Active : WalkTo(next)
<1>0. /\ call \in CallType /\ ValidCall /\ pc = "cycle" /\ current \in Active /\ call.key # 0
  BY DEF PermuteInv, TypeOK, CallType, Checked, Cycle
<1>1. PICK n \in FirstHit : Move(Candidate(n)) \/ Close(Candidate(n))
  BY <1>0, SearchSucceeds DEF Cycle
<1>2. PICK t \in 0..(call.len - 1) : Walked(t)
  BY <1>0 DEF WalkPlace
<1> DEFINE next == Candidate(n)
<1>3. /\ current \notin written /\ next \in Active
      /\ next = call.start \/ next \notin written \cup {current}
  BY <1>0, <1>2, StepTurns
<1>4. LeadsWith(Stride, current, next)
  <2>1. n \in 1..call.len /\ \A m \in 1..call.len : m < n => Candidate(m) \notin Active
    <3>1. n \in Hits /\ \A m \in Hits : n <= m
      BY DEF FirstHit
    <3>2. \A m \in 1..call.len : Candidate(m) \in Active => m \in Hits
      BY DEF Hits
    <3> QED
      BY <1>0, <3>1, <3>2 DEF Hits, CallType
  <2>2. \A m \in Int : Candidate(m) = TurnOf(call.len, Stride, current, m)
    BY DEF Candidate, TurnOf
  <2>3. \A m \in 1..(n - 1) : TurnOf(call.len, Stride, current, m) \notin Active
    <3> SUFFICES ASSUME NEW m \in 1..(n - 1)
                 PROVE  TurnOf(call.len, Stride, current, m) \notin Active
      OBVIOUS
    <3>1. m \in 1..call.len /\ m < n /\ m \in Int
      BY <1>0, <2>1 DEF CallType
    <3> QED
      BY <2>1, <2>2, <3>1
  <2> QED
    BY <2>1, <2>2, <2>3 DEF LeadsWith
<1> HIDE DEF next
<1>5. /\ written' = written \cup {current} /\ written \subseteq Active
      /\ UNCHANGED <<call, original, first, calls>>
  BY <1>1, <1>2 DEF Move, Close, Put, Return, Walked, next
<1>6. CASE next = call.start
  <2>1. Close(next)
    BY <1>1, <1>6 DEF Move, Closes, next
  <2>2. /\ pc' = "returned" /\ result' = "Ok"
        /\ bytes' = [bytes EXCEPT ![current] = (first + seed) % BYTE]
    BY <2>1 DEF Close, Put, Return
  <2>3. WalkPlace'
    BY PlaceStep DEF Next, Permute
  <2>4. written' = Active
    BY <1>0, <1>5, <2>2, <2>3 DEF WalkPlace, Active, Last
  <2> QED
    BY <1>0, <1>3, <1>4, <1>5, <1>6, <2>2, <2>4 DEF WalkTo
<1>7. CASE next # call.start
  <2>1. Move(next)
    BY <1>1, <1>7 DEF Close, Closes, next
  <2>2. /\ pc' = "cycle" /\ current' = next /\ UNCHANGED result
        /\ seed' = (seed + Increment) % BYTE
        /\ bytes' = [bytes EXCEPT ![current] = (bytes[next] + seed) % BYTE]
    BY <1>0, <2>1 DEF Move, Put
  <2> QED
    BY <1>0, <1>3, <1>4, <1>5, <1>7, <2>2 DEF WalkTo
<1> QED
  BY <1>3, <1>6, <1>7

(* The seed the negated key starts with. *)
OtherSeed ==
  IF call.key < 0 THEN Low8
                  ELSE ((Increment * (Factor % BYTE)) - Low8) % BYTE

ActiveLen == call.len - Boundary

Doubled == ((2 * call.len) % BYTE) = 0

LEMMA SeedFacts ==
  ASSUME call \in CallType
  PROVE  /\ FirstSeed \in Int /\ OtherSeed \in Int /\ Increment \in Int
         /\ \E k \in Int : OtherSeed + FirstSeed = Increment * Factor + BYTE * k
<1>1. /\ Increment \in Int /\ FirstSeed \in Int /\ Low8 \in Int /\ BYTE \in Nat \ {0}
      /\ Factor \in Int
  <2>1. call.key \in Int /\ call.len \in Nat /\ call.start \in Nat /\ call.tail \in Nat
    BY DEF CallType
  <2>2. Low8 \in Int /\ Factor \in Int
    BY <2>1, ByteAssumption DEF Low8, Magnitude, Factor, Boundary
  <2> QED
    BY <2>2, KeyParts, ByteAssumption DEF Byte
<1> DEFINE f == Factor % BYTE
           x == (Increment * f) - Low8
<1>2. PICK p \in Int : Factor = BYTE * p + f
  BY <1>1, Quotient
<1>3. f \in Int
  BY <1>1
<1> HIDE DEF f
<1>4. x \in Int
  BY <1>1, <1>3
<1>5. PICK q \in Int : x = BYTE * q + (x % BYTE)
  BY <1>1, <1>4, Quotient
<1>6. x % BYTE \in Int
  BY <1>1, <1>4
<1>7. OtherSeed + FirstSeed = Low8 + (x % BYTE) /\ OtherSeed \in Int
  BY <1>1, <1>6 DEF OtherSeed, FirstSeed, f
<1>8. Increment * Factor = Increment * f + BYTE * (p * Increment)
  BY <1>1, <1>2, <1>3
<1>9. Low8 + (x % BYTE) = Increment * Factor + BYTE * (-(q + p * Increment))
  <2>1. Low8 + (x % BYTE) = (Low8 + x) - BYTE * q
    BY <1>1, <1>4, <1>5, <1>6
  <2>2. Low8 + x = Increment * f /\ Increment * f \in Int
    BY <1>1, <1>3
  <2>3. BYTE * (-(q + p * Increment)) = -(BYTE * q) - BYTE * (p * Increment)
    BY <1>1
  <2> DEFINE a == Increment * f
             b == BYTE * q
             c == BYTE * (p * Increment)
  <2>4. b \in Int /\ c \in Int
    BY <1>1
  <2>5. Low8 + (x % BYTE) = a - b
    BY <2>1, <2>2, <2>4
  <2>6. Increment * Factor = a + c
    BY <1>8
  <2>7. BYTE * (-(q + p * Increment)) = -b - c
    BY <2>3
  <2>8. a \in Int
    BY <2>2
  <2> HIDE DEF a, b, c
  <2> QED
    BY <2>4, <2>5, <2>6, <2>7, <2>8
<1>10. -(q + p * Increment) \in Int
  BY <1>1
<1> QED
  BY <1>1, <1>7, <1>9, <1>10

(* The steps the negative seed allows for: with those of the walk they are  *)
(* a multiple of the length, by which a byte turns round.                   *)
LEMMA FactorFits ==
  ASSUME call \in CallType, ValidCall, Doubled
  PROVE  \E k \in Int : Factor + (ActiveLen - 1) = BYTE * k
<1>1. /\ call.len \in Nat \ {0} /\ call.start \in Nat /\ call.tail \in Nat
      /\ BYTE \in Nat \ {0} /\ PowerOfTwo(call.len)
  BY ByteAssumption, ActiveRange DEF CallType, ValidCall
<1> DEFINE len == call.len
<1>2. PICK m \in Int : 2 * len = BYTE * m
  <2> DEFINE d == 2 * len
  <2>1. d \in Int /\ d % BYTE = 0
    BY <1>1 DEF Doubled
  <2> HIDE DEF d
  <2>2. PICK m \in Int : d = BYTE * m + (d % BYTE)
    BY <1>1, <2>1, Quotient
  <2>3. d = BYTE * m
    BY <1>1, <2>1, <2>2
  <2> QED
    BY <2>3 DEF d
<1>3. CASE len < BYTE
  <2>1. Factor + (ActiveLen - 1) = 2 * len
    BY <1>1, <1>3 DEF Factor, ActiveLen, Boundary
  <2> QED
    BY <1>2, <2>1
<1>4. CASE len >= BYTE
  <2>1. Factor + (ActiveLen - 1) = len
    BY <1>1, <1>4 DEF Factor, ActiveLen, Boundary
  <2>2. PICK b \in Int : BYTE = 2 * b
    <3>1. \A n \in Nat : n % 2 = 0 => n = 2 * (n \div 2) /\ n \div 2 \in Int
      OBVIOUS
    <3> QED
      BY <3>1, ByteAssumption
  <2>3. len = b * m
    <3>1. 2 * len = 2 * (b * m) /\ b * m \in Int
      BY <1>1, <1>2, <2>2
    <3> QED
      BY <1>1, <3>1
  <2>4. b \in Nat /\ b > 0 /\ b < BYTE
    BY <1>1, <2>2
  <2>5. m > 0
    BY <1>1, <2>3, <2>4
  <2>6. m % 2 = 0
    <3> SUFFICES ASSUME m % 2 # 0 PROVE FALSE
      OBVIOUS
    <3>1. len % m = 0
      <4>1. m \in Nat \ {0} /\ len = m * b
        BY <2>3, <2>4, <2>5
      <4> QED
        BY <2>4, <4>1, Divisible
    <3>2. m <= len
      <4>1. b * m >= m
        BY <2>4, <2>5
      <4> QED
        BY <2>3, <4>1
    <3>3. m # 1
      BY <1>1, <1>4, <2>3, <2>4
    <3>4. m \in 2..len
      BY <1>1, <2>5, <3>2, <3>3
    <3> QED
      BY <1>1, <3>1, <3>4 DEF PowerOfTwo
  <2>7. PICK h \in Int : m = 2 * h
    <3>1. m = 2 * (m \div 2) /\ m \div 2 \in Int
      BY <2>5, <2>6
    <3> QED
      BY <3>1
  <2>8. len = BYTE * h
    <3>1. 2 * len = 2 * (BYTE * h) /\ BYTE * h \in Int
      BY <1>1, <1>2, <2>7
    <3> QED
      BY <1>1, <3>1
  <2> QED
    BY <2>1, <2>8
<1> QED
  BY <1>1, <1>3, <1>4

(* The byte an index gets: the value moved there and the seed of its rank. *)
Mixed(value, f, r) == (value + (f + r * Increment)) % BYTE

(* What the first walk adds at rank r the second takes away c steps after   *)
(* its start, when r and c together are the steps of a walk.                *)
LEMMA Undoes ==
  ASSUME call \in CallType, ValidCall, Doubled,
         NEW o \in Byte, NEW r \in Nat, NEW c \in Nat, r + 1 + c = ActiveLen
  PROVE  (Mixed(o, OtherSeed, r) + ((FirstSeed + c * Increment) % BYTE)) % BYTE = o
<1>1. /\ FirstSeed \in Int /\ OtherSeed \in Int /\ Increment \in Int
      /\ BYTE \in Nat \ {0} /\ o \in 0..(BYTE - 1)
  BY SeedFacts, ByteAssumption DEF Byte
<1>2. PICK k \in Int : OtherSeed + FirstSeed = Increment * Factor + BYTE * k
  BY SeedFacts
<1>3. PICK l \in Int : Factor + (ActiveLen - 1) = BYTE * l
  BY FactorFits
<1>4. Factor \in Int /\ ActiveLen \in Int
  BY DEF Factor, ActiveLen, Boundary, CallType
<1>5. OtherSeed + FirstSeed + (r + c) * Increment = BYTE * (k + l * Increment)
  <2>1. r + c = ActiveLen - 1
    BY <1>4
  <2>2. (r + c) * Increment = Increment * (ActiveLen - 1)
    BY <1>1, <1>4, <2>1
  <2>3. Increment * Factor + Increment * (ActiveLen - 1) = Increment * (BYTE * l)
    <3>1. Increment * Factor + Increment * (ActiveLen - 1)
          = Increment * (Factor + (ActiveLen - 1))
      BY <1>1, <1>4
    <3> QED
      BY <1>3, <3>1
  <2>4. Increment * (BYTE * l) = BYTE * (l * Increment)
    BY <1>1
  <2> DEFINE a == Increment * Factor
             b == Increment * (ActiveLen - 1)
             d == BYTE * (l * Increment)
             e == BYTE * k
  <2>5. a \in Int /\ b \in Int /\ d \in Int /\ e \in Int
    BY <1>1, <1>4
  <2>6. BYTE * (k + l * Increment) = e + d
    BY <1>1
  <2>7. OtherSeed + FirstSeed = a + e /\ (r + c) * Increment = b /\ a + b = d
    BY <1>2, <2>2, <2>3, <2>4
  <2> HIDE DEF a, b, d, e
  <2>8. (a + e) + b = e + d
    BY <2>5, <2>7
  <2> QED
    BY <2>6, <2>7, <2>8
<1> DEFINE u == OtherSeed + r * Increment
           v == FirstSeed + c * Increment
           q == k + l * Increment
<1>6. u \in Int /\ v \in Int /\ q \in Int
  BY <1>1
<1>7. u + v = BYTE * q
  <2>1. u + v = OtherSeed + FirstSeed + (r + c) * Increment
    BY <1>1
  <2> QED
    BY <1>5, <2>1
<1>8. Mixed(o, OtherSeed, r) = (o + u) % BYTE
  BY DEF Mixed
<1> HIDE DEF u, v, q
<1>9. v % BYTE \in Int /\ o + u \in Int
  BY <1>1, <1>6
<1>10. (((o + u) % BYTE) + (v % BYTE)) % BYTE = ((o + u) + (v % BYTE)) % BYTE
  BY <1>1, <1>9, ModAdd
<1>11. ((v % BYTE) + (o + u)) % BYTE = (v + (o + u)) % BYTE
  BY <1>1, <1>6, <1>9, ModAdd
<1>12. (o + u) + (v % BYTE) = (v % BYTE) + (o + u) /\ v + (o + u) = o + BYTE * q
  BY <1>1, <1>6, <1>7, <1>9
<1>13. (o + BYTE * q) % BYTE = o
  BY <1>1, <1>6, FullTurn
<1>14. (((o + u) % BYTE) + (v % BYTE)) % BYTE = o
  BY <1>10, <1>11, <1>12, <1>13
<1> QED
  BY <1>8, <1>14 DEF v

LEMMA SeedsAdd ==
  ASSUME call \in CallType, NEW v \in Int, NEW c \in Nat
  PROVE  /\ (v + ((FirstSeed + c * Increment) % BYTE)) % BYTE = Mixed(v, FirstSeed, c)
         /\ (((FirstSeed + c * Increment) % BYTE) + Increment) % BYTE
            = (FirstSeed + (c + 1) * Increment) % BYTE
<1>1. FirstSeed \in Int /\ Increment \in Int /\ BYTE \in Nat \ {0}
  BY SeedFacts, ByteAssumption
<1> DEFINE x == FirstSeed + c * Increment
<1>2. x \in Int /\ x + Increment = FirstSeed + (c + 1) * Increment
  BY <1>1
<1> HIDE DEF x
<1>3. ((x % BYTE) + v) % BYTE = (x + v) % BYTE
  BY <1>1, <1>2, ModAdd
<1>4. ((x % BYTE) + Increment) % BYTE = (x + Increment) % BYTE
  BY <1>1, <1>2, ModAdd
<1>5. (x % BYTE) + v = v + (x % BYTE) /\ x + v = v + x
  BY <1>1, <1>2
<1> QED
  BY <1>2, <1>3, <1>4, <1>5 DEF x, Mixed

(* The walk numbers the active indices in its order: rank is how many steps *)
(* lead from the start to an index.                                         *)
Ranks(s, rank) ==
  /\ rank \in [Active -> Nat] /\ rank[call.start] = 0
  /\ \A i, j \in Active : LeadsWith(s, i, j) =>
       rank[i] + 1 = IF j = call.start THEN ActiveLen ELSE rank[j]

(* During the first call: what is written is numbered and permuted. *)
FirstWalk(rank) ==
  /\ rank \in [Active -> Nat] /\ rank[call.start] = 0
  /\ rank[current] = Cardinality(written)
  /\ first = original[call.start]
  /\ seed = (FirstSeed + Cardinality(written) * Increment) % BYTE
  /\ \A i \in Active \ written : bytes[i] = original[i]
  /\ \A i \in written, j \in Active : LeadsWith(Stride, i, j) =>
       /\ j # call.start /\ j \in written \cup {current}
       /\ rank[j] = rank[i] + 1
       /\ bytes[i] = Mixed(original[j], FirstSeed, rank[i])

(* After it: each active index holds the byte that followed it. *)
Permuted(s, f, rank) ==
  /\ Ranks(s, rank)
  /\ \A i, j \in Active : LeadsWith(s, i, j) =>
       bytes[i] = Mixed(original[j], f, rank[i])

(* During the second call: what is written is restored, the rest is not. *)
SecondWalk(rank) ==
  /\ Ranks(-Stride, rank)
  /\ IF current = call.start THEN Cardinality(written) = 0
     ELSE rank[current] + Cardinality(written) = ActiveLen
  /\ seed = (FirstSeed + Cardinality(written) * Increment) % BYTE
  /\ \A i \in written : bytes[i] = original[i]
  /\ \A i, j \in Active : LeadsWith(-Stride, i, j) =>
       /\ i \notin written => bytes[i] = Mixed(original[j], OtherSeed, rank[i])
       /\ i = call.start => first = Mixed(original[j], OtherSeed, 0)

Returned == pc = "returned" /\ result = "Ok" /\ call.key # 0

RestoreInv ==
  /\ calls = 1 /\ pc = "cycle" => \E rank : FirstWalk(rank)
  /\ calls = 1 /\ Returned => \E rank : Permuted(Stride, FirstSeed, rank)
  /\ calls = 2 /\ pc = "check" /\ call.key # 0 => \E rank : Permuted(-Stride, OtherSeed, rank)
  /\ calls = 2 /\ pc = "cycle" /\ Doubled => \E rank : SecondWalk(rank)
  /\ calls = 2 /\ Returned /\ Doubled => \A i \in Active : bytes[i] = original[i]

LEMMA ActiveCount ==
  ASSUME call \in CallType, ValidCall
  PROVE  IsFiniteSet(Active) /\ Cardinality(Active) = ActiveLen /\ ActiveLen \in Nat
<1>1. call.start \in Int /\ Last \in Int /\ Last >= call.start
      /\ Last - call.start + 1 = ActiveLen
  BY ActiveRange
     DEF CallType, Last, ActiveLen, Boundary, ValidCall, InvalidActiveRange
<1>2. IsFiniteSet(Active) /\ Cardinality(Active) = Last - call.start + 1
  <2> DEFINE a == call.start
             b == Last
  <2>1. a \in Int /\ b \in Int /\ ~(a > b)
    BY <1>1
  <2> HIDE DEF a, b
  <2>2. IsFiniteSet(a..b) /\ Cardinality(a..b) = b - a + 1
    BY <2>1, FS_Interval
  <2> QED
    BY <2>2 DEF Active, a, b
<1> QED
  BY <1>1, <1>2

LEMMA WrittenCount ==
  ASSUME call \in CallType, ValidCall, NEW next, WalkTo(next)
  PROVE  /\ Cardinality(written) \in Nat
         /\ Cardinality(written') = Cardinality(written) + 1
<1>1. /\ written \in SUBSET Active /\ written' = written \cup {current}
      /\ current \notin written
  BY DEF WalkTo
<1>2. IsFiniteSet(written)
  BY <1>1, ActiveCount, FS_Subset
<1> QED
  BY <1>1, <1>2, FS_AddElement, FS_CardinalityType

LEMMA CallKept ==
  ASSUME UNCHANGED call
  PROVE  /\ Active' = Active /\ Stride' = Stride /\ FirstSeed' = FirstSeed
         /\ OtherSeed' = OtherSeed /\ Increment' = Increment /\ ActiveLen' = ActiveLen
         /\ (-Stride)' = -Stride
         /\ Doubled' = Doubled
         /\ \A s, i, j : LeadsWith(s, i, j)' <=> LeadsWith(s, i, j)
         /\ \A i, j : LeadsWith(Stride, i, j)' <=> LeadsWith(Stride, i, j)
         /\ \A i, j : LeadsWith(-Stride, i, j)' <=> LeadsWith(-Stride, i, j)
         /\ \A v, f, r : Mixed(v, f, r)' = Mixed(v, f, r)
<1>1. /\ Active' = Active /\ Stride' = Stride /\ FirstSeed' = FirstSeed
      /\ OtherSeed' = OtherSeed /\ Increment' = Increment /\ ActiveLen' = ActiveLen
      /\ Doubled' = Doubled
  BY DEF Active, Last, Stride, RawStride, Low8, Magnitude, FirstSeed, OtherSeed, Increment,
         Factor, Boundary, ActiveLen, Doubled
<1>2. \A s, i, j : LeadsWith(s, i, j)' <=> LeadsWith(s, i, j)
  BY <1>1 DEF LeadsWith
<1>3. \A i, j : LeadsWith(Stride, i, j)' <=> LeadsWith(Stride, i, j)
  BY <1>1 DEF LeadsWith
<1>4. \A i, j : LeadsWith(-Stride, i, j)' <=> LeadsWith(-Stride, i, j)
  BY <1>1 DEF LeadsWith
<1>5. \A v, f, r : Mixed(v, f, r)' = Mixed(v, f, r)
  BY <1>1 DEF Mixed
<1> QED
  BY <1>1, <1>2, <1>3, <1>4, <1>5

LEMMA BytesTyped ==
  ASSUME PermuteInv
  PROVE  /\ call \in CallType
         /\ bytes \in [0..(call.len - 1) -> Byte] /\ original \in [0..(call.len - 1) -> Byte]
         /\ ValidCall =>
              /\ Active \subseteq 0..(call.len - 1) /\ call.start \in Active
              /\ \A i \in Active : bytes[i] \in Byte /\ bytes[i] \in Int
                                   /\ original[i] \in Byte /\ original[i] \in Int
<1>1. /\ call \in CallType
      /\ bytes \in [0..(call.len - 1) -> Byte] /\ original \in [0..(call.len - 1) -> Byte]
  BY DEF PermuteInv, TypeOK, CallType
<1>2. Byte \subseteq Int
  BY ByteAssumption DEF Byte
<1>3. ValidCall => Active \subseteq 0..(call.len - 1) /\ call.start \in Active
  BY <1>1, ActiveRange
<1> HIDE DEF Active
<1> QED
  BY <1>1, <1>2, <1>3

(* What one step does to the buffer. *)
LEMMA BytesStep ==
  ASSUME PermuteInv, ValidCall, NEW next \in Active, WalkTo(next)
  PROVE  /\ bytes'[current] = ((IF next = call.start THEN first ELSE bytes[next]) + seed) % BYTE
         /\ \A i \in Active : i # current => bytes'[i] = bytes[i]
<1>1. /\ bytes \in [0..(call.len - 1) -> Byte] /\ current \in Active
      /\ Active \subseteq 0..(call.len - 1)
  BY BytesTyped DEF WalkTo
<1>2. bytes' = [bytes EXCEPT ![current] =
                  ((IF next = call.start THEN first ELSE bytes[next]) + seed) % BYTE]
  BY DEF WalkTo
<1> HIDE DEF Active
<1> QED
  BY <1>1, <1>2

LEMMA FirstWalkBegins ==
  ASSUME PermuteInv, WalkPlace, Begin, calls = 1
  PROVE  \E rank : FirstWalk(rank)'
<1>1. /\ call \in CallType /\ ValidCall /\ written = {} /\ bytes = original
      /\ current' = call.start /\ seed' = FirstSeed /\ first' = bytes[call.start]
      /\ UNCHANGED <<call, bytes, original, written>>
  BY DEF PermuteInv, TypeOK, CallType, Begin, WalkPlace, Checked
<1>2. call.start \in Active /\ Active' = Active /\ FirstSeed' = FirstSeed /\ Increment' = Increment
  BY <1>1, ActiveRange, CallKept
<1>3. PICK rank \in [Active -> Nat] : rank = [i \in Active |-> 0]
  OBVIOUS
<1>4. rank[call.start] = 0
  BY <1>2, <1>3
<1>5. Cardinality(written') = 0
  BY <1>1, FS_EmptySet
<1>6. seed' = (FirstSeed + 0 * Increment) % BYTE
  <2>1. FirstSeed \in 0..(BYTE - 1) /\ BYTE \in Nat \ {0} /\ Increment \in Int
    BY <1>1, KeyParts, ByteAssumption DEF Byte
  <2>2. FirstSeed + 0 * Increment = FirstSeed /\ FirstSeed % BYTE = FirstSeed
    BY <2>1
  <2> QED
    BY <1>1, <2>2
<1> HIDE DEF Active
<1>7. FirstWalk(rank)'
  BY <1>1, <1>2, <1>3, <1>4, <1>5, <1>6 DEF FirstWalk
<1> QED
  BY <1>7

LEMMA FirstWalkMoves ==
  ASSUME PermuteInv, ValidCall, NEW rank, FirstWalk(rank),
         NEW next \in Active, WalkTo(next), next # call.start
  PROVE  \E r : FirstWalk(r)'
<1>1. /\ call \in CallType /\ current \in Active \ written /\ call.start \in Active
      /\ LeadsWith(Stride, current, next) /\ written' = written \cup {current}
      /\ written \subseteq Active
      /\ UNCHANGED <<call, original, first>>
      /\ current' = next /\ next \notin written' /\ seed' = (seed + Increment) % BYTE
  BY BytesTyped DEF WalkTo
<1>2. /\ Active' = Active /\ FirstSeed' = FirstSeed /\ Increment' = Increment
      /\ \A i, j : LeadsWith(Stride, i, j)' <=> LeadsWith(Stride, i, j)
      /\ \A v, f, r : Mixed(v, f, r)' = Mixed(v, f, r)
  BY <1>1, CallKept
<1>3. PICK c \in Nat : c = Cardinality(written) /\ Cardinality(written') = c + 1
  BY <1>1, WrittenCount
<1> HIDE DEF Active
<1>4. PICK r \in [Active -> Nat] : r = [rank EXCEPT ![next] = c + 1]
  <2>1. rank \in [Active -> Nat] /\ c + 1 \in Nat
    BY DEF FirstWalk
  <2> QED
    BY <2>1
<1>5. r[next] = c + 1 /\ \A i \in Active : i # next => r[i] = rank[i]
  BY <1>4 DEF FirstWalk
<1>6. seed = (FirstSeed + c * Increment) % BYTE /\ rank[current] = c
  BY <1>3 DEF FirstWalk
<1>7. seed' = (FirstSeed + (c + 1) * Increment) % BYTE
  BY <1>1, <1>6, SeedsAdd
<1>8. /\ bytes'[current] = Mixed(original[next], FirstSeed, c)
      /\ \A i \in Active : i # current => bytes'[i] = bytes[i]
  <2>1. bytes[next] = original[next] /\ original[next] \in Int
    BY <1>1, BytesTyped DEF FirstWalk
  <2> QED
    BY <1>1, <1>6, <2>1, BytesStep, SeedsAdd
<1> HIDE DEF Active
<1>9. \A i \in Active \ written' : bytes'[i] = original[i]
  BY <1>1, <1>8 DEF FirstWalk
<1>10. ASSUME NEW i \in written', NEW j \in Active, LeadsWith(Stride, i, j)
       PROVE  /\ j # call.start /\ j \in written' \cup {current'}
              /\ r[j] = r[i] + 1
              /\ bytes'[i] = Mixed(original[j], FirstSeed, r[i])
  <2>1. CASE i = current
    <3>1. j = next
      BY <1>1, <1>10, <2>1, LeadsToOne
    <3>2. r[current] = c
      BY <1>1, <1>5, <1>6
    <3> QED
      BY <1>1, <1>5, <1>8, <2>1, <3>1, <3>2
  <2>2. CASE i \in written /\ i # current
    <3>1. /\ j # call.start /\ j \in written \cup {current} /\ rank[j] = rank[i] + 1
          /\ bytes[i] = Mixed(original[j], FirstSeed, rank[i])
      BY <1>10, <2>2 DEF FirstWalk
    <3>2. i # next /\ j # next /\ i \in Active
      BY <1>1, <2>2, <3>1
    <3>3. r[i] = rank[i] /\ r[j] = rank[j] /\ bytes'[i] = bytes[i]
      BY <1>5, <1>8, <2>2, <3>2
    <3> QED
      BY <1>1, <3>1, <3>3
  <2> QED
    BY <1>1, <2>1, <2>2
<1>11. r[call.start] = 0 /\ first = original[call.start]
  BY <1>1, <1>5 DEF FirstWalk
<1>12. FirstWalk(r)'
  <2>1. /\ (r \in [Active -> Nat])' /\ (r[call.start] = 0)'
        /\ (r[current] = Cardinality(written))'
        /\ (first = original[call.start])'
        /\ (seed = (FirstSeed + Cardinality(written) * Increment) % BYTE)'
    BY <1>1, <1>2, <1>3, <1>5, <1>7, <1>11
  <2>2. (\A i \in Active \ written : bytes[i] = original[i])'
    BY <1>1, <1>2, <1>9
  <2>3. (\A i \in written, j \in Active : LeadsWith(Stride, i, j) =>
           /\ j # call.start /\ j \in written \cup {current}
           /\ r[j] = r[i] + 1
           /\ bytes[i] = Mixed(original[j], FirstSeed, r[i]))'
    BY <1>1, <1>2, <1>10
  <2> QED
    BY <2>1, <2>2, <2>3 DEF FirstWalk
<1> QED
  BY <1>12

LEMMA FirstWalkCloses ==
  ASSUME PermuteInv, ValidCall, NEW rank, FirstWalk(rank), WalkTo(call.start)
  PROVE  Permuted(Stride, FirstSeed, rank)'
<1> DEFINE next == call.start
<1>1. /\ call \in CallType /\ current \in Active \ written /\ next \in Active
      /\ LeadsWith(Stride, current, next) /\ written' = written \cup {current}
      /\ UNCHANGED <<call, original, first>> /\ written' = Active
  BY BytesTyped DEF WalkTo
<1>2. /\ Active' = Active /\ FirstSeed' = FirstSeed /\ ActiveLen' = ActiveLen
      /\ \A i, j : LeadsWith(Stride, i, j)' <=> LeadsWith(Stride, i, j)
      /\ \A v, f, r : Mixed(v, f, r)' = Mixed(v, f, r)
  BY <1>1, CallKept
<1>3. PICK c \in Nat : c = Cardinality(written) /\ ActiveLen = c + 1
  BY <1>1, WrittenCount, ActiveCount
<1>4. /\ seed = (FirstSeed + c * Increment) % BYTE /\ rank[current] = c
      /\ first = original[next] /\ rank \in [Active -> Nat] /\ rank[next] = 0
  BY <1>3 DEF FirstWalk
<1>5. /\ bytes'[current] = Mixed(original[next], FirstSeed, c)
      /\ \A i \in Active : i # current => bytes'[i] = bytes[i]
  <2>1. original[next] \in Int
    BY <1>1, BytesTyped
  <2> QED
    BY <1>1, <1>4, <2>1, BytesStep, SeedsAdd
<1> HIDE DEF Active
<1>6. ASSUME NEW i \in Active, NEW j \in Active, LeadsWith(Stride, i, j)
      PROVE  /\ rank[i] + 1 = IF j = call.start THEN ActiveLen ELSE rank[j]
             /\ bytes'[i] = Mixed(original[j], FirstSeed, rank[i])
  <2>1. CASE i = current
    <3>1. j = next
      BY <1>1, <1>6, <2>1, LeadsToOne
    <3> QED
      BY <1>3, <1>4, <1>5, <2>1, <3>1
  <2>2. CASE i # current
    <3>1. i \in written
      BY <1>1, <2>2
    <3>2. /\ j # call.start /\ rank[j] = rank[i] + 1
          /\ bytes[i] = Mixed(original[j], FirstSeed, rank[i])
      BY <1>6, <3>1 DEF FirstWalk
    <3> QED
      BY <1>5, <2>2, <3>2
  <2> QED
    BY <2>1, <2>2
<1>7. Ranks(Stride, rank)'
  BY <1>1, <1>2, <1>4, <1>6 DEF Ranks
<1>8. (\A i, j \in Active : LeadsWith(Stride, i, j) =>
         bytes[i] = Mixed(original[j], FirstSeed, rank[i]))'
  BY <1>1, <1>2, <1>6
<1> QED
  BY <1>7, <1>8 DEF Permuted

LEMMA SecondWalkBegins ==
  ASSUME PermuteInv, WalkPlace, Begin, NEW rank, Permuted(-Stride, OtherSeed, rank)
  PROVE  SecondWalk(rank)'
<1>1. /\ call \in CallType /\ ValidCall /\ written = {}
      /\ current' = call.start /\ seed' = FirstSeed /\ first' = bytes[call.start]
      /\ UNCHANGED <<call, bytes, original, written>>
  BY DEF PermuteInv, TypeOK, CallType, Begin, WalkPlace, Checked
<1>2. /\ Active' = Active /\ FirstSeed' = FirstSeed /\ Increment' = Increment
      /\ ActiveLen' = ActiveLen /\ OtherSeed' = OtherSeed
      /\ \A i, j : LeadsWith(-Stride, i, j)' <=> LeadsWith(-Stride, i, j)
      /\ \A v, f, r : Mixed(v, f, r)' = Mixed(v, f, r)
  BY <1>1, CallKept
<1>3. Ranks(-Stride, rank)'
  BY <1>1, <1>2 DEF Permuted, Ranks
<1>4. Cardinality(written') = 0
  BY <1>1, FS_EmptySet
<1>5. seed' = (FirstSeed + 0 * Increment) % BYTE
  <2>1. FirstSeed \in 0..(BYTE - 1) /\ BYTE \in Nat \ {0} /\ Increment \in Int
    BY <1>1, KeyParts, ByteAssumption DEF Byte
  <2>2. FirstSeed + 0 * Increment = FirstSeed /\ FirstSeed % BYTE = FirstSeed
    BY <2>1
  <2> QED
    BY <1>1, <2>2
<1>6. ASSUME NEW i \in Active, NEW j \in Active, LeadsWith(-Stride, i, j)
      PROVE  /\ bytes[i] = Mixed(original[j], OtherSeed, rank[i])
             /\ i = call.start => first' = Mixed(original[j], OtherSeed, 0)
  BY <1>1, <1>6 DEF Permuted, Ranks
<1> HIDE DEF Active
<1>7. /\ (IF current = call.start THEN Cardinality(written) = 0
          ELSE rank[current] + Cardinality(written) = ActiveLen)'
      /\ (seed = (FirstSeed + Cardinality(written) * Increment) % BYTE)'
      /\ (\A i \in written : bytes[i] = original[i])'
  BY <1>1, <1>2, <1>4, <1>5
<1>8. (\A i, j \in Active : LeadsWith(-Stride, i, j) =>
         /\ i \notin written => bytes[i] = Mixed(original[j], OtherSeed, rank[i])
         /\ i = call.start => first = Mixed(original[j], OtherSeed, 0))'
  BY <1>1, <1>2, <1>6
<1> QED
  BY <1>3, <1>7, <1>8 DEF SecondWalk

(* A step of the second walk restores the byte it writes. *)
LEMMA SecondWalkStep ==
  ASSUME PermuteInv, ValidCall, Doubled, NEW rank, SecondWalk(rank),
         NEW next \in Active, WalkTo(next)
  PROVE  /\ bytes'[current] = original[current]
         /\ \A i \in Active : i # current => bytes'[i] = bytes[i]
         /\ rank[next] + Cardinality(written') = ActiveLen
<1>1. /\ call \in CallType /\ current \in Active \ written /\ call.start \in Active
      /\ LeadsWith(Stride, current, next) /\ written' = written \cup {current}
      /\ next = call.start \/ next \notin written
  BY BytesTyped DEF WalkTo
<1>2. PICK c \in Nat : c = Cardinality(written) /\ Cardinality(written') = c + 1
  BY <1>1, WrittenCount
<1>3. /\ rank \in [Active -> Nat] /\ rank[call.start] = 0
      /\ IF current = call.start THEN c = 0 ELSE rank[current] + c = ActiveLen
      /\ seed = (FirstSeed + c * Increment) % BYTE
  BY <1>2 DEF SecondWalk, Ranks
<1>4. LeadsWith(-Stride, next, current)
  BY <1>1, LeadsBack, OddStride
<1>5. rank[next] + 1 = IF current = call.start THEN ActiveLen ELSE rank[current]
  BY <1>1, <1>4 DEF SecondWalk, Ranks
<1>6. rank[next] \in Nat /\ rank[next] + 1 + c = ActiveLen
  <2>1. rank[next] \in Nat /\ rank[current] \in Nat /\ ActiveLen \in Nat
    BY <1>1, <1>3, ActiveCount
  <2> QED
    BY <1>3, <1>5, <2>1
<1>7. (IF next = call.start THEN first ELSE bytes[next])
        = Mixed(original[current], OtherSeed, rank[next])
  <2>1. CASE next = call.start
    BY <1>1, <1>3, <1>4, <2>1 DEF SecondWalk
  <2>2. CASE next # call.start
    BY <1>1, <1>4, <2>2 DEF SecondWalk
  <2> QED
    BY <2>1, <2>2
<1>8. original[current] \in Byte
  BY <1>1, BytesTyped
<1>9. (Mixed(original[current], OtherSeed, rank[next])
        + ((FirstSeed + c * Increment) % BYTE)) % BYTE = original[current]
  BY <1>1, <1>6, <1>8, Undoes
<1>10. bytes'[current] = original[current]
  BY <1>3, <1>7, <1>9, BytesStep
<1>11. rank[next] + Cardinality(written') = ActiveLen
  BY <1>2, <1>6
<1> QED
  BY <1>10, <1>11, BytesStep

LEMMA SecondWalkMoves ==
  ASSUME PermuteInv, ValidCall, Doubled, NEW rank, SecondWalk(rank),
         NEW next \in Active, WalkTo(next), next # call.start
  PROVE  SecondWalk(rank)'
<1>1. /\ call \in CallType /\ current \in Active \ written /\ written \subseteq Active
      /\ written' = written \cup {current} /\ UNCHANGED <<call, original, first>>
      /\ current' = next /\ next \notin written' /\ seed' = (seed + Increment) % BYTE
  BY BytesTyped DEF WalkTo
<1>2. /\ Active' = Active /\ FirstSeed' = FirstSeed /\ Increment' = Increment
      /\ ActiveLen' = ActiveLen /\ OtherSeed' = OtherSeed
      /\ \A i, j : LeadsWith(-Stride, i, j)' <=> LeadsWith(-Stride, i, j)
      /\ \A v, f, r : Mixed(v, f, r)' = Mixed(v, f, r)
  BY <1>1, CallKept
<1>3. PICK c \in Nat : c = Cardinality(written) /\ Cardinality(written') = c + 1
  BY <1>1, WrittenCount
<1>4. seed' = (FirstSeed + (c + 1) * Increment) % BYTE
  <2>1. seed = (FirstSeed + c * Increment) % BYTE
    BY <1>3 DEF SecondWalk
  <2> QED
    BY <1>1, <2>1, SeedsAdd
<1>5. /\ bytes'[current] = original[current]
      /\ \A i \in Active : i # current => bytes'[i] = bytes[i]
      /\ rank[next] + Cardinality(written') = ActiveLen
  BY SecondWalkStep
<1> HIDE DEF Active
<1>6. Ranks(-Stride, rank)'
  BY <1>1, <1>2 DEF SecondWalk, Ranks
<1>7. (IF current = call.start THEN Cardinality(written) = 0
       ELSE rank[current] + Cardinality(written) = ActiveLen)'
  BY <1>1, <1>2, <1>5
<1>8. (seed = (FirstSeed + Cardinality(written) * Increment) % BYTE)'
  BY <1>2, <1>3, <1>4
<1>9. (\A i \in written : bytes[i] = original[i])'
  BY <1>1, <1>5 DEF SecondWalk
<1>10. (\A i, j \in Active : LeadsWith(-Stride, i, j) =>
          /\ i \notin written => bytes[i] = Mixed(original[j], OtherSeed, rank[i])
          /\ i = call.start => first = Mixed(original[j], OtherSeed, 0))'
  BY <1>1, <1>2, <1>5 DEF SecondWalk
<1> QED
  BY <1>6, <1>7, <1>8, <1>9, <1>10 DEF SecondWalk

LEMMA SecondWalkCloses ==
  ASSUME PermuteInv, ValidCall, Doubled, NEW rank, SecondWalk(rank), WalkTo(call.start)
  PROVE  (\A i \in Active : bytes[i] = original[i])'
<1>1. /\ call.start \in Active /\ written' = Active /\ written' = written \cup {current}
      /\ UNCHANGED <<call, original>>
  BY BytesTyped DEF WalkTo
<1>2. Active' = Active
  BY <1>1, CallKept
<1>3. /\ bytes'[current] = original[current]
      /\ \A i \in Active : i # current => bytes'[i] = bytes[i]
  BY <1>1, SecondWalkStep
<1> HIDE DEF Active
<1>4. ASSUME NEW i \in Active PROVE bytes'[i] = original[i]
  BY <1>1, <1>3 DEF SecondWalk
<1> QED
  BY <1>1, <1>2, <1>4

(* The negated key swaps the seeds and turns the stride round. *)
LEMMA KeyNegated ==
  ASSUME PermuteInv, CallNegated, call.key # 0
  PROVE  /\ Active' = Active /\ ActiveLen' = ActiveLen /\ Increment' = Increment
         /\ call'.start = call.start /\ call'.len = call.len
         /\ (-Stride)' = Stride /\ OtherSeed' = FirstSeed
<1>1. /\ call \in CallType /\ call' = [call EXCEPT !.key = -call.key]
  BY DEF PermuteInv, TypeOK, CallType, CallNegated
<1>2. /\ call'.start = call.start /\ call'.len = call.len /\ call'.tail = call.tail
      /\ call'.key = -call.key /\ call.key \in Int /\ call.key # 0
  BY <1>1 DEF CallType
<1>3. Magnitude' = Magnitude
  BY <1>2 DEF Magnitude
<1>4. /\ Active' = Active /\ ActiveLen' = ActiveLen /\ Increment' = Increment
      /\ Low8' = Low8 /\ RawStride' = RawStride /\ Factor' = Factor
  BY <1>2, <1>3
     DEF Active, Last, ActiveLen, Boundary, Increment, Low8, RawStride, Factor
<1>5. Stride' = -Stride /\ Stride \in Int
  <2>1. Stride \in Int
    BY <1>1, OddStride
  <2>2. Stride = IF call.key < 0 THEN -Signed(RawStride) ELSE Signed(RawStride)
    BY DEF Stride
  <2>3. Stride' = IF call'.key < 0 THEN -Signed(RawStride) ELSE Signed(RawStride)
    BY <1>4 DEF Stride, Signed
  <2>4. Signed(RawStride) \in Int
    <3>1. call.key < 0 => Signed(RawStride) \in Int
      <4>1. [call EXCEPT !.key = -call.key] \in CallType
        BY <1>1 DEF CallType
      <4>2. I16 \in Int /\ RawStride \in Int
        <5>1. Low8 \in Int /\ Magnitude \in Int
          BY <1>1, <1>2, ByteAssumption DEF Low8, Magnitude
        <5>2. I16 \in Nat \ {0}
          BY ByteAssumption DEF I16
        <5>3. Magnitude \div I16 \in Int
          BY <5>1, <5>2
        <5>4. (Magnitude \div I16) % I16 \in Int
          BY <5>2, <5>3
        <5>5. (((Magnitude \div I16) % I16) + Low8) % I16 \in Int
          BY <5>1, <5>2, <5>4
        <5> QED
          BY <5>2, <5>5 DEF RawStride, OddOf
      <4> QED
        BY <4>2 DEF Signed
    <3>2. ~(call.key < 0) => Signed(RawStride) \in Int
      BY <2>1, <2>2
    <3> QED
      BY <3>1, <3>2
  <2> QED
    BY <1>2, <2>1, <2>2, <2>3, <2>4
<1>6. OtherSeed' = FirstSeed
  BY <1>2, <1>4 DEF OtherSeed, FirstSeed
<1> QED
  BY <1>2, <1>4, <1>5, <1>6

LEMMA RestoreStep ==
  ASSUME PermuteInv, WalkPlace, RestoreInv, [Next]_vars
  PROVE  RestoreInv'
<1>1. CASE Reject \/ ZeroKey
  <2>1. pc' = "returned" /\ UNCHANGED call /\ (result' = "Ok" => call.key = 0)
    BY <1>1 DEF Reject, ZeroKey, Return
  <2> QED
    BY <2>1 DEF RestoreInv, Returned
<1>2. CASE Begin
  <2>1. /\ pc = "check" /\ pc' = "cycle" /\ UNCHANGED <<call, calls>> /\ call.key # 0
    BY <1>2 DEF Begin
  <2>2. calls' = 1 => \E rank : FirstWalk(rank)'
    BY <1>2, <2>1, FirstWalkBegins
  <2>3. calls' = 2 => \E rank : SecondWalk(rank)'
    BY <1>2, <2>1, SecondWalkBegins DEF RestoreInv
  <2> QED
    BY <2>1, <2>2, <2>3 DEF RestoreInv, Returned
<1>3. CASE Cycle
  <2>1. PICK next \in Active : WalkTo(next)
    BY <1>3, OneStep
  <2>2. /\ ValidCall /\ pc = "cycle" /\ UNCHANGED <<call, calls>>
        /\ Doubled' = Doubled
    BY <1>3, <2>1, CallKept DEF PermuteInv, Checked, Cycle, WalkTo
  <2>3. CASE calls = 1 /\ next # call.start
    <3>1. pc' = "cycle" /\ \E rank : FirstWalk(rank)'
      BY <2>1, <2>2, <2>3, FirstWalkMoves DEF RestoreInv, WalkTo
    <3> QED
      BY <2>2, <2>3, <3>1 DEF RestoreInv, Returned
  <2>4. CASE calls = 1 /\ next = call.start
    <3>1. pc' = "returned" /\ \E rank : Permuted(Stride, FirstSeed, rank)'
      BY <2>1, <2>2, <2>4, FirstWalkCloses DEF RestoreInv, WalkTo
    <3> QED
      BY <2>2, <2>4, <3>1 DEF RestoreInv, Returned
  <2>5. CASE calls = 2 /\ next # call.start
    <3>1. pc' = "cycle"
      BY <2>1, <2>5 DEF WalkTo
    <3>2. Doubled => \E rank : SecondWalk(rank)'
      BY <2>1, <2>2, <2>5, SecondWalkMoves DEF RestoreInv
    <3> QED
      BY <2>2, <2>5, <3>1, <3>2 DEF RestoreInv, Returned
  <2>6. CASE calls = 2 /\ next = call.start
    <3>1. pc' = "returned"
      BY <2>1, <2>6 DEF WalkTo
    <3>2. Doubled => (\A i \in Active : bytes[i] = original[i])'
      BY <2>1, <2>2, <2>6, SecondWalkCloses DEF RestoreInv
    <3> QED
      BY <2>2, <2>6, <3>1, <3>2 DEF RestoreInv, Returned
  <2> QED
    BY <2>3, <2>4, <2>5, <2>6 DEF PermuteInv, TypeOK
<1>4. CASE CallNegated
  <2>1. /\ calls = 1 /\ calls' = 2 /\ pc' = "check" /\ pc = "returned" /\ result = "Ok"
        /\ call' = [call EXCEPT !.key = -call.key] /\ UNCHANGED <<bytes, original>>
    BY <1>4 DEF CallNegated
  <2>2. call'.key # 0 => call.key # 0
    BY <2>1 DEF PermuteInv, TypeOK
  <2>3. ASSUME call.key # 0 PROVE \E rank : Permuted(-Stride, OtherSeed, rank)'
    <3>1. PICK rank : Permuted(Stride, FirstSeed, rank)
      BY <2>1, <2>3 DEF RestoreInv, Returned
    <3>2. /\ Active' = Active /\ ActiveLen' = ActiveLen /\ Increment' = Increment
          /\ call'.start = call.start /\ call'.len = call.len
          /\ (-Stride)' = Stride /\ OtherSeed' = FirstSeed
      BY <1>4, <2>3, KeyNegated
    <3> HIDE DEF Active
    <3>3. \A i, j : LeadsWith(-Stride, i, j)' <=> LeadsWith(Stride, i, j)
      BY <3>2 DEF LeadsWith
    <3>4. \A v, r : Mixed(v, OtherSeed, r)' = Mixed(v, FirstSeed, r)
      BY <3>2 DEF Mixed
    <3>5. Ranks(-Stride, rank)'
      BY <3>1, <3>2, <3>3 DEF Permuted, Ranks
    <3>6. (\A i, j \in Active : LeadsWith(-Stride, i, j) =>
             bytes[i] = Mixed(original[j], OtherSeed, rank[i]))'
      BY <2>1, <3>1, <3>2, <3>3, <3>4 DEF Permuted
    <3>7. Permuted(-Stride, OtherSeed, rank)'
      BY <3>5, <3>6 DEF Permuted
    <3> QED
      BY <3>7
  <2> QED
    BY <2>1, <2>2, <2>3 DEF RestoreInv, Returned
<1>5. CASE UNCHANGED vars
  <2>1. /\ UNCHANGED <<call, pc, bytes, current, seed, first, result, original, written, calls>>
    BY <1>5 DEF vars
  <2>2. /\ Active' = Active /\ FirstSeed' = FirstSeed /\ Increment' = Increment
        /\ ActiveLen' = ActiveLen /\ OtherSeed' = OtherSeed /\ Doubled' = Doubled
        /\ \A i, j : LeadsWith(Stride, i, j)' <=> LeadsWith(Stride, i, j)
        /\ \A i, j : LeadsWith(-Stride, i, j)' <=> LeadsWith(-Stride, i, j)
        /\ \A v, f, r : Mixed(v, f, r)' = Mixed(v, f, r)
    BY <2>1, CallKept
  <2> HIDE DEF Active
  <2>3. \A rank : FirstWalk(rank)' <=> FirstWalk(rank)
    BY <2>1, <2>2 DEF FirstWalk
  <2>4. \A rank : Permuted(Stride, FirstSeed, rank)' <=> Permuted(Stride, FirstSeed, rank)
    BY <2>1, <2>2 DEF Permuted, Ranks
  <2>5. \A rank : Permuted(-Stride, OtherSeed, rank)' <=> Permuted(-Stride, OtherSeed, rank)
    BY <2>1, <2>2 DEF Permuted, Ranks
  <2>6. \A rank : SecondWalk(rank)' <=> SecondWalk(rank)
    BY <2>1, <2>2 DEF SecondWalk, Ranks
  <2> QED
    BY <2>1, <2>2, <2>3, <2>4, <2>5, <2>6 DEF RestoreInv, Returned
<1> QED
  BY <1>1, <1>2, <1>3, <1>4, <1>5 DEF Next, Permute

Answered == pc = "returned" => result # "Pending"

LEMMA AnsweredInvariant == Spec => []Answered
<1>1. Init => Answered
  BY DEF Init, Answered
<1>2. Answered /\ [Next]_vars => Answered'
  BY DEF Answered, Next, vars, Permute, Reject, ZeroKey, Begin, Cycle, Move, Close,
         NoActiveCycle, Return, CallNegated
<1> QED
  BY <1>1, <1>2, PTL DEF Spec

(* Whatever the buffer, its active range and the key, the call with the    *)
(* negated key restores it when twice its length is a multiple of the      *)
(* values of a byte.                                                        *)
THEOREM NegatedKeyUndoes == Spec => []NegatedKeyRestores
<1>1. Init => RestoreInv
  BY DEF Init, RestoreInv, Returned
<1>2. PermuteInv /\ RestoreInv /\ Answered => NegatedKeyRestores
  <2> SUFFICES ASSUME PermuteInv, RestoreInv, Answered, calls = 2, pc = "returned", Doubled
               PROVE  bytes = original
    BY DEF NegatedKeyRestores, Doubled
  <2>1. /\ ValidCall
        /\ call \in CallType
        /\ bytes \in [0..(call.len - 1) -> Byte] /\ original \in [0..(call.len - 1) -> Byte]
    BY BytesTyped DEF PermuteInv, Checked
  <2>2. CASE call.key = 0 \/ result # "Ok"
    BY <2>2 DEF PermuteInv, InactiveUntouched, Answered
  <2>3. CASE result = "Ok" /\ call.key # 0
    <3>1. \A i \in Active : bytes[i] = original[i]
      BY <2>3 DEF RestoreInv, Returned
    <3> DEFINE D == 0..(call.len - 1)
    <3>2. \A i \in D : bytes[i] = original[i]
      <4> SUFFICES ASSUME NEW i \in 0..(call.len - 1), i \notin Active
                   PROVE  bytes[i] = original[i]
        BY <3>1
      <4>1. i < call.start \/ i >= call.len - call.tail
        BY <2>1 DEF Active, Last, CallType
      <4> QED
        BY <4>1 DEF PermuteInv, InactiveUntouched
    <3>3. bytes \in [D -> Byte] /\ original \in [D -> Byte]
      BY <2>1
    <3> HIDE DEF D
    <3> QED
      BY <3>2, <3>3
  <2> QED
    BY <2>2, <2>3
<1> QED
  BY <1>1, <1>2, RestoreStep, PlaceInvariant, PermuteInvariant, AnsweredInvariant, PTL DEF Spec
=============================================================================
