--------------------------- MODULE ApModel_proofs ---------------------------
(***************************************************************************)
(* Proofs about ApModel, for every width of a byte, every store and every  *)
(* layout of a page: first the loop of StepRecovery, for all peaks; then   *)
(* the arithmetic of a sector; then what is learned, recovered and read.   *)
(***************************************************************************)
EXTENDS ApModel, FiniteSetTheorems, SequenceTheorems, WellFoundedInduction, TLAPS

(* The first step that no other exceeds and every earlier one falls short   *)
(* of is what FirstMax chooses.                                             *)
LEMMA FirstMaxIs ==
  ASSUME NEW f \in [Step -> Nat], NEW x \in Step,
         \A s \in Step : f[s] <= f[x],
         \A s \in Step : s < x => f[s] < f[x]
  PROVE  FirstMax(f) = x
<1>1. x \in AnyMax(f)
  BY DEF AnyMax
<1>2. \A y \in AnyMax(f) : y \in Step /\ f[y] = f[x]
  BY DEF AnyMax
<1>3. \A y \in AnyMax(f) : x <= y
  <2> SUFFICES ASSUME NEW y \in AnyMax(f) PROVE x <= y
    OBVIOUS
  <2>1. y \in Step /\ f[y] = f[x] /\ f[x] \in Nat
    BY <1>2
  <2>2. ~(y < x)
    BY <2>1
  <2> QED
    BY <2>1, <2>2 DEF Step
<1>4. \A z \in AnyMax(f) : (\A y \in AnyMax(f) : z <= y) => z = x
  BY <1>1, <1>2, <1>3 DEF Step
<1> QED
  BY <1>1, <1>3, <1>4 DEF FirstMax

(* The invariant: the verdicts of the specification, about the steps seen. *)
Seen == 0..(step - 1)

BestSoFar ==
  step > 0 =>
    /\ best_step < step
    /\ best_count = peak[best_step]
    /\ \A s \in Seen : peak[s] <= best_count
    /\ \A s \in Seen : s < best_step => peak[s] < best_count

RunnerUpSoFar ==
  /\ step = 0 => best_count = 0
  /\ step < 2 => runner_up_count = 0
  /\ \A s \in Seen : s # best_step => peak[s] <= runner_up_count
  /\ step > 1 => \E s \in Seen : s # best_step /\ peak[s] = runner_up_count

TiesSoFar ==
  best_peak_tied = (\E s \in Seen : s # best_step /\ peak[s] = best_count)

LoopInv == StepTypeOK /\ BestSoFar /\ RunnerUpSoFar /\ TiesSoFar

(* So they are at the beginning of a call, whatever the sector. *)
LEMMA LoopBegins ==
  ASSUME NEW peaks \in [Step -> Nat \ {0}], Begin(peaks)
  PROVE  LoopInv'
<1>1. /\ step' = 0 /\ best_step' = 0 /\ best_count' = 0 /\ runner_up_count' = 0
      /\ best_peak_tied' = FALSE /\ peak' \in [Step -> Nat \ {0}]
  BY DEF Begin
<1>2. Seen' = {}
  BY <1>1 DEF Seen
<1>3. StepTypeOK'
  <2>1. 0 \in Step /\ 0 \in 0..STEPS
    BY StepsAssumption DEF Step
  <2> QED
    BY <1>1, <2>1 DEF StepTypeOK
<1>4. TiesSoFar'
  BY <1>1, <1>2 DEF TiesSoFar
<1> QED
  BY <1>1, <1>2, <1>3, <1>4 DEF LoopInv, BestSoFar, RunnerUpSoFar

(* So they are when the model is made, *)
LEMMA LoopStarts == StepInit => LoopInv
<1> SUFFICES ASSUME StepInit PROVE LoopInv
  OBVIOUS
<1>1. /\ step = 0 /\ best_step = 0 /\ best_count = 0 /\ runner_up_count = 0
      /\ best_peak_tied = FALSE /\ peak \in [Step -> Nat \ {0}]
  BY PeaksAssumption DEF StepInit
<1>2. Seen = {}
  BY <1>1 DEF Seen
<1>3. StepTypeOK
  <2>1. 0 \in Step /\ 0 \in 0..STEPS
    BY StepsAssumption DEF Step
  <2> QED
    BY <1>1, <2>1 DEF StepTypeOK
<1>4. TiesSoFar
  BY <1>1, <1>2 DEF TiesSoFar
<1> QED
  BY <1>1, <1>2, <1>3, <1>4 DEF LoopInv, BestSoFar, RunnerUpSoFar

(* and so the loop keeps them. *)
LEMMA LoopStep ==
  ASSUME LoopInv, LookAt \/ UNCHANGED stepVars
  PROVE  LoopInv'
<1> USE StepsAssumption DEF LoopInv
<1>1. CASE NewBest
  <2>1. /\ step \in Step /\ step' = step + 1 /\ peak' = peak
        /\ best_step' = step /\ best_count' = peak[step]
        /\ runner_up_count' = best_count /\ best_peak_tied' = FALSE
        /\ peak[step] > best_count
    BY <1>1 DEF NewBest, Better, Demoted, StepTypeOK, Step
  <2>2. Seen' = Seen \cup {step} /\ step \notin Seen
    BY <2>1 DEF Seen, StepTypeOK, Step
  <2>3. \A s \in Seen : s \in Step /\ peak[s] \in Nat /\ peak[s] <= best_count
    BY <2>1 DEF Seen, StepTypeOK, BestSoFar, Step
  <2>4. StepTypeOK'
    <3>1. peak[step] \in Nat /\ step + 1 \in 0..STEPS
      BY <2>1 DEF StepTypeOK, Step
    <3> QED
      BY <2>1, <3>1 DEF StepTypeOK
  <2>5. BestSoFar'
    BY <2>1, <2>2, <2>3 DEF BestSoFar, StepTypeOK, Step
  <2>6. RunnerUpSoFar'
    <3>1. step' < 2 => runner_up_count' = 0
      BY <2>1 DEF RunnerUpSoFar, StepTypeOK
    <3>2. \A s \in Seen' : s # best_step' => peak'[s] <= runner_up_count'
      BY <2>1, <2>2, <2>3
    <3>3. step' > 1 => \E s \in Seen' : s # best_step' /\ peak'[s] = runner_up_count'
      <4>1. step > 0 => best_step \in Seen /\ best_step # step
                        /\ peak[best_step] = best_count
        BY DEF BestSoFar, Seen, StepTypeOK, Step
      <4> QED
        BY <2>1, <2>2, <4>1 DEF StepTypeOK
    <3>4. step' # 0
      BY <2>1 DEF Step
    <3> QED
      BY <3>1, <3>2, <3>3, <3>4 DEF RunnerUpSoFar
  <2>7. TiesSoFar'
    <3>1. \A s \in Seen : peak[s] # peak[step]
      BY <2>1, <2>3 DEF StepTypeOK
    <3>2. ~ \E s \in Seen' : s # best_step' /\ peak'[s] = best_count'
      BY <2>1, <2>2, <3>1
    <3> QED
      BY <2>1, <3>2 DEF TiesSoFar
  <2> QED
    BY <2>4, <2>5, <2>6, <2>7
<1>2. CASE NotBetter
  <2>1. /\ step \in Step /\ step' = step + 1
        /\ UNCHANGED <<peak, best_step, best_count>>
        /\ runner_up_count' =
             IF peak[step] > runner_up_count THEN peak[step] ELSE runner_up_count
        /\ best_peak_tied' = (best_peak_tied \/ peak[step] = best_count)
        /\ peak[step] \in Nat \ {0} /\ peak[step] <= best_count
    BY <1>2 DEF NotBetter, Better, StepTypeOK, Step
  <2>2. Seen' = Seen \cup {step} /\ step \notin Seen /\ step > 0
    BY <2>1 DEF Seen, StepTypeOK, Step, RunnerUpSoFar
  <2>3. best_step \in Seen /\ best_step # step /\ peak[best_step] = best_count
    BY <2>2 DEF BestSoFar, Seen, StepTypeOK, Step
  <2>4. StepTypeOK'
    <3>1. step + 1 \in 0..STEPS /\ runner_up_count' \in Nat
      BY <2>1 DEF StepTypeOK, Step
    <3>2. best_peak_tied' \in BOOLEAN
      BY <2>1 DEF StepTypeOK
    <3> QED
      BY <2>1, <3>1, <3>2 DEF StepTypeOK
  <2>5. BestSoFar'
    BY <2>1, <2>2, <2>3 DEF BestSoFar, StepTypeOK, Step, Seen
  <2>6. RunnerUpSoFar'
    <3>1. \A s \in Seen : peak[s] \in Nat
      BY <2>1 DEF Seen, StepTypeOK, Step
    <3>2. \A s \in Seen' : s # best_step' => peak'[s] <= runner_up_count'
      BY <2>1, <2>2, <3>1 DEF RunnerUpSoFar, StepTypeOK
    <3>3. \E s \in Seen' : s # best_step' /\ peak'[s] = runner_up_count'
      <4>1. CASE peak[step] > runner_up_count
        BY <2>1, <2>2, <2>3, <4>1
      <4>2. CASE ~(peak[step] > runner_up_count)
        <5>1. step > 1
          BY <2>1, <2>2, <4>2 DEF RunnerUpSoFar, StepTypeOK, Step
        <5>2. PICK s \in Seen : s # best_step /\ peak[s] = runner_up_count
          BY <5>1 DEF RunnerUpSoFar
        <5> QED
          BY <2>1, <2>2, <4>2, <5>2
      <4> QED
        BY <4>1, <4>2
    <3>4. ~(step' = 0) /\ ~(step' < 2)
      BY <2>1, <2>2 DEF Step
    <3> QED
      BY <3>2, <3>3, <3>4 DEF RunnerUpSoFar
  <2>7. TiesSoFar'
    <3>1. (\E s \in Seen' : s # best_step' /\ peak'[s] = best_count')
          <=> (\E s \in Seen : s # best_step /\ peak[s] = best_count)
              \/ peak[step] = best_count
      BY <2>1, <2>2, <2>3
    <3> QED
      BY <2>1, <3>1 DEF TiesSoFar
  <2> QED
    BY <2>4, <2>5, <2>6, <2>7
<1>3. CASE UNCHANGED stepVars
  BY <1>3 DEF stepVars, StepTypeOK, BestSoFar, RunnerUpSoFar, TiesSoFar, Seen, Step
<1> QED
  BY <1>1, <1>2, <1>3 DEF LookAt

(* The invariant holds throughout. *)
THEOREM LoopInvariant == StepSpec => []LoopInv
<1>1. LoopInv /\ [StepNext]_stepVars => LoopInv'
  BY LoopStep, LoopBegins, PeaksAssumption DEF StepNext
<1> QED
  BY <1>1, LoopStarts, PTL DEF StepSpec

(* At the end of the loop the verdicts are about all steps. *)
LEMMA LoopGivesEvidence == LoopInv => EvidenceIsRight
<1> SUFFICES ASSUME LoopInv, Done
             PROVE  ChoosesTheFirstBest /\ RunnerUpIsTheBestOther /\ TiesAreTold
  BY DEF EvidenceIsRight
<1>1. Seen = Step /\ step > 1
  BY StepsAssumption DEF Done, Seen, Step
<1>2. ChoosesTheFirstBest
  <2>1. /\ best_step \in Step /\ peak \in [Step -> Nat]
        /\ best_count = peak[best_step]
        /\ \A s \in Step : peak[s] <= peak[best_step]
        /\ \A s \in Step : s < best_step => peak[s] < peak[best_step]
    BY <1>1 DEF LoopInv, StepTypeOK, BestSoFar
  <2> QED
    BY <2>1, FirstMaxIs DEF ChoosesTheFirstBest
<1>3. RunnerUpIsTheBestOther
  BY <1>1 DEF LoopInv, RunnerUpSoFar, RunnerUpIsTheBestOther, Others
<1>4. TiesAreTold
  BY <1>1 DEF LoopInv, TiesSoFar, TiesAreTold, Others
<1> QED
  BY <1>2, <1>3, <1>4

(* What recover_step_confidence returns is right for all sectors. *)
THEOREM SectorEvidenceIsRight == StepSpec => []EvidenceIsRight
BY LoopGivesEvidence, LoopInvariant, PTL

---------------------------------------------------------------------------
(* Arithmetic modulo the values of a byte *)

Same(a, b) == \E k \in Int : a = b + BYTE * k

LEMMA ByteRange == ASSUME NEW a \in Int PROVE a % BYTE \in Byte
BY ApAssumption DEF Byte

LEMMA Bytes == /\ BYTE \in Nat \ {0} /\ 0 \in Byte /\ Step = Byte
               /\ \A b \in Byte : b \in Nat /\ b < BYTE
BY ApAssumption DEF Byte, Step

(* A whole number of turns leads back. *)
LEMMA FullTurn ==
  ASSUME NEW n \in Nat \ {0}, NEW c \in 0..(n - 1), NEW s \in Int
  PROVE  (c + n * s) % n = c
<1> DEFINE r == (c + n * s) % n
           q == (c + n * s) \div n
<1>1. n * s \in Int
  OBVIOUS
<1>2. /\ q \in Int /\ r \in 0..(n - 1)
      /\ c + n * s = n * q + r
  BY <1>1
<1>3. c - r = n * (q - s)
  BY <1>1, <1>2
<1>4. q - s \in Int /\ r \in Int
  BY <1>2
<1> HIDE DEF q, r
<1>5. CASE q - s >= 1
  <2>1. n * (q - s) >= n
    BY <1>4, <1>5
  <2> QED
    BY <1>2, <1>3, <1>4, <2>1
<1>6. CASE q - s <= -1
  <2>1. n * (q - s) <= -n
    BY <1>4, <1>6
  <2> QED
    BY <1>2, <1>3, <1>4, <2>1
<1>7. CASE q - s = 0
  BY <1>2, <1>3, <1>7 DEF r
<1> QED
  BY <1>4, <1>5, <1>6, <1>7

LEMMA ByteIsItsRest == ASSUME NEW c \in Byte PROVE c % BYTE = c
BY ApAssumption DEF Byte

LEMMA RestIsSame == ASSUME NEW a \in Int PROVE Same(a, a % BYTE)
<1>1. a = (a % BYTE) + BYTE * (a \div BYTE) /\ a \div BYTE \in Int
  BY ApAssumption
<1> QED
  BY <1>1 DEF Same

LEMMA SameRest ==
  ASSUME NEW a \in Int, NEW b \in Int, Same(a, b)
  PROVE  a % BYTE = b % BYTE
<1>1. PICK k \in Int : a = b + BYTE * k
  BY DEF Same
<1>2. PICK q \in Int : b = (b % BYTE) + BYTE * q
  BY RestIsSame DEF Same
<1>3. a = (b % BYTE) + BYTE * (q + k)
  <2>1. b % BYTE \in Int /\ BYTE \in Int
    BY ApAssumption
  <2> DEFINE r == b % BYTE
  <2> HIDE DEF r
  <2> QED
    BY <1>1, <1>2, <2>1 DEF r
<1>4. b % BYTE \in 0..(BYTE - 1) /\ q + k \in Int
  BY ByteRange DEF Byte
<1>5. ((b % BYTE) + BYTE * (q + k)) % BYTE = b % BYTE
  BY <1>4, ApAssumption, FullTurn
<1> QED
  BY <1>3, <1>5

(* The rest of a term may be taken before or after. *)
LEMMA RestMinus ==
  ASSUME NEW a \in Int, NEW b \in Int
  PROVE  ((a % BYTE) - b) % BYTE = (a - b) % BYTE
<1>1. PICK k \in Int : a = (a % BYTE) + BYTE * k
  BY RestIsSame DEF Same
<1>2. a % BYTE \in Int /\ BYTE * k \in Int
  BY ApAssumption
<1>3. a - b = ((a % BYTE) - b) + BYTE * k
  <2> DEFINE r == a % BYTE
             t == BYTE * k
  <2>1. r \in Int /\ t \in Int /\ a = r + t
    BY <1>1, <1>2
  <2> HIDE DEF r, t
  <2>2. a - b = (r - b) + t
    BY <2>1
  <2> QED
    BY <2>2 DEF r, t
<1>4. Same(a - b, (a % BYTE) - b)
  BY <1>3 DEF Same
<1> QED
  BY <1>2, <1>4, SameRest

LEMMA MinusRest ==
  ASSUME NEW a \in Int, NEW b \in Int
  PROVE  (a - (b % BYTE)) % BYTE = (a - b) % BYTE
<1>1. PICK k \in Int : b = (b % BYTE) + BYTE * k
  BY RestIsSame DEF Same
<1>2. b % BYTE \in Int /\ BYTE * k \in Int
  BY ApAssumption
<1>3. a - (b % BYTE) = (a - b) + BYTE * k
  <2> DEFINE r == b % BYTE
             t == BYTE * k
  <2>1. r \in Int /\ t \in Int /\ b = r + t
    BY <1>1, <1>2
  <2> HIDE DEF r, t
  <2>2. a - r = (a - b) + t
    BY <2>1
  <2> QED
    BY <2>2 DEF r, t
<1>4. Same(a - (b % BYTE), a - b)
  BY <1>3 DEF Same
<1> QED
  BY <1>2, <1>4, SameRest

(* A byte that is b and t apart from zero is b + t. *)
LEMMA ZeroMinus ==
  ASSUME NEW c \in Byte, NEW b \in Int, (c - b) % BYTE = 0
  PROVE  c = b % BYTE
<1>1. c \in Int
  BY Bytes
<1>2. PICK k \in Int : c - b = ((c - b) % BYTE) + BYTE * k
  BY <1>1, RestIsSame DEF Same
<1>3. c = b + BYTE * k
  <2>1. BYTE * k \in Int
    BY ApAssumption
  <2> QED
    BY <1>1, <1>2, <2>1
<1>4. Same(c, b)
  BY <1>3 DEF Same
<1> QED
  BY <1>1, <1>4, SameRest, ByteIsItsRest

---------------------------------------------------------------------------
(* Counting and maxima *)

LEMMA Least ==
  ASSUME NEW S \in SUBSET Nat, S # {}
  PROVE  \E n \in S : \A m \in S : n <= m
<1>1. \E n \in S : \A m \in S : <<m, n>> \notin OpToRel(<, Nat)
  BY NatLessThanWellFounded, WFMin
<1>2. \A m, n \in Nat : m < n => <<m, n>> \in OpToRel(<, Nat)
  BY DEF OpToRel
<1>3. \E n \in S : \A m \in S : ~(m < n)
  BY <1>1, <1>2, Zenon
<1> QED
  BY <1>3

LEMMA Greatest ==
  ASSUME NEW S \in SUBSET Nat, NEW b \in Nat, S # {}, \A n \in S : n <= b
  PROVE  \E n \in S : \A m \in S : m <= n
<1> DEFINE T == {b - n : n \in S}
<1>1. T \in SUBSET Nat /\ T # {}
  <2>1. \A n \in S : b - n \in Nat
    OBVIOUS
  <2> QED
    BY <2>1
<1>2. PICK t \in T : \A u \in T : t <= u
  BY <1>1, Least
<1>3. PICK n \in S : t = b - n
  BY <1>2
<1>4. \A m \in S : b - m \in T
  OBVIOUS
<1>5. \A m \in S : b - n <= b - m
  BY <1>2, <1>3, <1>4
<1>6. \A m \in S : m \in Nat /\ n \in Nat
  OBVIOUS
<1>7. \A m \in S : m <= n
  BY <1>5, <1>6
<1> QED
  BY <1>7

(* Bounded counts, one for each byte, have a last maximum. *)
LEMMA MaximumExists ==
  ASSUME NEW f \in [Byte -> Nat], NEW b \in Nat, \A x \in Byte : f[x] <= b
  PROVE  LastMax(f) \in AnyMax(f) /\ AnyMax(f) \subseteq Byte /\ AnyMax(f) # {}
<1> DEFINE S == {f[x] : x \in Byte}
<1>1. S \in SUBSET Nat /\ S # {} /\ \A n \in S : n <= b
  BY Bytes
<1>2. PICK n \in S : \A m \in S : m <= n
  BY <1>1, Greatest
<1>3. PICK x \in Byte : f[x] = n
  BY <1>2
<1>4. x \in AnyMax(f)
  BY <1>2, <1>3 DEF AnyMax
<1>5. AnyMax(f) \subseteq Byte
  BY DEF AnyMax
<1>6. AnyMax(f) \in SUBSET Nat /\ \A y \in AnyMax(f) : y <= BYTE
  BY <1>5, Bytes
<1>7. PICK z \in AnyMax(f) : \A y \in AnyMax(f) : y <= z
  BY <1>4, <1>6, Greatest, Bytes
<1>8. \A y \in AnyMax(f) : z >= y
  BY <1>6, <1>7
<1> QED
  BY <1>4, <1>5, <1>8 DEF LastMax

(* A maximum that no other reaches is the only one. *)
LEMMA OnlyMaximum ==
  ASSUME NEW f \in [Byte -> Nat], NEW x \in Byte, \A y \in Byte : y # x => f[y] < f[x]
  PROVE  AnyMax(f) = {x} /\ LastMax(f) = x
<1>1. \A y \in Byte : f[y] <= f[x]
  <2> SUFFICES ASSUME NEW y \in Byte PROVE f[y] <= f[x]
    OBVIOUS
  <2>1. CASE y = x
    BY <2>1
  <2>2. CASE y # x
    BY <2>2
  <2> QED
    BY <2>1, <2>2
<1>2. x \in AnyMax(f)
  BY <1>1 DEF AnyMax
<1>3. \A y \in AnyMax(f) : y \in Byte /\ f[x] <= f[y]
  BY DEF AnyMax
<1>4. \A y \in AnyMax(f) : y = x
  BY <1>3
<1>5. AnyMax(f) = {x}
  BY <1>2, <1>4
<1>6. x >= x
  BY Bytes
<1> QED
  BY <1>5, <1>6 DEF LastMax

(* A count over part of an interval. *)
LEMMA CountIn ==
  ASSUME NEW a \in {1, 2}, NEW n \in Nat, NEW P \in SUBSET (a..n)
  PROVE  /\ IsFiniteSet(P) /\ Cardinality(P) \in 0..n
         /\ Cardinality(P) = 0 <=> P = {}
         /\ a = 1 /\ P = a..n => Cardinality(P) = n
         /\ a = 1 /\ Cardinality(P) = n => P = a..n
<1>1. IsFiniteSet(a..n) /\ Cardinality(a..n) = IF a > n THEN 0 ELSE n - a + 1
  BY FS_Interval
<1>2. /\ IsFiniteSet(P) /\ Cardinality(P) <= Cardinality(a..n)
      /\ Cardinality(a..n) = Cardinality(P) => a..n = P
  BY <1>1, FS_Subset
<1>3. Cardinality(P) \in Nat
  BY <1>2, FS_CardinalityType
<1>4. a = 1 => Cardinality(a..n) = n
  BY <1>1
<1>5. Cardinality(a..n) <= n /\ Cardinality(a..n) \in Nat
  BY <1>1
<1> HIDE DEF IsFiniteSet
<1>6. Cardinality(P) \in 0..n
  BY <1>2, <1>3, <1>5
<1> QED
  BY <1>2, <1>4, <1>6, FS_EmptySet

---------------------------------------------------------------------------
(* One sector *)

Progression(sec, base, by) ==
  \A i \in 1..Len(sec) : sec[i] = (base + (i - 1) * by) % BYTE

IsSector(sec) == sec \in Seq(Byte) /\ Len(sec) \in Nat \ {0}

LEMMA Lengths == ASSUME NEW si \in Sector PROVE SectorLen(si) \in Nat \ {0}
BY ApAssumption DEF SectorLen

LEMMA OffsetIsByte ==
  ASSUME NEW pn \in Nat, NEW si \in Sector
  PROVE  Offset(pn, si) \in Byte
<1>1. pn % BLOCK \in Int /\ si \in Int
  BY ApAssumption DEF Sector
<1>2. (pn % BLOCK) \div 2 \in Int
  BY <1>1
<1>3. pn + si - ((pn % BLOCK) \div 2) * 4 \in Int
  BY <1>1, <1>2
<1> QED
  BY <1>3, ByteRange DEF Offset

LEMMA BaseIsByte ==
  ASSUME NEW pn \in Nat, NEW si \in Sector, NEW bv \in Byte
  PROVE  ApBase(pn, si, bv) \in Byte
<1>1. bv + Offset(pn, si) \in Int
  BY OffsetIsByte, Bytes
<1> QED
  BY <1>1, ByteRange DEF ApBase

(* A sequence made by a function of the index. *)
LEMMA MadeSector ==
  ASSUME NEW n \in Nat \ {0}, NEW f \in [1..n -> Byte]
  PROVE  IsSector(f) /\ Len(f) = n
<1>1. f \in Seq(Byte)
  BY SeqDef
<1>2. DOMAIN f = 1..Len(f) /\ Len(f) \in Nat
  BY <1>1, LenProperties
<1>3. Len(f) = n
  <2>1. 1..Len(f) = 1..n
    BY <1>2
  <2>2. n \in 1..Len(f) /\ (Len(f) # 0 => Len(f) \in 1..n)
    BY <1>2, <2>1
  <2> QED
    BY <1>2, <2>2
<1> QED
  BY <1>1, <1>3 DEF IsSector

LEMMA StoredSector ==
  ASSUME NEW raw \in RawPage, NEW pn \in Nat, NEW si \in Sector
  PROVE  /\ IsSector(Stored(raw, pn, si)) /\ Len(Stored(raw, pn, si)) = SectorLen(si)
         /\ \A i \in 1..SectorLen(si) :
              Stored(raw, pn, si)[i] =
                (ApBase(pn, si, raw.bv) + (i - 1) * raw.step + raw.plain[si][i]) % BYTE
<1>1. /\ raw.bv \in Byte /\ raw.step \in Byte /\ raw.plain[si] \in Seq(Byte)
      /\ Len(raw.plain[si]) = SectorLen(si)
  BY DEF RawPage
<1>2. ApBase(pn, si, raw.bv) \in Int
  BY <1>1, BaseIsByte, Bytes
<1>3. ASSUME NEW i \in 1..SectorLen(si)
      PROVE  (ApBase(pn, si, raw.bv) + (i - 1) * raw.step + raw.plain[si][i]) % BYTE \in Byte
  <2>1. raw.plain[si][i] \in Int
    BY <1>1, ElementOfSeq, Bytes
  <2>2. i - 1 \in Int /\ raw.step \in Int
    BY <1>1, Bytes, Lengths
  <2>3. (i - 1) * raw.step \in Int
    BY <2>2
  <2>4. ApBase(pn, si, raw.bv) + (i - 1) * raw.step + raw.plain[si][i] \in Int
    BY <1>2, <2>1, <2>3
  <2> QED
    BY <2>4, ByteRange
<1>4. Stored(raw, pn, si) \in [1..SectorLen(si) -> Byte]
  BY <1>3 DEF Stored
<1> QED
  BY <1>4, MadeSector, Lengths DEF Stored

LEMMA StreamSector ==
  ASSUME NEW sec, IsSector(sec), NEW base \in Int, NEW by \in Int
  PROVE  /\ IsSector(ApplyStream(sec, base, by))
         /\ Len(ApplyStream(sec, base, by)) = Len(sec)
         /\ \A i \in 1..Len(sec) :
              ApplyStream(sec, base, by)[i] = (sec[i] - base - (i - 1) * by) % BYTE
<1>1. ASSUME NEW i \in 1..Len(sec)
      PROVE  (sec[i] - base - (i - 1) * by) % BYTE \in Byte
  <2>1. sec[i] \in Int
    BY ElementOfSeq, Bytes DEF IsSector
  <2>2. i - 1 \in Int
    BY DEF IsSector
  <2>3. (i - 1) * by \in Int
    BY <2>2
  <2>4. sec[i] - base - (i - 1) * by \in Int
    BY <2>1, <2>3
  <2> QED
    BY <2>4, ByteRange
<1>2. ApplyStream(sec, base, by) \in [1..Len(sec) -> Byte]
  BY <1>1 DEF ApplyStream
<1> QED
  BY <1>2, MadeSector DEF IsSector, ApplyStream

(* Under the step it was made with, a progression is constant, *)
LEMMA ProgressionUndone ==
  ASSUME NEW sec, IsSector(sec), NEW c \in Int, NEW by \in Int, NEW b \in Int,
         Progression(sec, c, by)
  PROVE  \A i \in 1..Len(sec) : ApplyStream(sec, b, by)[i] = (c - b) % BYTE
<1> SUFFICES ASSUME NEW i \in 1..Len(sec)
             PROVE  ApplyStream(sec, b, by)[i] = (c - b) % BYTE
  OBVIOUS
<1> DEFINE p == (i - 1) * by
<1>1. p \in Int
  <2>1. i - 1 \in Int
    BY DEF IsSector
  <2> QED
    BY <2>1
<1>2. ApplyStream(sec, b, by)[i] = (sec[i] - b - p) % BYTE /\ sec[i] = (c + p) % BYTE
  BY StreamSector DEF Progression
<1> HIDE DEF p
<1>3. (((c + p) % BYTE) - (b + p)) % BYTE = ((c + p) - (b + p)) % BYTE
  <2>1. c + p \in Int /\ b + p \in Int
    BY <1>1
  <2> QED
    BY <2>1, RestMinus
<1>4. (c + p) - (b + p) = c - b
  BY <1>1
<1>5. sec[i] - b - p = sec[i] - (b + p)
  <2>1. sec[i] \in Int
    BY ElementOfSeq, Bytes DEF IsSector
  <2> QED
    BY <1>1, <2>1
<1> QED
  BY <1>2, <1>3, <1>4, <1>5

(* and under any step the first byte is what it is. *)
LEMMA FirstByte ==
  ASSUME NEW sec, IsSector(sec), NEW b \in Int, NEW by \in Int
  PROVE  1 \in 1..Len(sec) /\ ApplyStream(sec, b, by)[1] = (sec[1] - b) % BYTE
<1>1. 1 \in 1..Len(sec) /\ sec[1] \in Int
  BY ElementOfSeq, Bytes DEF IsSector
<1>2. (1 - 1) * by = 0
  OBVIOUS
<1>3. sec[1] - b - (1 - 1) * by = sec[1] - b
  BY <1>1, <1>2
<1> QED
  BY <1>1, <1>3, StreamSector

LEMMA Counted ==
  ASSUME NEW sec, IsSector(sec), NEW v
  PROVE  /\ Frequency(sec, v) \in 0..Len(sec)
         /\ Frequency(sec, v) = Len(sec) <=> \A i \in 1..Len(sec) : sec[i] = v
         /\ Frequency(sec, v) = 0 <=> \A i \in 1..Len(sec) : sec[i] # v
<1> DEFINE P == {i \in 1..Len(sec) : sec[i] = v}
<1>1. P \in SUBSET (1..Len(sec)) /\ Len(sec) \in Nat
  BY DEF IsSector
<1>2. /\ Cardinality(P) \in 0..Len(sec)
      /\ Cardinality(P) = 0 <=> P = {}
      /\ Cardinality(P) = Len(sec) <=> P = 1..Len(sec)
  <2> HIDE DEF P
  <2> QED
    BY <1>1, CountIn
<1>3. Frequency(sec, v) = Cardinality(P)
  BY DEF Frequency
<1>4. P = 1..Len(sec) <=> \A i \in 1..Len(sec) : sec[i] = v
  OBVIOUS
<1>5. P = {} <=> \A i \in 1..Len(sec) : sec[i] # v
  OBVIOUS
<1> QED
  BY <1>2, <1>3, <1>4, <1>5

(* A constant sector is most often its first byte, and only that. *)
LEMMA ConstantCount ==
  ASSUME NEW sec, IsSector(sec), NEW c \in Byte, \A i \in 1..Len(sec) : sec[i] = c
  PROVE  LastMax([b \in Byte |-> Frequency(sec, b)]) = c
<1> DEFINE f == [b \in Byte |-> Frequency(sec, b)]
<1>1. f \in [Byte -> Nat] /\ f[c] = Len(sec) /\ Len(sec) \in Nat
  BY Counted DEF IsSector
<1>2. 1 \in 1..Len(sec)
  BY DEF IsSector
<1>3. ASSUME NEW y \in Byte, y # c PROVE f[y] < f[c]
  <2>1. Frequency(sec, y) \in 0..Len(sec) /\ Frequency(sec, y) # Len(sec)
    BY <1>2, <1>3, Counted
  <2> QED
    BY <1>1, <2>1
<1> HIDE DEF f
<1>4. LastMax(f) = c
  BY <1>1, <1>3, OnlyMaximum
<1> QED
  BY <1>4 DEF f

Differences(sec, d) == {i \in 2..Len(sec) : (sec[i] - sec[i - 1]) % BYTE = d}

LEMMA DifferenceCounts ==
  ASSUME NEW sec, IsSector(sec)
  PROVE  /\ [d \in Byte |-> Cardinality(Differences(sec, d))] \in [Byte -> Nat]
         /\ \A d \in Byte : /\ Cardinality(Differences(sec, d)) <= Len(sec)
                            /\ Cardinality(Differences(sec, d)) = 0 <=> Differences(sec, d) = {}
         /\ DominantStep(sec) = LastMax([d \in Byte |-> Cardinality(Differences(sec, d))])
<1>1. ASSUME NEW d \in Byte
      PROVE  /\ Cardinality(Differences(sec, d)) \in 0..Len(sec)
             /\ Cardinality(Differences(sec, d)) = 0 <=> Differences(sec, d) = {}
  <2> DEFINE P == Differences(sec, d)
  <2>1. P \in SUBSET (2..Len(sec)) /\ Len(sec) \in Nat
    BY DEF Differences, IsSector
  <2> HIDE DEF P
  <2> QED
    BY <2>1, CountIn DEF P
<1>2. \A d \in Byte : Cardinality(Differences(sec, d)) \in Nat
                      /\ Cardinality(Differences(sec, d)) <= Len(sec)
  BY <1>1 DEF IsSector
<1>3. DominantStep(sec) = LastMax([d \in Byte |-> Cardinality(Differences(sec, d))])
  BY DEF DominantStep, Differences
<1> QED
  BY <1>1, <1>2, <1>3

LEMMA DominantIsByte ==
  ASSUME NEW sec, IsSector(sec)
  PROVE  DominantStep(sec) \in Byte
<1> DEFINE f == [d \in Byte |-> Cardinality(Differences(sec, d))]
<1>1. f \in [Byte -> Nat] /\ Len(sec) \in Nat /\ \A d \in Byte : f[d] <= Len(sec)
  BY DifferenceCounts DEF IsSector
<1>2. DominantStep(sec) = LastMax(f)
  BY DifferenceCounts
<1> HIDE DEF f
<1> QED
  BY <1>1, <1>2, MaximumExists

(* The dominant step of a progression is a step it may have been made with: *)
(* of a single byte any step is.                                            *)
LEMMA DominantFits ==
  ASSUME NEW sec, IsSector(sec), NEW c \in Byte, NEW by \in Byte, Progression(sec, c, by)
  PROVE  Progression(sec, c, DominantStep(sec))
<1>0. c \in Int /\ by \in Int /\ DominantStep(sec) \in Int /\ Len(sec) \in Nat \ {0}
  BY Bytes, DominantIsByte DEF IsSector
<1>1. CASE Len(sec) = 1
  <2> SUFFICES ASSUME NEW i \in 1..Len(sec)
               PROVE  sec[i] = (c + (i - 1) * DominantStep(sec)) % BYTE
    BY DEF Progression
  <2>1. i = 1
    BY <1>1
  <2>2. sec[1] = (c + (1 - 1) * by) % BYTE
    BY <2>1 DEF Progression
  <2>3. (1 - 1) * by = 0 /\ (1 - 1) * DominantStep(sec) = 0
    BY <1>0
  <2> QED
    BY <2>1, <2>2, <2>3
<1>2. CASE Len(sec) # 1
  <2> DEFINE f == [d \in Byte |-> Cardinality(Differences(sec, d))]
  <2>1. ASSUME NEW i \in 2..Len(sec) PROVE (sec[i] - sec[i - 1]) % BYTE = by
    <3> DEFINE p == (i - 1) * by
               q == (i - 2) * by
    <3>1. p \in Int /\ q \in Int /\ p - q = by
      <4>1. i - 1 \in Int /\ i - 2 \in Int
        BY <1>0
      <4>2. p \in Int /\ q \in Int
        BY <1>0, <4>1
      <4>3. p = q + by
        BY <1>0, <4>1
      <4> HIDE DEF p, q
      <4> QED
        BY <1>0, <4>2, <4>3
    <3>2. sec[i] = (c + p) % BYTE /\ sec[i - 1] = (c + q) % BYTE
      <4>1. i \in 1..Len(sec) /\ i - 1 \in 1..Len(sec) /\ (i - 1) - 1 = i - 2
        BY <1>0
      <4>2. sec[i - 1] = (c + ((i - 1) - 1) * by) % BYTE
        BY <4>1 DEF Progression
      <4> QED
        BY <4>1, <4>2 DEF Progression
    <3> HIDE DEF p, q
    <3>3. (((c + p) % BYTE) - ((c + q) % BYTE)) % BYTE = ((c + p) - ((c + q) % BYTE)) % BYTE
      <4>1. (c + q) % BYTE \in Int /\ c + p \in Int
        BY <1>0, <3>1, ByteRange, Bytes
      <4> QED
        BY <4>1, RestMinus
    <3>4. ((c + p) - ((c + q) % BYTE)) % BYTE = ((c + p) - (c + q)) % BYTE
      <4>1. c + q \in Int /\ c + p \in Int
        BY <1>0, <3>1
      <4> QED
        BY <4>1, MinusRest
    <3>5. (c + p) - (c + q) = by
      BY <1>0, <3>1
    <3> QED
      BY <3>2, <3>3, <3>4, <3>5, ByteIsItsRest
  <2>2. 2 \in 2..Len(sec)
    <3> DEFINE n == Len(sec)
    <3>1. n \in Nat \ {0} /\ n # 1
      BY <1>0, <1>2
    <3> HIDE DEF n
    <3>2. 2 \in 2..n
      BY <3>1
    <3> QED
      BY <3>2 DEF n
  <2>3. \A d \in Byte : d # by => Differences(sec, d) = {}
    BY <2>1 DEF Differences
  <2>4. Differences(sec, by) # {}
    BY <2>1, <2>2 DEF Differences
  <2>5. \A d \in Byte : Cardinality(Differences(sec, d)) \in Nat
    BY DifferenceCounts
  <2>6. \A d \in Byte : d # by => f[d] < f[by]
    <3>1. \A d \in Byte : d # by => Cardinality(Differences(sec, d)) = 0
      BY <2>3, DifferenceCounts
    <3>2. Cardinality(Differences(sec, by)) # 0
      BY <2>4, DifferenceCounts
    <3> QED
      BY <2>5, <3>1, <3>2
  <2>7. f \in [Byte -> Nat] /\ DominantStep(sec) = LastMax(f)
    BY DifferenceCounts
  <2> HIDE DEF f
  <2>8. DominantStep(sec) = by
    BY <2>6, <2>7, OnlyMaximum
  <2> QED
    BY <2>8
<1> QED
  BY <1>1, <1>2

(* A sector on a progression is pure, and its first byte its base. *)
LEMMA ProgressionIsPure ==
  ASSUME NEW sec, IsSector(sec), NEW c \in Byte, NEW by \in Byte, Progression(sec, c, by)
  PROVE  IsPure(sec) /\ LearnedBase(sec) = c
<1> DEFINE d == DominantStep(sec)
           plain == ApplyStream(sec, 0, d)
<1>1. c \in Int /\ d \in Int
  BY Bytes, DominantIsByte
<1>2. Progression(sec, c, d)
  BY DominantFits
<1>3. \A i \in 1..Len(sec) : plain[i] = c
  <2>1. \A i \in 1..Len(sec) : plain[i] = (c - 0) % BYTE
    BY <1>1, <1>2, ProgressionUndone
  <2> QED
    BY <1>1, <2>1, ByteIsItsRest
<1>4. IsSector(plain) /\ Len(plain) = Len(sec)
  BY <1>1, StreamSector
<1>5. LearnedBase(sec) = c
  <2>1. LearnedBase(sec) = LastMax([b \in Byte |-> Frequency(plain, b)])
    BY DEF LearnedBase, RecoverBase
  <2> HIDE DEF plain
  <2> QED
    BY <1>3, <1>4, <2>1, ConstantCount
<1>6. \A i \in 1..Len(sec) : ApplyStream(sec, LearnedBase(sec), d)[i] = 0
  <2>1. \A i \in 1..Len(sec) : ApplyStream(sec, c, d)[i] = (c - c) % BYTE
    BY <1>1, <1>2, ProgressionUndone
  <2>2. c - c = 0 /\ 0 % BYTE = 0
    BY <1>1, Bytes, ByteIsItsRest
  <2> QED
    BY <1>5, <2>1, <2>2
<1> QED
  BY <1>5, <1>6 DEF IsPure

LEMMA LearnedIsByte ==
  ASSUME NEW sec, IsSector(sec)
  PROVE  LearnedBase(sec) \in Byte
<1> DEFINE plain == ApplyStream(sec, 0, DominantStep(sec))
           f == [b \in Byte |-> Frequency(plain, b)]
<1>1. IsSector(plain)
  BY DominantIsByte, Bytes, StreamSector
<1> HIDE DEF plain
<1>2. f \in [Byte -> Nat] /\ Len(plain) \in Nat /\ \A b \in Byte : f[b] <= Len(plain)
  <2>1. \A b \in Byte : Frequency(plain, b) \in 0..Len(plain)
    BY <1>1, Counted
  <2> QED
    BY <1>1, <2>1 DEF IsSector
<1>3. LearnedBase(sec) = LastMax(f)
  BY DEF LearnedBase, RecoverBase, plain
<1> HIDE DEF f
<1> QED
  BY <1>2, <1>3, MaximumExists

(* Only a sector on a progression is pure. *)
LEMMA PureIsProgression ==
  ASSUME NEW sec, IsSector(sec), IsPure(sec)
  PROVE  \E base, by \in Byte : Progression(sec, base, by)
<1> DEFINE b == LearnedBase(sec)
           d == DominantStep(sec)
<1>1. b \in Byte /\ d \in Byte
  BY LearnedIsByte, DominantIsByte
<1>2. b \in Int /\ d \in Int
  BY <1>1, Bytes
<1>3. \A i \in 1..Len(sec) : ApplyStream(sec, b, d)[i] = 0
  BY DEF IsPure
<1> HIDE DEF b, d
<1>4. ASSUME NEW i \in 1..Len(sec) PROVE sec[i] = (b + (i - 1) * d) % BYTE
  <2> DEFINE p == (i - 1) * d
  <2>1. p \in Int
    <3>1. i - 1 \in Int
      BY DEF IsSector
    <3> QED
      BY <1>2, <3>1
  <2>2. sec[i] \in Byte
    BY ElementOfSeq DEF IsSector
  <2>3. (sec[i] - b - p) % BYTE = 0
    BY <1>2, <1>3, StreamSector
  <2> HIDE DEF p
  <2>4. sec[i] - b - p = sec[i] - (b + p)
    BY <1>2, <2>1, <2>2, Bytes
  <2>5. sec[i] = (b + p) % BYTE
    BY <1>2, <2>1, <2>2, <2>3, <2>4, ZeroMinus
  <2> QED
    BY <2>5 DEF p
<1> QED
  BY <1>1, <1>4 DEF Progression

---------------------------------------------------------------------------
(* What a page votes for *)

LEMMA FillTypes == ASSUME NEW raw PROVE FillType(raw) <=> raw.type \in PURE_AP_TYPES
BY DEF FillType, PURE_AP_TYPES

LEMMA ZeroIsProgression ==
  ASSUME NEW raw \in RawPage, NEW pn \in Nat, NEW si \in Sector, ZeroSector(raw, si)
  PROVE  /\ Progression(Stored(raw, pn, si), ApBase(pn, si, raw.bv), raw.step)
         /\ ApBase(pn, si, raw.bv) \in Byte /\ raw.step \in Byte /\ raw.bv \in Byte
<1>1. raw.step \in Byte /\ raw.bv \in Byte
  BY DEF RawPage
<1> DEFINE base == ApBase(pn, si, raw.bv)
<1>2. base \in Byte
  BY <1>1, BaseIsByte
<1>3. ASSUME NEW i \in 1..Len(Stored(raw, pn, si))
      PROVE  Stored(raw, pn, si)[i] = (base + (i - 1) * raw.step) % BYTE
  <2>1. i \in 1..SectorLen(si)
    BY StoredSector
  <2>2. Stored(raw, pn, si)[i] = (base + (i - 1) * raw.step + raw.plain[si][i]) % BYTE
    BY <2>1, StoredSector
  <2>3. raw.plain[si][i] = 0
    BY <2>1 DEF ZeroSector
  <2> DEFINE p == (i - 1) * raw.step
  <2>4. p \in Int /\ base \in Int
    <3>1. i - 1 \in Int /\ raw.step \in Int
      BY <1>1, <2>1, Lengths, Bytes
    <3> QED
      BY <1>2, <3>1, Bytes
  <2> HIDE DEF p, base
  <2>5. base + p + 0 = base + p
    BY <2>4
  <2> QED
    BY <2>2, <2>3, <2>5 DEF p
<1> QED
  BY <1>1, <1>2, <1>3 DEF Progression

LEMMA OnProgressionIsPure ==
  ASSUME NEW raw \in RawPage, NEW pn \in Nat, NEW si \in Sector
  PROVE  OnProgression(raw, pn, si) <=> IsPure(Stored(raw, pn, si))
<1> DEFINE sec == Stored(raw, pn, si)
<1>1. IsSector(sec) /\ Len(sec) = SectorLen(si)
  BY StoredSector
<1>2. OnProgression(raw, pn, si) <=> \E base, by \in Byte : Progression(sec, base, by)
  BY <1>1 DEF OnProgression, Progression
<1> HIDE DEF sec
<1> QED
  BY <1>1, <1>2, ProgressionIsPure, PureIsProgression DEF sec

(* A zero sector votes for the byte it was written with. *)
LEMMA ZeroVote ==
  ASSUME NEW raw \in RawPage, NEW pn \in Nat, NEW si \in Sector, ZeroSector(raw, si)
  PROVE  IsPure(Stored(raw, pn, si)) /\ Vote(raw, pn, si) = raw.bv
<1> DEFINE sec == Stored(raw, pn, si)
           off == Offset(pn, si)
<1>1. IsSector(sec)
  BY StoredSector
<1>2. /\ Progression(sec, ApBase(pn, si, raw.bv), raw.step)
      /\ ApBase(pn, si, raw.bv) \in Byte /\ raw.step \in Byte /\ raw.bv \in Byte
  BY ZeroIsProgression
<1>3. IsPure(sec) /\ LearnedBase(sec) = ApBase(pn, si, raw.bv)
  <2> HIDE DEF sec
  <2> QED
    BY <1>1, <1>2, ProgressionIsPure
<1>4. off \in Int /\ raw.bv \in Int
  BY <1>2, OffsetIsByte, Bytes
<1>5. Vote(raw, pn, si) = (((raw.bv + off) % BYTE) - off) % BYTE
  BY <1>3 DEF Vote, ApBase
<1> HIDE DEF off
<1>6. (((raw.bv + off) % BYTE) - off) % BYTE = ((raw.bv + off) - off) % BYTE
  <2>1. raw.bv + off \in Int
    BY <1>4
  <2> QED
    BY <1>4, <2>1, RestMinus
<1>7. (raw.bv + off) - off = raw.bv
  BY <1>4
<1> QED
  BY <1>2, <1>3, <1>5, <1>6, <1>7, ByteIsItsRest

LEMMA VoteIsByte ==
  ASSUME NEW raw \in RawPage, NEW pn \in Nat, NEW si \in Sector
  PROVE  Vote(raw, pn, si) \in Byte
<1>1. LearnedBase(Stored(raw, pn, si)) \in Byte
  BY StoredSector, LearnedIsByte
<1>2. LearnedBase(Stored(raw, pn, si)) - Offset(pn, si) \in Int
  BY <1>1, OffsetIsByte, Bytes
<1> QED
  BY <1>2, ByteRange DEF Vote

VotersFor(raw, pn, bv) == {si \in VotingSectors(raw, pn) : Vote(raw, pn, si) = bv}

LEMMA VoteCounts ==
  ASSUME NEW raw \in RawPage, NEW pn \in Nat
  PROVE  /\ VotesOf(raw, pn) \in [Byte -> Nat]
         /\ \A bv \in Byte : /\ VotesOf(raw, pn)[bv] <= SECTORS
                             /\ VotesOf(raw, pn)[bv] = 0 <=> VotersFor(raw, pn, bv) = {}
<1>1. ASSUME NEW bv \in Byte
      PROVE  /\ Cardinality(VotersFor(raw, pn, bv)) \in Nat
             /\ Cardinality(VotersFor(raw, pn, bv)) <= SECTORS
             /\ Cardinality(VotersFor(raw, pn, bv)) = 0 <=> VotersFor(raw, pn, bv) = {}
  <2> DEFINE P == VotersFor(raw, pn, bv)
  <2>1. P \in SUBSET (0..(SECTORS - 1))
    BY DEF VotersFor, VotingSectors, Sector
  <2>2. IsFiniteSet(0..(SECTORS - 1)) /\ Cardinality(0..(SECTORS - 1)) = SECTORS
    <3>1. 0 \in Int /\ SECTORS - 1 \in Int /\ ~(0 > SECTORS - 1) /\ SECTORS \in Int
      BY ApAssumption
    <3>2. Cardinality(0..(SECTORS - 1)) = SECTORS - 1 - 0 + 1 /\ IsFiniteSet(0..(SECTORS - 1))
      BY <3>1, FS_Interval
    <3> QED
      BY <3>1, <3>2
  <2> HIDE DEF P
  <2>3. IsFiniteSet(P) /\ Cardinality(P) <= SECTORS
    BY <2>1, <2>2, FS_Subset
  <2> QED
    BY <2>3, FS_EmptySet, FS_CardinalityType DEF P
<1>2. VotesOf(raw, pn) = [bv \in Byte |-> Cardinality(VotersFor(raw, pn, bv))]
  BY DEF VotesOf, VotersFor
<1> QED
  BY <1>1, <1>2

(* A page of which the voting sectors are zero votes for the byte it was   *)
(* written with and no other.                                              *)
LEMMA ZeroPageVotes ==
  ASSUME NEW raw \in RawPage, NEW pn \in Nat,
         VotingSectors(raw, pn) # {},
         \A si \in VotingSectors(raw, pn) : ZeroSector(raw, si)
  PROVE  AnyMax(VotesOf(raw, pn)) = {raw.bv}
<1>1. \A si \in VotingSectors(raw, pn) : si \in Sector /\ Vote(raw, pn, si) = raw.bv
  BY ZeroVote DEF VotingSectors
<1>2. raw.bv \in Byte
  BY DEF RawPage
<1>3. \A bv \in Byte : VotersFor(raw, pn, bv) # {} <=> bv = raw.bv
  BY <1>1 DEF VotersFor
<1> DEFINE f == VotesOf(raw, pn)
<1>4. f \in [Byte -> Nat] /\ f[raw.bv] # 0 /\ \A bv \in Byte : bv # raw.bv => f[bv] = 0
  BY <1>2, <1>3, VoteCounts
<1> HIDE DEF f
<1>5. \A bv \in Byte : bv # raw.bv => f[bv] < f[raw.bv]
  BY <1>2, <1>4
<1>6. AnyMax(f) = {raw.bv}
  BY <1>2, <1>4, <1>5, OnlyMaximum
<1> QED
  BY <1>6 DEF f

(* A page of fill votes, *)
LEMMA FillVotes ==
  ASSUME NEW raw \in RawPage, NEW pn \in Nat, ZeroPage(raw), FillType(raw)
  PROVE  VotingSectors(raw, pn) # {} /\ AnyMax(VotesOf(raw, pn)) = {raw.bv}
<1>1. 0 \in Sector
  BY ApAssumption DEF Sector
<1>2. \A si \in Sector : ZeroSector(raw, si)
  BY DEF ZeroPage
<1>3. 0 \in VotingSectors(raw, pn)
  BY <1>1, <1>2, ZeroVote, FillTypes DEF VotingSectors
<1>4. \A si \in VotingSectors(raw, pn) : ZeroSector(raw, si)
  BY <1>2 DEF VotingSectors
<1> QED
  BY <1>3, <1>4, ZeroPageVotes

(* and one of another type does not. *)
LEMMA NoFillNoVote ==
  ASSUME NEW raw, NEW pn, ~FillType(raw)
  PROVE  VotingSectors(raw, pn) = {}
BY FillTypes DEF VotingSectors

---------------------------------------------------------------------------
(* Sums *)

PartialSums(s, f, n) == s = [i \in 0..n |-> IF i = 0 THEN 0 ELSE s[i - 1] + f[i - 1]]

LEMMA SumsExist ==
  ASSUME NEW f, NEW n \in Nat
  PROVE  \E s : PartialSums(s, f, n)
<1> DEFINE S == {m \in Nat : ~ \E s : PartialSums(s, f, m)}
<1>1. CASE S # {}
  <2>1. PICK m \in S : \A j \in S : m <= j
    BY <1>1, Least
  <2>2. CASE m = 0
    <3> DEFINE s == [i \in 0..0 |-> 0]
    <3>1. s = [i \in 0..0 |-> IF i = 0 THEN 0 ELSE s[i - 1] + f[i - 1]]
      OBVIOUS
    <3>2. PartialSums(s, f, m)
      BY <2>2, <3>1 DEF PartialSums
    <3> QED
      BY <3>2
  <2>3. CASE m # 0
    <3>1. m - 1 \in Nat /\ m - 1 \notin S
      BY <2>1, <2>3
    <3>2. PICK h : PartialSums(h, f, m - 1)
      BY <3>1
    <3> DEFINE s == [i \in 0..m |-> IF i = m THEN h[m - 1] + f[m - 1] ELSE h[i]]
    <3>3. ASSUME NEW i \in 0..m PROVE s[i] = IF i = 0 THEN 0 ELSE s[i - 1] + f[i - 1]
      <4>1. CASE i = m
        BY <2>3, <3>1, <4>1
      <4>2. CASE i # m
        <5>1. i \in 0..(m - 1)
          BY <4>2
        <5>2. h[i] = IF i = 0 THEN 0 ELSE h[i - 1] + f[i - 1]
          BY <3>2, <5>1 DEF PartialSums
        <5> QED
          BY <4>2, <5>1, <5>2
      <4> QED
        BY <4>1, <4>2
    <3>4. s = [i \in 0..m |-> s[i]]
      OBVIOUS
    <3> HIDE DEF s
    <3>5. PartialSums(s, f, m)
      BY <3>3, <3>4 DEF PartialSums
    <3> QED
      BY <3>5
  <2> QED
    BY <2>2, <2>3
<1> QED
  BY <1>1

LEMMA SumIs ==
  ASSUME NEW f, NEW n \in Nat
  PROVE  \E s : /\ SumTo(f, n) = s[n] /\ s[0] = 0
                /\ \A i \in 1..n : s[i] = s[i - 1] + f[i - 1]
<1> DEFINE P(s) == s = [i \in 0..n |-> IF i = 0 THEN 0 ELSE s[i - 1] + f[i - 1]]
           sum == CHOOSE s : P(s)
<1>1. \E s : P(s)
  BY SumsExist DEF PartialSums
<1>2. P(sum)
  BY <1>1
<1>3. SumTo(f, n) = sum[n]
  BY DEF SumTo
<1> HIDE DEF sum
<1>4. \A i \in 0..n : sum[i] = IF i = 0 THEN 0 ELSE sum[i - 1] + f[i - 1]
  BY <1>2
<1>5. sum[0] = 0 /\ \A i \in 1..n : sum[i] = sum[i - 1] + f[i - 1]
  BY <1>4
<1> QED
  BY <1>3, <1>5

(* Sums compare as their terms do. *)
LEMMA SumsCompare ==
  ASSUME NEW n \in Nat, NEW f, NEW g,
         \A i \in 0..(n - 1) : f[i] \in Nat /\ g[i] \in Nat /\ f[i] <= g[i]
  PROVE  /\ SumTo(f, n) \in Nat /\ SumTo(g, n) \in Nat /\ SumTo(f, n) <= SumTo(g, n)
         /\ (\E i \in 0..(n - 1) : f[i] < g[i]) => SumTo(f, n) < SumTo(g, n)
<1>1. PICK s : /\ SumTo(f, n) = s[n] /\ s[0] = 0
               /\ \A i \in 1..n : s[i] = s[i - 1] + f[i - 1]
  BY SumIs
<1>2. PICK t : /\ SumTo(g, n) = t[n] /\ t[0] = 0
               /\ \A i \in 1..n : t[i] = t[i - 1] + g[i - 1]
  BY SumIs
<1> DEFINE Compare(k) == /\ s[k] \in Nat /\ t[k] \in Nat /\ s[k] <= t[k]
                         /\ (\E i \in 0..(k - 1) : f[i] < g[i]) => s[k] < t[k]
           Bad == {k \in 0..n : ~Compare(k)}
<1>3. Bad = {}
  <2> SUFFICES ASSUME Bad # {} PROVE FALSE
    OBVIOUS
  <2>0. Bad \in SUBSET Nat
    OBVIOUS
  <2>1. PICK k \in Bad : \A j \in Bad : k <= j
    <3> HIDE DEF Bad
    <3> QED
      BY <2>0, Least
  <2>2. k \in 0..n /\ ~Compare(k)
    BY <2>1
  <2>3. k # 0
    <3>1. Compare(0)
      BY <1>1, <1>2
    <3> QED
      BY <2>2, <3>1
  <2>4. k - 1 \in 0..(n - 1) /\ k - 1 \in 0..n /\ k \in 1..n
    BY <2>2, <2>3
  <2>5. Compare(k - 1)
    <3>1. ~(k <= k - 1)
      BY <2>4
    <3> QED
      BY <2>1, <2>4, <3>1
  <2>6. /\ s[k] = s[k - 1] + f[k - 1] /\ t[k] = t[k - 1] + g[k - 1]
        /\ f[k - 1] \in Nat /\ g[k - 1] \in Nat /\ f[k - 1] <= g[k - 1]
    BY <1>1, <1>2, <2>4
  <2>7. s[k - 1] \in Nat /\ t[k - 1] \in Nat /\ s[k - 1] <= t[k - 1]
    BY <2>5
  <2>8. ASSUME NEW i \in 0..(k - 1), f[i] < g[i] PROVE s[k] < t[k]
    <3>1. CASE i = k - 1
      BY <2>6, <2>7, <2>8, <3>1
    <3>2. CASE i # k - 1
      <4>1. i \in 0..((k - 1) - 1)
        BY <2>4, <3>2
      <4>2. s[k - 1] < t[k - 1]
        BY <2>5, <2>8, <4>1
      <4> QED
        BY <2>6, <2>7, <4>2
    <3> QED
      BY <3>1, <3>2
  <2>9. s[k] \in Nat /\ t[k] \in Nat /\ s[k] <= t[k]
    BY <2>6, <2>7
  <2>10. Compare(k)
    BY <2>8, <2>9
  <2> QED
    BY <2>2, <2>10
<1>4. Compare(n)
  BY <1>3
<1> QED
  BY <1>1, <1>2, <1>4

---------------------------------------------------------------------------
(* The brute-force search for the byte of a page *)

ScoreOf(sec, off, bv) == Max({Frequency(ApplyStream(sec, off, s), bv) : s \in Byte})

LEMMA ScoreOfSector ==
  ASSUME NEW sec, IsSector(sec), NEW off \in Int, NEW bv \in Byte
  PROVE  /\ ScoreOf(sec, off, bv) \in 0..Len(sec)
         /\ \E s \in Byte : ScoreOf(sec, off, bv) = Frequency(ApplyStream(sec, off, s), bv)
         /\ \A s \in Byte : Frequency(ApplyStream(sec, off, s), bv) <= ScoreOf(sec, off, bv)
<1> DEFINE F(s) == Frequency(ApplyStream(sec, off, s), bv)
           S == {F(s) : s \in Byte}
<1>1. Len(sec) \in Nat
  BY DEF IsSector
<1>2. \A s \in Byte : F(s) \in 0..Len(sec)
  BY StreamSector, Counted, Bytes
<1> HIDE DEF F
<1>3. S \in SUBSET Nat /\ S # {} /\ \A n \in S : n <= Len(sec)
  BY <1>1, <1>2, Bytes
<1>4. PICK n \in S : \A m \in S : m <= n
  <2> HIDE DEF S
  <2> QED
    BY <1>1, <1>3, Greatest
<1>5. Max(S) \in S /\ \A m \in S : Max(S) >= m
  <2>1. \A m \in S : n >= m
    BY <1>3, <1>4
  <2> HIDE DEF S
  <2> QED
    BY <1>4, <2>1 DEF Max
<1>6. ScoreOf(sec, off, bv) = Max(S)
  BY DEF ScoreOf, F
<1>7. \A s \in Byte : F(s) <= Max(S)
  <2>1. \A s \in Byte : F(s) \in S /\ F(s) \in Nat
    BY <1>2
  <2>2. Max(S) \in Nat
    BY <1>3, <1>5
  <2> HIDE DEF S
  <2> QED
    BY <1>5, <2>1, <2>2
<1>8. \E s \in Byte : Max(S) = F(s)
  BY <1>5
<1>9. Max(S) \in 0..Len(sec)
  BY <1>2, <1>8
<1> QED
  BY <1>6, <1>7, <1>8, <1>9 DEF F

LEMMA SectorScoreIs ==
  ASSUME NEW pn \in Pages, PageAt(pn) \in RawPage, pn \in Nat, NEW si \in Sector, NEW bv \in Byte
  PROVE  SectorScore(pn, si, bv) \in Nat /\ SectorScore(pn, si, bv) <= SectorLen(si)
<1> DEFINE sec == Stored(PageAt(pn), pn, si)
<1>1. IsSector(sec) /\ Len(sec) = SectorLen(si) /\ Offset(pn, si) \in Int
  BY StoredSector, OffsetIsByte, Bytes
<1>2. SectorScore(pn, si, bv) = ScoreOf(sec, Offset(pn, si), bv)
  BY DEF SectorScore, ScoreOf
<1> HIDE DEF sec
<1>3. SectorScore(pn, si, bv) \in 0..Len(sec)
  BY <1>1, <1>2, ScoreOfSector
<1> QED
  BY <1>1, <1>3 DEF IsSector

(* A zero sector scores in full for its byte and less for any other: the    *)
(* first byte is not counted.                                               *)
LEMMA ZeroSectorScore ==
  ASSUME NEW pn \in Pages, PageAt(pn) \in RawPage, pn \in Nat, NEW si \in Sector,
         ZeroSector(PageAt(pn), si)
  PROVE  /\ PageAt(pn).bv \in Byte
         /\ SectorScore(pn, si, PageAt(pn).bv) = SectorLen(si)
         /\ \A bv \in Byte : bv # PageAt(pn).bv => SectorScore(pn, si, bv) < SectorLen(si)
<1> DEFINE raw == PageAt(pn)
           sec == Stored(raw, pn, si)
           off == Offset(pn, si)
           base == ApBase(pn, si, raw.bv)
<1>1. /\ IsSector(sec) /\ Len(sec) = SectorLen(si) /\ off \in Int /\ Len(sec) \in Nat
  BY StoredSector, OffsetIsByte, Bytes DEF IsSector
<1>2. Progression(sec, base, raw.step) /\ base \in Byte /\ raw.step \in Byte /\ raw.bv \in Byte
  BY ZeroIsProgression
<1>3. \A bv \in Byte : SectorScore(pn, si, bv) = ScoreOf(sec, off, bv)
  BY DEF SectorScore, ScoreOf
<1>4. (base - off) % BYTE = raw.bv
  <2> DEFINE v == raw.bv
  <2>1. v \in Int /\ v \in Byte /\ base = (v + off) % BYTE
    BY <1>2, Bytes DEF ApBase
  <2> HIDE DEF v, off, base
  <2>2. v + off \in Int /\ (v + off) - off = v
    BY <1>1, <2>1
  <2>3. (((v + off) % BYTE) - off) % BYTE = ((v + off) - off) % BYTE
    BY <1>1, <2>2, RestMinus
  <2> QED
    BY <2>1, <2>2, <2>3, ByteIsItsRest DEF v
<1>5. /\ 1 \in 1..Len(sec) /\ sec[1] = base
      /\ \A s \in Byte : ApplyStream(sec, off, s)[1] = raw.bv
  <2>1. sec[1] = (base + (1 - 1) * raw.step) % BYTE /\ 1 \in 1..Len(sec)
    BY <1>1, <1>2, FirstByte DEF Progression
  <2>2. base + (1 - 1) * raw.step = base
    <3>1. base \in Int /\ raw.step \in Int
      BY <1>2, Bytes
    <3>2. (1 - 1) * raw.step = 0
      BY <3>1
    <3> QED
      BY <3>1, <3>2
  <2>3. sec[1] = base
    BY <1>2, <2>1, <2>2, ByteIsItsRest
  <2> HIDE DEF sec, off, base, raw
  <2>4. ASSUME NEW s \in Byte PROVE ApplyStream(sec, off, s)[1] = raw.bv
    <3>1. s \in Int
      BY Bytes
    <3>2. ApplyStream(sec, off, s)[1] = (sec[1] - off) % BYTE
      BY <1>1, <3>1, FirstByte
    <3> QED
      BY <1>4, <2>3, <3>2
  <2> QED
    BY <2>1, <2>3, <2>4
<1> HIDE DEF sec, off, base, raw
<1>6. ScoreOf(sec, off, raw.bv) = Len(sec)
  <2>1. base \in Int /\ raw.step \in Int
    BY <1>2, Bytes
  <2>2. \A i \in 1..Len(sec) : ApplyStream(sec, off, raw.step)[i] = raw.bv
    BY <1>1, <1>2, <1>4, <2>1, ProgressionUndone
  <2>3. IsSector(ApplyStream(sec, off, raw.step)) /\ Len(ApplyStream(sec, off, raw.step)) = Len(sec)
    BY <1>1, <2>1, StreamSector
  <2>4. Frequency(ApplyStream(sec, off, raw.step), raw.bv) = Len(sec)
    BY <2>2, <2>3, Counted
  <2>5. /\ ScoreOf(sec, off, raw.bv) \in 0..Len(sec)
        /\ Frequency(ApplyStream(sec, off, raw.step), raw.bv) <= ScoreOf(sec, off, raw.bv)
    BY <1>1, <1>2, ScoreOfSector
  <2> QED
    BY <1>1, <2>4, <2>5
<1>7. ASSUME NEW bv \in Byte, bv # raw.bv PROVE ScoreOf(sec, off, bv) < Len(sec)
  <2>1. PICK s \in Byte : ScoreOf(sec, off, bv) = Frequency(ApplyStream(sec, off, s), bv)
    BY <1>1, ScoreOfSector
  <2>2. IsSector(ApplyStream(sec, off, s)) /\ Len(ApplyStream(sec, off, s)) = Len(sec)
    BY <1>1, Bytes, StreamSector
  <2>3. ApplyStream(sec, off, s)[1] # bv
    BY <1>5, <1>7
  <2>4. /\ Frequency(ApplyStream(sec, off, s), bv) \in 0..Len(sec)
        /\ Frequency(ApplyStream(sec, off, s), bv) # Len(sec)
    BY <1>5, <2>2, <2>3, Counted
  <2> QED
    BY <1>1, <2>1, <2>4
<1> QED
  BY <1>1, <1>2, <1>3, <1>6, <1>7 DEF raw

IsStore == store \in Seq(RawPage) \ {<<>>}

LEMMA PagesOfStore ==
  ASSUME IsStore
  PROVE  /\ Len(store) \in Nat \ {0} /\ Pages = 0..(Len(store) - 1)
         /\ \A pn \in Pages : pn \in Nat /\ PageAt(pn) \in RawPage
<1>1. Len(store) \in Nat \ {0}
  BY EmptySeq DEF IsStore
<1>2. ASSUME NEW pn \in Pages PROVE pn \in Nat /\ PageAt(pn) \in RawPage
  <2>1. pn + 1 \in 1..Len(store) /\ pn \in Nat
    BY <1>1 DEF Pages
  <2> QED
    BY <2>1, ElementOfSeq DEF PageAt, IsStore
<1> QED
  BY <1>1, <1>2 DEF Pages

FullScore == SumTo([si \in Sector |-> SectorLen(si)], SECTORS - 1)

(* A page scores in full for the byte it was written with if it is zero,    *)
(* and then less for any other.                                             *)
LEMMA PageScore ==
  ASSUME IsStore, NEW pn \in Pages, NEW bv \in Byte
  PROVE  /\ Score(pn, bv) \in Nat /\ FullScore \in Nat /\ Score(pn, bv) <= FullScore
         /\ ZeroPage(PageAt(pn)) => (Score(pn, bv) = FullScore <=> bv = PageAt(pn).bv)
<1> DEFINE f == [si \in Sector |-> SectorScore(pn, si, bv)]
           g == [si \in Sector |-> SectorLen(si)]
           n == SECTORS - 1
<1>1. n \in Nat /\ 0 \in 0..(n - 1) /\ 0..(n - 1) \subseteq Sector
  BY ApAssumption DEF Sector
<1>2. pn \in Nat /\ PageAt(pn) \in RawPage
  BY PagesOfStore
<1>3. \A si \in Sector : SectorScore(pn, si, bv) \in Nat /\ SectorScore(pn, si, bv) <= SectorLen(si)
  BY <1>2, SectorScoreIs
<1>4. \A si \in 0..(n - 1) : f[si] \in Nat /\ g[si] \in Nat /\ f[si] <= g[si]
  BY <1>1, <1>3, Lengths
<1>5. Score(pn, bv) = SumTo(f, n) /\ FullScore = SumTo(g, n)
  BY DEF Score, FullScore
<1>6. ASSUME ZeroPage(PageAt(pn)), bv = PageAt(pn).bv PROVE f = g
  <2>1. \A si \in Sector : SectorScore(pn, si, bv) = SectorLen(si)
    BY <1>2, <1>6, ZeroSectorScore DEF ZeroPage
  <2> QED
    BY <2>1
<1>7. ASSUME ZeroPage(PageAt(pn)), bv # PageAt(pn).bv PROVE f[0] < g[0]
  <2>1. 0 \in Sector
    BY <1>1
  <2>2. SectorScore(pn, 0, bv) < SectorLen(0)
    BY <1>2, <1>7, <2>1, ZeroSectorScore DEF ZeroPage
  <2> QED
    BY <2>1, <2>2
<1> HIDE DEF f, g, n
<1>8. /\ SumTo(f, n) \in Nat /\ SumTo(g, n) \in Nat /\ SumTo(f, n) <= SumTo(g, n)
      /\ (\E i \in 0..(n - 1) : f[i] < g[i]) => SumTo(f, n) < SumTo(g, n)
  BY <1>1, <1>4, SumsCompare
<1>9. ASSUME ZeroPage(PageAt(pn)) PROVE Score(pn, bv) = FullScore <=> bv = PageAt(pn).bv
  <2>1. CASE bv = PageAt(pn).bv
    BY <1>5, <1>6, <1>9, <2>1
  <2>2. CASE bv # PageAt(pn).bv
    <3>1. SumTo(f, n) < SumTo(g, n)
      BY <1>1, <1>7, <1>8, <1>9, <2>2
    <3> QED
      BY <1>5, <1>8, <2>2, <3>1
  <2> QED
    BY <2>1, <2>2
<1> QED
  BY <1>5, <1>8, <1>9

LEMMA ScoresBounded ==
  ASSUME IsStore, NEW pages \in SUBSET Pages
  PROVE  /\ Scores(pages) \in [Byte -> Nat]
         /\ \E b \in Nat : \A bv \in Byte : Scores(pages)[bv] <= b
<1> DEFINE f(bv) == [pn \in Pages |-> IF pn \in pages THEN Score(pn, bv) ELSE 0]
           g == [pn \in Pages |-> FullScore]
           n == Len(store)
<1>1. n \in Nat /\ 0..(n - 1) = Pages /\ n # 0
  BY PagesOfStore
<1>2. FullScore \in Nat
  <2>1. 0 \in Pages /\ 0 \in Byte
    BY <1>1, PagesOfStore, Bytes
  <2> QED
    BY <2>1, PageScore
<1>3. ASSUME NEW bv \in Byte
      PROVE  SumTo(f(bv), n) \in Nat /\ SumTo(f(bv), n) <= SumTo(g, n) /\ SumTo(g, n) \in Nat
  <2>1. \A pn \in 0..(n - 1) : f(bv)[pn] \in Nat /\ g[pn] \in Nat /\ f(bv)[pn] <= g[pn]
    BY <1>1, <1>2, PageScore
  <2> HIDE DEF f, g, n
  <2> QED
    BY <1>1, <2>1, SumsCompare
<1>4. Scores(pages) = [bv \in Byte |-> SumTo(f(bv), n)]
  BY DEF Scores
<1> HIDE DEF f, g, n
<1>5. SumTo(g, n) \in Nat
  BY <1>3, Bytes
<1> QED
  BY <1>3, <1>4, <1>5

LEMMA BestIsByte ==
  ASSUME IsStore, NEW pages \in SUBSET Pages
  PROVE  BestScore(pages) \in Byte
<1>1. PICK b \in Nat : \A bv \in Byte : Scores(pages)[bv] <= b
  BY ScoresBounded
<1>2. Scores(pages) \in [Byte -> Nat]
  BY ScoresBounded
<1> QED
  BY <1>1, <1>2, MaximumExists DEF BestScore

(* Over zero pages written with one byte, that byte scores best. *)
LEMMA BestOfZeroPages ==
  ASSUME IsStore, NEW pages \in SUBSET Pages, pages # {}, NEW best \in Byte,
         \A pn \in pages : ZeroPage(PageAt(pn)) /\ PageAt(pn).bv = best
  PROVE  BestScore(pages) = best
<1> DEFINE f(bv) == [pn \in Pages |-> IF pn \in pages THEN Score(pn, bv) ELSE 0]
           n == Len(store)
<1>1. n \in Nat /\ 0..(n - 1) = Pages
  BY PagesOfStore
<1>2. Scores(pages) = [bv \in Byte |-> SumTo(f(bv), n)]
  BY DEF Scores
<1>3. ASSUME NEW bv \in Byte, bv # best PROVE SumTo(f(bv), n) < SumTo(f(best), n)
  <2>1. \A pn \in pages : /\ Score(pn, bv) \in Nat /\ Score(pn, best) \in Nat
                          /\ Score(pn, bv) < Score(pn, best)
    <3> SUFFICES ASSUME NEW pn \in pages
                 PROVE  /\ Score(pn, bv) \in Nat /\ Score(pn, best) \in Nat
                        /\ Score(pn, bv) < Score(pn, best)
      OBVIOUS
    <3>1. Score(pn, best) = FullScore /\ Score(pn, bv) # FullScore
      BY <1>3, PageScore
    <3>2. Score(pn, bv) \in Nat /\ FullScore \in Nat /\ Score(pn, bv) <= FullScore
      BY PageScore
    <3> QED
      BY <3>1, <3>2
  <2>2. \A pn \in 0..(n - 1) : /\ f(bv)[pn] \in Nat /\ f(best)[pn] \in Nat
                               /\ f(bv)[pn] <= f(best)[pn]
    BY <1>1, <2>1
  <2>3. PICK pn \in pages : TRUE
    OBVIOUS
  <2>4. pn \in 0..(n - 1) /\ f(bv)[pn] < f(best)[pn]
    BY <1>1, <2>1
  <2> HIDE DEF f, n
  <2> QED
    BY <1>1, <2>2, <2>4, SumsCompare
<1> DEFINE s == Scores(pages)
<1>4. s \in [Byte -> Nat]
  BY ScoresBounded
<1> HIDE DEF f, n
<1>5. \A bv \in Byte : bv # best => s[bv] < s[best]
  BY <1>2, <1>3
<1> HIDE DEF s
<1>6. LastMax(s) = best
  BY <1>4, <1>5, OnlyMaximum
<1> QED
  BY <1>6 DEF BestScore, s

---------------------------------------------------------------------------
(* Reading a sector *)

LEMMA PeakIs ==
  ASSUME NEW plain, IsSector(plain)
  PROVE  /\ Peak(plain) \in 1..Len(plain)
         /\ \E v \in Byte : Peak(plain) = Frequency(plain, v)
         /\ \A v \in Byte : Frequency(plain, v) <= Peak(plain)
<1> DEFINE S == {Frequency(plain, v) : v \in Byte}
<1>1. /\ Len(plain) \in Nat
      /\ \A v \in Byte : Frequency(plain, v) \in 0..Len(plain)
      /\ 1 \in 1..Len(plain) /\ plain[1] \in Byte
  BY Counted, ElementOfSeq DEF IsSector
<1>2. S \in SUBSET Nat /\ S # {} /\ \A n \in S : n <= Len(plain)
  BY <1>1, Bytes
<1>3. PICK n \in S : \A m \in S : m <= n
  <2> HIDE DEF S
  <2> QED
    BY <1>1, <1>2, Greatest
<1>4. Max(S) \in S /\ \A m \in S : Max(S) >= m
  <2>1. \A m \in S : n >= m
    BY <1>2, <1>3
  <2> HIDE DEF S
  <2> QED
    BY <1>3, <2>1 DEF Max
<1>5. Peak(plain) = Max(S)
  BY DEF Peak
<1>6. PICK v \in Byte : Peak(plain) = Frequency(plain, v)
  BY <1>4, <1>5
<1>7. Peak(plain) \in 0..Len(plain)
  BY <1>1, <1>6
<1>8. ASSUME NEW w \in Byte PROVE Frequency(plain, w) <= Peak(plain)
  <2>1. Frequency(plain, w) \in S /\ Frequency(plain, w) \in Nat /\ Max(S) \in Nat
    BY <1>1, <1>2, <1>4
  <2> HIDE DEF S
  <2> QED
    BY <1>4, <1>5, <2>1
<1>9. Frequency(plain, plain[1]) # 0 /\ Frequency(plain, plain[1]) \in Nat
  BY <1>1, Counted
<1>10. Peak(plain) # 0
  BY <1>1, <1>7, <1>8, <1>9
<1> QED
  BY <1>1, <1>6, <1>7, <1>8, <1>10

LEMMA PeaksTyped ==
  ASSUME NEW sec, IsSector(sec), NEW base \in Int
  PROVE  PeaksOf(sec, base) \in [Step -> Nat \ {0}]
<1>1. ASSUME NEW s \in Step PROVE Peak(ApplyStream(sec, base, s)) \in Nat \ {0}
  <2>1. s \in Int
    BY Bytes
  <2>2. IsSector(ApplyStream(sec, base, s)) /\ Len(ApplyStream(sec, base, s)) \in Nat
    BY <2>1, StreamSector DEF IsSector
  <2> DEFINE plain == ApplyStream(sec, base, s)
  <2> HIDE DEF plain
  <2>3. Peak(plain) \in 1..Len(plain)
    BY <2>2, PeakIs DEF plain
  <2> QED
    BY <2>2, <2>3 DEF plain
<1> QED
  BY <1>1 DEF PeaksOf

Zeros(si) == [i \in 1..SectorLen(si) |-> 0]

(* The step that is chosen for a zero sector, with the base it was written *)
(* with, reads zeros: it makes the sector constant, as the true step does,  *)
(* and its first byte is zero under every step.                             *)
LEMMA ZeroSectorRead ==
  ASSUME LoopInv, Done, NEW raw \in RawPage, NEW pn \in Nat, NEW si \in Sector,
         ZeroSector(raw, si),
         peak = PeaksOf(Stored(raw, pn, si), ApBase(pn, si, raw.bv))
  PROVE  ApplyStream(Stored(raw, pn, si), ApBase(pn, si, raw.bv), best_step) = Zeros(si)
<1> DEFINE sec == Stored(raw, pn, si)
           base == ApBase(pn, si, raw.bv)
           plain(s) == ApplyStream(sec, base, s)
<1>1. IsSector(sec) /\ Len(sec) = SectorLen(si) /\ Len(sec) \in Nat
  BY StoredSector DEF IsSector
<1>2. Progression(sec, base, raw.step) /\ base \in Byte /\ raw.step \in Byte
  BY ZeroIsProgression
<1>3. best_step \in Byte /\ \A s \in Byte : peak[s] <= peak[best_step]
  <2>1. EvidenceIsRight
    BY LoopGivesEvidence
  <2>2. best_step \in Step /\ peak \in [Step -> Nat \ {0}]
    BY DEF LoopInv, StepTypeOK
  <2>3. step = STEPS /\ STEPS > 0 /\ STEPS \in Nat
    BY StepsAssumption DEF Done
  <2>4. best_count = peak[best_step] /\ \A s \in Seen : peak[s] <= best_count
    BY <2>3 DEF LoopInv, BestSoFar
  <2>5. Seen = Step
    BY <2>3 DEF Seen, Step
  <2> QED
    BY <2>2, <2>4, <2>5, Bytes
<1>4. \A s \in Byte : peak[s] = Peak(plain(s))
  BY Bytes DEF PeaksOf
<1>5. base \in Int /\ \A s \in Byte : s \in Int
  BY <1>2, Bytes
<1> HIDE DEF sec, base
<1>6. \A s \in Byte : IsSector(plain(s)) /\ Len(plain(s)) = Len(sec)
  BY <1>1, <1>5, StreamSector
<1>7. Peak(plain(raw.step)) = Len(sec)
  <2>1. base - base = 0
    BY <1>5
  <2>2. \A i \in 1..Len(sec) : plain(raw.step)[i] = 0
    <3>1. \A i \in 1..Len(sec) : plain(raw.step)[i] = (base - base) % BYTE
      BY <1>1, <1>2, <1>5, ProgressionUndone
    <3>2. 0 % BYTE = 0
      BY ByteIsItsRest, Bytes
    <3> QED
      BY <2>1, <3>1, <3>2
  <2> HIDE DEF plain
  <2>3. Frequency(plain(raw.step), 0) = Len(sec)
    BY <1>2, <1>6, <2>2, Counted
  <2>4. Peak(plain(raw.step)) \in 1..Len(sec) /\ Frequency(plain(raw.step), 0) <= Peak(plain(raw.step))
    BY <1>2, <1>6, PeakIs, Bytes
  <2> QED
    BY <1>1, <2>3, <2>4
<1>8. Peak(plain(best_step)) = Len(sec)
  <2>1. Peak(plain(best_step)) \in 1..Len(sec)
    <3> HIDE DEF plain
    <3> QED
      BY <1>3, <1>6, PeakIs
  <2>2. Peak(plain(raw.step)) <= Peak(plain(best_step))
    BY <1>2, <1>3, <1>4
  <2> QED
    BY <1>1, <1>7, <2>1, <2>2
<1>9. PICK v \in Byte : \A i \in 1..Len(sec) : plain(best_step)[i] = v
  <2> HIDE DEF plain
  <2>1. PICK v \in Byte : Peak(plain(best_step)) = Frequency(plain(best_step), v)
    BY <1>3, <1>6, PeakIs
  <2> QED
    BY <1>3, <1>6, <1>8, <2>1, Counted
<1>10. v = 0
  <2>1. 1 \in 1..Len(sec) /\ plain(best_step)[1] = (sec[1] - base) % BYTE
    BY <1>1, <1>3, <1>5, FirstByte
  <2>2. sec[1] = base
    <3>1. sec[1] = (base + (1 - 1) * raw.step) % BYTE
      BY <1>2, <2>1 DEF Progression
    <3>2. raw.step \in Int
      BY <1>2, <1>5
    <3>3. (1 - 1) * raw.step = 0
      BY <3>2
    <3>4. base + (1 - 1) * raw.step = base
      BY <1>5, <3>3
    <3> QED
      BY <1>2, <3>1, <3>4, ByteIsItsRest
  <2>3. base - base = 0
    BY <1>5
  <2> QED
    BY <1>9, <2>1, <2>2, <2>3, ByteIsItsRest, Bytes
<1>11. plain(best_step) = [i \in 1..Len(sec) |-> plain(best_step)[i]]
  BY DEF ApplyStream
<1>12. plain(best_step) = [i \in 1..Len(sec) |-> 0]
  <2> HIDE DEF plain
  <2> QED
    BY <1>9, <1>10, <1>11
<1> QED
  BY <1>1, <1>12 DEF Zeros, sec, base

---------------------------------------------------------------------------
(* What is learned *)

(* A block's count for a byte is zero exactly while none of its pages has   *)
(* voted for it.                                                            *)
VotesInv ==
  /\ votes \in [Blocks -> [Byte -> Nat]]
  /\ \A bi \in Blocks, bv \in Byte :
       votes[bi][bv] = 0 <=>
         \A pn \in Pages : pn < page /\ BlockOf(pn) = bi => VotersFor(PageAt(pn), pn, bv) = {}

(* When all pages have voted, each block that had a vote has one of the     *)
(* bytes most voted for.                                                    *)
LearnedInv ==
  page > Len(store) =>
    /\ bv_map \in [Voted -> Byte]
    /\ \A bi \in Voted : bv_map[bi] \in AnyMax(votes[bi])

ModelInv ==
  IsStore /\ page \in 0..(Len(store) + 1) /\ bv0 \in Byte /\ VotesInv /\ LearnedInv

LEMMA DivMonotone ==
  ASSUME NEW n \in Nat \ {0}, NEW a \in Nat, NEW b \in Nat, a <= b
  PROVE  a \div n <= b \div n /\ a \div n \in Nat
<1> DEFINE q == a \div n
           r == a % n
           p == b \div n
           s == b % n
<1>1. /\ q \in Int /\ p \in Int /\ r \in 0..(n - 1) /\ s \in 0..(n - 1)
      /\ a = n * q + r /\ b = n * p + s
  OBVIOUS
<1>2. q \in Nat
  OBVIOUS
<1> HIDE DEF q, r, p, s
<1>3. CASE q >= p + 1
  <2>1. n * q >= n * (p + 1)
    BY <1>1, <1>3
  <2>2. n * (p + 1) = n * p + n
    BY <1>1
  <2> DEFINE x == n * q
             y == n * p
  <2>3. x \in Int /\ y \in Int
    BY <1>1
  <2>4. x >= y + n /\ a = x + r /\ b = y + s
    BY <1>1, <2>1, <2>2
  <2> HIDE DEF x, y
  <2> QED
    BY <1>1, <2>3, <2>4
<1>4. CASE ~(q >= p + 1)
  BY <1>1, <1>4
<1> QED
  BY <1>2, <1>3, <1>4 DEF q, p

LEMMA BlocksOfPages ==
  ASSUME IsStore, NEW pn \in Pages
  PROVE  BlockOf(pn) \in Blocks
<1>1. pn \in Nat /\ Len(store) - 1 \in Nat /\ pn <= Len(store) - 1
  BY PagesOfStore
<1>2. pn \div BLOCK <= (Len(store) - 1) \div BLOCK /\ pn \div BLOCK \in Nat
  BY <1>1, DivMonotone, ApAssumption
<1>3. (Len(store) - 1) \div BLOCK \in Int
  BY <1>1, ApAssumption
<1> QED
  BY <1>2, <1>3 DEF BlockOf, Blocks

LEMMA ModelStarts == Init => ModelInv
<1> SUFFICES ASSUME Init PROVE ModelInv
  OBVIOUS
<1>1. IsStore
  BY StoreAssumption DEF Init, IsStore
<1>2. Len(store) \in Nat \ {0} /\ \A pn \in Pages : pn \in Nat
  BY <1>1, PagesOfStore
<1>3. page = 0 /\ bv0 = 0 /\ votes = [bi \in Blocks |-> NoVotes]
  BY DEF Init
<1>4. NoVotes \in [Byte -> Nat] /\ \A bv \in Byte : NoVotes[bv] = 0
  BY DEF NoVotes
<1>5. votes \in [Blocks -> [Byte -> Nat]] /\ \A bi \in Blocks, bv \in Byte : votes[bi][bv] = 0
  BY <1>3, <1>4
<1>6. VotesInv
  BY <1>2, <1>3, <1>5 DEF VotesInv
<1>7. LearnedInv
  BY <1>2, <1>3 DEF LearnedInv
<1> QED
  BY <1>1, <1>2, <1>3, <1>6, <1>7, Bytes DEF ModelInv

LEMMA ModelKept == ModelInv /\ UNCHANGED model => ModelInv'
BY DEF ModelInv, model, IsStore, VotesInv, LearnedInv, Blocks, Pages, PageAt, Voted

LEMMA LearnStep ==
  ASSUME ModelInv, Learn
  PROVE  ModelInv'
<1> DEFINE raw == PageAt(page)
           at == BlockOf(page)
           more == VotesOf(raw, page)
<1>1. /\ IsStore /\ page \in Nat /\ page < Len(store) /\ page' = page + 1
      /\ Len(store) \in Nat /\ UNCHANGED <<store, bv_map, bv0>>
      /\ votes' = [votes EXCEPT ![at] = [bv \in Byte |-> votes[at][bv] + more[bv]]]
  BY PagesOfStore DEF ModelInv, Learn
<1>2. page \in Pages /\ raw \in RawPage /\ at \in Blocks
  <2>1. page \in Pages
    BY <1>1 DEF Pages
  <2> QED
    BY <1>1, <2>1, PagesOfStore, BlocksOfPages
<1>3. /\ more \in [Byte -> Nat]
      /\ \A bv \in Byte : more[bv] = 0 <=> VotersFor(raw, page, bv) = {}
  BY <1>1, <1>2, VoteCounts
<1>4. votes \in [Blocks -> [Byte -> Nat]]
  BY DEF ModelInv, VotesInv
<1> HIDE DEF more
<1>5. votes' \in [Blocks -> [Byte -> Nat]]
  <2>1. votes[at] \in [Byte -> Nat]
    BY <1>2, <1>4
  <2>2. [bv \in Byte |-> votes[at][bv] + more[bv]] \in [Byte -> Nat]
    BY <1>3, <2>1
  <2> QED
    BY <1>1, <1>4, <2>2
<1>6. ASSUME NEW bi \in Blocks, NEW bv \in Byte
      PROVE  votes'[bi][bv] = 0 <=>
               \A pn \in Pages : pn < page + 1 /\ BlockOf(pn) = bi =>
                                   VotersFor(PageAt(pn), pn, bv) = {}
  <2>1. votes[bi][bv] = 0 <=>
          \A pn \in Pages : pn < page /\ BlockOf(pn) = bi => VotersFor(PageAt(pn), pn, bv) = {}
    BY DEF ModelInv, VotesInv
  <2>2. \A pn \in Pages : pn < page + 1 <=> pn < page \/ pn = page
    BY <1>1, PagesOfStore
  <2>3. CASE bi = at
    <3>1. votes'[bi][bv] = votes[bi][bv] + more[bv]
      BY <1>1, <1>4, <2>3
    <3>2. votes[bi][bv] \in Nat /\ more[bv] \in Nat
      BY <1>3, <1>4
    <3>3. votes'[bi][bv] = 0 <=> votes[bi][bv] = 0 /\ more[bv] = 0
      BY <3>1, <3>2
    <3>4. more[bv] = 0 <=> VotersFor(PageAt(page), page, bv) = {}
      BY <1>3
    <3>5. BlockOf(page) = bi
      BY <2>3
    <3> HIDE DEF raw, at
    <3> QED
      BY <1>2, <2>1, <2>2, <3>3, <3>4, <3>5
  <2>4. CASE bi # at
    <3>1. votes'[bi] = votes[bi]
      BY <1>1, <1>4, <2>4
    <3>2. BlockOf(page) # bi
      BY <2>4
    <3> QED
      BY <2>1, <2>2, <3>1, <3>2
  <2> QED
    BY <2>3, <2>4
<1>7. Blocks' = Blocks /\ Pages' = Pages /\ IsStore' /\ \A pn : PageAt(pn)' = PageAt(pn)
  BY <1>1 DEF Blocks, Pages, PageAt, IsStore
<1>8. VotesInv'
  BY <1>1, <1>5, <1>6, <1>7 DEF VotesInv
<1>9. LearnedInv'
  BY <1>1 DEF LearnedInv
<1> QED
  BY <1>1, <1>7, <1>8, <1>9 DEF ModelInv

LEMMA LearnedStep ==
  ASSUME ModelInv, Learned
  PROVE  ModelInv'
<1>1. /\ IsStore /\ page = Len(store) /\ page' = page + 1 /\ Len(store) \in Nat
      /\ UNCHANGED <<store, votes>>
      /\ bv_map' \in [Voted -> Byte]
      /\ \A bi \in Voted : bv_map'[bi] \in AnyMax(votes[bi])
  BY PagesOfStore DEF ModelInv, Learned
<1>2. bv0' \in Byte
  <2>1. 0 \in Voted => bv0' = bv_map'[0]
    BY DEF Learned
  <2>2. 0 \notin Voted /\ Voted # {} => \E bi \in Voted : bv0' = bv_map'[bi]
    BY DEF Learned
  <2>3. ~(0 \in Voted) /\ ~(0 \notin Voted /\ Voted # {}) => bv0' = 0
    BY DEF Learned
  <2> QED
    BY <1>1, <2>1, <2>2, <2>3, Bytes
<1>3. /\ Blocks' = Blocks /\ Pages' = Pages /\ IsStore' /\ Voted' = Voted
      /\ \A pn : PageAt(pn)' = PageAt(pn)
  BY <1>1 DEF Blocks, Pages, PageAt, IsStore, Voted
<1>4. VotesInv'
  <2>1. \A pn \in Pages : pn < page /\ pn < page + 1
    BY <1>1, PagesOfStore
  <2>2. \A bi \in Blocks, bv \in Byte :
          votes[bi][bv] = 0 <=>
            \A pn \in Pages : pn < page + 1 /\ BlockOf(pn) = bi =>
                                VotersFor(PageAt(pn), pn, bv) = {}
    BY <2>1 DEF ModelInv, VotesInv
  <2>3. votes' \in [Blocks -> [Byte -> Nat]]
    BY <1>1 DEF ModelInv, VotesInv
  <2> QED
    BY <1>1, <1>3, <2>2, <2>3 DEF VotesInv
<1>5. LearnedInv'
  BY <1>1, <1>3 DEF LearnedInv
<1> QED
  BY <1>1, <1>2, <1>3, <1>4, <1>5 DEF ModelInv

(* The other steps leave the model alone. *)
LEMMA ModelStep ==
  ASSUME ModelInv, [Next]_vars
  PROVE  ModelInv'
<1>1. CASE Learn
  BY <1>1, LearnStep
<1>2. CASE Learned
  BY <1>2, LearnedStep
<1>3. CASE UNCHANGED model
  BY <1>3, ModelKept
<1> QED
  BY <1>1, <1>2, <1>3
     DEF Next, vars, Recover, Apply, Deobfuscate, DeobfuscateWithStore, DeobfuscateWithBv,
         RecoverBvForBlock

THEOREM ModelInvariant == Spec => []ModelInv
BY ModelStarts, ModelStep, PTL DEF Spec

(* learn finds the byte of a block whose evidence agrees: in every store,   *)
(* whatever the other pages hold and in whatever order the maps are read.   *)
THEOREM LearnsEveryBlock == Spec => []LearnsTheBlock
<1>1. ModelInv => LearnsTheBlock
  <2> SUFFICES ASSUME ModelInv, Ready, NEW bi \in Blocks, NEW bv \in Byte,
                      Calibrating(bi) # {},
                      \A pn \in Calibrating(bi) :
                        /\ PageAt(pn).bv = bv
                        /\ \A si \in Sector :
                             OnProgression(PageAt(pn), pn, si) => ZeroSector(PageAt(pn), si)
               PROVE  bi \in DOMAIN bv_map /\ bv_map[bi] = bv
    BY DEF LearnsTheBlock
  <2>1. /\ IsStore /\ page > Len(store) /\ \A pn \in Pages : pn < page
        /\ \A pn \in Pages : pn \in Nat /\ PageAt(pn) \in RawPage
    BY PagesOfStore DEF ModelInv, Ready
  <2>2. \A pn \in Pages, si \in Sector :
          si \in VotingSectors(PageAt(pn), pn) <=>
            FillType(PageAt(pn)) /\ OnProgression(PageAt(pn), pn, si)
    BY <2>1, OnProgressionIsPure, FillTypes DEF VotingSectors
  <2>3. ASSUME NEW pn \in Pages, BlockOf(pn) = bi, NEW si \in VotingSectors(PageAt(pn), pn)
        PROVE  pn \in Calibrating(bi) /\ Vote(PageAt(pn), pn, si) = bv
    <3>1. si \in Sector /\ FillType(PageAt(pn)) /\ OnProgression(PageAt(pn), pn, si)
      BY <2>2 DEF VotingSectors
    <3>2. pn \in Calibrating(bi)
      BY <2>3, <3>1 DEF Calibrating
    <3> QED
      BY <2>1, <3>1, <3>2, ZeroVote
  <2>4. ASSUME NEW w \in Byte, w # bv PROVE votes[bi][w] = 0
    <3>1. \A pn \in Pages : BlockOf(pn) = bi => VotersFor(PageAt(pn), pn, w) = {}
      BY <2>3, <2>4 DEF VotersFor
    <3> QED
      BY <3>1 DEF ModelInv, VotesInv
  <2>5. votes[bi][bv] # 0
    <3>1. PICK pn \in Calibrating(bi) : TRUE
      OBVIOUS
    <3>2. PICK si \in Sector : OnProgression(PageAt(pn), pn, si)
      BY <3>1 DEF Calibrating
    <3>3. pn \in Pages /\ BlockOf(pn) = bi /\ si \in VotingSectors(PageAt(pn), pn)
      BY <2>2, <3>1, <3>2 DEF Calibrating
    <3>4. si \in VotersFor(PageAt(pn), pn, bv)
      BY <2>3, <3>3 DEF VotersFor
    <3>5. pn < page
      BY <2>1, <3>3
    <3> QED
      BY <3>3, <3>4, <3>5 DEF ModelInv, VotesInv
  <2>6. votes[bi] \in [Byte -> Nat]
    BY DEF ModelInv, VotesInv
  <2>7. bi \in Voted
    BY <2>5 DEF Voted, NoVotes
  <2>8. AnyMax(votes[bi]) = {bv}
    <3> DEFINE f == votes[bi]
    <3> HIDE DEF f
    <3>1. f \in [Byte -> Nat] /\ f[bv] # 0 /\ \A w \in Byte : w # bv => f[w] = 0
      BY <2>4, <2>5, <2>6 DEF f
    <3>2. \A w \in Byte : w # bv => f[w] < f[bv]
      BY <3>1
    <3>3. AnyMax(f) = {bv}
      BY <3>1, <3>2, OnlyMaximum
    <3> QED
      BY <3>3 DEF f
  <2> QED
    BY <2>1, <2>7, <2>8 DEF ModelInv, LearnedInv
<1> QED
  BY <1>1, ModelInvariant, PTL

---------------------------------------------------------------------------
(* What a call answers *)

(* A call looks at a model that is learned, and its bv is found as the call *)
(* says.                                                                    *)
AnswerType ==
  [pn : Nat, raw : RawPage, how : {"none", "block", "page", "recover"}, bv : Byte,
   plain : Seq(Seq(Byte))]

AnswerInv ==
  /\ answer \in AnswerType
  /\ answer = Nothing \/ page > Len(store)
  /\ answer.how = "page" => answer.bv \in PageBv(answer.raw, answer.pn)
  /\ answer.how = "recover" => answer.bv = BlockBv(answer.pn)

(* Sector by sector: the peaks at hand are those of the next sector, and    *)
(* the zero sectors before it were read as zeros if the bv is right.        *)
SectorsInv ==
  answer.how \in {"block", "page"} =>
    /\ Len(answer.plain) <= SECTORS
    /\ Deobfuscating =>
         peak = PeaksOf(Stored(answer.raw, answer.pn, Len(answer.plain)),
                        BaseIn(Len(answer.plain)))
    /\ answer.bv = answer.raw.bv =>
         \A si \in 0..(Len(answer.plain) - 1) :
           ZeroSector(answer.raw, si) => answer.plain[si + 1] = Zeros(si)

ApInv == ModelInv /\ AnswerInv /\ LoopInv /\ SectorsInv

LEMMA NothingIs ==
  /\ Nothing.how = "none"
  /\ IsStore => Nothing \in AnswerType
<1>1. Nothing.how = "none"
  BY DEF Nothing
<1>2. ASSUME IsStore PROVE Nothing \in AnswerType
  <2>1. PageAt(0) \in RawPage
    <3>1. 0 \in Pages
      BY <1>2, PagesOfStore
    <3> QED
      BY <1>2, <3>1, PagesOfStore
  <2>2. <<>> \in Seq(Seq(Byte))
    BY EmptySeq
  <2> QED
    BY <2>1, <2>2, Bytes DEF Nothing, AnswerType
<1> QED
  BY <1>1, <1>2

LEMMA ImagesTyped ==
  ASSUME IsStore, NEW image \in Images
  PROVE  image.pn \in Nat /\ image.raw \in RawPage
<1>1. CASE image \in Newer
  BY <1>1, NewerAssumption
<1>2. CASE image \in {[pn |-> pn, raw |-> PageAt(pn)] : pn \in Pages}
  BY <1>2, PagesOfStore
<1> QED
  BY <1>1, <1>2 DEF Images

LEMMA PageBvIsByte ==
  ASSUME ModelInv, NEW raw \in RawPage, NEW pn \in Nat
  PROVE  PageBv(raw, pn) \subseteq Byte
<1>1. AnyMax(VotesOf(raw, pn)) \subseteq Byte
  BY VoteCounts DEF AnyMax
<1>2. RecoverBvForPage(pn) \in Byte
  <2>1. CASE pn \in Pages
    <3>1. {pn} \in SUBSET Pages /\ IsStore
      BY <2>1 DEF ModelInv
    <3>2. BestScore({pn}) \in Byte
      BY <3>1, BestIsByte
    <3> QED
      BY <2>1, <3>2 DEF RecoverBvForPage
  <2>2. CASE pn \notin Pages
    BY <2>2 DEF RecoverBvForPage, ModelInv
  <2> QED
    BY <2>1, <2>2
<1> QED
  BY <1>1, <1>2 DEF PageBv

LEMMA BvAtIsByte ==
  ASSUME ModelInv, Ready, NEW bi
  PROVE  BvAt(bi) \in Byte
BY DEF ModelInv, LearnedInv, Ready, BvAt

(* A call that deobfuscates begins with the peaks of the first sector. *)
LEMMA CallBegins ==
  ASSUME ModelInv, Ready, NEW raw \in RawPage, NEW pn \in Nat, NEW how \in {"block", "page"},
         NEW bv \in Byte, how = "page" => bv \in PageBv(raw, pn),
         DeobfuscateWithBv(raw, pn, how, bv)
  PROVE  AnswerInv' /\ LoopInv' /\ SectorsInv'
<1>1. /\ answer' = [pn |-> pn, raw |-> raw, how |-> how, bv |-> bv, plain |-> <<>>]
      /\ UNCHANGED model /\ page > Len(store)
      /\ Begin(PeaksOf(Stored(raw, pn, 0), ApBase(pn, 0, bv)))
  BY DEF DeobfuscateWithBv, Ready
<1>2. /\ answer'.pn = pn /\ answer'.raw = raw /\ answer'.how = how /\ answer'.bv = bv
      /\ answer'.plain = <<>> /\ Len(answer'.plain) = 0 /\ answer' \in AnswerType
  <2>1. <<>> \in Seq(Seq(Byte))
    BY EmptySeq
  <2> QED
    BY <1>1, <2>1 DEF AnswerType
<1>3. 0 \in Sector /\ SECTORS > 0 /\ SECTORS \in Nat
  BY ApAssumption DEF Sector
<1>4. LoopInv'
  <2>1. ApBase(pn, 0, bv) \in Int /\ IsSector(Stored(raw, pn, 0))
    <3>1. ApBase(pn, 0, bv) \in Byte
      BY <1>3, BaseIsByte
    <3>2. IsSector(Stored(raw, pn, 0))
      BY <1>3, StoredSector
    <3> QED
      BY <3>1, <3>2, Bytes
  <2>2. PeaksOf(Stored(raw, pn, 0), ApBase(pn, 0, bv)) \in [Step -> Nat \ {0}]
    BY <2>1, PeaksTyped
  <2> QED
    BY <1>1, <2>2, LoopBegins
<1>5. AnswerInv'
  <2>1. PageBv(raw, pn)' = PageBv(raw, pn)
    BY <1>1 DEF PageBv, VotingSectors, RecoverBvForPage, Pages, BestScore, Scores, Score,
                SectorScore, PageAt, model
  <2>2. page' > Len(store')
    BY <1>1 DEF model
  <2>3. how = "page" => (answer.bv \in PageBv(answer.raw, answer.pn))'
    BY <1>2, <2>1
  <2> QED
    BY <1>2, <2>2, <2>3 DEF AnswerInv
<1>6. SectorsInv'
  <2>1. peak' = PeaksOf(Stored(raw, pn, 0), ApBase(pn, 0, bv))
    BY <1>1 DEF Begin
  <2>2. BaseIn(0)' = ApBase(pn, 0, bv)
    BY <1>2 DEF BaseIn
  <2>3. 0..(Len(answer'.plain) - 1) = {}
    BY <1>2
  <2> QED
    BY <1>2, <1>3, <2>1, <2>2, <2>3 DEF SectorsInv
<1> QED
  BY <1>4, <1>5, <1>6

(* One more sector is read. *)
LEMMA ApplyStep ==
  ASSUME ApInv, Apply
  PROVE  AnswerInv' /\ LoopInv' /\ SectorsInv'
<1> DEFINE si == Len(answer.plain)
           raw == answer.raw
           pn == answer.pn
<1>1. /\ answer \in AnswerType /\ answer.how \in {"block", "page"} /\ UNCHANGED model
      /\ si < SECTORS /\ si \in Nat /\ SECTORS \in Nat /\ Done /\ LoopInv
      /\ raw \in RawPage /\ pn \in Nat /\ answer.bv \in Byte
      /\ answer.plain \in Seq(Seq(Byte))
  BY ApAssumption, LenProperties
     DEF ApInv, AnswerInv, AnswerType, Apply, Deobfuscating
<1>2. si \in Sector
  BY <1>1 DEF Sector
<1>3. BaseIn(si) \in Int /\ best_step \in Int
  <2>1. BaseIn(si) \in Byte
    BY <1>1, <1>2, BaseIsByte DEF BaseIn
  <2>2. best_step \in Byte
    BY <1>1, Bytes DEF LoopInv, StepTypeOK
  <2> QED
    BY <2>1, <2>2, Bytes
<1>4. PlainOf(si) \in Seq(Byte)
  BY <1>1, <1>2, <1>3, StoredSector, StreamSector DEF PlainOf, IsSector
<1>5. /\ answer' = [answer EXCEPT !.plain = Append(answer.plain, PlainOf(si))]
      /\ IF si + 1 < SECTORS
           THEN Begin(PeaksOf(Stored(raw, pn, si + 1), BaseIn(si + 1)))
           ELSE UNCHANGED stepVars
  BY DEF Apply
<1> HIDE DEF si
<1>6. /\ answer'.pn = pn /\ answer'.raw = raw /\ answer'.how = answer.how
      /\ answer'.bv = answer.bv /\ answer'.plain = Append(answer.plain, PlainOf(si))
      /\ answer' \in AnswerType
  <2>1. Append(answer.plain, PlainOf(si)) \in Seq(Seq(Byte))
    BY <1>1, <1>4, AppendProperties
  <2> QED
    BY <1>1, <1>5, <2>1 DEF AnswerType
<1>7. /\ Len(answer'.plain) = si + 1 /\ answer'.plain[si + 1] = PlainOf(si)
      /\ \A k \in 0..(si - 1) : answer'.plain[k + 1] = answer.plain[k + 1]
  <2>1. Len(Append(answer.plain, PlainOf(si))) = si + 1
    BY <1>1, <1>4, AppendProperties DEF si
  <2>2. Append(answer.plain, PlainOf(si))[si + 1] = PlainOf(si)
    BY <1>1, <1>4, AppendProperties DEF si
  <2>3. \A j \in 1..si : Append(answer.plain, PlainOf(si))[j] = answer.plain[j]
    BY <1>1, <1>4, AppendProperties DEF si
  <2>4. \A k \in 0..(si - 1) : k + 1 \in 1..si
    BY <1>1
  <2> QED
    BY <1>6, <2>1, <2>2, <2>3, <2>4
<1>8. AnswerInv'
  <2>1. \A r, p : PageBv(r, p)' = PageBv(r, p)
    BY <1>1 DEF PageBv, VotingSectors, RecoverBvForPage, Pages, BestScore, Scores, Score,
                SectorScore, PageAt, model
  <2>2. page' > Len(store')
    BY <1>1, NothingIs DEF ApInv, AnswerInv, model
  <2>3. answer.how = "page" => (answer.bv \in PageBv(answer.raw, answer.pn))'
    BY <1>6, <2>1 DEF ApInv, AnswerInv
  <2> QED
    BY <1>1, <1>6, <2>2, <2>3 DEF AnswerInv
<1>9. LoopInv'
  <2>1. CASE si + 1 < SECTORS
    <3>1. si + 1 \in Sector
      BY <1>1, <2>1 DEF Sector
    <3>2. BaseIn(si + 1) \in Int
      BY <1>1, <3>1, BaseIsByte, Bytes DEF BaseIn
    <3>3. IsSector(Stored(raw, pn, si + 1))
      BY <1>1, <3>1, StoredSector
    <3>4. PeaksOf(Stored(raw, pn, si + 1), BaseIn(si + 1)) \in [Step -> Nat \ {0}]
      BY <3>2, <3>3, PeaksTyped
    <3> QED
      BY <1>5, <2>1, <3>4, LoopBegins
  <2>2. CASE ~(si + 1 < SECTORS)
    BY <1>1, <1>5, <2>2, LoopStep
  <2> QED
    BY <2>1, <2>2
<1>10. SectorsInv'
  <2>1. \A k : BaseIn(k)' = BaseIn(k)
    BY <1>6 DEF BaseIn
  <2>2. si + 1 < SECTORS => peak' = PeaksOf(Stored(raw, pn, si + 1), BaseIn(si + 1))
    BY <1>5 DEF Begin
  <2>3. si + 1 <= SECTORS
    BY <1>1
  <2>4. ASSUME answer.bv = raw.bv, NEW k \in 0..si, ZeroSector(raw, k)
        PROVE  answer'.plain[k + 1] = Zeros(k)
    <3>1. CASE k = si
      <4>1. peak = PeaksOf(Stored(raw, pn, si), BaseIn(si))
        BY <1>1 DEF ApInv, SectorsInv, Apply, si
      <4>2. BaseIn(si) = ApBase(pn, si, raw.bv)
        BY <2>4 DEF BaseIn
      <4>3. PlainOf(si) = Zeros(si)
        BY <1>1, <1>2, <2>4, <3>1, <4>1, <4>2, ZeroSectorRead DEF PlainOf
      <4> QED
        BY <1>7, <3>1, <4>3
    <3>2. CASE k # si
      <4>1. k \in 0..(si - 1)
        BY <1>1, <3>2
      <4>2. answer.plain[k + 1] = Zeros(k)
        BY <1>1, <2>4, <4>1 DEF ApInv, SectorsInv, si
      <4> QED
        BY <1>7, <4>1, <4>2
    <3> QED
      BY <3>1, <3>2
  <2>5. 0..((si + 1) - 1) = 0..si
    BY <1>1
  <2>6. (BaseIn(Len(answer.plain)))' = BaseIn(si + 1)
    BY <1>7, <2>1
  <2>7. (Deobfuscating => peak = PeaksOf(Stored(answer.raw, answer.pn, Len(answer.plain)),
                                         BaseIn(Len(answer.plain))))'
    BY <1>6, <1>7, <2>2, <2>6 DEF Deobfuscating
  <2>8. (Len(answer.plain) <= SECTORS)'
    BY <1>7, <2>3
  <2>9. (answer.bv = answer.raw.bv =>
           \A k \in 0..(Len(answer.plain) - 1) :
             ZeroSector(answer.raw, k) => answer.plain[k + 1] = Zeros(k))'
    <3>1. 0..(Len(answer'.plain) - 1) = 0..si
      BY <1>7, <2>5
    <3> QED
      BY <1>6, <2>4, <3>1
  <2> QED
    BY <2>7, <2>8, <2>9 DEF SectorsInv
<1> QED
  BY <1>8, <1>9, <1>10

(* The model is learned before the first call. *)
LEMMA NoAnswerYet ==
  ASSUME ApInv, Learn \/ Learned
  PROVE  AnswerInv' /\ LoopInv' /\ SectorsInv'
<1>1. /\ UNCHANGED <<store, answer, stepVars>> /\ page <= Len(store)
      /\ Len(store) \in Nat /\ page \in Nat
  BY PagesOfStore DEF Learn, Learned, ApInv, ModelInv
<1>2. answer = Nothing
  BY <1>1 DEF ApInv, AnswerInv
<1>3. Nothing' = Nothing
  BY <1>1 DEF Nothing, PageAt
<1>4. answer'.how = "none" /\ answer' = Nothing' /\ answer' \in AnswerType
  BY <1>1, <1>2, <1>3, NothingIs DEF ApInv, AnswerInv
<1>5. LoopInv'
  BY <1>1, LoopStep DEF ApInv
<1> QED
  BY <1>4, <1>5 DEF AnswerInv, SectorsInv

LEMMA SampledPages ==
  ASSUME ModelInv, NEW bi \in Nat
  PROVE  BlockBv(bi) \in Byte
<1>1. Sampled(bi) \in SUBSET Pages /\ IsStore /\ bv0 \in Byte
  BY DEF Sampled, ModelInv
<1>2. BestScore(Sampled(bi)) \in Byte
  BY <1>1, BestIsByte
<1> QED
  BY <1>1, <1>2 DEF BlockBv

LEMMA BlockCall ==
  ASSUME ApInv, NEW bi \in Nat, RecoverBvForBlock(bi)
  PROVE  AnswerInv' /\ LoopInv' /\ SectorsInv'
<1>1. /\ answer' = [Nothing EXCEPT !.pn = bi, !.how = "recover", !.bv = BlockBv(bi)]
      /\ UNCHANGED <<model, stepVars>> /\ page > Len(store) /\ ModelInv
  BY DEF RecoverBvForBlock, Ready, ApInv
<1>2. BlockBv(bi) \in Byte /\ Nothing \in AnswerType
  BY <1>1, SampledPages, NothingIs DEF ModelInv
<1>3. /\ answer'.pn = bi /\ answer'.how = "recover" /\ answer'.bv = BlockBv(bi)
      /\ answer' \in AnswerType
  BY <1>1, <1>2 DEF AnswerType
<1>4. BlockBv(bi)' = BlockBv(bi)
  BY <1>1 DEF BlockBv, Sampled, Pages, BestScore, Scores, Score, SectorScore, PageAt, model
<1>5. (answer.bv = BlockBv(answer.pn))'
  BY <1>3, <1>4
<1>6. page' > Len(store')
  BY <1>1 DEF model
<1>7. LoopInv'
  BY <1>1, LoopStep DEF ApInv
<1> QED
  BY <1>3, <1>5, <1>6, <1>7 DEF AnswerInv, SectorsInv

LEMMA SearchStep ==
  ASSUME ApInv, Recover \/ UNCHANGED vars
  PROVE  AnswerInv' /\ LoopInv' /\ SectorsInv'
<1>1. UNCHANGED <<model, answer, peak>> /\ (LookAt \/ UNCHANGED stepVars)
  BY DEF Recover, vars, LookAt, NewBest, NotBetter, stepVars
<1>2. LoopInv'
  BY <1>1, LoopStep DEF ApInv
<1>3. /\ \A r, p : PageBv(r, p)' = PageBv(r, p)
      /\ \A bi : BlockBv(bi)' = BlockBv(bi)
      /\ Nothing' = Nothing /\ page' = page /\ store' = store
  BY <1>1 DEF PageBv, VotingSectors, RecoverBvForPage, Pages, BestScore, Scores, Score,
              SectorScore, PageAt, model, BlockBv, Sampled, Nothing
<1>4. AnswerInv'
  <2>1. (answer.how = "page" => answer.bv \in PageBv(answer.raw, answer.pn))'
    BY <1>1, <1>3 DEF ApInv, AnswerInv
  <2>2. (answer.how = "recover" => answer.bv = BlockBv(answer.pn))'
    BY <1>1, <1>3 DEF ApInv, AnswerInv
  <2> QED
    BY <1>1, <1>3, <2>1, <2>2 DEF ApInv, AnswerInv
<1>5. SectorsInv'
  BY <1>1 DEF ApInv, SectorsInv, Deobfuscating, BaseIn
<1> QED
  BY <1>2, <1>4, <1>5

LEMMA ApStarts == Init => ApInv
<1> SUFFICES ASSUME Init PROVE ApInv
  OBVIOUS
<1>1. ModelInv
  BY ModelStarts
<1>2. answer = Nothing /\ StepInit
  BY DEF Init
<1>3. answer.how = "none" /\ answer \in AnswerType
  BY <1>1, <1>2, NothingIs DEF ModelInv
<1> QED
  BY <1>1, <1>2, <1>3, LoopStarts DEF ApInv, AnswerInv, SectorsInv

LEMMA ApStep ==
  ASSUME ApInv, [Next]_vars
  PROVE  ApInv'
<1>1. ModelInv'
  BY ModelStep DEF ApInv
<1>2. CASE Learn \/ Learned
  BY <1>1, <1>2, NoAnswerYet DEF ApInv
<1>3. CASE Recover \/ UNCHANGED vars
  BY <1>1, <1>3, SearchStep DEF ApInv
<1>4. CASE Apply
  BY <1>1, <1>4, ApplyStep DEF ApInv
<1>5. ASSUME NEW image \in Images, Deobfuscate(image.raw, image.pn)
      PROVE  ApInv'
  <2>1. /\ image.pn \in Nat /\ image.raw \in RawPage /\ Ready /\ ModelInv
    BY <1>5, ImagesTyped DEF ApInv, ModelInv, Deobfuscate
  <2>2. BvAt(BlockOf(image.pn)) \in Byte
    BY <2>1, BvAtIsByte
  <2>3. DeobfuscateWithBv(image.raw, image.pn, "block", BvAt(BlockOf(image.pn)))
    BY <1>5 DEF Deobfuscate
  <2> QED
    BY <1>1, <2>1, <2>2, <2>3, CallBegins DEF ApInv
<1>6. ASSUME NEW image \in Images, DeobfuscateWithStore(image.raw, image.pn)
      PROVE  ApInv'
  <2>1. /\ image.pn \in Nat /\ image.raw \in RawPage /\ Ready /\ ModelInv
    BY <1>6, ImagesTyped DEF ApInv, ModelInv, DeobfuscateWithStore
  <2>2. PICK bv \in PageBv(image.raw, image.pn) :
          DeobfuscateWithBv(image.raw, image.pn, "page", bv)
    BY <1>6 DEF DeobfuscateWithStore
  <2>3. bv \in Byte
    BY <2>1, PageBvIsByte
  <2> QED
    BY <1>1, <2>1, <2>2, <2>3, CallBegins DEF ApInv
<1>7. ASSUME NEW bi \in 0..(BlockOf(Len(store) - 1) + 1), RecoverBvForBlock(bi)
      PROVE  ApInv'
  <2>1. bi \in Nat
    OBVIOUS
  <2> QED
    BY <1>1, <1>7, <2>1, BlockCall DEF ApInv
<1> QED
  BY <1>2, <1>3, <1>4, <1>5, <1>6, <1>7 DEF Next

THEOREM ApInvariant == Spec => []ApInv
BY ApStarts, ApStep, PTL DEF Spec

(* Whatever the page, its number and the way its bv was found: if that is   *)
(* the bv it was written with, its zero sectors are read as zeros.          *)
THEOREM ReadsZeros == Spec => []RightBvReadsZeros
<1>1. ApInv => RightBvReadsZeros
  BY DEF ApInv, SectorsInv, RightBvReadsZeros, Zeros
<1> QED
  BY <1>1, ApInvariant, PTL

(* A page of fill is decoded by its own evidence, in every store and from   *)
(* every image of the page; a page without any by the store's image of it,  *)
(* or by the fallback beyond the store.                                     *)
THEOREM DependsOnItsPage == Spec => []StoreNeedsNoOtherPage
<1>1. ApInv => StoreNeedsNoOtherPage
  <2> SUFFICES ASSUME ApInv, answer.how = "page", ZeroPage(answer.raw)
               PROVE  LET inStore == answer.pn \in Pages
                          same == inStore /\ PageAt(answer.pn).bv = answer.raw.bv
                                  /\ ZeroPage(PageAt(answer.pn))
                      IN  /\ FillType(answer.raw) \/ same => answer.bv = answer.raw.bv
                          /\ ~FillType(answer.raw) /\ ~inStore => answer.bv = bv0
    BY DEF StoreNeedsNoOtherPage
  <2>1. /\ answer.raw \in RawPage /\ answer.pn \in Nat /\ IsStore /\ answer.raw.bv \in Byte
        /\ answer.bv \in PageBv(answer.raw, answer.pn)
    BY DEF ApInv, AnswerInv, AnswerType, ModelInv, RawPage
  <2>2. CASE FillType(answer.raw)
    BY <2>1, <2>2, FillVotes DEF PageBv
  <2>3. CASE ~FillType(answer.raw)
    <3>1. answer.bv = RecoverBvForPage(answer.pn)
      BY <2>1, <2>3, NoFillNoVote DEF PageBv
    <3>2. ASSUME answer.pn \in Pages, PageAt(answer.pn).bv = answer.raw.bv,
                 ZeroPage(PageAt(answer.pn))
          PROVE  answer.bv = answer.raw.bv
      <4>1. {answer.pn} \in SUBSET Pages /\ {answer.pn} # {}
        BY <3>2
      <4>2. BestScore({answer.pn}) = answer.raw.bv
        BY <2>1, <3>2, <4>1, BestOfZeroPages
      <4> QED
        BY <3>1, <3>2, <4>2 DEF RecoverBvForPage
    <3>3. answer.pn \notin Pages => answer.bv = bv0
      BY <3>1 DEF RecoverBvForPage
    <3> QED
      BY <2>3, <3>2, <3>3
  <2> QED
    BY <2>2, <2>3
<1> QED
  BY <1>1, ApInvariant, PTL

(* recover_bv_for_block finds the bv of sampled fill and falls back beyond  *)
(* the store.                                                               *)
THEOREM RecoversTheBlock == Spec => []BlockIsRecovered
<1>1. ApInv => BlockIsRecovered
  <2> SUFFICES ASSUME ApInv, answer.how = "recover" PROVE
        /\ Sampled(answer.pn) = {} => answer.bv = bv0
        /\ \A bv \in Byte :
             /\ Sampled(answer.pn) # {}
             /\ \A pn \in Sampled(answer.pn) : ZeroPage(PageAt(pn)) /\ PageAt(pn).bv = bv
             => answer.bv = bv
    BY DEF BlockIsRecovered
  <2>1. /\ IsStore /\ answer.bv = BlockBv(answer.pn) /\ Sampled(answer.pn) \in SUBSET Pages
    BY DEF ApInv, AnswerInv, ModelInv, Sampled
  <2>2. ASSUME NEW bv \in Byte, Sampled(answer.pn) # {},
               \A pn \in Sampled(answer.pn) : ZeroPage(PageAt(pn)) /\ PageAt(pn).bv = bv
        PROVE  answer.bv = bv
    <3>1. BestScore(Sampled(answer.pn)) = bv
      BY <2>1, <2>2, BestOfZeroPages
    <3> QED
      BY <2>1, <2>2, <3>1 DEF BlockBv
  <2> QED
    BY <2>1, <2>2 DEF BlockBv
<1> QED
  BY <1>1, ApInvariant, PTL

(* So is the evidence kept for each sector of a page right. *)
THEOREM PageEvidenceIsRight == Spec => []EvidenceIsRight
<1>1. ApInv => EvidenceIsRight
  BY LoopGivesEvidence DEF ApInv
<1> QED
  BY <1>1, ApInvariant, PTL
=============================================================================
