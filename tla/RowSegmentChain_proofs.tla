----------------------- MODULE RowSegmentChain_proofs -----------------------
(***************************************************************************)
(* What walk_row_segment_chain guarantees for every set of targets, every  *)
(* resolver and all limits.  The invariants are proved one on another:     *)
(* TypeOK, then VisitedCovers (no target is asked for twice), then InStep  *)
(* (how far the history has got at each pc), then the contents, and last   *)
(* the verdict, with the sums of payloads it is about.                     *)
(***************************************************************************)
EXTENDS RowSegmentChain, SequenceTheorems, WellFoundedInduction, TLAPS

---------------------------------------------------------------------------
(* Type correctness *)

(* The payload length of a parsed segment is a natural number: the header  *)
(* parser rejects a declared length below the header length.               *)
LEMMA ParsedPayload ==
  ASSUME NEW b \in ByteString, Parsed(b)
  PROVE  /\ PayloadLen(b) \in Nat
         /\ b.declared \in Nat /\ b.continued \in BOOLEAN /\ b.next \in Target
BY DEF ByteString, Parsed, MissingHeader, InvalidLength, PayloadLen, HeaderLen,
       ROW_SEGMENT_HEADER_LEN, CONTINUED_ROW_SEGMENT_HEADER_LEN

(* While resolve runs there is a call in progress to name. *)
CallInProgress == pc = "resolve" => requests # <<>>

LEMMA TypeInit == Init => TypeOK /\ CallInProgress
BY TargetAssumption DEF Init, TypeOK, CallInProgress, Results

(* Accepting a segment keeps the types of what it changes. *)
LEMMA AcceptType ==
  ASSUME TypeOK, Accept
  PROVE  /\ segments' \in Seq(Segment) /\ total' \in Nat
         /\ target' \in Target /\ bytes' \in Bytes /\ supplied' \in Seq(Bytes)
         /\ bytes.next \in Target
         /\ Len(segments') = Len(segments) + 1
<1>1. bytes \in ByteString /\ Parsed(bytes)
  BY BytesAssumption DEF TypeOK, Accept, Exact
<1>2. /\ PayloadLen(bytes) \in Nat
      /\ bytes.declared \in Nat /\ bytes.continued \in BOOLEAN /\ bytes.next \in Target
  BY <1>1, ParsedPayload
<1>3. [target |-> target, continued |-> bytes.continued,
       declared_len |-> bytes.declared, payload |-> PayloadLen(bytes)] \in Segment
  BY <1>2 DEF TypeOK, Segment
<1> QED
  BY <1>2, <1>3 DEF TypeOK, Accept

LEMMA TypeStep == TypeOK /\ CallInProgress /\ [Next]_vars => TypeOK' /\ CallInProgress'
<1> SUFFICES ASSUME TypeOK, CallInProgress, [Next]_vars
             PROVE  TypeOK' /\ CallInProgress'
  OBVIOUS
<1> USE DEF TypeOK, CallInProgress, Results, Verdict, Return, walker
<1>1. CASE LimitBeforeParse
  BY <1>1 DEF LimitBeforeParse
<1>2. CASE RejectHeader
  BY <1>2 DEF RejectHeader, ReadyToParse
<1>3. CASE RejectTrailingBytes
  BY <1>3 DEF RejectTrailingBytes, ReadyToParse
<1>4. CASE RejectPayload
  <2>1. PayloadLen(bytes) \in Nat
    BY <1>4, ParsedPayload, BytesAssumption DEF RejectPayload, Exact
  <2> QED
    BY <1>4, <2>1 DEF RejectPayload
<1>5. CASE Complete
  BY <1>5, AcceptType DEF Complete
<1>6. CASE RejectCycle
  BY <1>6, AcceptType DEF RejectCycle
<1>7. CASE LimitBeforeResolve
  BY <1>7, AcceptType DEF LimitBeforeResolve, FollowNew
<1>8. CASE CallResolve
  BY <1>8, AcceptType DEF CallResolve, FollowNew
<1>9. CASE ResolveFails
  <2>1. Requested \in Target
    BY <1>9 DEF ResolveFails, Requested
  <2> QED
    BY <1>9, <2>1 DEF ResolveFails
<1>10. ASSUME NEW b \in Bytes, ResolveAnswers(b)
       PROVE  TypeOK' /\ CallInProgress'
  <2>1. Requested \in Target
    BY <1>10 DEF ResolveAnswers, Requested
  <2> QED
    BY <1>10, <2>1 DEF ResolveAnswers
<1>11. CASE UNCHANGED vars
  BY <1>11 DEF vars
<1> QED
  BY <1>1, <1>2, <1>3, <1>4, <1>5, <1>6, <1>7, <1>8, <1>9, <1>10, <1>11
     DEF Next, Walk, Resolve

(* Every variable keeps its type, whatever resolve answers. *)
THEOREM TypeCorrect == Spec => [](TypeOK /\ CallInProgress)
BY TypeInit, TypeStep, PTL DEF Spec

---------------------------------------------------------------------------
(* No target is asked for twice *)

(* visited holds the initial target and every target asked for, the        *)
(* requests are distinct and exclude the initial target.                   *)
VisitedCovers ==
  /\ InitialTarget \in visited
  /\ \A i \in 1..Len(requests) : requests[i] \in visited

LEMMA RequestsInit == Init => VisitedCovers /\ NeverResolvedTwice
BY DEF Init, VisitedCovers, NeverResolvedTwice

LEMMA RequestsStep ==
  TypeOK /\ CallInProgress /\ VisitedCovers /\ NeverResolvedTwice /\ [Next]_vars
    => VisitedCovers' /\ NeverResolvedTwice'
<1> SUFFICES ASSUME TypeOK, CallInProgress, VisitedCovers, NeverResolvedTwice, [Next]_vars
             PROVE  VisitedCovers' /\ NeverResolvedTwice'
  OBVIOUS
<1> USE DEF VisitedCovers, NeverResolvedTwice
<1>1. CASE CallResolve
  <2>1. /\ requests' = Append(requests, bytes.next)
        /\ bytes.next \notin visited
        /\ visited' = visited \cup {bytes.next}
    BY <1>1 DEF CallResolve, FollowNew
  <2>2. requests \in Seq(Target) /\ bytes.next \in Target
    BY <1>1, AcceptType DEF TypeOK, CallResolve, FollowNew
  <2>3. /\ Len(requests') = Len(requests) + 1
        /\ requests'[Len(requests) + 1] = bytes.next
        /\ \A i \in 1..Len(requests) : requests'[i] = requests[i]
    BY <2>1, <2>2
  <2> QED
    BY <2>1, <2>2, <2>3
<1>2. ASSUME UNCHANGED requests, visited \subseteq visited'
      PROVE  VisitedCovers' /\ NeverResolvedTwice'
  BY <1>2
<1>3. CASE ~CallResolve
  <2>1. UNCHANGED requests /\ visited \subseteq visited'
    BY <1>3 DEF Next, Walk, Resolve, vars, walker, Return, LimitBeforeParse, RejectHeader,
       RejectTrailingBytes, RejectPayload, Complete, RejectCycle,
       LimitBeforeResolve, FollowNew, ResolveFails, ResolveAnswers
  <2> QED
    BY <2>1, <1>2
<1> QED
  BY <1>1, <1>3

(* The resolver is asked at most once for a target and never for the       *)
(* initial one, so a walk cannot be made to go round.                      *)
THEOREM NoTargetTwice == Spec => []NeverResolvedTwice
<1>1. Init => VisitedCovers /\ NeverResolvedTwice
  BY RequestsInit
<1>2. TypeOK /\ CallInProgress /\ VisitedCovers /\ NeverResolvedTwice /\ [Next]_vars
        => VisitedCovers' /\ NeverResolvedTwice'
  BY RequestsStep
<1> QED
  BY <1>1, <1>2, TypeCorrect, PTL DEF Spec

---------------------------------------------------------------------------
(* Limits and contents *)

(* How far the history has got: at the loop top the bytes in hand are the  *)
(* one supply that is not a segment yet; inside resolve every supply is a  *)
(* segment and there is room for another.                                  *)
InStep ==
  /\ pc = "segment" =>
       /\ Len(requests) = Len(segments)
       /\ Len(supplied) = Len(segments) + 1
       /\ bytes = supplied[Len(segments) + 1]
       /\ target = PathTarget(Len(segments) + 1)
       /\ segments = <<>> \/ Len(segments) < limits.max_segments
  /\ pc = "resolve" =>
       /\ Len(requests) = Len(segments)
       /\ Len(supplied) = Len(segments)
       /\ Len(segments) < limits.max_segments
  /\ pc # "returned" => result.verdict = "Pending"
  /\ Len(requests) <= Len(supplied)
  /\ Len(segments) <= Len(supplied)

(* Everything accepted so far was checked. *)
Checked == \A i \in 1..Len(segments) : WellFormed(supplied[i])

LimitsInv == InStep /\ WithinLimits

ContentsInv == ChainFollowsBytes /\ Checked

LEMMA ContentsInit == Init => LimitsInv /\ ContentsInv
BY LimitsAssumption
   DEF Init, LimitsInv, InStep, WithinLimits, ContentsInv, ChainFollowsBytes, Checked,
       PathTarget, ChainLimits

(* What accepting the bytes in hand adds to the history. *)
LEMMA AcceptFacts ==
  ASSUME TypeOK, LimitsInv, ContentsInv, Accept
  PROVE  /\ Len(segments) < limits.max_segments
         /\ Len(supplied) = Len(segments) + 1
         /\ Len(requests) = Len(segments)
         /\ Len(segments') = Len(segments) + 1
         /\ total' <= limits.max_total_payload_bytes
         /\ Checked'
         /\ \A i \in 1..Len(segments') :
              segments'[i] = [target |-> PathTarget(i),
                              continued |-> supplied[i].continued,
                              declared_len |-> supplied[i].len,
                              payload |-> supplied[i].len - HeaderLen(supplied[i])]
<1> DEFINE b == bytes
           n == Len(segments)
<1>1. /\ limits.max_segments \in Nat /\ limits.max_total_payload_bytes \in Nat
      /\ total \in Nat /\ n \in Nat
      /\ b \in ByteString /\ Parsed(b) /\ b.declared = b.len
  BY BytesAssumption, LimitsAssumption DEF TypeOK, Accept, Exact, ChainLimits
<1>2. /\ n < limits.max_segments
      /\ Len(supplied) = n + 1 /\ Len(requests) = n
      /\ b = supplied[n + 1] /\ target = PathTarget(n + 1)
  BY <1>1 DEF Accept, Exact, ReadyToParse, NoRoom, LimitsInv, InStep
<1>3. WellFormed(b)
  BY <1>1 DEF ByteString, Parsed, MissingHeader, InvalidLength, WellFormed, HeaderLen,
     ROW_SEGMENT_HEADER_LEN, CONTINUED_ROW_SEGMENT_HEADER_LEN
<1>4. total' <= limits.max_total_payload_bytes
  <2>1. PayloadLen(b) \in Nat
    BY <1>1, ParsedPayload
  <2>2. total <= limits.max_total_payload_bytes
    BY DEF LimitsInv, WithinLimits
  <2> QED
    BY <1>1, <2>1, <2>2 DEF Accept, OverBudget
<1>5. /\ Len(segments') = n + 1
      /\ segments'[n + 1] = [target |-> target, continued |-> b.continued,
                             declared_len |-> b.declared, payload |-> PayloadLen(b)]
      /\ \A i \in 1..n : segments'[i] = segments[i]
      /\ supplied' = supplied
  BY DEF TypeOK, Accept
<1>6. Checked'
  BY <1>1, <1>2, <1>3, <1>5 DEF ContentsInv, Checked, WellFormed, HeaderLen,
     ROW_SEGMENT_HEADER_LEN, CONTINUED_ROW_SEGMENT_HEADER_LEN
<1>7. ASSUME NEW i \in 1..Len(segments')
      PROVE  segments'[i] = [target |-> PathTarget(i),
                             continued |-> supplied[i].continued,
                             declared_len |-> supplied[i].len,
                             payload |-> supplied[i].len - HeaderLen(supplied[i])]
  <2>1. CASE i = n + 1
    BY <1>1, <1>2, <1>5, <2>1 DEF PayloadLen
  <2>2. CASE i \in 1..n
    BY <1>1, <1>5, <2>2 DEF ContentsInv, ChainFollowsBytes
  <2> QED
    BY <1>1, <1>5, <2>1, <2>2
<1> QED
  BY <1>2, <1>4, <1>5, <1>6, <1>7

LEMMA ContentsStep ==
  TypeOK /\ CallInProgress /\ LimitsInv /\ ContentsInv /\ [Next]_vars
    => LimitsInv' /\ ContentsInv'
<1> SUFFICES ASSUME TypeOK, CallInProgress, LimitsInv, ContentsInv, [Next]_vars
             PROVE  LimitsInv' /\ ContentsInv'
  OBVIOUS
<1>0. /\ limits.max_segments \in Nat /\ limits.max_total_payload_bytes \in Nat
      /\ Len(segments) \in Nat /\ Len(requests) \in Nat /\ Len(supplied) \in Nat
  BY LimitsAssumption DEF TypeOK, ChainLimits
(* The returns that accept nothing change no history. *)
<1>1. ASSUME pc' = "returned",
             UNCHANGED <<limits, segments, total, requests, supplied>>
      PROVE  LimitsInv' /\ ContentsInv'
  BY <1>1 DEF LimitsInv, InStep, WithinLimits, ContentsInv, ChainFollowsBytes, Checked,
     PathTarget
<1>2. CASE LimitBeforeParse \/ RejectHeader \/ RejectTrailingBytes \/ RejectPayload
           \/ ResolveFails
  <2>1. pc' = "returned" /\ UNCHANGED <<limits, segments, total, requests, supplied>>
    BY <1>2 DEF LimitBeforeParse, RejectHeader, RejectTrailingBytes, RejectPayload,
       ResolveFails, Return, walker
  <2> QED
    BY <2>1, <1>1
(* The returns that accept the last segment. *)
<1>3. CASE Complete \/ RejectCycle \/ LimitBeforeResolve
  <2>1. /\ Accept /\ pc' = "returned"
        /\ UNCHANGED <<limits, requests, supplied>>
    BY <1>3 DEF Complete, RejectCycle, LimitBeforeResolve, FollowNew, Return, Accept
  <2>2. LimitsInv'
    BY <2>1, <1>0, AcceptFacts DEF LimitsInv, InStep, WithinLimits
  <2>3. ContentsInv'
    BY <2>1, AcceptFacts DEF ContentsInv, ChainFollowsBytes, PathTarget
  <2> QED
    BY <2>2, <2>3
<1>4. CASE CallResolve
  <2>1. /\ Accept /\ pc' = "resolve" /\ bytes.continued
        /\ requests' = Append(requests, bytes.next)
        /\ Len(segments') < limits.max_segments
        /\ UNCHANGED <<limits, result, supplied>>
    BY <1>4 DEF CallResolve, FollowNew, Accept
  <2>2. bytes = supplied[Len(segments) + 1] /\ result.verdict = "Pending"
    BY <2>1 DEF Accept, Exact, ReadyToParse, LimitsInv, InStep
  <2>3. /\ Len(requests') = Len(requests) + 1
        /\ requests'[Len(requests) + 1] = bytes.next
        /\ \A i \in 1..Len(requests) : requests'[i] = requests[i]
    BY <2>1, AcceptType DEF TypeOK
  <2>4. LimitsInv'
    BY <2>1, <2>2, <2>3, <1>0, AcceptFacts DEF LimitsInv, InStep, WithinLimits
  <2>5. \A i \in 1..Len(requests') :
          supplied'[i].continued /\ requests'[i] = supplied'[i].next
    BY <2>1, <2>2, <2>3, <1>0, AcceptFacts DEF ContentsInv, ChainFollowsBytes
  <2>6. \A i \in 1..Len(segments') : PathTarget(i)' = PathTarget(i)
    BY <2>3, <1>0, <2>1, AcceptFacts DEF PathTarget
  <2>7. ChainFollowsBytes'
    BY <2>1, <2>5, <2>6, AcceptFacts DEF ChainFollowsBytes, PathTarget
  <2> QED
    BY <2>1, <2>4, <2>7, AcceptFacts DEF ContentsInv
<1>5. ASSUME NEW b \in Bytes, ResolveAnswers(b)
      PROVE  LimitsInv' /\ ContentsInv'
  <2>1. /\ pc = "resolve" /\ pc' = "segment" /\ bytes' = b
        /\ target' = requests[Len(requests)]
        /\ supplied' = Append(supplied, b)
        /\ UNCHANGED <<limits, segments, total, result, requests>>
    BY <1>5 DEF ResolveAnswers, Requested
  <2>2. /\ Len(requests) = Len(segments) /\ Len(supplied) = Len(segments)
        /\ Len(segments) < limits.max_segments /\ Len(requests) > 0
        /\ result.verdict = "Pending"
    BY <2>1, <1>0 DEF LimitsInv, InStep, CallInProgress, TypeOK
  <2>3. /\ Len(supplied') = Len(supplied) + 1
        /\ supplied'[Len(supplied) + 1] = b
        /\ \A i \in 1..Len(supplied) : supplied'[i] = supplied[i]
    BY <2>1 DEF TypeOK
  <2>4. LimitsInv'
    BY <2>1, <2>2, <2>3, <1>0 DEF LimitsInv, InStep, WithinLimits, PathTarget
  <2>5. ContentsInv'
    BY <2>1, <2>2, <2>3, <1>0
       DEF ContentsInv, ChainFollowsBytes, Checked, WellFormed, HeaderLen, PathTarget
  <2> QED
    BY <2>4, <2>5
<1>6. CASE UNCHANGED vars
  BY <1>6 DEF vars, LimitsInv, InStep, WithinLimits, ContentsInv, ChainFollowsBytes,
     Checked, PathTarget
<1> QED
  BY <1>2, <1>3, <1>4, <1>5, <1>6 DEF Next, Walk, Resolve

(* The inductive invariant of the walk. *)
ChainInv == TypeOK /\ CallInProgress /\ LimitsInv /\ ContentsInv

THEOREM ChainInvariant == Spec => []ChainInv
<1>1. Init => LimitsInv /\ ContentsInv
  BY ContentsInit
<1>2. TypeOK /\ CallInProgress /\ LimitsInv /\ ContentsInv /\ [Next]_vars
        => LimitsInv' /\ ContentsInv'
  BY ContentsStep
<1> QED
  BY <1>1, <1>2, TypeCorrect, PTL DEF Spec, ChainInv

(* However long the chain resolve spins, the number of segments, of calls  *)
(* and of payload bytes stays within the caller's limits.                  *)
THEOREM StaysWithinLimits == Spec => []WithinLimits
<1>1. ChainInv => WithinLimits
  BY DEF ChainInv, LimitsInv
<1> QED
  BY <1>1, ChainInvariant, PTL

(* The segments are the path the supplied bytes describe. *)
THEOREM SegmentsArePath == Spec => []ChainFollowsBytes
<1>1. ChainInv => ChainFollowsBytes
  BY DEF ChainInv, ContentsInv
<1> QED
  BY <1>1, ChainInvariant, PTL

(* resolve is called only when every supplied segment has been checked and *)
(* accepted within the limits, and not once the call has returned.         *)
THEOREM FailClosed == Spec => CallsOnlyWhenChecked
<1> DEFINE OnlyWhenChecked ==
      requests' # requests =>
        /\ \A i \in 1..Len(supplied) : WellFormed(supplied[i])
        /\ Len(segments') = Len(supplied)
        /\ Len(segments') < limits.max_segments
        /\ total' <= limits.max_total_payload_bytes
        /\ result.verdict = "Pending"
<1>1. ChainInv /\ [Next]_vars => [OnlyWhenChecked]_vars
  <2> SUFFICES ASSUME ChainInv, Next, requests' # requests
               PROVE  OnlyWhenChecked
    BY DEF vars
  <2>1. CallResolve
    BY DEF Next, Walk, Resolve, Return, walker, LimitBeforeParse, RejectHeader,
       RejectTrailingBytes, RejectPayload, Complete, RejectCycle, LimitBeforeResolve,
       ResolveFails, ResolveAnswers
  <2>2. Accept /\ Len(segments') < limits.max_segments /\ supplied' = supplied
    BY <2>1 DEF CallResolve, FollowNew, Accept
  <2>3. result.verdict = "Pending"
    BY <2>2 DEF Accept, Exact, ReadyToParse, ChainInv, LimitsInv, InStep
  <2>4. /\ Len(segments') = Len(supplied)
        /\ total' <= limits.max_total_payload_bytes
        /\ Checked'
    BY <2>2, AcceptFacts DEF ChainInv
  <2> QED
    BY <2>2, <2>3, <2>4 DEF Checked, WellFormed, HeaderLen
<1> QED
  BY <1>1, ChainInvariant, PTL DEF Spec, CallsOnlyWhenChecked

---------------------------------------------------------------------------
(* Refinement *)

SegmentTargets == [i \in 1..Len(segments) |-> segments[i].target]

(* The targets of the accepted segments form a bounded walk that never     *)
(* repeats an item: every step of the walker extends it, stops it or       *)
(* leaves it alone.                                                        *)
THEOREM RefinesBoundedWalk == Spec => Abstract!WalkSafety
<1>1. Init => Abstract!WalkInit
  BY LimitsAssumption DEF Init, Abstract!WalkInit, ChainLimits
<1>2. ChainInv /\ VisitedCovers /\ NeverResolvedTwice /\ [Next]_vars
        => [Abstract!WalkNext]_(Abstract!walkVars)
  <2> SUFFICES ASSUME ChainInv, NeverResolvedTwice, Next \/ UNCHANGED vars
               PROVE  Abstract!WalkNext \/ UNCHANGED Abstract!walkVars
    OBVIOUS
  <2>1. /\ TypeOK /\ LimitsInv /\ ContentsInv
        /\ SegmentTargets \in Seq(Target) /\ Len(SegmentTargets) = Len(segments)
    <3>1. /\ TypeOK /\ LimitsInv /\ ContentsInv
          /\ Len(segments) \in Nat
          /\ \A i \in 1..Len(segments) : segments[i].target \in Target
      <4>1. TypeOK /\ LimitsInv /\ ContentsInv
        BY DEF ChainInv
      <4>2. segments \in Seq(Segment)
        BY <4>1 DEF TypeOK
      <4>3. Len(segments) \in Nat /\ \A i \in 1..Len(segments) : segments[i] \in Segment
        BY <4>2
      <4>4. \A s \in Segment : s.target \in Target
        BY DEF Segment
      <4> QED
        BY <4>1, <4>3, <4>4
    <3>2. SegmentTargets \in [1..Len(segments) -> Target]
      BY <3>1 DEF SegmentTargets
    <3> QED
      BY <3>1, <3>2, SeqDef, LenProperties
  <2>2. ASSUME Accept, UNCHANGED limits, pc' \in {"resolve", "returned"}
        PROVE  \E t \in Target : Abstract!Extend(t)
    <3>1. target \in Target
      BY <2>1 DEF TypeOK
    <3>2. /\ Len(segments') = Len(segments) + 1
          /\ segments'[Len(segments) + 1].target = target
          /\ \A i \in 1..Len(segments) : segments'[i] = segments[i]
      BY <2>1, <2>2 DEF TypeOK, Accept
    <3>3. SegmentTargets' = Append(SegmentTargets, target)
      BY <2>1, <3>2, <3>1 DEF SegmentTargets, TypeOK
    <3>4. pc = "segment" /\ Len(segments) < limits.max_segments
      BY <2>1, <2>2, AcceptFacts DEF Accept, Exact, ReadyToParse
    <3>5. ASSUME NEW i \in 1..Len(segments)
          PROVE  segments[i].target # target
      <4>1. segments[i].target = PathTarget(i)
        <5>1. segments[i] = [target |-> PathTarget(i),
                             continued |-> supplied[i].continued,
                             declared_len |-> supplied[i].len,
                             payload |-> supplied[i].len - HeaderLen(supplied[i])]
          BY <2>1, <3>5 DEF ContentsInv, ChainFollowsBytes
        <5> QED
          BY <5>1
      <4>2. target = requests[Len(requests)] /\ Len(requests) = Len(segments)
        BY <2>1, <3>4, <3>5 DEF LimitsInv, InStep, PathTarget, TypeOK
      <4> QED
        BY <4>1, <4>2, <2>1 DEF PathTarget, NeverResolvedTwice, TypeOK
    <3>6. Abstract!Extend(target)
      BY <2>1, <2>2, <3>3, <3>4, <3>5
         DEF Abstract!Extend, Abstract!On, SegmentTargets
    <3> QED
      BY <3>1, <3>6 DEF Abstract!Extend
  <2>3. ASSUME pc # "returned", pc' = "returned", UNCHANGED <<limits, segments>>
        PROVE  Abstract!Stop
    BY <2>3 DEF Abstract!Stop
  <2>4. ASSUME pc # "returned", pc' # "returned", UNCHANGED <<limits, segments>>
        PROVE  UNCHANGED Abstract!walkVars
    BY <2>4 DEF Abstract!walkVars
  <2>5. CASE Complete \/ RejectCycle \/ LimitBeforeResolve \/ CallResolve
    BY <2>5, <2>2 DEF Complete, RejectCycle, LimitBeforeResolve, CallResolve, FollowNew,
       Return, Abstract!WalkNext
  <2>6. CASE LimitBeforeParse \/ RejectHeader \/ RejectTrailingBytes \/ RejectPayload
             \/ ResolveFails
    BY <2>6, <2>3 DEF LimitBeforeParse, RejectHeader, RejectTrailingBytes, RejectPayload,
       ResolveFails, Exact, ReadyToParse, Return, walker, Abstract!WalkNext
  <2>7. ASSUME NEW b \in Bytes, ResolveAnswers(b)
        PROVE  UNCHANGED Abstract!walkVars
    BY <2>7, <2>4 DEF ResolveAnswers
  <2>8. CASE UNCHANGED vars
    BY <2>8 DEF vars, Abstract!walkVars
  <2> QED
    BY <2>5, <2>6, <2>7, <2>8 DEF Next, Walk, Resolve
<1>3. Spec => [](VisitedCovers /\ NeverResolvedTwice)
  <2>1. Init => VisitedCovers /\ NeverResolvedTwice
    BY RequestsInit
  <2>2. TypeOK /\ CallInProgress /\ VisitedCovers /\ NeverResolvedTwice /\ [Next]_vars
          => VisitedCovers' /\ NeverResolvedTwice'
    BY RequestsStep
  <2> QED
    BY <2>1, <2>2, TypeCorrect, PTL DEF Spec
<1> QED
  BY <1>1, <1>2, <1>3, ChainInvariant, PTL DEF Spec, Abstract!WalkSafety

---------------------------------------------------------------------------
(* Sums of payloads.  PayloadSum is a recursive function, whose existence   *)
(* and values are proved by least counterexample.                           *)

LEMMA Least ==
  ASSUME NEW S \in SUBSET Nat, S # {}
  PROVE  \E n \in S : \A m \in S : n <= m
<1>1. \E n \in S : \A m \in S : <<m, n>> \notin OpToRel(<, Nat)
  BY NatLessThanWellFounded, WFMin
<1>2. \A m, n \in Nat : m < n => <<m, n>> \in OpToRel(<, Nat)
  BY DEF OpToRel
<1>3. \E n \in S : \A m \in S : ~(m < n)
  BY <1>1, <1>2, Zenon
<1> QED
  BY <1>3

Sums(f, D, g) == f = [i \in D |-> IF i = 0 THEN 0 ELSE f[i - 1] + g[i]]

Steps(f, n, g) == \A i \in 0..n : f[i] = IF i = 0 THEN 0 ELSE f[i - 1] + g[i]
SameTerms(g, k, n) == \A i \in 1..n : g[i] = k[i]

LEMMA SumsStep ==
  ASSUME NEW f, NEW g, NEW D, NEW n \in Nat, Sums(f, D, g), 0..n \subseteq D
  PROVE  Steps(f, n, g)
<1> SUFFICES ASSUME NEW i \in 0..n PROVE f[i] = IF i = 0 THEN 0 ELSE f[i - 1] + g[i]
  BY DEF Steps
<1>1. i \in D
  OBVIOUS
<1> QED
  BY <1>1 DEF Sums

(* Two sums agree as far as their terms do. *)
LEMMA SumsAgree ==
  ASSUME NEW f, NEW h, NEW g, NEW k, NEW n \in Nat,
         Steps(f, n, g), Steps(h, n, k), SameTerms(g, k, n)
  PROVE  \A i \in 0..n : f[i] = h[i]
<1> DEFINE S == {i \in 0..n : f[i] # h[i]}
<1>1. CASE S = {}
  BY <1>1
<1>2. CASE S # {}
  <2>0. S \in SUBSET Nat
    OBVIOUS
  <2> HIDE DEF S
  <2>1. PICK i \in S : \A j \in S : i <= j
    BY <1>2, <2>0, Least
  <2> USE DEF S
  <2>2. i \in 0..n /\ f[i] # h[i]
    BY <2>1
  <2>3. /\ f[i] = IF i = 0 THEN 0 ELSE f[i - 1] + g[i]
        /\ h[i] = IF i = 0 THEN 0 ELSE h[i - 1] + k[i]
    BY <2>2 DEF Steps
  <2>4. CASE i = 0
    BY <2>2, <2>3, <2>4
  <2>5. CASE i # 0
    <3>1. i - 1 \in 0..n /\ i \in 1..n /\ ~(i <= i - 1)
      BY <2>2, <2>5
    <3>2. f[i - 1] = h[i - 1]
      BY <2>1, <3>1
    <3> QED
      BY <2>2, <2>3, <2>5, <3>1, <3>2 DEF SameTerms
  <2> QED
    BY <2>4, <2>5
<1> QED
  BY <1>1, <1>2

LEMMA SumsUpTo ==
  ASSUME NEW g, NEW n \in Nat
  PROVE  \E f : Sums(f, 0..n, g)
<1> DEFINE S == {m \in Nat : ~ \E f : Sums(f, 0..m, g)}
<1>1. CASE S # {}
  <2>1. PICK m \in S : \A j \in S : m <= j
    BY <1>1, Least
  <2>2. CASE m = 0
    <3> DEFINE f == [i \in 0..0 |-> 0]
    <3>1. f = [i \in 0..0 |-> IF i = 0 THEN 0 ELSE f[i - 1] + g[i]]
      OBVIOUS
    <3>2. Sums(f, 0..m, g)
      BY <2>2, <3>1 DEF Sums
    <3> QED
      BY <3>2
  <2>3. CASE m # 0
    <3>1. m - 1 \in Nat /\ m - 1 \notin S
      BY <2>1, <2>3
    <3>2. PICK h : Sums(h, 0..(m - 1), g)
      BY <3>1
    <3> DEFINE f == [i \in 0..m |-> IF i = m THEN h[m - 1] + g[m] ELSE h[i]]
    <3>3. ASSUME NEW i \in 0..m PROVE f[i] = IF i = 0 THEN 0 ELSE f[i - 1] + g[i]
      <4>1. CASE i = m
        BY <2>3, <3>1, <4>1
      <4>2. CASE i # m
        <5>1. i \in 0..(m - 1)
          BY <4>2
        <5>2. h[i] = IF i = 0 THEN 0 ELSE h[i - 1] + g[i]
          BY <3>2, <5>1 DEF Sums
        <5> QED
          BY <4>2, <5>1, <5>2
      <4> QED
        BY <4>1, <4>2
    <3>4. f = [i \in 0..m |-> f[i]]
      OBVIOUS
    <3> HIDE DEF f
    <3>5. Sums(f, 0..m, g)
      BY <3>3, <3>4 DEF Sums
    <3> QED
      BY <3>5
  <2> QED
    BY <2>2, <2>3
<1> QED
  BY <1>1

LEMMA SumExists ==
  ASSUME NEW g
  PROVE  \E f : Sums(f, Nat, g)
<1> DEFINE upTo(n) == CHOOSE h : Sums(h, 0..n, g)
           f == [n \in Nat |-> upTo(n)[n]]
<1>1. \A n \in Nat : Sums(upTo(n), 0..n, g)
  BY SumsUpTo
<1> HIDE DEF upTo
<1>2. ASSUME NEW n \in Nat PROVE f[n] = IF n = 0 THEN 0 ELSE f[n - 1] + g[n]
  <2>1. upTo(n)[n] = IF n = 0 THEN 0 ELSE upTo(n)[n - 1] + g[n]
    <3>1. Sums(upTo(n), 0..n, g) /\ n \in 0..n
      BY <1>1
    <3> QED
      BY <3>1 DEF Sums
  <2>2. ASSUME n # 0 PROVE upTo(n)[n - 1] = f[n - 1]
    <3>1. n - 1 \in Nat /\ 0..(n - 1) \subseteq 0..n /\ n - 1 \in 0..(n - 1)
      BY <2>2
    <3>2. Sums(upTo(n), 0..n, g) /\ Sums(upTo(n - 1), 0..(n - 1), g)
      BY <1>1, <3>1
    <3>3. Steps(upTo(n), n - 1, g) /\ Steps(upTo(n - 1), n - 1, g)
      BY <3>1, <3>2, SumsStep
    <3>4. SameTerms(g, g, n - 1)
      BY DEF SameTerms
    <3> QED
      BY <3>1, <3>3, <3>4, SumsAgree
  <2> QED
    BY <2>1, <2>2
<1>3. f = [n \in Nat |-> f[n]]
  OBVIOUS
<1> HIDE DEF f
<1>4. Sums(f, Nat, g)
  BY <1>2, <1>3 DEF Sums
<1> QED
  BY <1>4

PayloadTerms == [i \in Nat |-> PayloadLen(supplied[i])]

LEMMA PayloadSums == Sums(PayloadSum, Nat, PayloadTerms)
<1> DEFINE P(f) == f = [i \in Nat |-> IF i = 0 THEN 0 ELSE f[i - 1] + PayloadLen(supplied[i])]
<1>1. \A f : P(f) <=> Sums(f, Nat, PayloadTerms)
  BY DEF Sums, PayloadTerms
<1>2. \E f : P(f)
  BY <1>1, SumExists
<1>3. PayloadSum = CHOOSE f : P(f)
  BY DEF PayloadSum
<1>4. P(PayloadSum)
  BY <1>2, <1>3
<1> QED
  BY <1>1, <1>4

(* The payload sums of the bytes supplied so far, now and one step later.   *)
LEMMA SumFacts ==
  ASSUME NEW n \in Nat
  PROVE  PayloadSum[n] = IF n = 0 THEN 0 ELSE PayloadSum[n - 1] + PayloadLen(supplied[n])
BY PayloadSums DEF Sums, PayloadTerms

LEMMA PayloadSumsNext == Sums(PayloadSum', Nat, PayloadTerms')
<1> DEFINE P(f) == f = [i \in Nat |-> IF i = 0 THEN 0 ELSE f[i - 1] + PayloadLen(supplied'[i])]
<1>1. \A f : P(f) <=> Sums(f, Nat, PayloadTerms')
  BY DEF Sums, PayloadTerms, PayloadLen, HeaderLen, ROW_SEGMENT_HEADER_LEN,
     CONTINUED_ROW_SEGMENT_HEADER_LEN
<1>2. \E f : P(f)
  BY <1>1, SumExists
<1>3. PayloadSum' = CHOOSE f : P(f)
  BY DEF PayloadSum
<1>4. P(PayloadSum')
  BY <1>2, <1>3
<1> QED
  BY <1>1, <1>4

LEMMA SumKept ==
  ASSUME NEW n \in Nat, \A i \in 1..n : supplied'[i] = supplied[i]
  PROVE  \A i \in 0..n : PayloadSum'[i] = PayloadSum[i]
<1>1. SameTerms(PayloadTerms, PayloadTerms', n)
  BY DEF SameTerms, PayloadTerms, PayloadLen, HeaderLen, ROW_SEGMENT_HEADER_LEN,
     CONTINUED_ROW_SEGMENT_HEADER_LEN
<1>2. Steps(PayloadSum, n, PayloadTerms) /\ Steps(PayloadSum', n, PayloadTerms')
  <2>1. 0..n \subseteq Nat
    OBVIOUS
  <2> QED
    BY <2>1, SumsStep, PayloadSums, PayloadSumsNext
<1>3. \A i \in 0..n : PayloadSum[i] = PayloadSum'[i]
  BY <1>1, <1>2, SumsAgree
<1> QED
  BY <1>3

---------------------------------------------------------------------------
(* The verdict.  While the walk goes on, visited is exactly the path of the *)
(* bytes supplied and total is the sum of their payloads.                   *)

Path(n) == {PathTarget(i) : i \in 1..n}

PathInv ==
  /\ pc # "returned" =>
       visited = Path(Len(requests) + 1) /\ total = PayloadSum[Len(segments)]
  /\ VerdictIsDeserved

LEMMA PathInit == Init => PathInv
<1> SUFFICES ASSUME Init PROVE PathInv
  OBVIOUS
<1>1. /\ pc = "segment" /\ visited = {InitialTarget} /\ requests = <<>> /\ segments = <<>>
      /\ total = 0
  BY DEF Init
<1>2. Path(Len(requests) + 1) = {InitialTarget}
  BY <1>1 DEF Path, PathTarget
<1>3. PayloadSum[Len(segments)] = 0
  BY <1>1, SumFacts
<1> QED
  BY <1>1, <1>2, <1>3 DEF PathInv, VerdictIsDeserved

LEMMA SumTyped ==
  ASSUME TypeOK, NEW n \in 0..Len(supplied)
  PROVE  PayloadSum[n] \in Int
<1> DEFINE S == {i \in 0..Len(supplied) : PayloadSum[i] \notin Int}
<1>1. CASE S = {}
  BY <1>1
<1>2. CASE S # {}
  <2>0. supplied \in Seq(Bytes) /\ Len(supplied) \in Nat /\ S \in SUBSET Nat
    BY DEF TypeOK
  <2> HIDE DEF S
  <2>1. PICK i \in S : \A j \in S : i <= j
    BY <1>2, <2>0, Least
  <2> USE DEF S
  <2>2. i \in 0..Len(supplied) /\ PayloadSum[i] \notin Int
    BY <2>1
  <2>3. PayloadSum[i] = IF i = 0 THEN 0 ELSE PayloadSum[i - 1] + PayloadLen(supplied[i])
    BY <2>2, SumFacts
  <2>4. i # 0 => PayloadSum[i - 1] \in Int
    <3>1. i # 0 => i - 1 \in 0..Len(supplied) /\ ~(i <= i - 1)
      BY <2>0, <2>2
    <3> QED
      BY <2>1, <3>1
  <2>5. i # 0 => PayloadLen(supplied[i]) \in Int
    <3>1. i # 0 => supplied[i] \in ByteString
      BY <2>0, <2>2, BytesAssumption
    <3> QED
      BY <3>1 DEF PayloadLen, HeaderLen, ByteString, ROW_SEGMENT_HEADER_LEN,
         CONTINUED_ROW_SEGMENT_HEADER_LEN
  <2> QED
    BY <2>2, <2>3, <2>4, <2>5
<1> QED
  BY <1>1, <1>2

(* What the supplied bytes before the last one are. *)
LEMMA EarlierSound ==
  ASSUME ChainInv, PathInv, pc \in {"segment", "resolve"}
  PROVE  LET n == Len(supplied)
         IN  /\ n \in Nat /\ n > 0
             /\ \A i \in 1..(n - 1) : WellFormed(supplied[i]) /\ supplied[i].continued
             /\ n > 1 => PayloadSum[n - 1] <= limits.max_total_payload_bytes
<1> DEFINE n == Len(supplied)
<1>1. /\ supplied \in Seq(Bytes) /\ Len(segments) \in Nat /\ n \in Nat
      /\ total \in Nat /\ total <= limits.max_total_payload_bytes
      /\ limits.max_total_payload_bytes \in Nat
      /\ total = PayloadSum[Len(segments)]
  BY LimitsAssumption DEF ChainInv, LimitsInv, WithinLimits, PathInv, TypeOK, ChainLimits
<1>2. CASE pc = "segment"
  <2>1. n = Len(segments) + 1 /\ Len(requests) = Len(segments)
    BY <1>2 DEF ChainInv, LimitsInv, InStep
  <2>2. \A i \in 1..(n - 1) : WellFormed(supplied[i]) /\ supplied[i].continued
    BY <1>1, <2>1 DEF ChainInv, ContentsInv, ChainFollowsBytes, Checked
  <2>3. PayloadSum[n - 1] <= limits.max_total_payload_bytes
    BY <1>1, <2>1
  <2> QED
    BY <1>1, <2>1, <2>2, <2>3
<1>3. CASE pc = "resolve"
  <2>1. n = Len(segments) /\ Len(requests) = Len(segments) /\ n > 0
    BY <1>1, <1>3 DEF ChainInv, LimitsInv, InStep, CallInProgress, TypeOK
  <2>2. \A i \in 1..n : WellFormed(supplied[i]) /\ supplied[i].continued
    BY <1>1, <2>1 DEF ChainInv, ContentsInv, ChainFollowsBytes, Checked
  <2>3. PayloadSum[n] = PayloadSum[n - 1] + PayloadLen(supplied[n])
    BY <1>1, <2>1, SumFacts
  <2>4. PayloadLen(supplied[n]) \in Nat
    <3>1. supplied[n] \in ByteString /\ WellFormed(supplied[n])
      BY <1>1, <2>1, <2>2, BytesAssumption
    <3> QED
      BY <3>1 DEF WellFormed, PayloadLen, HeaderLen, ByteString, ROW_SEGMENT_HEADER_LEN,
         CONTINUED_ROW_SEGMENT_HEADER_LEN
  <2>5. PayloadSum[n - 1] <= limits.max_total_payload_bytes
    <3>1. PayloadSum[n - 1] \in Int
      <4>1. TypeOK /\ n - 1 \in 0..n
        BY <1>1, <2>1 DEF ChainInv
      <4> QED
        BY <4>1, SumTyped
    <3> QED
      BY <1>1, <2>1, <2>3, <2>4, <3>1
  <2> QED
    BY <1>1, <2>1, <2>2, <2>5
<1> QED
  BY <1>2, <1>3

(* What a return keeps. *)
LEMMA ReturnFrame ==
  ASSUME ChainInv, PathInv, pc \in {"segment", "resolve"},
         UNCHANGED <<limits, requests, supplied>>
  PROVE  LET n == Len(supplied)
         IN  /\ n \in Nat /\ n > 0
             /\ \A i \in 1..(n - 1) : WellFormed(supplied'[i]) /\ supplied'[i].continued
             /\ n > 1 => PayloadSum'[n - 1] <= limits'.max_total_payload_bytes
             /\ PayloadSum'[n] = PayloadSum[n]
             /\ \A i : PathTarget(i)' = PathTarget(i)
<1>1. \A i \in 0..Len(supplied) : PayloadSum'[i] = PayloadSum[i]
  BY EarlierSound, SumKept
<1>2. \A i : PathTarget(i)' = PathTarget(i)
  BY DEF PathTarget
<1> QED
  BY <1>1, <1>2, EarlierSound

(* A segment that is accepted makes all the supplied bytes sound, and what  *)
(* it continues with is new exactly when it is off their path.              *)
LEMMA AcceptDeserved ==
  ASSUME ChainInv, PathInv, Accept, UNCHANGED <<limits, requests>>
  PROVE  LET n == Len(supplied)
         IN  /\ bytes = supplied[n] /\ Len(segments') = n
             /\ \A i \in 1..n : WellFormed(supplied[i])
             /\ n <= limits.max_segments
             /\ total' = PayloadSum[n] /\ PayloadSum[n] <= limits.max_total_payload_bytes
             /\ bytes.next \in visited <=> \E i \in 1..n : bytes.next = PathTarget(i)
<1>1. /\ pc = "segment" /\ supplied' = supplied /\ total' = total + PayloadLen(bytes)
  BY DEF Accept, Exact, ReadyToParse
<1>2. /\ TypeOK /\ LimitsInv /\ ContentsInv
      /\ Len(segments) \in Nat /\ limits.max_segments \in Nat
  BY LimitsAssumption DEF ChainInv, TypeOK, ChainLimits
<1>3. /\ Len(supplied) = Len(segments) + 1 /\ Len(requests) = Len(segments)
      /\ bytes = supplied[Len(supplied)] /\ Len(segments') = Len(supplied)
      /\ Len(segments) < limits.max_segments
      /\ total' <= limits.max_total_payload_bytes /\ Checked'
  BY <1>1, <1>2, AcceptFacts DEF LimitsInv, InStep
<1>4. \A i \in 1..Len(supplied) : WellFormed(supplied[i])
  BY <1>1, <1>3 DEF Checked
<1>5. total' = PayloadSum[Len(supplied)]
  <2>1. total = PayloadSum[Len(segments)]
    BY <1>1 DEF PathInv
  <2>2. PayloadSum[Len(supplied)] = PayloadSum[Len(segments)] + PayloadLen(bytes)
    <3>1. /\ Len(supplied) \in Nat /\ Len(supplied) # 0
          /\ Len(supplied) - 1 = Len(segments)
      BY <1>2, <1>3
    <3> QED
      BY <1>3, <3>1, SumFacts
  <2> QED
    BY <1>1, <2>1, <2>2
<1>6. visited = Path(Len(supplied))
  BY <1>1, <1>3 DEF PathInv
<1> QED
  BY <1>2, <1>3, <1>4, <1>5, <1>6 DEF Path

LEMMA AcceptedReturn ==
  ASSUME ChainInv, PathInv, Complete \/ RejectCycle \/ LimitBeforeResolve
  PROVE  VerdictIsDeserved'
<1> DEFINE n == Len(supplied)
<1>1. /\ Accept /\ pc = "segment" /\ UNCHANGED <<limits, requests, supplied>>
  BY DEF Complete, RejectCycle, LimitBeforeResolve, FollowNew, Return, Accept, Exact,
     ReadyToParse
<1>2. /\ n \in Nat /\ n > 0
      /\ \A i \in 1..(n - 1) : WellFormed(supplied'[i]) /\ supplied'[i].continued
      /\ n > 1 => PayloadSum'[n - 1] <= limits'.max_total_payload_bytes
      /\ PayloadSum'[n] = PayloadSum[n]
      /\ \A i : PathTarget(i)' = PathTarget(i)
  BY <1>1, ReturnFrame
<1>3. /\ bytes = supplied[n] /\ Len(segments') = n
      /\ \A i \in 1..n : WellFormed(supplied[i])
      /\ n <= limits.max_segments
      /\ PayloadSum[n] <= limits.max_total_payload_bytes
      /\ bytes.next \in visited <=> \E i \in 1..n : bytes.next = PathTarget(i)
  BY <1>1, AcceptDeserved
<1>4. limits.max_segments \in Nat
  BY LimitsAssumption DEF ChainInv, TypeOK, ChainLimits
<1>5. CASE Complete
  <2>1. result'.verdict = "Ok" /\ ~bytes.continued
    BY <1>5 DEF Complete, Return
  <2> QED
    BY <1>1, <1>2, <1>3, <2>1 DEF VerdictIsDeserved
<1>6. CASE RejectCycle
  <2>1. /\ result'.verdict = "Cycle" /\ result'.target = bytes.next
        /\ bytes.continued /\ bytes.next \in visited
    BY <1>6 DEF RejectCycle, Return
  <2> QED
    BY <1>1, <1>2, <1>3, <2>1 DEF VerdictIsDeserved
<1>7. CASE LimitBeforeResolve
  <2>1. /\ result'.verdict = "SegmentLimit" /\ result'.number = n + 1
        /\ bytes.continued /\ bytes.next \notin visited /\ n = limits.max_segments
    BY <1>2, <1>3, <1>4, <1>7 DEF LimitBeforeResolve, FollowNew, Return
  <2> QED
    BY <1>1, <1>2, <1>3, <2>1 DEF VerdictIsDeserved
<1> QED
  BY <1>5, <1>6, <1>7

LEMMA RejectedReturn ==
  ASSUME ChainInv, PathInv,
         LimitBeforeParse \/ RejectHeader \/ RejectTrailingBytes \/ RejectPayload
  PROVE  VerdictIsDeserved'
<1> DEFINE n == Len(supplied)
<1>1. /\ pc = "segment" /\ UNCHANGED <<limits, requests, supplied>>
  BY DEF LimitBeforeParse, RejectHeader, RejectTrailingBytes, RejectPayload, Exact,
     ReadyToParse, Return, walker
<1>2. /\ n \in Nat /\ n > 0
      /\ \A i \in 1..(n - 1) : WellFormed(supplied'[i]) /\ supplied'[i].continued
      /\ n > 1 => PayloadSum'[n - 1] <= limits'.max_total_payload_bytes
      /\ PayloadSum'[n] = PayloadSum[n]
      /\ \A i : PathTarget(i)' = PathTarget(i)
  BY <1>1, ReturnFrame
<1>3. /\ Len(segments) = n - 1 /\ bytes = supplied[n] /\ target = PathTarget(n)
      /\ segments = <<>> \/ Len(segments) < limits.max_segments
      /\ bytes \in ByteString /\ total = PayloadSum[n - 1]
      /\ limits.max_segments \in Nat /\ limits.max_total_payload_bytes \in Nat
      /\ total \in Nat /\ total <= limits.max_total_payload_bytes
  <2>1. /\ n = Len(segments) + 1 /\ bytes = supplied[n] /\ target = PathTarget(n)
        /\ segments = <<>> \/ Len(segments) < limits.max_segments
        /\ Len(segments) \in Nat /\ total = PayloadSum[Len(segments)]
        /\ total \in Nat /\ total <= limits.max_total_payload_bytes
    BY <1>1 DEF ChainInv, LimitsInv, InStep, TypeOK, PathInv, WithinLimits
  <2>2. /\ bytes \in ByteString
        /\ limits.max_segments \in Nat /\ limits.max_total_payload_bytes \in Nat
    BY BytesAssumption, LimitsAssumption DEF ChainInv, TypeOK, ChainLimits
  <2> QED
    BY <2>1, <2>2
<1>4. CASE LimitBeforeParse
  <2>1. segments = <<>> /\ limits.max_segments = 0 /\ n = 1
    BY <1>2, <1>3, <1>4 DEF LimitBeforeParse, NoRoom
  <2>2. result'.verdict = "SegmentLimit" /\ result'.number = 1
    BY <1>2, <1>3, <1>4, <2>1 DEF LimitBeforeParse, Return
  <2> QED
    BY <1>1, <1>2, <2>1, <2>2 DEF VerdictIsDeserved
<1>5. CASE RejectHeader \/ RejectTrailingBytes
  <2>1. /\ result'.verdict \in {"MissingHeader", "InvalidLength", "TrailingBytes"}
        /\ result'.target = target /\ result'.number = n - 1
    BY <1>3, <1>5 DEF RejectHeader, RejectTrailingBytes, Return
  <2>2. ~WellFormed(bytes)
    BY <1>3, <1>5 DEF RejectHeader, RejectTrailingBytes, MissingHeader, InvalidLength, Parsed,
       WellFormed, ByteString, HeaderLen, ROW_SEGMENT_HEADER_LEN,
       CONTINUED_ROW_SEGMENT_HEADER_LEN
  <2>3. result'.verdict = Defect(bytes)
    <3>1. CASE RejectHeader
      BY <1>3, <3>1 DEF RejectHeader, Return, MissingHeader, InvalidLength, Defect,
         ByteString, HeaderLen, ROW_SEGMENT_HEADER_LEN, CONTINUED_ROW_SEGMENT_HEADER_LEN
    <3>2. CASE RejectTrailingBytes
      BY <1>3, <3>2 DEF RejectTrailingBytes, Return, Parsed, MissingHeader, InvalidLength,
         Defect, ByteString, HeaderLen, ROW_SEGMENT_HEADER_LEN,
         CONTINUED_ROW_SEGMENT_HEADER_LEN
    <3> QED
      BY <1>5, <3>1, <3>2
  <2> QED
    BY <1>1, <1>2, <1>3, <2>1, <2>2, <2>3 DEF VerdictIsDeserved
<1>6. CASE RejectPayload
  <2>1. /\ result'.verdict = "PayloadLimit" /\ result'.number = total + PayloadLen(bytes)
        /\ Exact /\ OverBudget
    BY <1>6 DEF RejectPayload, Return
  <2>2. WellFormed(bytes) /\ PayloadLen(bytes) \in Nat
    BY <1>3, <2>1 DEF Exact, MissingHeader, InvalidLength, Parsed, PayloadLen,
       WellFormed, ByteString, HeaderLen, ROW_SEGMENT_HEADER_LEN,
       CONTINUED_ROW_SEGMENT_HEADER_LEN
  <2>3. PayloadSum[n] = total + PayloadLen(bytes)
    BY <1>2, <1>3, SumFacts
  <2>4. PayloadSum[n] > limits.max_total_payload_bytes
    BY <1>3, <2>1, <2>2, <2>3 DEF OverBudget
  <2> QED
    BY <1>1, <1>2, <1>3, <2>1, <2>2, <2>3, <2>4 DEF VerdictIsDeserved
<1> QED
  BY <1>4, <1>5, <1>6

(* When resolve fails, the target it was asked for is the continuation of   *)
(* the last segment and lies off the path.                                  *)
LEMMA ResolverReturn ==
  ASSUME ChainInv, PathInv, NeverResolvedTwice, ResolveFails
  PROVE  VerdictIsDeserved'
<1> DEFINE n == Len(supplied)
<1>1. /\ pc = "resolve" /\ UNCHANGED <<limits, requests, supplied>>
      /\ result'.verdict = "Resolver" /\ result'.target = Requested
  BY DEF ResolveFails, Return, walker
<1>2. /\ n \in Nat /\ n > 0
      /\ \A i \in 1..(n - 1) : WellFormed(supplied'[i]) /\ supplied'[i].continued
      /\ n > 1 => PayloadSum'[n - 1] <= limits'.max_total_payload_bytes
      /\ PayloadSum'[n] = PayloadSum[n]
      /\ \A i : PathTarget(i)' = PathTarget(i)
  BY <1>1, ReturnFrame
<1>3. /\ Len(requests) = n /\ Len(segments) = n /\ n < limits.max_segments
      /\ limits.max_segments \in Nat /\ limits.max_total_payload_bytes \in Nat
      /\ total = PayloadSum[n] /\ total <= limits.max_total_payload_bytes
  BY <1>1, LimitsAssumption
     DEF ChainInv, LimitsInv, InStep, WithinLimits, PathInv, TypeOK, ChainLimits
<1>4. /\ \A i \in 1..n : WellFormed(supplied[i])
      /\ supplied[n].continued /\ requests[n] = supplied[n].next
  BY <1>2, <1>3 DEF ChainInv, ContentsInv, ChainFollowsBytes, Checked
<1>5. ASSUME NEW i \in 1..n PROVE supplied[n].next # PathTarget(i)
  <2>1. CASE i = 1
    BY <1>2, <1>3, <1>4, <2>1 DEF NeverResolvedTwice, PathTarget
  <2>2. CASE i # 1
    <3>1. i - 1 \in 1..n /\ i - 1 # n /\ n \in 1..n
      BY <1>2, <2>2
    <3> QED
      BY <1>3, <1>4, <2>2, <3>1 DEF NeverResolvedTwice, PathTarget
  <2> QED
    BY <2>1, <2>2
<1> QED
  BY <1>1, <1>2, <1>3, <1>4, <1>5 DEF VerdictIsDeserved, Requested

LEMMA StutterKeepsPath ==
  ASSUME PathInv, UNCHANGED vars
  PROVE  PathInv'
<1>1. ASSUME NEW n \in Nat PROVE PayloadSum'[n] = PayloadSum[n]
  <2>1. (\A i \in 1..n : supplied'[i] = supplied[i]) /\ n \in 0..n
    BY DEF vars
  <2> QED
    BY <2>1, SumKept
<1>2. PayloadSum = [n \in Nat |-> PayloadSum[n]] /\ PayloadSum' = [n \in Nat |-> PayloadSum'[n]]
  BY PayloadSums, PayloadSumsNext DEF Sums
<1>3. PayloadSum' = PayloadSum
  BY <1>1, <1>2
<1>4. UNCHANGED <<limits, pc, segments, total, visited, result, requests, supplied>>
  BY DEF vars
<1>5. \A n : Path(n)' = Path(n)
  BY <1>4 DEF Path, PathTarget
<1>6. VerdictIsDeserved'
  BY <1>3, <1>4 DEF PathInv, VerdictIsDeserved, PathTarget
<1> QED
  BY <1>3, <1>4, <1>5, <1>6 DEF PathInv

LEMMA PathStep ==
  ASSUME ChainInv, NeverResolvedTwice, PathInv, [Next]_vars
  PROVE  PathInv'
<1>0. /\ pc \in {"segment", "resolve", "returned"}
      /\ Len(requests) \in Nat /\ Len(segments) \in Nat /\ Len(supplied) \in Nat
      /\ requests \in Seq(Target) /\ supplied \in Seq(Bytes)
  BY DEF ChainInv, TypeOK
<1>1. CASE Complete \/ RejectCycle \/ LimitBeforeResolve
  <2>1. pc' = "returned"
    BY <1>1 DEF Complete, RejectCycle, LimitBeforeResolve, Return
  <2> QED
    BY <1>1, <2>1, AcceptedReturn DEF PathInv
<1>2. CASE LimitBeforeParse \/ RejectHeader \/ RejectTrailingBytes \/ RejectPayload
  <2>1. pc' = "returned"
    BY <1>2 DEF LimitBeforeParse, RejectHeader, RejectTrailingBytes, RejectPayload, Return
  <2> QED
    BY <1>2, <2>1, RejectedReturn DEF PathInv
<1>3. CASE ResolveFails
  <2>1. pc' = "returned"
    BY <1>3 DEF ResolveFails, Return
  <2> QED
    BY <1>3, <2>1, ResolverReturn DEF PathInv
<1>4. CASE CallResolve
  <2>1. /\ Accept /\ pc = "segment" /\ pc' = "resolve"
        /\ visited' = visited \cup {bytes.next}
        /\ requests' = Append(requests, bytes.next) /\ UNCHANGED <<limits, supplied>>
        /\ total' = total + PayloadLen(bytes)
    BY <1>4 DEF CallResolve, FollowNew, Accept, Exact, ReadyToParse
  <2>2. /\ Len(requests) = Len(segments) /\ Len(segments') = Len(segments) + 1
        /\ Len(supplied) = Len(segments) + 1 /\ bytes = supplied[Len(segments) + 1]
        /\ visited = Path(Len(requests) + 1) /\ total = PayloadSum[Len(segments)]
    <3>1. TypeOK /\ LimitsInv /\ ContentsInv
      BY DEF ChainInv
    <3> QED
      BY <2>1, <3>1, AcceptFacts DEF LimitsInv, InStep, PathInv
  <2>3. total' = PayloadSum'[Len(segments')]
    <3>1. PICK k \in Nat : k = Len(segments) + 1
      BY <1>0
    <3>2. total' = PayloadSum[k]
      <4>1. k # 0 /\ k - 1 = Len(segments) /\ bytes = supplied[k]
        BY <1>0, <2>2, <3>1
      <4>2. PayloadSum[k] = PayloadSum[k - 1] + PayloadLen(supplied[k])
        BY <4>1, SumFacts
      <4> QED
        BY <2>1, <2>2, <4>1, <4>2
    <3>3. PayloadSum'[k] = PayloadSum[k]
      <4>1. (\A i \in 1..k : supplied'[i] = supplied[i]) /\ k \in 0..k
        BY <2>1
      <4> QED
        BY <3>1, <4>1, SumKept
    <3> QED
      BY <2>2, <3>1, <3>2, <3>3
  <2>4. visited' = {PathTarget(i)' : i \in 1..(Len(requests') + 1)}
    <3>0. PICK k \in Nat : k = Len(requests)
      BY <1>0
    <3>1. /\ bytes.next \in Target /\ Len(requests') = k + 1
          /\ requests'[k + 1] = bytes.next
          /\ \A i \in 1..k : requests'[i] = requests[i]
      BY <1>0, <2>1, <3>0, AcceptType DEF ChainInv
    <3>2. ASSUME NEW i \in 1..(k + 1) PROVE PathTarget(i)' = PathTarget(i)
      <4>1. i # 1 => i - 1 \in 1..k
        OBVIOUS
      <4> QED
        BY <3>1, <4>1 DEF PathTarget
    <3>3. PathTarget(k + 2)' = bytes.next
      <4>1. k + 2 # 1 /\ (k + 2) - 1 = k + 1
        OBVIOUS
      <4> QED
        BY <3>1, <4>1 DEF PathTarget
    <3>4. 1..(Len(requests') + 1) = (1..(k + 1)) \cup {k + 2}
      BY <3>1
    <3>5. visited = {PathTarget(i)' : i \in 1..(k + 1)}
      BY <2>2, <3>0, <3>2 DEF Path
    <3> QED
      BY <2>1, <3>3, <3>4, <3>5
  <2>5. visited' = Path(Len(requests) + 1)'
    BY <2>4 DEF Path
  <2>6. VerdictIsDeserved'
    BY <2>1 DEF VerdictIsDeserved
  <2> QED
    BY <2>3, <2>5, <2>6 DEF PathInv
<1>5. ASSUME NEW b \in Bytes, ResolveAnswers(b)
      PROVE  PathInv'
  <2>1. /\ pc = "resolve" /\ pc' = "segment" /\ supplied' = Append(supplied, b)
        /\ UNCHANGED <<limits, segments, total, visited, requests>>
    BY <1>5 DEF ResolveAnswers
  <2>2. Len(supplied) = Len(segments)
    BY <2>1 DEF ChainInv, LimitsInv, InStep
  <2>3. \A i \in 1..Len(segments) : supplied'[i] = supplied[i]
    BY <1>0, <2>1, <2>2
  <2>4. PayloadSum'[Len(segments)] = PayloadSum[Len(segments)]
    <3>1. Len(segments) \in 0..Len(segments)
      BY <1>0
    <3> QED
      BY <1>0, <2>3, <3>1, SumKept
  <2>5. Path(Len(requests) + 1)' = Path(Len(requests) + 1)
    BY <2>1 DEF Path, PathTarget
  <2> QED
    BY <2>1, <2>4, <2>5 DEF PathInv, VerdictIsDeserved
<1>6. CASE UNCHANGED vars
  BY <1>6, StutterKeepsPath
<1> QED
  BY <1>1, <1>2, <1>3, <1>4, <1>5, <1>6 DEF Next, Walk, Resolve

THEOREM PathInvariant == Spec => []PathInv
BY PathInit, PathStep, ChainInvariant, NoTargetTwice, PTL DEF Spec

(* Whatever the walk returns is what the supplied bytes and the limits call *)
(* for: Ok only for a whole chain, a cycle before a limit, a limit only     *)
(* before a new target, and a payload limit that tells the real sum.        *)
THEOREM VerdictsAreDeserved == Spec => []VerdictIsDeserved
<1>1. PathInv => VerdictIsDeserved
  BY DEF PathInv
<1> QED
  BY <1>1, PathInvariant, PTL
=============================================================================
