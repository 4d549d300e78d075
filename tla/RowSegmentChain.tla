-------------------------- MODULE RowSegmentChain --------------------------
(***************************************************************************)
(* walk_row_segment_chain and parse_row_segment of row_segment.rs.        *)
(*                                                                         *)
(* One behaviour is one call of the walker.  The walker owns the loop; the *)
(* `resolve` closure is the caller's, so its answers are the environment's *)
(* choice: any well-formed or malformed bytes, or an error, and nothing   *)
(* forces it to answer consistently.  Bytes are abstracted to the facts   *)
(* the header parser reads: how many there are, the declared length, the  *)
(* continuation bit and the continuation target.                          *)
(***************************************************************************)
EXTENDS Integers, Sequences

CONSTANTS
  Target,         \* continuation targets {resolver_key, record_id}
  InitialTarget,  \* the identity the caller gives to the first segment
  Bytes,          \* the byte strings a caller or a resolver may supply
  Limits          \* the limits a caller may ask for

ByteString == [len : Nat, declared : Nat, continued : BOOLEAN, next : Target]

ChainLimits == [max_segments : Nat, max_total_payload_bytes : Nat]

ASSUME TargetAssumption == InitialTarget \in Target
ASSUME BytesAssumption == Bytes \subseteq ByteString
ASSUME LimitsAssumption == Limits \subseteq ChainLimits

ROW_SEGMENT_HEADER_LEN == 3
CONTINUED_ROW_SEGMENT_HEADER_LEN == 9

VARIABLES
  limits,     \* RowSegmentChainLimits of this call
  pc,         \* "segment": loop top, "resolve": inside resolve, "returned"
  target,     \* identity of the bytes in hand
  bytes,      \* the bytes in hand
  segments,   \* the segments accepted so far
  total,      \* total_payload_bytes
  visited,    \* targets seen, the initial one included
  result,     \* what the call returned
  requests,   \* history: the targets resolve was called with, in order
  supplied    \* history: the bytes the caller and resolve supplied, in order

vars == <<limits, pc, target, bytes, segments, total, visited, result,
          requests, supplied>>
walker == <<target, bytes, segments, total, visited, supplied>>

---------------------------------------------------------------------------
(* parse_row_segment *)

HeaderLen(b) ==
  IF b.continued THEN CONTINUED_ROW_SEGMENT_HEADER_LEN
                 ELSE ROW_SEGMENT_HEADER_LEN

MissingHeader(b) == b.len < ROW_SEGMENT_HEADER_LEN

(* Mutant: the declared length is not compared with the header length. *)
MutInvalidLength(b) == ~MissingHeader(b) /\ b.declared > b.len

InvalidLength(b) ==
  /\ ~MissingHeader(b)
  /\ b.declared < HeaderLen(b) \/ b.declared > b.len

Parsed(b) == ~MissingHeader(b) /\ ~InvalidLength(b)

PayloadLen(b) == b.declared - HeaderLen(b)

---------------------------------------------------------------------------
(* The result of the call: `number` is the segment index of a rejected     *)
(* segment, or the attempted number of segments or payload bytes.          *)

Verdict == {"Ok", "MissingHeader", "InvalidLength", "TrailingBytes",
            "Resolver", "SegmentLimit", "PayloadLimit", "Cycle"}

Results == [verdict : Verdict \cup {"Pending"}, target : Target, number : Nat]

Return(verdict, t, n) ==
  /\ pc' = "returned"
  /\ result' = [verdict |-> verdict, target |-> t, number |-> n]
  /\ UNCHANGED <<limits, requests>>

Init ==
  /\ limits \in Limits
  /\ pc = "segment"
  /\ target = InitialTarget
  /\ bytes \in Bytes
  /\ segments = <<>>
  /\ total = 0
  /\ visited = {InitialTarget}
  /\ result = [verdict |-> "Pending", target |-> InitialTarget, number |-> 0]
  /\ requests = <<>>
  /\ supplied = <<bytes>>

---------------------------------------------------------------------------
(* One iteration of the loop, up to its return or its call of resolve.     *)

NoRoom == Len(segments) >= limits.max_segments

LimitBeforeParse ==
  /\ pc = "segment"
  /\ NoRoom
  /\ Return("SegmentLimit", target, Len(segments) + 1)
  /\ UNCHANGED walker

(* The checks of an iteration pass in this order: room for the segment,    *)
(* its header, its exact length, its payload.                              *)
ReadyToParse == pc = "segment" /\ ~NoRoom

RejectHeader ==
  /\ ReadyToParse
  /\ \/ MissingHeader(bytes) /\ Return("MissingHeader", target, Len(segments))
     \/ InvalidLength(bytes) /\ Return("InvalidLength", target, Len(segments))
  /\ UNCHANGED walker

RejectTrailingBytes ==
  /\ ReadyToParse
  /\ Parsed(bytes)
  /\ bytes.declared # bytes.len
  /\ Return("TrailingBytes", target, Len(segments))
  /\ UNCHANGED walker

(* Mutant: bytes after the declared segment are let through. *)
MutExact == ReadyToParse /\ Parsed(bytes)

Exact == ReadyToParse /\ Parsed(bytes) /\ bytes.declared = bytes.len

(* Mutant: each payload is compared with the whole budget. *)
MutOverBudget == PayloadLen(bytes) > limits.max_total_payload_bytes

(* saturating_sub of the remaining budget *)
OverBudget ==
  LET remaining == IF total > limits.max_total_payload_bytes THEN 0
                   ELSE limits.max_total_payload_bytes - total
  IN  PayloadLen(bytes) > remaining

RejectPayload ==
  /\ Exact
  /\ OverBudget
  /\ Return("PayloadLimit", target, total + PayloadLen(bytes))
  /\ UNCHANGED walker

Accept ==
  /\ Exact
  /\ ~OverBudget
  /\ total' = total + PayloadLen(bytes)
  /\ segments' = Append(segments,
       [target |-> target, continued |-> bytes.continued,
        declared_len |-> bytes.declared, payload |-> PayloadLen(bytes)])
  /\ UNCHANGED <<target, bytes, supplied>>

Complete ==
  /\ Accept
  /\ ~bytes.continued
  /\ Return("Ok", target, 0)
  /\ UNCHANGED visited

(* Mutant: a repeated target is looped over instead of returned. *)
MutRejectCycle ==
  /\ Exact
  /\ bytes.continued
  /\ bytes.next \in visited
  /\ UNCHANGED vars

RejectCycle ==
  /\ Accept
  /\ bytes.continued
  /\ bytes.next \in visited
  /\ Return("Cycle", bytes.next, 0)
  /\ UNCHANGED visited

(* Mutant: visited.insert is forgotten. *)
MutFollowNew ==
  /\ Accept
  /\ bytes.continued
  /\ bytes.next \notin visited
  /\ UNCHANGED visited

(* Mutant: the limit is looked at before the repeated target. *)
MutFollowAtLimit ==
  /\ Accept
  /\ bytes.continued
  /\ bytes.next \notin visited \/ Len(segments') >= limits.max_segments
  /\ visited' = visited \cup {bytes.next}

FollowNew ==
  /\ Accept
  /\ bytes.continued
  /\ bytes.next \notin visited
  /\ visited' = visited \cup {bytes.next}

LimitBeforeResolve ==
  /\ FollowNew
  /\ Len(segments') >= limits.max_segments
  /\ Return("SegmentLimit", bytes.next, Len(segments') + 1)

CallResolve ==
  /\ FollowNew
  /\ Len(segments') < limits.max_segments
  /\ pc' = "resolve"
  /\ requests' = Append(requests, bytes.next)
  /\ UNCHANGED <<limits, result>>

---------------------------------------------------------------------------
(* The caller's closure returns. *)

Requested == requests[Len(requests)]

ResolveFails ==
  /\ pc = "resolve"
  /\ Return("Resolver", Requested, 0)
  /\ UNCHANGED walker

(* Mutant: the new bytes keep the identity of the segment before them. *)
MutResolveAnswers(b) ==
  /\ pc = "resolve"
  /\ pc' = "segment"
  /\ bytes' = b
  /\ supplied' = Append(supplied, b)
  /\ UNCHANGED <<limits, target, segments, total, visited, result, requests>>

ResolveAnswers(b) ==
  /\ pc = "resolve"
  /\ pc' = "segment"
  /\ bytes' = b
  /\ target' = Requested
  /\ supplied' = Append(supplied, b)
  /\ UNCHANGED <<limits, segments, total, visited, result, requests>>

Walk ==
  \/ LimitBeforeParse
  \/ RejectHeader
  \/ RejectTrailingBytes
  \/ RejectPayload
  \/ Complete
  \/ RejectCycle
  \/ LimitBeforeResolve
  \/ CallResolve

Resolve == ResolveFails \/ \E b \in Bytes : ResolveAnswers(b)

Next == Walk \/ Resolve

Spec == Init /\ [][Next]_vars

(* The loop runs to its next return or call, and the closure returns.      *)
Fairness == WF_vars(Walk) /\ WF_vars(Resolve)

FairSpec == Spec /\ Fairness

---------------------------------------------------------------------------
(* Properties.  They speak of the calls made and the bytes supplied, which *)
(* the caller sees, and only then of the walker's own variables.           *)

Segment == [target : Target, continued : BOOLEAN, declared_len : Nat,
            payload : Nat]

(* Every variable keeps to its type. *)
TypeOK ==
  /\ limits \in Limits
  /\ pc \in {"segment", "resolve", "returned"}
  /\ target \in Target
  /\ bytes \in Bytes
  /\ segments \in Seq(Segment)
  /\ total \in Nat
  /\ visited \in SUBSET Target
  /\ result \in Results
  /\ requests \in Seq(Target)
  /\ supplied \in Seq(Bytes)

(* The identity of the i-th bytes supplied. *)
PathTarget(i) == IF i = 1 THEN InitialTarget ELSE requests[i - 1]

(* The resolver is never asked twice for one target and never for the      *)
(* initial one ("resolve is called only for later targets"), although      *)
(* what it answers may point anywhere.                                     *)
NeverResolvedTwice ==
  /\ \A i, j \in 1..Len(requests) : requests[i] = requests[j] => i = j
  /\ \A i \in 1..Len(requests) : requests[i] # InitialTarget

(* However long the chain the resolver spins, the walker asks for fewer    *)
(* targets than max_segments, keeps at most max_segments segments, and the *)
(* payload it copies stays within the caller's budget.                     *)
WithinLimits ==
  /\ Len(requests) < limits.max_segments \/ requests = <<>>
  /\ Len(segments) <= limits.max_segments
  /\ total <= limits.max_total_payload_bytes

(* The segments are the path the supplied bytes describe: the i-th carries *)
(* the i-th target and the i-th bytes' content, and each request is for    *)
(* the continuation of the segment before it.                              *)
ChainFollowsBytes ==
  /\ \A i \in 1..Len(requests) :
       supplied[i].continued /\ requests[i] = supplied[i].next
  /\ \A i \in 1..Len(segments) :
       segments[i] = [target |-> PathTarget(i),
                      continued |-> supplied[i].continued,
                      declared_len |-> supplied[i].len,
                      payload |-> supplied[i].len - HeaderLen(supplied[i])]

WellFormed(b) ==
  b.len >= ROW_SEGMENT_HEADER_LEN /\ HeaderLen(b) <= b.declared /\ b.declared = b.len

(* What is wrong with bytes that are not well formed: the first of too few  *)
(* for any header, a declared length that cannot be, and bytes left over.   *)
Defect(b) ==
  IF b.len < ROW_SEGMENT_HEADER_LEN THEN "MissingHeader"
  ELSE IF b.declared \in HeaderLen(b)..b.len THEN "TrailingBytes" ELSE "InvalidLength"

PayloadSum[i \in Nat] ==
  IF i = 0 THEN 0 ELSE PayloadSum[i - 1] + PayloadLen(supplied[i])

(* Each verdict is the one the supplied bytes and the limits call for: Ok  *)
(* only for a whole chain that ends in an uncontinued segment, Cycle even  *)
(* when the limit is reached at the same segment, SegmentLimit only for a  *)
(* new target, and a reject only for the last bytes supplied, by the first *)
(* thing wrong with them, every earlier one being well formed and within   *)
(* the budget.                                                             *)
VerdictIsDeserved ==
  pc = "returned" =>
    LET n       == Len(supplied)
        last    == supplied[n]
        budget  == limits.max_total_payload_bytes
        onPath  == \E i \in 1..n : last.next = PathTarget(i)
        sound   == /\ \A i \in 1..n : WellFormed(supplied[i])
                   /\ n <= limits.max_segments
                   /\ PayloadSum[n] <= budget
    IN  /\ \A i \in 1..(n - 1) : WellFormed(supplied[i]) /\ supplied[i].continued
        /\ n > 1 => PayloadSum[n - 1] <= budget
        /\ CASE result.verdict = "Ok" ->
                  sound /\ ~last.continued /\ Len(segments) = n
             [] result.verdict = "Cycle" ->
                  sound /\ last.continued /\ onPath /\ result.target = last.next
             [] result.verdict = "SegmentLimit" ->
                  \/ limits.max_segments = 0 /\ n = 1 /\ result.number = 1
                  \/ /\ sound /\ last.continued /\ ~onPath
                     /\ n = limits.max_segments /\ result.number = n + 1
             [] result.verdict = "Resolver" ->
                  sound /\ last.continued /\ ~onPath /\ result.target = last.next
             [] result.verdict = "PayloadLimit" ->
                  WellFormed(last) /\ result.number = PayloadSum[n]
                  /\ PayloadSum[n] > budget
             [] OTHER ->
                  ~WellFormed(last) /\ result.verdict = Defect(last)
                  /\ result.number = n - 1 /\ result.target = PathTarget(n)

(* Fail-closed: the resolver is called only when everything supplied so    *)
(* far has been checked and accepted and there is room for one more        *)
(* segment, and never again once the call has returned.                    *)
CallsOnlyWhenChecked ==
  [][requests' # requests =>
       /\ \A i \in 1..Len(supplied) : WellFormed(supplied[i])
       /\ Len(segments') = Len(supplied)
       /\ Len(segments') < limits.max_segments
       /\ total' <= limits.max_total_payload_bytes
       /\ result.verdict = "Pending"]_vars

(* The accepted targets are a bounded walk without repetition. *)
Abstract == INSTANCE BoundedWalk WITH
  Item <- Target,
  path <- [i \in 1..Len(segments) |-> segments[i].target],
  limit <- limits.max_segments,
  walking <- pc # "returned"

IsBoundedWalk == Abstract!WalkSpec

=============================================================================
