-------------------------- MODULE PageLinks_proofs --------------------------
(***************************************************************************)
(* What walk_page_links guarantees for every store size, page content and  *)
(* bound, when its lookup runs find_page_link_metadata on decoded pages.   *)
(***************************************************************************)
EXTENDS PageLinks, SequenceTheorems, TLAPS

(* What the page scan hands to the walk: metadata of the right type, whose *)
(* InRange target is a page of the store other than zero and the page that *)
(* holds the block, and whose Invalid one is not.                          *)
Trusted(m, page) ==
  /\ m \in MetadataResult
  /\ m.kind = "InRange" =>
       m.raw \in PageNumber /\ m.raw \in 1..(PageCount - 1) /\ m.raw # page
  /\ m.kind = "Invalid" => m.raw = 0 \/ m.raw >= PageCount \/ m.raw = page

LEMMA MetadataTrusted ==
  ASSUME NEW content \in Contents, NEW page \in PageNumber,
         NEW m \in Metadata(content, page)
  PROVE  Trusted(m, page)
<1>1. CASE m = NoMetadata
  BY <1>1 DEF NoMetadata, Trusted, MetadataResult, MetadataKind
<1>2. CASE m # NoMetadata
  <2>1. PICK i \in Matches(content, page) : m = TargetOf(content[i], page)
    BY <1>2 DEF Metadata, First
  <2>2. content \in Seq(Block) /\ i \in 1..Len(content)
    BY ContentsAssumption DEF Matches
  <2>3. content[i] \in Block
    BY <2>2
  <2>4. content[i].raw \in PageNumber /\ content[i].raw \in Nat
    BY <2>3, PagesAssumption DEF Block
  <2> QED
    BY <2>1, <2>4, PagesAssumption DEF TargetOf, Trusted, MetadataResult, MetadataKind
<1> QED
  BY <1>1, <1>2

(* What lookup returns, decoded or not. *)
LEMMA LookupTrusted ==
  ASSUME TypeOK, LookupReturns
  PROVE  \E m \in MetadataResult : Trusted(m, current) /\ Lookup(m)
<1>1. CASE LookupUndecodable
  BY <1>1 DEF LookupUndecodable, NoMetadata, Trusted, MetadataResult, MetadataKind
<1>2. ASSUME NEW content \in Contents, LookupDecoded(content)
      PROVE  \E m \in MetadataResult : Trusted(m, current) /\ Lookup(m)
  BY <1>2, MetadataTrusted DEF LookupDecoded, TypeOK, Trusted
<1> QED
  BY <1>1, <1>2 DEF LookupReturns

---------------------------------------------------------------------------
(* The page in hand inside lookup is the last one visited; outside it every *)
(* visited page has its metadata.                                           *)
InStep ==
  /\ pc = "loop" => Len(found) = Len(pages)
  /\ pc = "lookup" =>
       Len(pages) = Len(found) + 1 /\ pages[Len(found) + 1] = current

Distinct == \A i, j \in 1..Len(pages) : pages[i] = pages[j] => i = j

WalkInv == TypeOK /\ InStep /\ OnlySafeTargetsFollowed /\ Distinct /\ StopIsTrue

LEMMA WalkInvInit == Init => WalkInv
BY MaxPagesAssumption
   DEF Init, WalkInv, TypeOK, InStep, OnlySafeTargetsFollowed, Distinct, Stops, StopIsTrue

(* Each stop tells the truth.  A repeated page is not the one just visited, *)
(* for a block that names its own page is never followed, nor page zero.    *)
LEMMA LimitIsTrue ==
  ASSUME WalkInv, StopAtLimit
  PROVE  StopIsTrue'
<1>1. /\ pc = "loop" /\ stop'.reason = "LimitReached" /\ ~(Len(pages) < maxPages)
      /\ UNCHANGED <<maxPages, pages, found>>
  BY DEF StopAtLimit, Return, BelowLimit
<1>2. Len(pages) = maxPages /\ Len(found) = Len(pages)
  BY <1>1, MaxPagesAssumption DEF WalkInv, TypeOK, InStep
<1> QED
  BY <1>1, <1>2 DEF StopIsTrue

LEMMA CycleIsTrue ==
  ASSUME WalkInv, StopAtCycle
  PROVE  StopIsTrue'
<1>1. /\ pc = "loop" /\ stop' = [reason |-> "Cycle", page |-> current]
      /\ Len(pages) < maxPages /\ current \in Visited
      /\ UNCHANGED <<maxPages, pages, found>>
  BY DEF StopAtCycle, Return, BelowLimit
<1>2. PICK i \in 1..Len(pages) : pages[i] = current
  BY <1>1 DEF Visited
<1>3. Len(found) = Len(pages) /\ Len(pages) \in Nat /\ pages # <<>>
  BY <1>1, <1>2 DEF WalkInv, TypeOK, InStep
<1>4. Edge(pages[Len(pages)], found[Len(pages)], current)
  BY <1>1, <1>3 DEF WalkInv, OnlySafeTargetsFollowed
<1>5. current # 0 /\ i \in 1..(Len(pages) - 1)
  BY <1>2, <1>3, <1>4, PagesAssumption DEF Edge
<1> QED
  BY <1>1, <1>2, <1>3, <1>5 DEF StopIsTrue

LEMMA StopOnIsTrue ==
  ASSUME WalkInv, pc = "lookup", NEW m \in MetadataResult, Trusted(m, current), StopOn(m)
  PROVE  StopIsTrue'
<1>1. /\ found' = Append(found, m) /\ UNCHANGED <<maxPages, pages>>
      /\ \/ m.kind = "None" /\ stop'.reason = "MissingMetadata"
         \/ m.kind = "Absent" /\ stop'.reason = "NoLink"
         \/ m.kind = "Invalid" /\ stop' = [reason |-> "InvalidTarget", page |-> m.raw]
  BY DEF StopOn, Return
<1>2. /\ Len(pages) = Len(found) + 1 /\ pages[Len(pages)] = current
      /\ Len(found') = Len(pages) /\ found'[Len(found')] = m /\ found' # <<>>
  BY <1>1 DEF WalkInv, TypeOK, InStep
<1> QED
  BY <1>1, <1>2 DEF StopIsTrue, Trusted

LEMMA WalkInvStep == WalkInv /\ [Next]_vars => WalkInv'
<1> SUFFICES ASSUME WalkInv, [Next]_vars
             PROVE  WalkInv'
  OBVIOUS
<1> USE DEF WalkInv
<1>0. /\ Len(pages) \in Nat /\ Len(found) \in Nat /\ maxPages \in Nat
      /\ \A i \in 1..Len(pages) : pages[i] \in PageNumber
  BY MaxPagesAssumption DEF TypeOK
<1>1. CASE StopAtLimit \/ StopAtCycle
  <2>1. /\ pc' = "returned" /\ stop' \in Stops
        /\ UNCHANGED <<maxPages, current, pages, found>>
    BY <1>1 DEF StopAtLimit, StopAtCycle, Return, Stops, StopReason, TypeOK
  <2>2. TypeOK' /\ InStep' /\ OnlySafeTargetsFollowed' /\ Distinct'
    BY <2>1 DEF TypeOK, InStep, OnlySafeTargetsFollowed, Edge, Distinct
  <2>3. StopIsTrue'
    BY <1>1, LimitIsTrue, CycleIsTrue
  <2> QED
    BY <2>2, <2>3
<1>2. CASE Visit
  <2>1. /\ pc = "loop" /\ pc' = "lookup" /\ Len(pages) < maxPages
        /\ pages' = Append(pages, current)
        /\ UNCHANGED <<maxPages, current, stop, found>>
        /\ \A i \in 1..Len(pages) : pages[i] # current
    BY <1>2 DEF Visit, BelowLimit, Visited
  <2>2. /\ Len(pages') = Len(pages) + 1
        /\ pages'[Len(pages) + 1] = current
        /\ \A i \in 1..Len(pages) : pages'[i] = pages[i]
        /\ pages' \in Seq(PageNumber)
    BY <2>1 DEF TypeOK
  <2>3. TypeOK'
    BY <2>1, <2>2, <1>0 DEF TypeOK
  <2>4. InStep'
    BY <2>1, <2>2, <1>0 DEF InStep
  <2>5. OnlySafeTargetsFollowed'
    <3>1. ASSUME NEW i \in 2..Len(pages')
          PROVE  Edge(pages'[i - 1], found[i - 1], pages'[i])
      <4>1. CASE i = Len(pages) + 1
        BY <4>1, <2>1, <2>2, <1>0, <3>1 DEF OnlySafeTargetsFollowed
      <4>2. CASE i \in 2..Len(pages)
        BY <4>2, <2>2, <1>0 DEF OnlySafeTargetsFollowed
      <4> QED
        BY <4>1, <4>2, <2>2, <1>0
    <3> QED
      BY <3>1, <2>1 DEF OnlySafeTargetsFollowed, Edge
  <2>6. Distinct'
    BY <2>1, <2>2, <1>0 DEF Distinct
  <2>7. StopIsTrue'
    BY <2>1 DEF StopIsTrue
  <2> QED
    BY <2>3, <2>4, <2>5, <2>6, <2>7
<1>3. CASE LookupReturns
  <2>1. PICK m \in MetadataResult : Trusted(m, current) /\ Lookup(m)
    BY <1>3, LookupTrusted
  <2>2. /\ pc = "lookup" /\ found' = Append(found, m)
        /\ UNCHANGED <<maxPages, pages>>
    BY <2>1 DEF Lookup, StopOn, Follow, Return
  <2>3. /\ Len(found') = Len(found) + 1
        /\ found'[Len(found) + 1] = m
        /\ \A i \in 1..Len(found) : found'[i] = found[i]
        /\ found' \in Seq(MetadataResult)
    BY <2>2 DEF TypeOK
  <2>4. \A i \in 2..Len(pages) : Edge(pages[i - 1], found'[i - 1], pages[i])
    BY <2>2, <2>3, <1>0 DEF InStep, OnlySafeTargetsFollowed
  <2>5. CASE StopOn(m)
    <3>1. pc' = "returned" /\ stop' \in Stops /\ UNCHANGED current
      BY <2>5 DEF StopOn, Return, Stops, StopReason, MetadataResult
    <3>2. TypeOK' /\ InStep' /\ OnlySafeTargetsFollowed' /\ Distinct'
      BY <3>1, <2>2, <2>3, <2>4 DEF TypeOK, InStep, OnlySafeTargetsFollowed, Edge, Distinct
    <3>3. StopIsTrue'
      BY <2>1, <2>2, <2>5, StopOnIsTrue
    <3> QED
      BY <3>2, <3>3
  <2>6. CASE Follow(m)
    <3>1. /\ pc' = "loop" /\ current' = m.raw /\ m.kind = "InRange"
          /\ UNCHANGED stop
      BY <2>6 DEF Follow
    <3>2. m.raw \in PageNumber /\ Edge(current, m, current')
      BY <3>1, <2>1 DEF Trusted, Edge
    <3>3. Edge(pages[Len(pages)], found'[Len(pages)], current')
      BY <3>2, <2>2, <2>3, <1>0 DEF InStep
    <3>4. TypeOK' /\ InStep' /\ OnlySafeTargetsFollowed' /\ Distinct'
      BY <3>1, <3>2, <3>3, <2>2, <2>3, <2>4, <1>0
         DEF TypeOK, InStep, OnlySafeTargetsFollowed, Edge, Distinct
    <3>5. StopIsTrue'
      BY <3>1 DEF StopIsTrue
    <3> QED
      BY <3>4, <3>5
  <2> QED
    BY <2>1, <2>5, <2>6 DEF Lookup
<1>4. CASE UNCHANGED vars
  BY <1>4 DEF vars, TypeOK, InStep, OnlySafeTargetsFollowed, Edge, Distinct, StopIsTrue
<1> QED
  BY <1>1, <1>2, <1>3, <1>4 DEF Next, Loop

THEOREM WalkInvariant == Spec => []WalkInv
BY WalkInvInit, WalkInvStep, PTL DEF Spec

(* Every variable of the walk keeps its type. *)
THEOREM WalkTypeCorrect == Spec => []TypeOK
<1>1. WalkInv => TypeOK
  BY DEF WalkInv
<1> QED
  BY <1>1, WalkInvariant, PTL

(* Every page after the first was named by the block of the page before    *)
(* it, lies inside the store, is not page zero and is not that page.       *)
THEOREM FollowsOnlySafeTargets == Spec => []OnlySafeTargetsFollowed
<1>1. WalkInv => OnlySafeTargetsFollowed
  BY DEF WalkInv
<1> QED
  BY <1>1, WalkInvariant, PTL

(* The reason a walk stopped for is the true one. *)
THEOREM StopsForTheTrueReason == Spec => []StopIsTrue
<1>1. WalkInv => StopIsTrue
  BY DEF WalkInv
<1> QED
  BY <1>1, WalkInvariant, PTL

(* The visited pages form a bounded walk without repetition. *)
THEOREM WalkRefinesBoundedWalk == Spec => Abstract!WalkSafety
<1>1. Init => Abstract!WalkInit
  BY MaxPagesAssumption DEF Init, Abstract!WalkInit
<1>2. WalkInv /\ [Next]_vars => [Abstract!WalkNext]_(Abstract!walkVars)
  <2> SUFFICES ASSUME WalkInv, Next \/ UNCHANGED vars
               PROVE  Abstract!WalkNext \/ UNCHANGED Abstract!walkVars
    OBVIOUS
  <2>1. CASE StopAtLimit \/ StopAtCycle
    BY <2>1 DEF StopAtLimit, StopAtCycle, Return, Abstract!WalkNext, Abstract!Stop
  <2>2. CASE Visit
    <3>1. current \in PageNumber
      BY DEF WalkInv, TypeOK
    <3>2. Abstract!Extend(current)
      BY <2>2 DEF Visit, BelowLimit, Visited, Abstract!Extend, Abstract!On
    <3> QED
      BY <3>1, <3>2 DEF Abstract!WalkNext, Abstract!Extend
  <2>3. CASE LookupReturns
    <3>1. PICK m \in MetadataResult : Lookup(m)
      BY <2>3, LookupTrusted DEF WalkInv
    <3> QED
      BY <3>1 DEF Lookup, StopOn, Follow, Return, Abstract!WalkNext, Abstract!Stop,
         Abstract!walkVars
  <2>4. CASE UNCHANGED vars
    BY <2>4 DEF vars, Abstract!walkVars
  <2> QED
    BY <2>1, <2>2, <2>3, <2>4 DEF Next, Loop
<1> QED
  BY <1>1, <1>2, WalkInvariant, PTL DEF Spec, Abstract!WalkSafety
=============================================================================
