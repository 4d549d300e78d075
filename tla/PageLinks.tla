----------------------------- MODULE PageLinks -----------------------------
(***************************************************************************)
(* find_page_link_metadata and walk_page_links of page_links.rs.          *)
(*                                                                         *)
(* One behaviour is one walk whose lookup closure decodes a page and runs  *)
(* find_page_link_metadata on it, as the library's documentation asks.     *)
(* Decoding is the caller's: a page may fail to decode, and its content is *)
(* whatever the environment answers.  A decoded page is abstracted to the  *)
(* candidate link blocks in it, in offset order; `shaped` stands for the   *)
(* fixed bytes of a block (zeros, 1.0, marker), `number` for its own page  *)
(* number.                                                                 *)
(***************************************************************************)
EXTENDS Naturals, Sequences

CONSTANTS
  PageCount,   \* pages in the store
  PageNumber,  \* page numbers a caller or a block may name
  Contents,    \* what a decoded page may hold
  MaxPages     \* page bounds a caller may ask for

Block == [number : PageNumber, shaped : BOOLEAN, flag : Nat, raw : PageNumber]

ASSUME PagesAssumption == PageCount \in Nat /\ PageNumber \subseteq Nat
ASSUME ContentsAssumption == Contents \subseteq Seq(Block)
ASSUME MaxPagesAssumption == MaxPages \subseteq Nat

VARIABLES
  maxPages,  \* the caller's bound
  pc,        \* "loop", "lookup" (inside the closure) or "returned"
  current,   \* the page to visit next
  pages,     \* the pages visited
  stop,      \* PageLinkWalkStop
  found      \* history: the metadata lookup returned, in order

vars == <<maxPages, pc, current, pages, stop, found>>

---------------------------------------------------------------------------
(* find_page_link_metadata *)

NoMetadata == [kind |-> "None", raw |-> 0]

Matches(content, page) ==
  {i \in 1..Len(content) : content[i].shaped /\ content[i].number = page}

(* Mutant: a target beyond the end of the store is followed. *)
MutTargetOf(block, page) ==
  IF block.flag # 1 THEN [kind |-> "Absent", raw |-> 0]
  ELSE IF block.raw = 0 \/ block.raw = page
         THEN [kind |-> "Invalid", raw |-> block.raw]
         ELSE [kind |-> "InRange", raw |-> block.raw]

(* Mutant: a block that links its own page is followed. *)
MutSelfTargetOf(block, page) ==
  IF block.flag # 1 THEN [kind |-> "Absent", raw |-> 0]
  ELSE IF block.raw = 0 \/ block.raw >= PageCount
         THEN [kind |-> "Invalid", raw |-> block.raw]
         ELSE [kind |-> "InRange", raw |-> block.raw]

TargetOf(block, page) ==
  IF block.flag # 1 THEN [kind |-> "Absent", raw |-> 0]
  ELSE IF block.raw = 0 \/ block.raw >= PageCount \/ block.raw = page
         THEN [kind |-> "Invalid", raw |-> block.raw]
         ELSE [kind |-> "InRange", raw |-> block.raw]

(* The one block that decides: the first that matches. *)
First(content, page) ==
  {i \in Matches(content, page) : \A j \in Matches(content, page) : i <= j}

(* What the scan of a page returns, a set of one element. *)
Metadata(content, page) ==
  IF page >= PageCount \/ Matches(content, page) = {}
    THEN {NoMetadata}
    ELSE {TargetOf(content[i], page) : i \in First(content, page)}

MetadataKind == {"None", "Absent", "Invalid", "InRange"}
MetadataResult == [kind : MetadataKind, raw : PageNumber \cup {0}]

---------------------------------------------------------------------------
(* walk_page_links *)

StopReason == {"MissingMetadata", "NoLink", "InvalidTarget", "Cycle", "LimitReached"}
Stops == [reason : StopReason \cup {"Walking"}, page : PageNumber \cup {0}]

Init ==
  /\ maxPages \in MaxPages
  /\ pc = "loop"
  /\ current \in PageNumber
  /\ pages = <<>>
  /\ stop = [reason |-> "Walking", page |-> 0]
  /\ found = <<>>

Return(reason, page) ==
  /\ pc' = "returned"
  /\ stop' = [reason |-> reason, page |-> page]
  /\ UNCHANGED <<maxPages, current, pages>>

Visited == {pages[i] : i \in 1..Len(pages)}

BelowLimit == Len(pages) < maxPages

StopAtLimit ==
  /\ pc = "loop"
  /\ ~BelowLimit
  /\ Return("LimitReached", 0)
  /\ UNCHANGED found

(* Mutant: on a repeated page the loop continues instead of returning. *)
MutStopAtCycle ==
  /\ pc = "loop"
  /\ BelowLimit
  /\ current \in Visited
  /\ UNCHANGED vars

StopAtCycle ==
  /\ pc = "loop"
  /\ BelowLimit
  /\ current \in Visited
  /\ Return("Cycle", current)
  /\ UNCHANGED found

Visit ==
  /\ pc = "loop"
  /\ BelowLimit
  /\ current \notin Visited
  /\ pages' = Append(pages, current)
  /\ pc' = "lookup"
  /\ UNCHANGED <<maxPages, current, stop, found>>

(* lookup(current) returns the metadata m and the loop acts on it. *)
StopOn(m) ==
  /\ \/ m.kind = "None" /\ Return("MissingMetadata", 0)
     \/ m.kind = "Absent" /\ Return("NoLink", 0)
     \/ m.kind = "Invalid" /\ Return("InvalidTarget", m.raw)
  /\ found' = Append(found, m)

Follow(m) ==
  /\ m.kind = "InRange"
  /\ current' = m.raw
  /\ pc' = "loop"
  /\ found' = Append(found, m)
  /\ UNCHANGED <<maxPages, pages, stop>>

Lookup(m) == pc = "lookup" /\ (StopOn(m) \/ Follow(m))

LookupUndecodable == Lookup(NoMetadata)

LookupDecoded(content) == \E m \in Metadata(content, current) : Lookup(m)

Loop == StopAtLimit \/ StopAtCycle \/ Visit

LookupReturns ==
  LookupUndecodable \/ \E content \in Contents : LookupDecoded(content)

Next == Loop \/ LookupReturns

Spec == Init /\ [][Next]_vars

(* The loop runs on and the caller's closure returns. *)
Fairness == WF_vars(Loop) /\ WF_vars(LookupReturns)

FairSpec == Spec /\ Fairness

---------------------------------------------------------------------------
(* Properties *)

(* Every variable keeps to its type. *)
TypeOK ==
  /\ maxPages \in MaxPages
  /\ pc \in {"loop", "lookup", "returned"}
  /\ current \in PageNumber
  /\ pages \in Seq(PageNumber) /\ Len(pages) <= maxPages
  /\ stop \in Stops
  /\ found \in Seq(MetadataResult)

(* "A target is never followed unless it is a non-zero in-range page       *)
(* number and it differs from the page containing the block"               *)
(* (page_links.rs:22): every page after the first was named by the block   *)
(* of the page visited before it, and so is the page visited next.         *)
Edge(from, m, to) ==
  /\ m.kind = "InRange" /\ m.raw = to
  /\ to \in 1..(PageCount - 1)
  /\ to # from

OnlySafeTargetsFollowed ==
  /\ \A i \in 2..Len(pages) : Edge(pages[i - 1], found[i - 1], pages[i])
  /\ pc = "loop" /\ pages # <<>> =>
       Edge(pages[Len(pages)], found[Len(pages)], current)

(* The reason given is the true one: LimitReached only with every allowed  *)
(* page visited, Cycle only for a page visited at least two steps ago and  *)
(* never for page zero even if the walk started there, InvalidTarget only  *)
(* for page zero, a page past the end or the last page itself.             *)
StopIsTrue ==
  pc = "returned" =>
    LET n == Len(pages)
        last == IF found = <<>> THEN NoMetadata ELSE found[Len(found)]
    IN CASE stop.reason = "LimitReached" -> n = maxPages /\ Len(found) = n
         [] stop.reason = "Cycle" ->
              /\ n < maxPages
              /\ Len(found) = n
              /\ stop.page # 0
              /\ \E i \in 1..(n - 1) : pages[i] = stop.page
         [] stop.reason = "InvalidTarget" ->
              /\ Len(found) = n /\ last.kind = "Invalid" /\ last.raw = stop.page
              /\ stop.page = 0 \/ stop.page >= PageCount \/ stop.page = pages[n]
         [] OTHER -> Len(found) = n /\ last.kind \in {"None", "Absent"}

(* The pages are a bounded walk without repetition.  Collecting a page and *)
(* returning are separate steps here, so the mapping is direct.            *)
Abstract == INSTANCE BoundedWalk WITH
  Item <- PageNumber,
  path <- pages,
  limit <- maxPages,
  walking <- pc # "returned"

IsBoundedWalk == Abstract!WalkSpec
=============================================================================
