----------------------------- MODULE RecordChain -----------------------------
(***************************************************************************)
(* A continuation chain walked through materialized pages: the row-segment *)
(* walker of row_segment.rs whose `resolve` closure looks up the page of   *)
(* the target's resolver_key, parses it with MaterializedTablePage::parse  *)
(* and returns the bytes of the record the target's record_id selects.     *)
(*                                                                         *)
(* The walker is RowSegmentChain (Chain below, its pc named walk_pc), the  *)
(* page is MaterializedPage.  The closure is the caller's, as the doc of   *)
(* ContinuationTarget describes it: one fixed context for a walk, pages    *)
(* that are already materialized, and any error of the page passed on.     *)
(* A page image also says, for each byte offset, what a segment header     *)
(* found there holds: its continuation bit and its continuation target.    *)
(***************************************************************************)
EXTENDS MaterializedPage, Sequences, FiniteSets

CONSTANTS
  ResolverKey,    \* the resolver keys a segment header may hold
  InitialTarget,  \* the identity the caller gives to the first segment
  Limits,         \* the limits a caller may ask for
  Context         \* the resolver contexts: maps from keys to page images

ContinuationTarget == [resolver_key : ResolverKey, record_id : RecordId]

ASSUME ContextAssumption ==
  /\ \A c \in Context : DOMAIN c \subseteq ResolverKey
  /\ UNION {{c[key] : key \in DOMAIN c} : c \in Context} \subseteq Page

ASSUME HeaderAssumption ==
  \A p \in Page : /\ p.continued \in [0..p.len -> BOOLEAN]
                  /\ p.next \in [0..p.len -> ContinuationTarget]

VARIABLES
  pages,     \* the caller's context, fixed for the walk
  resolver,  \* the closure: "idle", "page" or "record"
  limits, walk_pc, target, bytes, segments, total, visited, result,
  requests, supplied  \* those of RowSegmentChain

(* What a record is as a byte string of RowSegmentChain: the length word   *)
(* at its start is the segment's declared length.                          *)
RecordBytes(p, start, len) ==
  [len |-> len, declared |-> p.word[start],
   continued |-> p.continued[start], next |-> p.next[start]]

(* Records that are as long as they declare. *)
ExactBytes ==
  {[len |-> n, declared |-> n, continued |-> c, next |-> t] :
     n \in 2..MATERIALIZED_TABLE_PAGE_LEN, c \in BOOLEAN, t \in ContinuationTarget}

Chain == INSTANCE RowSegmentChain WITH
  Target <- ContinuationTarget,
  Bytes <- ExactBytes,
  pc <- walk_pc

(* A target is a u32 and a u16, so there are finitely many. *)
ASSUME WalkAssumption ==
  /\ InitialTarget \in ContinuationTarget /\ IsFiniteSet(ContinuationTarget)
  /\ Limits \subseteq Chain!ChainLimits

materialized == <<page, pc, next_id, answer>>
chain == <<limits, walk_pc, target, bytes, segments, total, visited, result,
           requests, supplied>>
chainVars == <<pages, resolver, materialized, chain>>

---------------------------------------------------------------------------
(* What the pages hold, said without the parser: the entry is there, and   *)
(* its record, led by its own length, lies behind the directory.           *)

RowStart(p, id) == DIRECTORY_OFFSET + p.entry[id]

HoldsRecord(p, id) ==
  /\ id < p.record_count
  /\ p.entry[id] >= 2 * p.record_count
  /\ RowStart(p, id) + 2 <= p.len
  /\ p.word[RowStart(p, id)] >= 2
  /\ RowStart(p, id) + p.word[RowStart(p, id)] <= p.len

SoundPage(p) ==
  /\ p.len = MATERIALIZED_TABLE_PAGE_LEN
  /\ p.type = MATERIALIZED_TABLE_PAGE_TYPE
  /\ DIRECTORY_OFFSET + 2 * p.record_count <= p.len
  /\ \A id \in 0..(p.record_count - 1) : p.entry[id] # 0 => HoldsRecord(p, id)

Stored(t) ==
  /\ t.resolver_key \in DOMAIN pages
  /\ LET p == pages[t.resolver_key]
     IN  SoundPage(p) /\ HoldsRecord(p, t.record_id)

StoredBytes(t) ==
  LET p == pages[t.resolver_key]
      start == RowStart(p, t.record_id)
  IN  RecordBytes(p, start, p.word[start])

---------------------------------------------------------------------------
(* The caller has selected the first record from its parsed page and calls *)
(* the walker with it.                                                     *)

ChainInit ==
  /\ pages \in Context
  /\ Stored(InitialTarget)
  /\ page = pages[InitialTarget.resolver_key]
  /\ pc = "ready"
  /\ next_id = page.record_count
  /\ answer = RowAt(InitialTarget.record_id)
  /\ resolver = "idle"
  /\ bytes = RecordBytes(page, answer.start, answer.len)
  /\ Chain!Init

(* The walker, up to its return or its call of the closure. *)
WalkStep == Chain!Walk /\ UNCHANGED <<pages, resolver, materialized>>

Resolving(stage) == walk_pc = "resolve" /\ resolver = stage

Fail == Chain!ResolveFails /\ resolver' = "idle" /\ UNCHANGED <<pages, materialized>>

OwnerUnknown ==
  /\ Resolving("idle")
  /\ Chain!Requested.resolver_key \notin DOMAIN pages
  /\ Fail

(* Mutant: the page parsed for the segment before is used again. *)
MutOpenOwner ==
  /\ Resolving("idle")
  /\ Chain!Requested.resolver_key \in DOMAIN pages
  /\ pc = "ready"
  /\ resolver' = "page"
  /\ UNCHANGED <<pages, chain, materialized>>

OpenOwner ==
  /\ Resolving("idle")
  /\ Chain!Requested.resolver_key \in DOMAIN pages
  /\ resolver' = "page"
  /\ page' = pages[Chain!Requested.resolver_key]
  /\ pc' = "parse"
  /\ next_id' = 0
  /\ answer' = Answer("Pending", 0, 0, 0)
  /\ UNCHANGED <<pages, chain>>

ParseOwner == Resolving("page") /\ Parse /\ UNCHANGED <<pages, resolver, chain>>

PageRejected == Resolving("page") /\ pc = "rejected" /\ Fail

SelectRecord ==
  /\ Resolving("page")
  /\ Record(Chain!Requested.record_id)
  /\ resolver' = "record"
  /\ UNCHANGED <<pages, chain>>

RecordRejected == Resolving("record") /\ answer.verdict # "Ok" /\ Fail

(* Mutant: the bytes from the record's start to the end of the page. *)
MutRecordReturned ==
  /\ Resolving("record")
  /\ answer.verdict = "Ok"
  /\ Chain!ResolveAnswers(RecordBytes(page, answer.start, page.len - answer.start))
  /\ resolver' = "idle"
  /\ UNCHANGED <<pages, materialized>>

RecordReturned ==
  /\ Resolving("record")
  /\ answer.verdict = "Ok"
  /\ Chain!ResolveAnswers(RecordBytes(page, answer.start, answer.len))
  /\ resolver' = "idle"
  /\ UNCHANGED <<pages, materialized>>

ResolveStep ==
  \/ OwnerUnknown \/ OpenOwner \/ ParseOwner \/ PageRejected
  \/ SelectRecord \/ RecordRejected \/ RecordReturned

ChainNext == WalkStep \/ ResolveStep

(* The thread that called the walker runs on. *)
ChainSpec == ChainInit /\ [][ChainNext]_chainVars /\ WF_chainVars(ChainNext)

---------------------------------------------------------------------------
(* Properties *)

(* The chain is made of the stored records and ends where they do: the      *)
(* i-th bytes supplied are the whole record its target names, so trailing   *)
(* bytes never occur; the length is wrong only for a record shorter than    *)
(* its own header; a resolver error means that no sound page stores the     *)
(* target; and since a target is followed once, max_segments stops the walk *)
(* only when it does not exceed the number of records stored.               *)
ChainIsTheRecords ==
  /\ \A i \in 1..Len(supplied) :
       /\ Stored(Chain!PathTarget(i))
       /\ supplied[i] = StoredBytes(Chain!PathTarget(i))
  /\ LET last == supplied[Len(supplied)]
     IN  CASE result.verdict = "TrailingBytes" -> FALSE
           [] result.verdict \in {"MissingHeader", "InvalidLength"} ->
                last.len < Chain!HeaderLen(last)
           [] result.verdict = "Resolver" -> ~Stored(result.target)
           [] result.verdict = "SegmentLimit" ->
                limits.max_segments <= Cardinality({t \in ContinuationTarget : Stored(t)})
           [] OTHER -> TRUE

(* Over materialized pages the walker is the walker of RowSegmentChain,     *)
(* given only records that are as long as they declare, and its assumption  *)
(* that the closure returns holds: parsing a page ends.                     *)
WalkIsChain == Chain!FairSpec

=============================================================================
