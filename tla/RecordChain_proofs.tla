------------------------- MODULE RecordChain_proofs -------------------------
(***************************************************************************)
(* What a materialized page that was parsed guarantees about its records,  *)
(* for every page layout and directory; and that a chain walked through    *)
(* such pages is the chain of their records, whatever they hold.           *)
(***************************************************************************)
EXTENDS RecordChain, FiniteSetTheorems, TLAPS

(* The entries the loop has passed. *)
Passed ==
  /\ pc = "scan" => \A id \in 0..(next_id - 1) : ~BadEntry(id)
  /\ pc = "ready" => \A id \in 0..(page.record_count - 1) : ~BadEntry(id)
  /\ pc \in {"scan", "ready"} => page.len = MATERIALIZED_TABLE_PAGE_LEN
  /\ pc \in {"parse", "scan"} => answer.verdict = "Pending"
  /\ pc = "parse" => next_id = 0

PageInv == TypeOK /\ Passed /\ RecordsAreServed /\ RecordIsBounded

(* The facts about a page image that the proofs use. *)
LEMMA PageFacts ==
  ASSUME page \in Page
  PROVE  /\ page.len \in Nat /\ page.record_count \in Nat
         /\ \A id \in 0..(page.record_count - 1) :
              page.entry[id] \in Nat /\ Start(id) \in Nat
         /\ \A start \in 0..page.len : page.word[start] \in Nat
         /\ DirectoryEnd \in Nat
<1>1. /\ page.len \in Nat /\ page.record_count \in Nat
      /\ page.entry \in [0..(page.record_count - 1) -> Nat]
      /\ page.word \in [0..page.len -> Nat]
  BY PageAssumption
<1>2. \A id \in 0..(page.record_count - 1) :
        page.entry[id] \in Nat /\ Start(id) \in Nat
  BY <1>1, LayoutAssumption DEF Start
<1>3. \A start \in 0..page.len : page.word[start] \in Nat
  BY <1>1
<1>4. DirectoryEnd \in Nat
  BY <1>1, LayoutAssumption DEF DirectoryEnd, DIRECTORY_ENTRY_LEN
<1> QED
  BY <1>1, <1>2, <1>3, <1>4

(* A record row_at lets through lies inside the page. *)
LEMMA RowAtBounded ==
  ASSUME page \in Page, page.len = MATERIALIZED_TABLE_PAGE_LEN,
         NEW id \in 0..(page.record_count - 1), RowVerdict(Start(id)) = "Ok"
  PROVE  /\ Start(id) >= DIRECTORY_OFFSET + 2 * page.record_count
         /\ Start(id) + page.word[Start(id)] <= MATERIALIZED_TABLE_PAGE_LEN
         /\ page.word[Start(id)] >= 2
         /\ page.word[Start(id)] \in 0..page.len
<1>1. /\ page.len \in Nat /\ page.record_count \in Nat /\ Start(id) \in Nat
      /\ \A start \in 0..page.len : page.word[start] \in Nat
  BY PageFacts
<1>2. ~OutOfBounds(Start(id)) /\ ~InvalidLength(Start(id))
  BY DEF RowVerdict
<1>3. Start(id) >= DirectoryEnd /\ Start(id) <= page.len
  BY <1>1, <1>2, PageFacts DEF OutOfBounds
<1>4. page.word[Start(id)] \in Nat
  BY <1>1, <1>3
<1> QED
  BY <1>1, <1>2, <1>3, <1>4, LayoutAssumption
     DEF InvalidLength, DirectoryEnd, DIRECTORY_ENTRY_LEN

(* row_at's answer is well typed whatever it says. *)
LEMMA RowAtType ==
  ASSUME page \in Page, page.len = MATERIALIZED_TABLE_PAGE_LEN,
         NEW id \in 0..(page.record_count - 1)
  PROVE  /\ RowAt(id).verdict = RowVerdict(Start(id)) /\ RowAt(id).verdict \in Verdict
         /\ RowAt(id).id = id /\ RowAt(id).start = Start(id)
         /\ RowAt(id).id \in Nat /\ RowAt(id).start \in Nat
         /\ RowAt(id).len \in 0..page.len
         /\ RowAt(id).verdict = "Ok" => RowAt(id).len = page.word[Start(id)]
<1>1. id \in Nat /\ Start(id) \in Nat /\ page.len \in Nat
  BY PageFacts
<1>2. RowVerdict(Start(id)) = "Ok" => page.word[Start(id)] \in 0..page.len
  BY RowAtBounded
<1>3. RowVerdict(Start(id)) \in {"Ok", "RecordOutOfBounds", "InvalidRecordLength"}
  BY DEF RowVerdict
<1> QED
  BY <1>1, <1>2, <1>3 DEF RowAt, Answer, Verdict

LEMMA PageInit == Init => PageInv
BY PageAssumption
   DEF Init, PageInv, TypeOK, Passed, RecordsAreServed, RecordIsBounded, Answer, Verdict

LEMMA PageStep == PageInv /\ [Next]_vars => PageInv'
<1> SUFFICES ASSUME PageInv, [Next]_vars
             PROVE  PageInv'
  OBVIOUS
<1>0. /\ TypeOK /\ Passed /\ RecordsAreServed /\ RecordIsBounded
      /\ page \in Page /\ page.len \in Nat /\ page.record_count \in Nat /\ next_id \in Nat
  BY PageFacts DEF PageInv, TypeOK
<1>1. CASE RejectPage
  <2>1. /\ pc' = "rejected" /\ UNCHANGED <<page, next_id>>
        /\ answer'.verdict \in Verdict \ {"Ok", "Pending"}
        /\ answer'.id = 0 /\ answer'.start = 0 /\ answer'.len = 0
    BY <1>1 DEF RejectPage, Reject, Answer, Verdict
  <2> QED
    BY <1>0, <2>1 DEF PageInv, TypeOK, Passed, RecordsAreServed, RecordIsBounded
<1>2. CASE EnterLoop
  BY <1>0, <1>2
     DEF EnterLoop, WrongLength, PageInv, TypeOK, Passed, RecordsAreServed, RecordIsBounded
<1>3. CASE RejectEntry
  <2>1. /\ pc = "scan" /\ pc' = "rejected" /\ UNCHANGED <<page, next_id>>
        /\ answer' = RowAt(next_id)
        /\ next_id \in 0..(page.record_count - 1)
        /\ page.len = MATERIALIZED_TABLE_PAGE_LEN
        /\ RowVerdict(Start(next_id)) # "Ok"
    BY <1>0, <1>3 DEF RejectEntry, Reject, BadEntry, Passed
  <2>2. /\ answer'.verdict \in Verdict \ {"Ok"} /\ answer'.id \in Nat
        /\ answer'.start \in Nat /\ answer'.len \in 0..page.len
    BY <1>0, <2>1, RowAtType
  <2> QED
    BY <1>0, <2>1, <2>2 DEF PageInv, TypeOK, Passed, RecordsAreServed, RecordIsBounded
<1>4. CASE PassEntry
  <2>1. /\ pc = "scan" /\ ~BadEntry(next_id) /\ next_id' = next_id + 1
        /\ next_id < page.record_count /\ UNCHANGED <<page, pc, answer>>
    BY <1>4 DEF PassEntry
  <2>2. \A id \in 0..(next_id' - 1) : ~BadEntry(id)'
    BY <1>0, <2>1 DEF Passed, BadEntry, RowVerdict, OutOfBounds, InvalidLength, Start,
       DirectoryEnd
  <2> QED
    BY <1>0, <2>1, <2>2 DEF PageInv, TypeOK, Passed, RecordsAreServed, RecordIsBounded
<1>5. CASE Accept
  <2>1. /\ pc = "scan" /\ pc' = "ready" /\ next_id = page.record_count
        /\ UNCHANGED <<page, next_id, answer>>
    BY <1>5 DEF Accept
  <2>2. \A id \in 0..(page.record_count - 1) : ~BadEntry(id)'
    BY <1>0, <2>1 DEF Passed, BadEntry, RowVerdict, OutOfBounds, InvalidLength, Start,
       DirectoryEnd
  <2> QED
    BY <1>0, <2>1, <2>2 DEF PageInv, TypeOK, Passed, RecordsAreServed, RecordIsBounded
<1>6. ASSUME NEW id \in RecordId, Record(id)
      PROVE  PageInv'
  <2>1. /\ pc = "ready" /\ UNCHANGED <<page, pc, next_id>>
        /\ page.len = MATERIALIZED_TABLE_PAGE_LEN /\ id \in Nat
    BY <1>0, <1>6, RecordIdAssumption DEF Record, Passed
  <2>2. \A i \in 0..(page.record_count - 1) : ~BadEntry(i)'
    BY <1>0, <2>1 DEF Passed, BadEntry, RowVerdict, OutOfBounds, InvalidLength, Start,
       DirectoryEnd
  <2>3. /\ answer'.verdict \in Verdict \ {"Pending"} /\ answer'.id = id
        /\ answer'.start \in Nat /\ answer'.len \in 0..page.len
        /\ RecordsAreServed' /\ RecordIsBounded'
    <3>1. CASE id >= page.record_count
      BY <1>0, <1>6, <2>1, <3>1
         DEF Record, Answer, Verdict, RecordsAreServed, RecordIsBounded
    <3>2. CASE id < page.record_count /\ page.entry[id] = 0
      BY <1>0, <1>6, <2>1, <3>2
         DEF Record, Answer, Verdict, RecordsAreServed, RecordIsBounded
    <3>3. CASE id < page.record_count /\ page.entry[id] # 0
      <4>1. answer' = RowAt(id) /\ id \in 0..(page.record_count - 1)
        BY <1>0, <1>6, <2>1, <3>3 DEF Record
      <4>2. RowVerdict(Start(id)) = "Ok"
        BY <1>0, <2>1, <3>3, <4>1 DEF Passed, BadEntry
      <4>3. /\ answer'.verdict = "Ok" /\ answer'.id = id /\ answer'.start = Start(id)
            /\ answer'.start \in Nat /\ answer'.len \in 0..page.len
            /\ answer'.len = page.word[Start(id)]
        BY <1>0, <2>1, <4>1, <4>2, RowAtType
      <4> QED
        BY <1>0, <2>1, <3>3, <4>1, <4>2, <4>3, RowAtBounded
           DEF Verdict, RecordsAreServed, RecordIsBounded
    <3> QED
      BY <1>0, <2>1, <3>1, <3>2, <3>3
  <2> QED
    BY <1>0, <2>1, <2>2, <2>3 DEF PageInv, TypeOK, Passed
<1>7. CASE UNCHANGED vars
  BY <1>0, <1>7 DEF vars, PageInv, TypeOK, Passed, RecordsAreServed, RecordIsBounded,
     BadEntry, RowVerdict, OutOfBounds, InvalidLength, Start, DirectoryEnd
<1> QED
  BY <1>1, <1>2, <1>3, <1>4, <1>5, <1>6, <1>7 DEF Next, Parse

THEOREM PageInvariant == Spec => []PageInv
BY PageInit, PageStep, PTL DEF Spec

(* A page parse accepted never calls a record of its directory malformed.  *)
THEOREM ParsedPageServesRecords == Spec => []RecordsAreServed
<1>1. PageInv => RecordsAreServed
  BY DEF PageInv
<1> QED
  BY <1>1, PageInvariant, PTL

(* A record handed out lies between the directory and the end of the page  *)
(* and has the length its own header declares.                             *)
THEOREM RecordsStayInPage == Spec => []RecordIsBounded
<1>1. PageInv => RecordIsBounded
  BY DEF PageInv
<1> QED
  BY <1>1, PageInvariant, PTL

(* An entry that made parse reject is the first one that is bad. *)
Refused ==
  pc = "rejected" /\ answer.verdict \in {"RecordOutOfBounds", "InvalidRecordLength"} =>
    /\ answer.id \in 0..(page.record_count - 1) /\ BadEntry(answer.id)
    /\ \A id \in 0..(answer.id - 1) : ~BadEntry(id)

LEMMA RefusedStep ==
  ASSUME PageInv, Refused, [Next]_vars
  PROVE  Refused'
<1>0. UNCHANGED page => \A id : BadEntry(id)' = BadEntry(id)
  BY DEF BadEntry, RowVerdict, OutOfBounds, InvalidLength, Start, DirectoryEnd
<1>1. CASE RejectPage
  BY <1>1 DEF RejectPage, Reject, Answer, Refused
<1>2. CASE EnterLoop \/ PassEntry \/ Accept \/ \E id \in RecordId : Record(id)
  <2>1. pc' # "rejected"
    BY <1>2 DEF EnterLoop, PassEntry, Accept, Record
  <2> QED
    BY <2>1 DEF Refused
<1>3. CASE RejectEntry
  <2>1. /\ pc = "scan" /\ UNCHANGED page /\ answer' = RowAt(next_id)
        /\ next_id < page.record_count /\ BadEntry(next_id)
    BY <1>3 DEF RejectEntry, Reject
  <2>2. answer'.id = next_id /\ next_id \in Nat /\ page.record_count \in Nat
    BY <2>1, PageFacts DEF RowAt, Answer, PageInv, TypeOK
  <2>3. \A id \in 0..(next_id - 1) : ~BadEntry(id)
    BY <2>1 DEF PageInv, Passed
  <2> QED
    BY <1>0, <2>1, <2>2, <2>3 DEF Refused
<1>4. CASE UNCHANGED vars
  BY <1>0, <1>4 DEF vars, Refused
<1> QED
  BY <1>1, <1>2, <1>3, <1>4 DEF Next, Parse

(* A record fits exactly when row_at lets it through. *)
LEMMA FitsIsSound ==
  ASSUME page \in Page, NEW id \in 0..(page.record_count - 1)
  PROVE  Fits(id) <=> RowVerdict(Start(id)) = "Ok"
<1>1. /\ page.len \in Nat /\ page.record_count \in Nat /\ Start(id) \in Nat
      /\ page.entry[id] \in Nat
      /\ Start(id) <= page.len => page.word[Start(id)] \in Nat
  BY PageFacts
<1>2. Start(id) = DIRECTORY_OFFSET + page.entry[id]
  BY DEF Start
<1>3. DirectoryEnd = DIRECTORY_OFFSET + 2 * page.record_count
  BY <1>1, LayoutAssumption DEF DirectoryEnd, DIRECTORY_ENTRY_LEN
<1>4. ASSUME Fits(id) PROVE RowVerdict(Start(id)) = "Ok"
  BY <1>1, <1>2, <1>3, <1>4, LayoutAssumption DEF Fits, RowVerdict, OutOfBounds, InvalidLength
<1>5. ASSUME RowVerdict(Start(id)) = "Ok" PROVE Fits(id)
  BY <1>1, <1>2, <1>3, <1>5, LayoutAssumption DEF Fits, RowVerdict, OutOfBounds, InvalidLength
<1> QED
  BY <1>4, <1>5

(* parse refuses a directory only for a nonzero entry whose record does not *)
(* fit, and names the first such entry, whatever the page.                  *)
THEOREM RefusesFirstMisfit == Spec => []RejectNamesFirstMisfit
<1>1. Init => Refused
  BY DEF Init, Refused
<1>2. PageInv /\ Refused => RejectNamesFirstMisfit
  <2> SUFFICES ASSUME PageInv, Refused, pc = "rejected",
                      answer.verdict \in {"RecordOutOfBounds", "InvalidRecordLength"}
               PROVE  /\ page.entry[answer.id] # 0 /\ ~Fits(answer.id)
                      /\ \A id \in 0..(answer.id - 1) : page.entry[id] = 0 \/ Fits(id)
    BY DEF RejectNamesFirstMisfit
  <2>1. page \in Page /\ page.record_count \in Nat
    BY PageFacts DEF PageInv, TypeOK
  <2>2. \A id \in 0..(page.record_count - 1) :
          BadEntry(id) <=> page.entry[id] # 0 /\ ~Fits(id)
    BY <2>1, FitsIsSound DEF BadEntry
  <2> QED
    BY <2>1, <2>2 DEF Refused
<1> QED
  BY <1>1, <1>2, RefusedStep, PageInvariant, PTL DEF Spec

---------------------------------------------------------------------------
(* What the parser finds is what the page holds. *)

LEMMA HoldsIsOk ==
  ASSUME page \in Page, NEW id \in 0..(page.record_count - 1)
  PROVE  HoldsRecord(page, id) <=> RowVerdict(Start(id)) = "Ok"
<1>1. /\ page.len \in Nat /\ page.record_count \in Nat /\ Start(id) \in Nat
      /\ page.entry[id] \in Nat
      /\ Start(id) <= page.len => page.word[Start(id)] \in Nat
  BY PageFacts
<1>2. Start(id) = DIRECTORY_OFFSET + page.entry[id] /\ RowStart(page, id) = Start(id)
  BY DEF Start, RowStart
<1>3. DirectoryEnd = DIRECTORY_OFFSET + 2 * page.record_count
  BY <1>1, LayoutAssumption DEF DirectoryEnd, DIRECTORY_ENTRY_LEN
<1>4. ASSUME HoldsRecord(page, id) PROVE RowVerdict(Start(id)) = "Ok"
  BY <1>1, <1>2, <1>3, <1>4, LayoutAssumption
     DEF HoldsRecord, RowVerdict, OutOfBounds, InvalidLength
<1>5. ASSUME RowVerdict(Start(id)) = "Ok" PROVE HoldsRecord(page, id)
  BY <1>1, <1>2, <1>3, <1>5, LayoutAssumption
     DEF HoldsRecord, RowVerdict, OutOfBounds, InvalidLength
<1> QED
  BY <1>4, <1>5

(* The parser's verdict on a page is whether it is sound. *)
Judged ==
  /\ pc \in {"scan", "ready"} => ~WrongLength /\ ~WrongType /\ ~DirectoryTooLong
  /\ pc = "rejected" => ~SoundPage(page)

LEMMA JudgedStep ==
  ASSUME PageInv, Judged, [Next]_vars
  PROVE  Judged'
<1>1. CASE RejectPage
  <2>1. /\ pc' = "rejected" /\ UNCHANGED page
        /\ WrongLength \/ WrongType \/ DirectoryTooLong
    BY <1>1 DEF RejectPage, Reject
  <2>2. ~SoundPage(page)
    <3>1. /\ DirectoryEnd = DIRECTORY_OFFSET + 2 * page.record_count
          /\ page.len \in Nat /\ page.record_count \in Nat
      BY PageFacts, LayoutAssumption DEF PageInv, TypeOK, DirectoryEnd, DIRECTORY_ENTRY_LEN
    <3> QED
      BY <2>1, <3>1, LayoutAssumption
         DEF SoundPage, WrongLength, WrongType, DirectoryTooLong
  <2> QED
    BY <2>1, <2>2 DEF Judged
<1>2. CASE RejectEntry
  <2>1. /\ pc' = "rejected" /\ UNCHANGED page
        /\ next_id < page.record_count /\ BadEntry(next_id)
    BY <1>2 DEF RejectEntry, Reject
  <2>2. next_id \in 0..(page.record_count - 1) /\ page \in Page
    BY <2>1, PageFacts DEF PageInv, TypeOK
  <2>3. ~SoundPage(page)
    BY <2>1, <2>2, HoldsIsOk DEF SoundPage, BadEntry
  <2> QED
    BY <2>1, <2>3 DEF Judged
<1>3. CASE EnterLoop \/ PassEntry \/ Accept \/ (\E id \in RecordId : Record(id)) \/ UNCHANGED vars
  <2>1. UNCHANGED page
    BY <1>3 DEF EnterLoop, PassEntry, Accept, Record, vars
  <2>2. /\ pc' = "rejected" => pc = "rejected"
        /\ pc' \in {"scan", "ready"} =>
             pc \in {"scan", "ready"} \/ (~WrongLength /\ ~WrongType /\ ~DirectoryTooLong)
    BY <1>3 DEF EnterLoop, PassEntry, Accept, Record, vars
  <2> QED
    BY <2>1, <2>2 DEF Judged, WrongLength, WrongType, DirectoryTooLong, DirectoryEnd
<1> QED
  BY <1>1, <1>2, <1>3 DEF Next, Parse

LEMMA ReadyIsSound ==
  ASSUME PageInv, Judged, pc = "ready"
  PROVE  SoundPage(page)
<1>1. /\ page.len \in Nat /\ page.record_count \in Nat /\ page \in Page
      /\ \A id \in 0..(page.record_count - 1) : ~BadEntry(id)
  BY PageFacts DEF PageInv, TypeOK, Passed
<1>2. /\ page.len = MATERIALIZED_TABLE_PAGE_LEN /\ page.type = MATERIALIZED_TABLE_PAGE_TYPE
      /\ DirectoryEnd <= page.len
      /\ DirectoryEnd = DIRECTORY_OFFSET + 2 * page.record_count
  BY <1>1, PageFacts, LayoutAssumption
     DEF Judged, WrongLength, WrongType, DirectoryTooLong, DirectoryEnd, DIRECTORY_ENTRY_LEN
<1>3. \A id \in 0..(page.record_count - 1) : page.entry[id] # 0 => HoldsRecord(page, id)
  BY <1>1, HoldsIsOk DEF BadEntry
<1> QED
  BY <1>2, <1>3 DEF SoundPage

---------------------------------------------------------------------------
(* The closure.  Its page is always the owner of the target it was asked    *)
(* for, parsed from the beginning.                                          *)

RequestedKey == Chain!Requested.resolver_key

Owner ==
  /\ pages \in Context
  /\ resolver \in {"idle", "page", "record"}
  /\ resolver # "idle" =>
       /\ walk_pc = "resolve"
       /\ RequestedKey \in DOMAIN pages /\ page = pages[RequestedKey]
  /\ resolver = "record" =>
       /\ pc = "ready" /\ answer.verdict # "Pending"
       /\ answer.id = Chain!Requested.record_id
       /\ answer.verdict = "Ok" => answer.start = Start(answer.id)

Closure == PageInv /\ Judged /\ Owner

LEMMA OwnedPages ==
  ASSUME pages \in Context, NEW key \in DOMAIN pages
  PROVE  pages[key] \in Page
BY ContextAssumption

LEMMA ClosureInit == ChainInit => Closure
<1> SUFFICES ASSUME ChainInit PROVE Closure
  OBVIOUS
<1>1. /\ pages \in Context /\ Stored(InitialTarget)
      /\ page = pages[InitialTarget.resolver_key] /\ page \in Page
      /\ pc = "ready" /\ next_id = page.record_count
      /\ answer = RowAt(InitialTarget.record_id) /\ resolver = "idle"
  BY OwnedPages DEF ChainInit, Stored
<1>2. SoundPage(page) /\ HoldsRecord(page, InitialTarget.record_id)
  BY <1>1 DEF Stored
<1>3. /\ page.len = MATERIALIZED_TABLE_PAGE_LEN /\ page.type = MATERIALIZED_TABLE_PAGE_TYPE
      /\ page.len \in Nat /\ page.record_count \in Nat
      /\ DirectoryEnd = DIRECTORY_OFFSET + 2 * page.record_count /\ DirectoryEnd <= page.len
  BY <1>1, <1>2, PageFacts, LayoutAssumption DEF SoundPage, DirectoryEnd, DIRECTORY_ENTRY_LEN
<1>4. \A id \in 0..(page.record_count - 1) : ~BadEntry(id)
  BY <1>1, <1>2, HoldsIsOk DEF SoundPage, BadEntry
<1>5. InitialTarget.record_id \in 0..(page.record_count - 1)
  <2>1. InitialTarget.record_id \in Nat
    BY WalkAssumption, RecordIdAssumption DEF ContinuationTarget
  <2>2. InitialTarget.record_id < page.record_count
    BY <1>2 DEF HoldsRecord
  <2> QED
    BY <1>3, <2>1, <2>2
<1>6. /\ RowVerdict(Start(InitialTarget.record_id)) = "Ok"
      /\ page.entry[InitialTarget.record_id] # 0
  <2>1. page.entry[InitialTarget.record_id] >= 2 * page.record_count
    BY <1>2 DEF HoldsRecord
  <2> QED
    BY <1>1, <1>2, <1>3, <1>5, <2>1, HoldsIsOk
<1>7. /\ answer.verdict = "Ok" /\ answer.id = InitialTarget.record_id
      /\ answer.start = Start(InitialTarget.record_id) /\ answer.id \in Nat
      /\ answer.start \in Nat /\ answer.len \in 0..page.len
      /\ answer.len = page.word[Start(InitialTarget.record_id)]
  BY <1>1, <1>3, <1>5, <1>6, RowAtType
<1>8. TypeOK
  BY <1>1, <1>3, <1>7 DEF TypeOK, Verdict
<1>9. Passed
  BY <1>1, <1>3, <1>4 DEF Passed
<1>10. RecordsAreServed /\ RecordIsBounded
  BY <1>1, <1>3, <1>5, <1>6, <1>7, RowAtBounded DEF RecordsAreServed, RecordIsBounded
<1>11. Judged
  BY <1>1, <1>3, LayoutAssumption DEF Judged, WrongLength, WrongType, DirectoryTooLong
<1>12. Owner
  BY <1>1 DEF Owner
<1> QED
  BY <1>8, <1>9, <1>10, <1>11, <1>12 DEF Closure, PageInv

LEMMA FreshPage ==
  ASSUME page' \in Page, pc' = "parse", next_id' = 0, answer' = Answer("Pending", 0, 0, 0)
  PROVE  PageInv' /\ Judged'
<1>1. PageInv'
  BY PageAssumption
     DEF PageInv, TypeOK, Passed, RecordsAreServed, RecordIsBounded, Answer, Verdict
<1> QED
  BY <1>1 DEF Judged

LEMMA ClosureKept ==
  ASSUME PageInv, Judged, [Next]_vars
  PROVE  PageInv' /\ Judged'
BY PageStep, JudgedStep

(* The requests and the closure's part of the state change together only   *)
(* when the walker calls it.                                                *)
LEMMA ClosureStep ==
  ASSUME Closure, Chain!Requested \in ContinuationTarget \/ walk_pc # "resolve",
         [ChainNext]_chainVars
  PROVE  Closure'
<1>0. PageInv /\ Judged /\ Owner
  BY DEF Closure
<1>1. CASE WalkStep
  <2>1. walk_pc # "resolve" /\ UNCHANGED <<pages, resolver, page, pc, next_id, answer>>
    BY <1>1 DEF WalkStep, materialized, Chain!Walk, Chain!LimitBeforeParse, Chain!RejectHeader,
       Chain!RejectTrailingBytes, Chain!RejectPayload, Chain!Complete, Chain!RejectCycle,
       Chain!LimitBeforeResolve, Chain!CallResolve, Chain!FollowNew, Chain!Accept, Chain!Exact,
       Chain!ReadyToParse
  <2>2. resolver = "idle"
    BY <1>0, <2>1 DEF Owner
  <2>3. PageInv' /\ Judged'
    BY <1>0, <2>1, ClosureKept DEF vars
  <2>4. Owner'
    BY <1>0, <2>1, <2>2 DEF Owner
  <2> QED
    BY <2>3, <2>4 DEF Closure
<1>2. CASE OwnerUnknown \/ PageRejected \/ RecordRejected \/ RecordReturned
  <2>1. resolver' = "idle" /\ UNCHANGED <<pages, page, pc, next_id, answer>>
    BY <1>2 DEF OwnerUnknown, PageRejected, RecordRejected, RecordReturned, Fail, materialized
  <2>2. PageInv' /\ Judged'
    BY <1>0, <2>1, ClosureKept DEF vars
  <2>3. Owner'
    BY <1>0, <2>1 DEF Owner
  <2> QED
    BY <2>2, <2>3 DEF Closure
<1>3. CASE OpenOwner
  <2>1. /\ walk_pc = "resolve" /\ RequestedKey \in DOMAIN pages /\ resolver' = "page"
        /\ page' = pages[RequestedKey]
        /\ pc' = "parse" /\ next_id' = 0 /\ answer' = Answer("Pending", 0, 0, 0)
        /\ UNCHANGED <<pages, walk_pc, requests>>
    BY <1>3 DEF OpenOwner, Resolving, RequestedKey, chain
  <2>2. page' \in Page
    BY <1>0, <2>1, OwnedPages DEF Owner
  <2>3. PageInv' /\ Judged'
    BY <2>1, <2>2, FreshPage
  <2>4. Owner'
    BY <1>0, <2>1 DEF Owner, RequestedKey, Chain!Requested
  <2> QED
    BY <2>3, <2>4 DEF Closure
<1>4. CASE ParseOwner
  <2>1. /\ resolver = "page" /\ Parse /\ UNCHANGED <<pages, resolver, walk_pc, requests>>
    BY <1>4 DEF ParseOwner, Resolving, chain
  <2>2. PageInv' /\ Judged'
    BY <1>0, <2>1, ClosureKept DEF Next
  <2>3. page' = page
    BY <2>1 DEF Parse, RejectPage, EnterLoop, RejectEntry, PassEntry, Accept, Reject
  <2>4. Owner'
    BY <1>0, <2>1, <2>3 DEF Owner, RequestedKey, Chain!Requested
  <2> QED
    BY <2>2, <2>4 DEF Closure
<1>5. CASE SelectRecord
  <2> DEFINE id == Chain!Requested.record_id
  <2>1. /\ walk_pc = "resolve" /\ resolver = "page" /\ resolver' = "record" /\ Record(id)
        /\ UNCHANGED <<pages, walk_pc, requests>>
    BY <1>5 DEF SelectRecord, Resolving, chain
  <2>2. id \in RecordId /\ id' = id
    BY <2>1 DEF ContinuationTarget, Chain!Requested
  <2>3. PageInv' /\ Judged'
    BY <1>0, <2>1, <2>2, ClosureKept DEF Next
  <2>4. /\ pc = "ready" /\ UNCHANGED <<page, pc>>
        /\ answer'.id = id /\ answer'.verdict # "Pending"
        /\ answer'.verdict = "Ok" => answer'.start = Start(id)
    BY <2>1 DEF Record, RowAt, RowVerdict, Answer
  <2>5. Start(answer.id)' = Start(id)
    BY <2>4 DEF Start
  <2>6. RequestedKey' = RequestedKey
    BY <2>1 DEF RequestedKey, Chain!Requested
  <2> QED
    BY <1>0, <2>1, <2>2, <2>3, <2>4, <2>5, <2>6 DEF Closure, Owner
<1>6. CASE UNCHANGED chainVars
  <2>1. UNCHANGED <<vars, pages, resolver, walk_pc, requests>>
    BY <1>6 DEF chainVars, materialized, chain, vars
  <2>2. PageInv' /\ Judged'
    BY <1>0, <2>1, ClosureKept
  <2>3. Owner'
    BY <1>0, <2>1 DEF Owner, vars, RequestedKey, Chain!Requested, Start
  <2> QED
    BY <2>2, <2>3 DEF Closure
<1> QED
  BY <1>1, <1>2, <1>3, <1>4, <1>5, <1>6 DEF ChainNext, ResolveStep

(* What the closure answers is the stored record, and it fails for exactly  *)
(* the targets that no sound page stores.                                   *)
LEMMA ReturnsStored ==
  ASSUME Closure, Chain!Requested \in ContinuationTarget, RecordReturned
  PROVE  /\ Stored(Chain!Requested)
         /\ RecordBytes(page, answer.start, answer.len) = StoredBytes(Chain!Requested)
         /\ RecordBytes(page, answer.start, answer.len) \in ExactBytes
<1> DEFINE t == Chain!Requested
           id == Chain!Requested.record_id
<1>1. /\ resolver = "record" /\ answer.verdict = "Ok"
  BY DEF RecordReturned, Resolving
<1>2. /\ PageInv /\ Judged /\ pc = "ready" /\ t.resolver_key \in DOMAIN pages
      /\ page = pages[t.resolver_key] /\ page \in Page
      /\ answer.id = id /\ answer.start = Start(id) /\ id \in Nat
  BY <1>1, RecordIdAssumption
     DEF Closure, Owner, RequestedKey, PageInv, TypeOK, ContinuationTarget
<1>3. SoundPage(page) /\ page.record_count \in Nat /\ page.len \in Nat
  BY <1>2, ReadyIsSound, PageFacts
<1>4. id \in 0..(page.record_count - 1) /\ page.entry[id] # 0
  BY <1>1, <1>2, <1>3 DEF PageInv, RecordsAreServed
<1>5. HoldsRecord(page, id)
  BY <1>3, <1>4 DEF SoundPage
<1>6. /\ answer.start = RowStart(page, id) /\ answer.len = page.word[answer.start]
      /\ answer.len >= 2
      /\ answer.start + answer.len <= MATERIALIZED_TABLE_PAGE_LEN
  BY <1>1, <1>2 DEF Start, RowStart, PageInv, RecordIsBounded
<1>7. Stored(t) /\ StoredBytes(t) = RecordBytes(page, answer.start, answer.len)
  BY <1>2, <1>3, <1>5, <1>6 DEF Stored, StoredBytes
<1>8. RecordBytes(page, answer.start, answer.len) \in ExactBytes
  <2>1. answer.start \in Nat /\ answer.len \in Nat /\ answer.start <= page.len
    BY <1>2, <1>3, <1>6, LayoutAssumption DEF PageInv, TypeOK, SoundPage
  <2>2. page.continued[answer.start] \in BOOLEAN /\ page.next[answer.start] \in ContinuationTarget
    BY <1>2, <1>3, <2>1, HeaderAssumption
  <2>3. answer.len \in 2..MATERIALIZED_TABLE_PAGE_LEN
    BY <1>6, <2>1, LayoutAssumption
  <2> QED
    BY <1>6, <2>2, <2>3 DEF RecordBytes, ExactBytes
<1> QED
  BY <1>7, <1>8

LEMMA FailsUnstored ==
  ASSUME Closure, Chain!Requested \in ContinuationTarget,
         OwnerUnknown \/ PageRejected \/ RecordRejected
  PROVE  ~Stored(Chain!Requested)
<1> DEFINE t == Chain!Requested
           id == Chain!Requested.record_id
<1>1. CASE OwnerUnknown
  BY <1>1 DEF OwnerUnknown, Stored
<1>2. CASE PageRejected
  <2>1. pc = "rejected" /\ resolver = "page"
    BY <1>2 DEF PageRejected, Resolving
  <2> QED
    BY <2>1 DEF Closure, Owner, Judged, RequestedKey, Stored
<1>3. CASE RecordRejected
  <2>1. /\ resolver = "record" /\ answer.verdict # "Ok" /\ pc = "ready"
        /\ answer.id = id /\ answer.verdict # "Pending" /\ page = pages[t.resolver_key]
        /\ page \in Page /\ page.record_count \in Nat /\ id \in Nat
    BY <1>3, PageFacts, RecordIdAssumption
       DEF RecordRejected, Resolving, Closure, Owner, RequestedKey, PageInv, TypeOK,
           ContinuationTarget
  <2>2. id >= page.record_count \/ page.entry[id] = 0
    BY <2>1 DEF Closure, PageInv, RecordsAreServed
  <2>3. ~HoldsRecord(page, id)
    BY <2>1, <2>2 DEF HoldsRecord
  <2> QED
    BY <2>1, <2>3 DEF Stored
<1> QED
  BY <1>1, <1>2, <1>3

---------------------------------------------------------------------------
(* The walker over the pages. *)

WalkTyped ==
  /\ limits \in Limits
  /\ walk_pc \in {"segment", "resolve", "returned"}
  /\ target \in ContinuationTarget
  /\ bytes \in ExactBytes
  /\ segments \in Seq(Chain!Segment)
  /\ requests \in Seq(ContinuationTarget)
  /\ supplied \in Seq(ExactBytes)

(* How many segments, requests and byte strings there are at each place of *)
(* the loop: one byte string is in hand at its top, none when the closure   *)
(* is called, and there is always room for the next segment.                *)
InStep ==
  /\ supplied # <<>>
  /\ walk_pc = "segment" =>
       /\ Len(requests) = Len(segments) /\ Len(supplied) = Len(segments) + 1
       /\ bytes = supplied[Len(supplied)]
       /\ Len(segments) = 0 \/ Len(segments) < limits.max_segments
  /\ walk_pc = "resolve" =>
       /\ Len(requests) = Len(segments) /\ Len(supplied) = Len(segments)
       /\ Len(segments) < limits.max_segments
  /\ walk_pc = "returned" => Len(supplied) <= Len(requests) + 1
  /\ walk_pc # "returned" => result.verdict = "Pending"

(* No target is on the path twice: all of them are in visited. *)
PathIsNew ==
  walk_pc # "returned" =>
    /\ \A i \in 1..(Len(requests) + 1) : Chain!PathTarget(i) \in visited
    /\ \A i, j \in 1..(Len(requests) + 1) :
         Chain!PathTarget(i) = Chain!PathTarget(j) => i = j

SuppliedAreStored ==
  \A i \in 1..Len(supplied) :
    /\ Stored(Chain!PathTarget(i))
    /\ supplied[i] = StoredBytes(Chain!PathTarget(i))

VerdictIsOfTheRecords ==
  LET last == supplied[Len(supplied)]
  IN  CASE result.verdict = "TrailingBytes" -> FALSE
        [] result.verdict \in {"MissingHeader", "InvalidLength"} ->
             last.len < Chain!HeaderLen(last)
        [] result.verdict = "Resolver" -> ~Stored(result.target)
        [] result.verdict = "SegmentLimit" ->
             limits.max_segments <= Cardinality({t \in ContinuationTarget : Stored(t)})
        [] OTHER -> TRUE

WalkInv == WalkTyped /\ InStep /\ PathIsNew /\ SuppliedAreStored /\ VerdictIsOfTheRecords

LEMMA ExactFacts ==
  ASSUME NEW b \in ExactBytes
  PROVE  /\ b.len \in Nat /\ b.declared = b.len /\ b.continued \in BOOLEAN
         /\ b.next \in ContinuationTarget /\ Chain!HeaderLen(b) \in {3, 9}
         /\ Chain!Parsed(b) => Chain!PayloadLen(b) \in Nat
<1>1. /\ b.len \in Nat /\ b.declared = b.len /\ b.continued \in BOOLEAN
      /\ b.next \in ContinuationTarget
  BY LayoutAssumption DEF ExactBytes
<1>2. Chain!HeaderLen(b) \in {3, 9}
  BY DEF Chain!HeaderLen, Chain!ROW_SEGMENT_HEADER_LEN, Chain!CONTINUED_ROW_SEGMENT_HEADER_LEN
<1>3. Chain!Parsed(b) => Chain!HeaderLen(b) <= b.declared
  BY <1>1, <1>2 DEF Chain!Parsed, Chain!InvalidLength
<1> QED
  BY <1>1, <1>2, <1>3 DEF Chain!PayloadLen

LEMMA LimitFacts ==
  ASSUME limits \in Limits
  PROVE  limits.max_segments \in Nat
BY WalkAssumption DEF Chain!ChainLimits

(* The stored records are at least as many as the distinct targets of a     *)
(* path of stored records.                                                  *)
LEMMA PathIsCounted ==
  ASSUME NEW n \in Nat,
         \A i \in 1..n : Chain!PathTarget(i) \in ContinuationTarget,
         \A i \in 1..n : Stored(Chain!PathTarget(i)),
         \A i, j \in 1..n : Chain!PathTarget(i) = Chain!PathTarget(j) => i = j
  PROVE  n <= Cardinality({t \in ContinuationTarget : Stored(t)})
<1> DEFINE S == {t \in ContinuationTarget : Stored(t)}
           f == [i \in 1..n |-> Chain!PathTarget(i)]
<1>1. IsFiniteSet(S)
  <2>1. S \in SUBSET ContinuationTarget
    OBVIOUS
  <2> HIDE DEF S
  <2> QED
    BY <2>1, FS_Subset, WalkAssumption
<1>2. f \in [1..n -> S]
  OBVIOUS
<1>3. \A i, j \in 1..n : f[i] = f[j] => i = j
  OBVIOUS
<1> HIDE DEF S, f
<1>4. IsFiniteSet(1..n) /\ Cardinality(1..n) = n
  BY FS_Interval
<1>5. Cardinality(S) \in Nat
  BY <1>1, FS_CardinalityType
<1>6. ~(Cardinality(S) < Cardinality(1..n))
  BY <1>1, <1>2, <1>3, <1>4, FS_PigeonHole
<1>7. n <= Cardinality(S)
  BY <1>4, <1>5, <1>6
<1> QED
  BY <1>7 DEF S

LEMMA WalkInit == ChainInit => WalkInv
<1> SUFFICES ASSUME ChainInit PROVE WalkInv
  OBVIOUS
<1>1. /\ limits \in Limits /\ walk_pc = "segment" /\ target = InitialTarget
      /\ bytes \in ExactBytes /\ segments = <<>> /\ visited = {InitialTarget}
      /\ result.verdict = "Pending" /\ requests = <<>> /\ supplied = <<bytes>>
  BY DEF ChainInit, Chain!Init
<1>2. WalkTyped
  BY <1>1, WalkAssumption DEF WalkTyped
<1>3. InStep
  BY <1>1 DEF InStep
<1>4. Chain!PathTarget(1) = InitialTarget
  BY DEF Chain!PathTarget
<1>5. PathIsNew
  BY <1>1, <1>4 DEF PathIsNew
<1>6. Stored(InitialTarget) /\ bytes = StoredBytes(InitialTarget)
  <2> DEFINE id == InitialTarget.record_id
  <2>1. /\ Stored(InitialTarget) /\ page = pages[InitialTarget.resolver_key]
        /\ answer = RowAt(id) /\ bytes = RecordBytes(page, answer.start, answer.len)
        /\ HoldsRecord(page, id)
    BY DEF ChainInit, Stored
  <2>2. Closure
    BY ClosureInit
  <2>3. page \in Page /\ page.record_count \in Nat /\ id \in Nat /\ id < page.record_count
    BY <2>1, <2>2, PageFacts, WalkAssumption, RecordIdAssumption
       DEF Closure, PageInv, TypeOK, HoldsRecord, ContinuationTarget
  <2>4. RowVerdict(Start(id)) = "Ok"
    BY <2>1, <2>3, HoldsIsOk
  <2>5. answer.start = RowStart(page, id) /\ answer.len = page.word[RowStart(page, id)]
    BY <2>1, <2>4 DEF RowAt, Answer, Start, RowStart
  <2> QED
    BY <2>1, <2>5 DEF StoredBytes
<1>7. SuppliedAreStored
  BY <1>1, <1>4, <1>6 DEF SuppliedAreStored
<1>8. VerdictIsOfTheRecords
  BY <1>1 DEF VerdictIsOfTheRecords
<1> QED
  BY <1>2, <1>3, <1>5, <1>7, <1>8 DEF WalkInv

(* What is accepted is one whole segment more. *)
LEMMA AcceptsOne ==
  ASSUME WalkInv, Chain!Accept
  PROVE  /\ walk_pc = "segment" /\ Len(segments) < limits.max_segments
         /\ segments' \in Seq(Chain!Segment) /\ Len(segments') = Len(segments) + 1
         /\ bytes.next \in ContinuationTarget
         /\ UNCHANGED <<target, bytes, supplied>>
<1>1. /\ walk_pc = "segment" /\ ~Chain!NoRoom /\ Chain!Parsed(bytes)
      /\ UNCHANGED <<target, bytes, supplied>>
  BY DEF Chain!Accept, Chain!Exact, Chain!ReadyToParse
<1>2. /\ bytes \in ExactBytes /\ target \in ContinuationTarget
      /\ segments \in Seq(Chain!Segment) /\ limits \in Limits
  BY DEF WalkInv, WalkTyped
<1>3. Len(segments) < limits.max_segments
  BY <1>1, <1>2, LimitFacts DEF Chain!NoRoom
<1> DEFINE s == [target |-> target, continued |-> bytes.continued,
                 declared_len |-> bytes.declared, payload |-> Chain!PayloadLen(bytes)]
<1>4. s \in Chain!Segment
  BY <1>1, <1>2, ExactFacts DEF Chain!Segment
<1>5. segments' = Append(segments, s)
  BY DEF Chain!Accept
<1> HIDE DEF s
<1>6. segments' \in Seq(Chain!Segment) /\ Len(segments') = Len(segments) + 1
  BY <1>2, <1>4, <1>5
<1> QED
  BY <1>1, <1>2, <1>3, <1>6, ExactFacts

(* The identities of the bytes supplied are settled once and for all. *)
LEMMA PathIsKept ==
  ASSUME requests \in Seq(ContinuationTarget),
         requests' = requests \/ \E t \in ContinuationTarget : requests' = Append(requests, t)
  PROVE  \A i \in 1..(Len(requests) + 1) : Chain!PathTarget(i)' = Chain!PathTarget(i)
BY DEF Chain!PathTarget

LEMMA StoredIsKept ==
  ASSUME UNCHANGED pages
  PROVE  /\ \A t \in ContinuationTarget : Stored(t)' <=> Stored(t)
         /\ \A t \in ContinuationTarget : StoredBytes(t)' = StoredBytes(t)
         /\ {t \in ContinuationTarget : Stored(t)}' = {t \in ContinuationTarget : Stored(t)}
<1>1. \A t \in ContinuationTarget : Stored(t)' <=> Stored(t)
  BY DEF Stored
<1>2. \A t \in ContinuationTarget : StoredBytes(t)' = StoredBytes(t)
  BY DEF StoredBytes
<1> QED
  BY <1>1, <1>2

LEMMA PathIsTyped ==
  ASSUME requests \in Seq(ContinuationTarget)
  PROVE  \A i \in 1..(Len(requests) + 1) : Chain!PathTarget(i) \in ContinuationTarget
BY WalkAssumption DEF Chain!PathTarget

(* The bytes already supplied stay the records they were. *)
LEMMA SuppliedIsKept ==
  ASSUME WalkInv, UNCHANGED <<pages, supplied>>,
         requests' = requests \/ \E t \in ContinuationTarget : requests' = Append(requests, t)
  PROVE  SuppliedAreStored'
<1>1. /\ requests \in Seq(ContinuationTarget) /\ supplied \in Seq(ExactBytes)
      /\ Len(supplied) <= Len(requests) + 1 /\ SuppliedAreStored
  BY DEF WalkInv, WalkTyped, InStep
<1>2. \A i \in 1..Len(supplied) :
        /\ Chain!PathTarget(i)' = Chain!PathTarget(i)
        /\ Chain!PathTarget(i) \in ContinuationTarget
  BY <1>1, PathIsKept, PathIsTyped
<1>3. \A i \in 1..Len(supplied) :
        /\ Stored(Chain!PathTarget(i))' <=> Stored(Chain!PathTarget(i))
        /\ StoredBytes(Chain!PathTarget(i))' = StoredBytes(Chain!PathTarget(i))
  BY <1>2 DEF Stored, StoredBytes
<1> QED
  BY <1>1, <1>3 DEF SuppliedAreStored

(* A return from the walker itself. *)
LEMMA WalkReturns ==
  ASSUME WalkInv, Chain!Walk, walk_pc' = "returned", UNCHANGED <<pages, requests>>
  PROVE  WalkInv'
<1>1. /\ WalkTyped /\ InStep /\ PathIsNew /\ SuppliedAreStored
      /\ limits.max_segments \in Nat /\ bytes \in ExactBytes /\ walk_pc = "segment"
      /\ UNCHANGED <<limits, target, bytes, supplied>>
  <2>1. walk_pc = "segment" /\ UNCHANGED <<limits, target, bytes, supplied>>
    BY DEF Chain!Walk, Chain!LimitBeforeParse, Chain!RejectHeader, Chain!RejectTrailingBytes,
       Chain!RejectPayload, Chain!Complete, Chain!RejectCycle, Chain!LimitBeforeResolve,
       Chain!CallResolve, Chain!FollowNew, Chain!Accept, Chain!Exact, Chain!ReadyToParse,
       Chain!Return, Chain!walker
  <2> QED
    BY <2>1, LimitFacts DEF WalkInv, WalkTyped
<1>2. segments' \in Seq(Chain!Segment)
  <2>1. CASE Chain!Accept
    BY <2>1, AcceptsOne
  <2>2. CASE UNCHANGED segments
    BY <1>1, <2>2 DEF WalkTyped
  <2> QED
    BY <2>1, <2>2 DEF Chain!Walk, Chain!LimitBeforeParse, Chain!RejectHeader,
       Chain!RejectTrailingBytes, Chain!RejectPayload, Chain!Complete, Chain!RejectCycle,
       Chain!LimitBeforeResolve, Chain!CallResolve, Chain!FollowNew, Chain!walker
<1>3. WalkTyped'
  BY <1>1, <1>2 DEF WalkTyped
<1>4. InStep' /\ PathIsNew'
  BY <1>1 DEF InStep, PathIsNew, WalkTyped
<1>5. SuppliedAreStored'
  BY <1>1, SuppliedIsKept
<1>6. bytes = supplied[Len(supplied)] /\ Len(supplied) \in Nat
  BY <1>1 DEF InStep, WalkTyped
<1> DEFINE stored == Cardinality({t \in ContinuationTarget : Stored(t)})
<1>7. stored' = stored
  BY <1>1, StoredIsKept
<1>8. CASE Chain!LimitBeforeParse
  <2>1. result'.verdict = "SegmentLimit" /\ Len(segments) >= limits.max_segments
    BY <1>8 DEF Chain!LimitBeforeParse, Chain!Return, Chain!NoRoom
  <2>2. limits.max_segments <= stored
    <3>1. limits.max_segments = 0
      BY <1>1, <2>1 DEF InStep, WalkTyped
    <3>2. 0 <= stored
      BY PathIsCounted
    <3> QED
      BY <3>1, <3>2
  <2> HIDE DEF stored
  <2>3. limits'.max_segments <= stored'
    BY <1>1, <1>7, <2>2
  <2> QED
    BY <1>3, <1>4, <1>5, <2>1, <2>3 DEF WalkInv, VerdictIsOfTheRecords, stored
<1>9. CASE Chain!LimitBeforeResolve
  <2>1. /\ result'.verdict = "SegmentLimit" /\ Chain!Accept
        /\ Len(segments') >= limits.max_segments
    BY <1>9 DEF Chain!LimitBeforeResolve, Chain!FollowNew, Chain!Return
  <2>2. limits.max_segments = Len(supplied) /\ Len(supplied) = Len(requests) + 1
    BY <1>1, <2>1, AcceptsOne DEF InStep, WalkTyped
  <2>3. Len(supplied) <= stored
    BY <1>1, <1>6, <2>2, PathIsCounted, PathIsTyped
       DEF WalkTyped, PathIsNew, SuppliedAreStored
  <2> HIDE DEF stored
  <2>4. limits'.max_segments <= stored'
    BY <1>1, <1>7, <2>2, <2>3
  <2> QED
    BY <1>3, <1>4, <1>5, <2>1, <2>4 DEF WalkInv, VerdictIsOfTheRecords, stored
<1>10. CASE Chain!RejectHeader
  <2>1. /\ result'.verdict \in {"MissingHeader", "InvalidLength"}
        /\ Chain!MissingHeader(bytes) \/ Chain!InvalidLength(bytes)
    BY <1>10 DEF Chain!RejectHeader, Chain!Return
  <2>2. bytes.len < Chain!HeaderLen(bytes)
    BY <1>1, <2>1, ExactFacts
       DEF Chain!MissingHeader, Chain!InvalidLength, Chain!ROW_SEGMENT_HEADER_LEN
  <2>3. LET last == supplied'[Len(supplied')] IN last.len < Chain!HeaderLen(last)
    BY <1>1, <1>6, <2>2
  <2> QED
    BY <1>3, <1>4, <1>5, <2>1, <2>3 DEF WalkInv, VerdictIsOfTheRecords, Chain!HeaderLen
<1>11. CASE Chain!RejectTrailingBytes
  BY <1>1, <1>11, ExactFacts DEF Chain!RejectTrailingBytes
<1>12. CASE Chain!RejectPayload \/ Chain!Complete \/ Chain!RejectCycle
  <2>1. result'.verdict \in {"PayloadLimit", "Ok", "Cycle"}
    BY <1>12 DEF Chain!RejectPayload, Chain!Complete, Chain!RejectCycle, Chain!Return
  <2> QED
    BY <1>3, <1>4, <1>5, <2>1 DEF WalkInv, VerdictIsOfTheRecords
<1>13. CASE Chain!CallResolve
  BY <1>13 DEF Chain!CallResolve
<1> QED
  BY <1>8, <1>9, <1>10, <1>11, <1>12, <1>13 DEF Chain!Walk

LEMMA WalkCalls ==
  ASSUME WalkInv, Chain!CallResolve, UNCHANGED pages
  PROVE  WalkInv'
<1>1. /\ WalkTyped /\ InStep /\ PathIsNew /\ SuppliedAreStored /\ VerdictIsOfTheRecords
      /\ Chain!Accept /\ bytes.next \notin visited /\ visited' = visited \cup {bytes.next}
      /\ Len(segments') < limits.max_segments /\ walk_pc' = "resolve"
      /\ requests' = Append(requests, bytes.next) /\ UNCHANGED <<limits, result>>
  BY DEF WalkInv, Chain!CallResolve, Chain!FollowNew
<1>2. /\ walk_pc = "segment" /\ segments' \in Seq(Chain!Segment)
      /\ Len(segments') = Len(segments) + 1 /\ bytes.next \in ContinuationTarget
      /\ UNCHANGED <<target, bytes, supplied>>
  BY <1>1, AcceptsOne
<1>3. /\ requests' \in Seq(ContinuationTarget) /\ Len(requests') = Len(requests) + 1
      /\ Len(requests) \in Nat
  BY <1>1, <1>2 DEF WalkTyped
<1>4. WalkTyped'
  BY <1>1, <1>2, <1>3 DEF WalkTyped
<1>5. InStep'
  BY <1>1, <1>2, <1>3 DEF InStep, WalkTyped
<1>6. \A i \in 1..(Len(requests) + 1) : Chain!PathTarget(i)' = Chain!PathTarget(i)
  BY <1>1, <1>2, PathIsKept DEF WalkTyped
<1>7. \A n \in Nat : n = Len(requests) => Chain!PathTarget(n + 2)' = bytes.next
  <2> SUFFICES ASSUME NEW n \in Nat, n = Len(requests)
               PROVE  Chain!PathTarget(n + 2)' = bytes.next
    OBVIOUS
  <2>1. requests'[n + 1] = bytes.next
    BY <1>1, <1>2 DEF WalkTyped
  <2>2. Chain!PathTarget(n + 2)' = requests'[n + 1]
    BY DEF Chain!PathTarget
  <2> QED
    BY <2>1, <2>2
<1>8. PathIsNew'
  <2>1. PICK n \in Nat : n = Len(requests)
    BY <1>3
  <2>2. \A i \in 1..(n + 2) : i # n + 2 => i \in 1..(n + 1)
    BY <2>1
  <2>3. /\ \A i \in 1..(n + 1) : Chain!PathTarget(i)' \in visited
        /\ \A i \in 1..(n + 1) : Chain!PathTarget(i)' # bytes.next
        /\ \A i, j \in 1..(n + 1) :
             Chain!PathTarget(i)' = Chain!PathTarget(j)' => i = j
    BY <1>1, <1>2, <1>6, <2>1 DEF PathIsNew
  <2>4. Chain!PathTarget(n + 2)' = bytes.next
    BY <1>7, <2>1
  <2>5. \A i \in 1..(n + 2) : Chain!PathTarget(i)' \in visited'
    BY <1>1, <2>2, <2>3, <2>4
  <2>6. \A i, j \in 1..(n + 2) :
          Chain!PathTarget(i)' = Chain!PathTarget(j)' => i = j
    BY <2>2, <2>3, <2>4
  <2>7. Len(requests') + 1 = n + 2
    BY <1>3, <2>1
  <2> QED
    BY <2>5, <2>6, <2>7 DEF PathIsNew
<1>9. SuppliedAreStored'
  BY <1>1, <1>2, SuppliedIsKept
<1>10. VerdictIsOfTheRecords'
  BY <1>1, <1>2 DEF VerdictIsOfTheRecords, InStep
<1> QED
  BY <1>4, <1>5, <1>8, <1>9, <1>10 DEF WalkInv

LEMMA WalkFails ==
  ASSUME WalkInv, Chain!ResolveFails, ~Stored(Chain!Requested), UNCHANGED pages
  PROVE  WalkInv'
<1>1. /\ WalkTyped /\ InStep /\ SuppliedAreStored /\ walk_pc = "resolve"
      /\ walk_pc' = "returned"
      /\ result'.verdict = "Resolver" /\ result'.target = Chain!Requested
      /\ UNCHANGED <<limits, requests, target, bytes, segments, visited, supplied>>
  BY DEF WalkInv, Chain!ResolveFails, Chain!Return, Chain!walker
<1>2. WalkTyped' /\ InStep' /\ PathIsNew'
  BY <1>1 DEF WalkTyped, InStep, PathIsNew
<1>3. SuppliedAreStored'
  BY <1>1, SuppliedIsKept
<1>4. ~Stored(result.target)'
  BY <1>1 DEF Stored
<1>5. VerdictIsOfTheRecords'
  BY <1>1, <1>4 DEF VerdictIsOfTheRecords
<1> QED
  BY <1>2, <1>3, <1>5 DEF WalkInv

LEMMA WalkAnswered ==
  ASSUME WalkInv, NEW b \in ExactBytes, Chain!ResolveAnswers(b),
         Stored(Chain!Requested), b = StoredBytes(Chain!Requested), UNCHANGED pages
  PROVE  WalkInv'
<1>1. /\ WalkTyped /\ InStep /\ PathIsNew /\ SuppliedAreStored /\ walk_pc = "resolve"
      /\ walk_pc' = "segment" /\ bytes' = b /\ target' = Chain!Requested
      /\ supplied' = Append(supplied, b)
      /\ UNCHANGED <<limits, requests, segments, visited, result>>
  BY DEF WalkInv, Chain!ResolveAnswers
<1>2. /\ Len(requests) = Len(segments) /\ Len(supplied) = Len(segments)
      /\ Len(segments) < limits.max_segments /\ Len(segments) \in Nat
      /\ supplied \in Seq(ExactBytes) /\ Len(supplied) \in Nat /\ Len(supplied) # 0
      /\ requests \in Seq(ContinuationTarget)
  BY <1>1 DEF InStep, WalkTyped
<1>3. Chain!Requested \in ContinuationTarget
  BY <1>2 DEF Chain!Requested
<1>4. /\ supplied' \in Seq(ExactBytes) /\ Len(supplied') = Len(supplied) + 1
      /\ supplied'[Len(supplied')] = b
      /\ \A i \in 1..Len(supplied) : supplied'[i] = supplied[i]
  BY <1>1, <1>2
<1>5. WalkTyped'
  BY <1>1, <1>3, <1>4 DEF WalkTyped
<1>6. InStep'
  BY <1>1, <1>2, <1>4 DEF InStep
<1>7. \A i \in 1..(Len(requests) + 1) : Chain!PathTarget(i)' = Chain!PathTarget(i)
  BY <1>1, <1>2, PathIsKept
<1>8. PathIsNew'
  BY <1>1, <1>7 DEF PathIsNew
<1>9. SuppliedAreStored'
  <2>1. Chain!PathTarget(Len(supplied) + 1) = Chain!Requested
    BY <1>2 DEF Chain!PathTarget, Chain!Requested
  <2>2. \A i \in 1..(Len(supplied) + 1) :
          /\ Stored(Chain!PathTarget(i))
          /\ supplied'[i] = StoredBytes(Chain!PathTarget(i))
    BY <1>1, <1>2, <1>4, <2>1 DEF SuppliedAreStored
  <2>3. \A i \in 1..(Len(supplied) + 1) :
          /\ Stored(Chain!PathTarget(i))' <=> Stored(Chain!PathTarget(i))
          /\ StoredBytes(Chain!PathTarget(i))' = StoredBytes(Chain!PathTarget(i))
    BY <1>2, <1>7 DEF Stored, StoredBytes
  <2> QED
    BY <1>4, <2>2, <2>3 DEF SuppliedAreStored
<1>10. VerdictIsOfTheRecords'
  BY <1>1 DEF InStep, VerdictIsOfTheRecords
<1> QED
  BY <1>5, <1>6, <1>8, <1>9, <1>10 DEF WalkInv

ChainInv == Closure /\ WalkInv

LEMMA Asked ==
  ASSUME WalkInv
  PROVE  Chain!Requested \in ContinuationTarget \/ walk_pc # "resolve"
BY DEF WalkInv, WalkTyped, InStep, Chain!Requested

LEMMA ChainStep ==
  ASSUME ChainInv, [ChainNext]_chainVars
  PROVE  ChainInv'
<1>0. Closure /\ WalkInv
  BY DEF ChainInv
<1>1. Closure'
  BY <1>0, Asked, ClosureStep
<1>2. CASE WalkStep
  <2>1. Chain!Walk /\ UNCHANGED pages
    BY <1>2 DEF WalkStep
  <2>2. ASSUME Chain!CallResolve PROVE WalkInv'
    BY <1>0, <2>1, <2>2, WalkCalls
  <2>3. ASSUME ~Chain!CallResolve PROVE WalkInv'
    <3>1. walk_pc' = "returned" /\ UNCHANGED requests
      BY <2>1, <2>3 DEF Chain!Walk, Chain!LimitBeforeParse, Chain!RejectHeader,
         Chain!RejectTrailingBytes, Chain!RejectPayload, Chain!Complete, Chain!RejectCycle,
         Chain!LimitBeforeResolve, Chain!Return
    <3> QED
      BY <1>0, <2>1, <3>1, WalkReturns
  <2>4. WalkInv'
    BY <2>2, <2>3
  <2> QED
    BY <1>1, <2>4 DEF ChainInv
<1>3. CASE OwnerUnknown \/ PageRejected \/ RecordRejected
  <2>1. walk_pc = "resolve" /\ Chain!ResolveFails /\ UNCHANGED pages
    BY <1>3 DEF OwnerUnknown, PageRejected, RecordRejected, Resolving, Fail
  <2>2. ~Stored(Chain!Requested)
    BY <1>0, <1>3, <2>1, Asked, FailsUnstored
  <2> QED
    BY <1>0, <1>1, <2>1, <2>2, WalkFails DEF ChainInv
<1>4. CASE RecordReturned
  <2> DEFINE b == RecordBytes(page, answer.start, answer.len)
  <2>1. walk_pc = "resolve" /\ Chain!ResolveAnswers(b) /\ UNCHANGED pages
    BY <1>4 DEF RecordReturned, Resolving
  <2>2. /\ Stored(Chain!Requested) /\ b = StoredBytes(Chain!Requested) /\ b \in ExactBytes
    BY <1>0, <1>4, <2>1, Asked, ReturnsStored
  <2> HIDE DEF b
  <2> QED
    BY <1>0, <1>1, <2>1, <2>2, WalkAnswered DEF ChainInv
<1>5. CASE OpenOwner \/ ParseOwner \/ SelectRecord \/ UNCHANGED chainVars
  <2>1. UNCHANGED <<pages, limits, walk_pc, target, bytes, segments, total, visited, result,
                    requests, supplied>>
    BY <1>5 DEF OpenOwner, ParseOwner, SelectRecord, chainVars, chain
  <2>2. WalkTyped' /\ InStep'
    BY <1>0, <2>1 DEF WalkInv, WalkTyped, InStep
  <2>3. PathIsNew'
    BY <1>0, <2>1 DEF WalkInv, PathIsNew, Chain!PathTarget
  <2>4. SuppliedAreStored'
    BY <1>0, <2>1, SuppliedIsKept
  <2>5. VerdictIsOfTheRecords'
    BY <1>0, <2>1 DEF WalkInv, VerdictIsOfTheRecords, Stored, Chain!HeaderLen
  <2> QED
    BY <1>1, <2>2, <2>3, <2>4, <2>5 DEF ChainInv, WalkInv
<1> QED
  BY <1>2, <1>3, <1>4, <1>5 DEF ChainNext, ResolveStep

LEMMA ChainInvariant == ChainSpec => []ChainInv
<1>1. ChainInit => ChainInv
  BY ClosureInit, WalkInit DEF ChainInv
<1> QED
  BY <1>1, ChainStep, PTL DEF ChainSpec

(* Whatever the pages hold, the bytes of a chain are the stored records its *)
(* targets name, and the walk ends where they do.                           *)
THEOREM ChainsAreTheRecords == ChainSpec => []ChainIsTheRecords
<1>1. ChainInv => ChainIsTheRecords
  BY DEF ChainInv, WalkInv, SuppliedAreStored, VerdictIsOfTheRecords, ChainIsTheRecords
<1> QED
  BY <1>1, ChainInvariant, PTL

(* Every page a closure parses keeps the guarantees of a page on its own. *)
THEOREM ChainPagesAreServed ==
  ChainSpec => [](RecordsAreServed /\ RecordIsBounded)
<1>1. ChainInv => RecordsAreServed /\ RecordIsBounded
  BY DEF ChainInv, Closure, PageInv
<1> QED
  BY <1>1, ChainInvariant, PTL

(* Over pages the walker takes no step that the walker alone, given only    *)
(* records as long as they declare, could not take: parsing and selecting   *)
(* are part of one call of the closure.                                     *)
THEOREM PagesImplementTheWalker == ChainSpec => Chain!Spec
<1>1. ChainInit => Chain!Init
  BY DEF ChainInit
<1>2. ChainInv /\ [ChainNext]_chainVars => [Chain!Next]_(Chain!vars)
  <2> SUFFICES ASSUME ChainInv, [ChainNext]_chainVars
               PROVE  [Chain!Next]_(Chain!vars)
    OBVIOUS
  <2>1. CASE WalkStep
    BY <2>1 DEF WalkStep, Chain!Next
  <2>2. CASE OwnerUnknown \/ PageRejected \/ RecordRejected
    BY <2>2 DEF OwnerUnknown, PageRejected, RecordRejected, Fail, Chain!Next, Chain!Resolve
  <2>3. CASE RecordReturned
    <3>1. Chain!Requested \in ContinuationTarget
      BY <2>3, Asked DEF ChainInv, RecordReturned, Resolving
    <3>2. RecordBytes(page, answer.start, answer.len) \in ExactBytes
      BY <2>3, <3>1, ReturnsStored DEF ChainInv
    <3> QED
      BY <2>3, <3>2 DEF RecordReturned, Chain!Next, Chain!Resolve
  <2>4. CASE OpenOwner \/ ParseOwner \/ SelectRecord \/ UNCHANGED chainVars
    BY <2>4 DEF OpenOwner, ParseOwner, SelectRecord, chainVars, chain, Chain!vars
  <2> QED
    BY <2>1, <2>2, <2>3, <2>4 DEF ChainNext, ResolveStep
<1> QED
  BY <1>1, <1>2, ChainInvariant, PTL DEF ChainSpec, Chain!Spec
=============================================================================
