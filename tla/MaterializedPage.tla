-------------------------- MODULE MaterializedPage --------------------------
(***************************************************************************)
(* MaterializedTablePage::parse and ::record of materialized_page.rs.      *)
(*                                                                         *)
(* One behaviour is one page image that is parsed and, if accepted, asked  *)
(* for records any number of times.  A page image is abstracted to what    *)
(* the code reads of it: its length and type byte, the record count, the   *)
(* directory, and the little-endian word found at each byte offset.        *)
(***************************************************************************)
EXTENDS Integers

CONSTANTS
  MATERIALIZED_TABLE_PAGE_LEN,  \* 4096 in the code
  DIRECTORY_OFFSET,             \* 28 in the code
  Page,                         \* the page images a caller may supply
  RecordId                      \* the record identifiers a caller may ask for

MATERIALIZED_TABLE_PAGE_TYPE == 4
DIRECTORY_ENTRY_LEN == 2

ASSUME LayoutAssumption ==
  MATERIALIZED_TABLE_PAGE_LEN \in Nat /\ DIRECTORY_OFFSET \in Nat

ASSUME PageAssumption ==
  \A p \in Page : /\ p.len \in Nat
                  /\ p.record_count \in Nat
                  /\ p.entry \in [0..(p.record_count - 1) -> Nat]
                  /\ p.word \in [0..p.len -> Nat]

ASSUME RecordIdAssumption == RecordId \subseteq Nat

VARIABLES
  page,     \* the caller's bytes
  pc,       \* "parse", "scan" (the loop of parse), "ready" or "rejected"
  next_id,  \* the record identifier the loop looks at next
  answer    \* the last Result of parse or record

vars == <<page, pc, next_id, answer>>

Answer(verdict, id, start, len) ==
  [verdict |-> verdict, id |-> id, start |-> start, len |-> len]

---------------------------------------------------------------------------
(* directory_end and row_at *)

DirectoryEnd == DIRECTORY_OFFSET + page.record_count * DIRECTORY_ENTRY_LEN

Start(id) == DIRECTORY_OFFSET + page.entry[id]

OutOfBounds(start) == start < DirectoryEnd \/ start > page.len

(* Mutant: a record may run past the end of the page. *)
MutInvalidLength(start) ==
  /\ ~OutOfBounds(start)
  /\ page.len - start < 2 \/ page.word[start] < 2

InvalidLength(start) ==
  /\ ~OutOfBounds(start)
  /\ \/ page.len - start < 2
     \/ page.word[start] < 2
     \/ page.word[start] > page.len - start

RowVerdict(start) ==
  IF OutOfBounds(start) THEN "RecordOutOfBounds"
  ELSE IF InvalidLength(start) THEN "InvalidRecordLength" ELSE "Ok"

RowAt(id) ==
  LET verdict == RowVerdict(Start(id))
  IN  Answer(verdict, id, Start(id), IF verdict = "Ok" THEN page.word[Start(id)] ELSE 0)

---------------------------------------------------------------------------
(* MaterializedTablePage::parse *)

Init ==
  /\ page \in Page
  /\ pc = "parse"
  /\ next_id = 0
  /\ answer = Answer("Pending", 0, 0, 0)

Reject(a) ==
  /\ pc' = "rejected"
  /\ answer' = a
  /\ UNCHANGED <<page, next_id>>

WrongLength == page.len # MATERIALIZED_TABLE_PAGE_LEN
WrongType == page.type # MATERIALIZED_TABLE_PAGE_TYPE
DirectoryTooLong == DirectoryEnd > page.len

RejectPage ==
  /\ pc = "parse"
  /\ \/ WrongLength /\ Reject(Answer("InvalidPageLength", 0, 0, 0))
     \/ ~WrongLength /\ WrongType /\ Reject(Answer("WrongPageType", 0, 0, 0))
     \/ /\ ~WrongLength /\ ~WrongType /\ DirectoryTooLong
        /\ Reject(Answer("DirectoryOutOfBounds", 0, 0, 0))

EnterLoop ==
  /\ pc = "parse"
  /\ ~WrongLength /\ ~WrongType /\ ~DirectoryTooLong
  /\ pc' = "scan"
  /\ UNCHANGED <<page, next_id, answer>>

(* Mutant: an absent record is checked like any other. *)
MutBadEntry(id) == RowVerdict(Start(id)) # "Ok"

BadEntry(id) == page.entry[id] # 0 /\ RowVerdict(Start(id)) # "Ok"

RejectEntry ==
  /\ pc = "scan"
  /\ next_id < page.record_count
  /\ BadEntry(next_id)
  /\ Reject(RowAt(next_id))

PassEntry ==
  /\ pc = "scan"
  /\ next_id < page.record_count
  /\ ~BadEntry(next_id)
  /\ next_id' = next_id + 1
  /\ UNCHANGED <<page, pc, answer>>

(* Mutant: the loop leaves out the last record. *)
MutAccept ==
  /\ pc = "scan"
  /\ next_id + 1 >= page.record_count
  /\ pc' = "ready"
  /\ UNCHANGED <<page, next_id, answer>>

Accept ==
  /\ pc = "scan"
  /\ next_id = page.record_count
  /\ pc' = "ready"
  /\ UNCHANGED <<page, next_id, answer>>

---------------------------------------------------------------------------
(* MaterializedTablePage::record *)

Record(id) ==
  /\ pc = "ready"
  /\ answer' =
       IF id >= page.record_count THEN Answer("RecordIdOutOfRange", id, 0, 0)
       ELSE IF page.entry[id] = 0 THEN Answer("MissingRecord", id, 0, 0)
       ELSE RowAt(id)
  /\ UNCHANGED <<page, pc, next_id>>

Parse == RejectPage \/ EnterLoop \/ RejectEntry \/ PassEntry \/ Accept

Next == Parse \/ \E id \in RecordId : Record(id)

Spec == Init /\ [][Next]_vars

---------------------------------------------------------------------------
(* Properties *)

Verdict == {"Pending", "Ok", "InvalidPageLength", "WrongPageType", "DirectoryOutOfBounds",
            "RecordIdOutOfRange", "MissingRecord", "RecordOutOfBounds",
            "InvalidRecordLength"}

(* Every variable keeps to its type; no record is longer than its page. *)
TypeOK ==
  /\ page \in Page
  /\ pc \in {"parse", "scan", "ready", "rejected"}
  /\ next_id \in 0..page.record_count
  /\ answer.verdict \in Verdict
  /\ answer.id \in Nat /\ answer.start \in Nat
  /\ answer.len \in 0..page.len

(* A page parse accepted serves every record of its directory: record only *)
(* ever says Ok or, for a zero entry, MissingRecord, never that a record it *)
(* let through is malformed.                                                *)
RecordsAreServed ==
  pc = "ready" /\ answer.verdict # "Pending" =>
    IF answer.id >= page.record_count THEN answer.verdict = "RecordIdOutOfRange"
    ELSE answer.verdict = (IF page.entry[answer.id] = 0 THEN "MissingRecord" ELSE "Ok")

(* A record handed out lies between the directory and the end of the page  *)
(* and is as long as the length word at its start says, so a chain walker  *)
(* that is given it never finds trailing bytes.                            *)
RecordIsBounded ==
  answer.verdict = "Ok" =>
    /\ answer.start >= DIRECTORY_OFFSET + 2 * page.record_count
    /\ answer.start + answer.len <= MATERIALIZED_TABLE_PAGE_LEN
    /\ answer.len = page.word[answer.start] /\ answer.len >= 2

(* parse refuses a directory only for a nonzero entry whose record does    *)
(* not fit, and names the first such entry.                                *)
Fits(id) ==
  \E n \in 2..page.len :
    /\ page.entry[id] >= 2 * page.record_count
    /\ DIRECTORY_OFFSET + page.entry[id] + n <= page.len
    /\ page.word[DIRECTORY_OFFSET + page.entry[id]] = n

RejectNamesFirstMisfit ==
  pc = "rejected" /\ answer.verdict \in {"RecordOutOfBounds", "InvalidRecordLength"} =>
    /\ page.entry[answer.id] # 0 /\ ~Fits(answer.id)
    /\ \A id \in 0..(answer.id - 1) : page.entry[id] = 0 \/ Fits(id)

=============================================================================
