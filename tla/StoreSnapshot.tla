--------------------------- MODULE StoreSnapshot ---------------------------
(***************************************************************************)
(* PageStore::open of store.rs: read_size_stable_snapshot against a        *)
(* database server that writes the file while it is read.                  *)
(*                                                                         *)
(* The reader is the library, one system call per step.  The writer is     *)
(* external and unsynchronised: it may grow, truncate and rewrite the file *)
(* between any two calls of the reader.  Bytes are grouped in units; a     *)
(* page is PAGE_SIZE units, so a length can be unaligned, and a write      *)
(* stores a unit value new to the file or one written before.              *)
(***************************************************************************)
EXTENDS Naturals, Sequences

CONSTANTS
  PAGE_SIZE,    \* units in a page
  InitialFile,  \* the contents the file may have when it is opened
  MaxLen,       \* bound on the file's length, in units
  MaxWrites     \* bound on the number of writes

ASSUME SizeAssumption == PAGE_SIZE \in Nat \ {0} /\ MaxLen \in Nat /\ MaxWrites \in Nat
ASSUME FileAssumption == InitialFile \subseteq Seq(Nat)

VARIABLES
  file,          \* the file's units
  writes,        \* number of writes so far
  pc,            \* "size", "start", "read", "recheck" or "returned"
  initial_size,  \* length at the first seek to the end
  position,      \* the reader's file position
  bytes,         \* what has been read into the buffer
  result,        \* what the call returned
  grew,          \* history: the file grew after the first seek
  shrank,        \* history: the file was truncated after the first seek
  rewrote,       \* history: a unit was rewritten in place after it
  held           \* history: the contents the file had since the first seek

reader == <<pc, initial_size, position, bytes, result>>
vars == <<file, writes, reader, grew, shrank, rewrote, held>>

Reading == pc \in {"start", "read", "recheck"}

---------------------------------------------------------------------------
(* The writer *)

Write(contents) ==
  /\ writes < MaxWrites
  /\ file' = contents
  /\ writes' = writes + 1
  /\ held' = IF Reading THEN held \cup {contents} ELSE held
  /\ UNCHANGED reader

Stamp == 1..(writes + 1)

Grow(stamp) ==
  /\ Len(file) < MaxLen
  /\ Write(Append(file, stamp))
  /\ grew' = IF Reading THEN TRUE ELSE grew
  /\ UNCHANGED <<shrank, rewrote>>

Truncate(n) ==
  /\ Write(SubSeq(file, 1, n))
  /\ shrank' = IF Reading THEN TRUE ELSE shrank
  /\ UNCHANGED <<grew, rewrote>>

Rewrite(i, stamp) ==
  /\ Write([file EXCEPT ![i] = stamp])
  /\ rewrote' = IF Reading THEN TRUE ELSE rewrote
  /\ UNCHANGED <<grew, shrank>>

Writer ==
  \/ \E stamp \in Stamp : Grow(stamp)
  \/ \E n \in 0..(Len(file) - 1) : Truncate(n)
  \/ \E i \in 1..Len(file), stamp \in Stamp : Rewrite(i, stamp)

---------------------------------------------------------------------------
(* validate_store_size *)

TooSmall(size) == size < PAGE_SIZE

NotPageAligned(size) == ~TooSmall(size) /\ size % PAGE_SIZE # 0

(* Mutant: the alignment test is dropped. *)
MutValidSize(size) == ~TooSmall(size)

ValidSize(size) == ~TooSmall(size) /\ ~NotPageAligned(size)

---------------------------------------------------------------------------
(* read_size_stable_snapshot *)

Return(verdict) ==
  /\ pc' = "returned"
  /\ result' = verdict

Init ==
  /\ file \in InitialFile
  /\ Len(file) <= MaxLen
  /\ writes = 0
  /\ pc = "size"
  /\ initial_size = 0
  /\ position = 0
  /\ bytes = <<>>
  /\ result = "Pending"
  /\ grew = FALSE /\ shrank = FALSE /\ rewrote = FALSE
  /\ held = {}

(* seek(End(0)) and the first validation *)
MeasureSize ==
  /\ pc = "size"
  /\ initial_size' = Len(file)
  /\ \/ TooSmall(Len(file)) /\ Return("TooSmall") /\ held' = held
     \/ NotPageAligned(Len(file)) /\ Return("NotPageAligned") /\ held' = held
     \/ ValidSize(Len(file)) /\ pc' = "start" /\ held' = {file} /\ UNCHANGED result
  /\ UNCHANGED <<file, writes, position, bytes, grew, shrank, rewrote>>

(* seek(Start(0)); the buffer of initial_size bytes has been reserved *)
SeekStart ==
  /\ pc = "start"
  /\ pc' = "read"
  /\ position' = 0
  /\ UNCHANGED <<file, writes, initial_size, bytes, result, grew, shrank, rewrote, held>>

Remaining == initial_size - Len(bytes)

Available == IF position < Len(file) THEN Len(file) - position ELSE 0

(* Mutant: reads to the end of the file instead of initial_size bytes. *)
MutReadSome(n) ==
  /\ pc = "read"
  /\ n \in 1..Available
  /\ bytes' = bytes \o SubSeq(file, position + 1, position + n)
  /\ position' = position + n
  /\ UNCHANGED <<file, writes, pc, initial_size, result, grew, shrank, rewrote, held>>

(* Mutant: a short read is retried from the same position. *)
MutReadAgain(n) ==
  /\ pc = "read"
  /\ n \in 1..Available
  /\ n <= Remaining
  /\ bytes' = bytes \o SubSeq(file, position + 1, position + n)
  /\ UNCHANGED <<file, writes, pc, initial_size, position, result, grew, shrank, rewrote, held>>

(* One read call of read_exact: any number of the bytes that are there. *)
ReadSome(n) ==
  /\ pc = "read"
  /\ n \in 1..Available
  /\ n <= Remaining
  /\ bytes' = bytes \o SubSeq(file, position + 1, position + n)
  /\ position' = position + n
  /\ UNCHANGED <<file, writes, pc, initial_size, result, grew, shrank, rewrote, held>>

(* Mutant: a read of nothing is tried again, as a short one is. *)
MutReadNothing ==
  /\ pc = "read"
  /\ Remaining > 0
  /\ Available = 0
  /\ UNCHANGED vars

(* A read of nothing before the buffer is full: UnexpectedEof. *)
ReadNothing ==
  /\ pc = "read"
  /\ Remaining > 0
  /\ Available = 0
  /\ Return("UnexpectedEof")
  /\ UNCHANGED <<file, writes, initial_size, position, bytes, grew, shrank, rewrote, held>>

ReadFull ==
  /\ pc = "read"
  /\ Remaining = 0
  /\ pc' = "recheck"
  /\ UNCHANGED <<file, writes, initial_size, position, bytes, result, grew, shrank, rewrote, held>>

(* Mutant: only a shorter file counts as changed. *)
MutRecheck ==
  /\ pc = "recheck"
  /\ \/ Len(file) < initial_size /\ Return("Changed")
     \/ Len(file) >= initial_size /\ Return("Ok")
  /\ UNCHANGED <<file, writes, initial_size, position, bytes, grew, shrank, rewrote, held>>

(* seek(End(0)) again; the second validation follows the comparison *)
Recheck ==
  /\ pc = "recheck"
  /\ \/ Len(file) # initial_size /\ Return("Changed")
     \/ Len(file) = initial_size /\ ValidSize(Len(file)) /\ Return("Ok")
  /\ UNCHANGED <<file, writes, initial_size, position, bytes, grew, shrank, rewrote, held>>

(* Any of the calls, or the reservation of the buffer, may fail instead. *)
CallFails ==
  /\ pc # "returned"
  /\ Return("Io")
  /\ UNCHANGED <<file, writes, initial_size, position, bytes, grew, shrank, rewrote, held>>

Advance ==
  \/ MeasureSize \/ SeekStart \/ ReadNothing \/ ReadFull \/ Recheck
  \/ \E n \in 1..Len(file) : ReadSome(n)

Reader == Advance \/ CallFails

Next == Reader \/ Writer

Spec == Init /\ [][Next]_vars

---------------------------------------------------------------------------
(* Properties *)

(* Every variable keeps to its type; and "the reader is bounded to its      *)
(* initial length" (store.rs:104), however fast the file grows under it.   *)
TypeOK ==
  /\ file \in Seq(Nat) /\ Len(file) <= MaxLen
  /\ writes \in 0..MaxWrites
  /\ pc \in {"size", "start", "read", "recheck", "returned"}
  /\ initial_size \in Nat
  /\ position \in 0..initial_size
  /\ bytes \in Seq(Nat) /\ Len(bytes) <= initial_size
  /\ result \in {"Pending", "Ok", "TooSmall", "NotPageAligned", "UnexpectedEof",
                 "Changed", "Io"}
  /\ grew \in BOOLEAN /\ shrank \in BOOLEAN /\ rewrote \in BOOLEAN
  /\ held \subseteq Seq(Nat)

(* A snapshot that is handed out is a positive whole number of pages, so   *)
(* page(i) finds PAGE_SIZE bytes for every i below page_count.             *)
SnapshotIsWholePages ==
  result = "Ok" => /\ Len(bytes) >= PAGE_SIZE
                   /\ Len(bytes) % PAGE_SIZE = 0

(* A writer that only grows the file, or only truncates it, while it is    *)
(* read is always caught by the later length check.                        *)
OneWayResizeIsRejected == result = "Ok" => (grew <=> shrank)

(* Each unit of the snapshot was at its place in the file at some time     *)
(* during the read; when the file held still, the snapshot is the file.    *)
SnapshotWasInFile ==
  result = "Ok" =>
    /\ \A i \in 1..Len(bytes) :
         \E contents \in held : i <= Len(contents) /\ contents[i] = bytes[i]
    /\ \A contents \in held : held = {contents} => bytes = contents

(* "a later length check rejects growth or truncation while it was read.   *)
(* This cannot detect same-length in-place rewrites" (store.rs:105): when  *)
(* nothing was rewritten in place, a file resized during the read is       *)
(* rejected, or the snapshot is at least one the file was.                 *)
ResizeIsRejected ==
  result = "Ok" /\ (grew \/ shrank) /\ ~rewrote => bytes \in held
=============================================================================
