------------------------------ MODULE Inspect ------------------------------
(***************************************************************************)
(* A client of a page store while a database server rewrites and appends   *)
(* pages, unit by unit, and drops them: the CLI's inspect and dump-page    *)
(* commands (main.rs) and a caller of PageStore::superblock.  Each opens   *)
(* the store with the reader of StoreSnapshot and looks at the snapshot's  *)
(* pages with verify_trailer, verify_crc (page.rs) and the superblock's    *)
(* magic (superblock.rs).                                                  *)
(*                                                                         *)
(* A page's checksum covers all its units: it matches exactly when they    *)
(* all come from one write of the page (a CRC-32 without collisions).      *)
(* What is only printed (the histogram, the superblock's other fields, the *)
(* page type, the bytes) is left out.                                      *)
(***************************************************************************)
EXTENDS StoreSnapshot

CONSTANTS
  BadTrailer,  \* stamps of pages written with reserved bytes set
  BadMagic,    \* stamps whose first unit does not hold SA_MAGIC
  PageArg      \* the page numbers dump-page may be asked for

ASSUME StampAssumption == BadTrailer \subseteq Nat /\ BadMagic \subseteq Nat
ASSUME PageArgAssumption == PageArg \subseteq Nat

(* The server's stamps are new to the file, so that units of one stamp are  *)
(* of one write.                                                            *)
ASSUME FreshStampAssumption ==
  \A contents \in InitialFile : \A i \in 1..Len(contents) : contents[i] \notin 1..MaxWrites

VARIABLES
  server,            \* the page write in progress: [page, units, stamp]
  command,           \* what the client was asked to do
  index,             \* the page the loop of inspect looks at next
  crc_failures,      \* pages whose checksum was found not to match
  trailer_failures,  \* pages whose reserved trailer bytes are not zero
  exit               \* "running", "success" or "error"

Commands ==
  [name : {"inspect"}, verify_crc : BOOLEAN]
  \cup [name : {"dump_page"}, page : PageArg]
  \cup [name : {"superblock"}]

inspection == <<command, index, crc_failures, trailer_failures, exit>>
inspectVars == <<vars, server, inspection>>

---------------------------------------------------------------------------
(* The server (external) *)

Idle == [page |-> 0, units |-> PAGE_SIZE, stamp |-> 0]

PutUnit(i, stamp) ==
  /\ IF i <= Len(file) THEN Rewrite(i, stamp) ELSE Grow(stamp)
  /\ UNCHANGED inspection

BeginPageWrite(p) ==
  /\ server.units = PAGE_SIZE
  /\ p * PAGE_SIZE < MaxLen
  /\ server' = [page |-> p, units |-> 1, stamp |-> writes + 1]
  /\ PutUnit(p * PAGE_SIZE + 1, writes + 1)

ContinuePageWrite ==
  /\ server.units < PAGE_SIZE
  /\ server' = [server EXCEPT !.units = @ + 1]
  /\ PutUnit(server.page * PAGE_SIZE + server.units + 1, server.stamp)

(* The file loses all pages from p on. *)
DropPages(p) ==
  /\ server.units = PAGE_SIZE
  /\ p * PAGE_SIZE < Len(file)
  /\ Truncate(p * PAGE_SIZE)
  /\ UNCHANGED <<server, inspection>>

Server ==
  \/ ContinuePageWrite
  \/ \E p \in 0..(Len(file) \div PAGE_SIZE) : BeginPageWrite(p) \/ DropPages(p)

---------------------------------------------------------------------------
(* PageStore::page_count and page, Page::verify_crc and verify_trailer,    *)
(* Superblock::magic_ok                                                    *)

page_count == Len(bytes) \div PAGE_SIZE

InRange(p) == p < page_count

UnitOf(contents, p, k) == contents[p * PAGE_SIZE + k]

CrcMatches(p) ==
  \A k \in 1..PAGE_SIZE : UnitOf(bytes, p, k) = UnitOf(bytes, p, PAGE_SIZE)

TrailerIsZero(p) == UnitOf(bytes, p, PAGE_SIZE) \notin BadTrailer

MagicOk == UnitOf(bytes, 0, 1) \notin BadMagic

---------------------------------------------------------------------------
(* Every command opens the store first. *)

InspectInit ==
  /\ Init
  /\ server = Idle
  /\ command \in Commands
  /\ index = 0
  /\ crc_failures = {}
  /\ trailer_failures = {}
  /\ exit = "running"

OpenStep == Advance /\ UNCHANGED <<server, inspection>>

OpenFails == CallFails /\ UNCHANGED <<server, inspection>>

Exit(success) ==
  /\ exit' = IF success THEN "success" ELSE "error"
  /\ UNCHANGED <<vars, server, command, index, trailer_failures>>

OpenFailed ==
  /\ exit = "running"
  /\ pc = "returned" /\ result # "Ok"
  /\ Exit(FALSE)
  /\ UNCHANGED crc_failures

Serving(name) ==
  /\ exit = "running"
  /\ pc = "returned" /\ result = "Ok"
  /\ command.name = name

---------------------------------------------------------------------------
(* inspect.  It reads the superblock first, whose magic is only printed:   *)
(* try_superblock fails only on a store without page 0.                    *)

(* Mutant: the superblock is skipped like it is in the histogram. *)
MutInspectPage ==
  /\ Serving("inspect")
  /\ InRange(index)
  /\ index' = index + 1
  /\ trailer_failures' = trailer_failures \cup
       (IF index # 0 /\ ~TrailerIsZero(index) THEN {index} ELSE {})
  /\ crc_failures' = crc_failures \cup
       (IF index # 0 /\ command.verify_crc /\ ~CrcMatches(index) THEN {index} ELSE {})
  /\ UNCHANGED <<vars, server, command, exit>>

InspectPage ==
  /\ Serving("inspect")
  /\ InRange(index)
  /\ index' = index + 1
  /\ trailer_failures' = trailer_failures \cup
       (IF ~TrailerIsZero(index) THEN {index} ELSE {})
  /\ crc_failures' = crc_failures \cup
       (IF command.verify_crc /\ ~CrcMatches(index) THEN {index} ELSE {})
  /\ UNCHANGED <<vars, server, command, exit>>

Finish ==
  /\ Serving("inspect")
  /\ ~InRange(index)
  /\ Exit(InRange(0) /\ crc_failures \cup trailer_failures = {})
  /\ UNCHANGED crc_failures

---------------------------------------------------------------------------
(* dump-page prints whether the checksum matches and succeeds either way.  *)

(* Mutant: the page is reported as sound without comparing the checksums. *)
MutDumpPage ==
  /\ Serving("dump_page")
  /\ Exit(InRange(command.page))
  /\ UNCHANGED crc_failures

DumpPage ==
  /\ Serving("dump_page")
  /\ Exit(InRange(command.page))
  /\ crc_failures' =
       IF InRange(command.page) /\ ~CrcMatches(command.page) THEN {command.page} ELSE {}

(* PageStore::superblock *)
Superblock ==
  /\ Serving("superblock")
  /\ Exit(InRange(0) /\ MagicOk)
  /\ UNCHANGED crc_failures

Command == OpenStep \/ OpenFailed \/ InspectPage \/ Finish \/ DumpPage \/ Superblock

InspectNext == Command \/ OpenFails \/ Server

(* The command's thread runs, without the help of a failing call; nothing   *)
(* is assumed of the server.                                                *)
InspectSpec == InspectInit /\ [][InspectNext]_inspectVars /\ WF_inspectVars(Command)

---------------------------------------------------------------------------
(* Properties *)

(* inspect succeeds exactly when no page of the snapshot, the superblock   *)
(* included, fails a check that was asked for: one good page never hides a *)
(* bad one, and a wrong magic is no failure.  dump-page succeeds exactly   *)
(* for a page the snapshot has, sound or not, and superblock() exactly for *)
(* the right magic.                                                        *)
ExitTellsIntegrity ==
  exit # "running" =>
    (exit = "success" <=>
       /\ result = "Ok"
       /\ CASE command.name = "inspect" ->
                 \A p \in 0..(page_count - 1) :
                   TrailerIsZero(p) /\ (command.verify_crc => CrcMatches(p))
            [] command.name = "dump_page" -> command.page \in 0..(page_count - 1)
            [] OTHER -> bytes[1] \notin BadMagic)

(* The pages a command reported as sound. *)
Passed ==
  CASE exit = "success" /\ command.name = "inspect" /\ command.verify_crc ->
         0..(page_count - 1)
    [] exit = "success" /\ command.name = "dump_page" -> {command.page} \ crc_failures
    [] OTHER -> {}

(* Although the snapshot may mix contents of different moments, a page     *)
(* that inspect --verify-crc has passed, or whose checksum dump-page calls *)
(* OK, was in the file as a whole at one moment of the read: no page torn  *)
(* by a concurrent write is passed.                                        *)
VerifiedPagesWereWhole ==
  \A p \in Passed :
    \E contents \in held : \A k \in 1..PAGE_SIZE :
      /\ p * PAGE_SIZE + k <= Len(contents)
      /\ UnitOf(contents, p, k) = UnitOf(bytes, p, k)

(* The command ends, whatever the server does while the store is opened:    *)
(* when the file is truncated below what is still to be read, the reader   *)
(* gives up (store.rs:126) rather than wait for the bytes to come back,    *)
(* and when it keeps growing the reader does not run after its end.        *)
InspectEnds == <>(exit # "running")
=============================================================================
