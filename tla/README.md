# opensqlanywhere: verification project

TLA+ models of the SQL Anywhere page-store reader in this repository
(`src/crates/opensqlany`, `src/crates/opensqlany-cli`), TLC runs that check
them on small instances, and TLAPS proofs of the main safety properties for
every instance. Paths such as `row_segment.rs` below are relative to
`src/crates/opensqlany/src/`.

## 1. Inventory

The program is a library that reads a database file it does not own (a server
may be writing it), and a CLI on top of it. There are no threads inside the
library. What is hard comes from outside: a concurrent writer of the file,
caller-supplied closures whose answers are arbitrary, page images of arbitrary
content, and boundaries of lengths, offsets and limits.

| component | state it keeps | operations | talks to | what makes it correct |
|---|---|---|---|---|
| page store `store.rs` | an owned snapshot of the file | `open`, `from_bytes`, `page`, `pages`, `superblock` | the file system, unsynchronised with a server | bounded read, whole pages, resize noticed, torn contents only where the docs say so |
| page view `page.rs` | none | `verify_crc`, `verify_trailer`, trailer fields | the store's bytes | checks cover the whole page |
| superblock `superblock.rs` | none | `parse`, `magic_ok` | page 0 | who fails on a wrong magic and who does not; field offsets (pure) |
| AP stream `ap.rs` | `bv_map`, `bv0` | `learn`, `bv_at`, `recover_bv_*`, `deobfuscate*` | every page of the store, page images callers hold | the value learned is the one the pages were written with; a page with evidence of its own is read by that evidence; the fallback is well defined |
| page permutation `page_permutation.rs` | none | `permute_sector`, `permute_power_of_two` | callers | a bijection of the active range; in-place rounds stay in bounds |
| slotted pages `slotted.rs` | the directory found | `parse`, `row_slots`, `unclassified_prefix` | deobfuscated pages | the directory never overlaps its rows; rows are disjoint and keep their slot index; the library and the CLI cut the same rows |
| page links `page_links.rs` | the pages visited | `find_page_link_metadata`, `walk_page_links` | a lookup closure | only safe targets followed, bounded, terminating, true stop reason |
| materialized pages `materialized_page.rs` | the checked page | `parse`, `record` | callers, chain resolvers | a page that parses serves all its records |
| row segments `row_segment.rs` | the chain walked so far | `parse_row_segment`, `walk_row_segment_chain` | a resolver closure | no target twice, limits, fail-closed, right verdict, terminating |
| row decoder `row_decoder.rs` | a cursor over a row | `decode_row*`, `decode_materialized_row_record_exact` | schemas, records | exact consumption, presence bitmap and cursor agree |
| numbers and dates `row_decoder.rs` | none | `read_numeric_legacy`, `Decimal::to_plain_string`, `SaDate::ymd` | decoded values | the text is the number of the token; the day is the Gregorian one |
| CLI `main.rs` | failure lists | `inspect`, `dump-page`, `slots`, `ap-info`, `deob` | all of the above | the exit status tells integrity |
| errors, library root `error.rs`, `lib.rs` | none | type definitions, re-exports, messages | all | nothing to check |

The interactions that matter:

- Every command opens a store with `read_size_stable_snapshot`, which makes separate
  seek and read calls on a file that a server may write between any two of them;
  everything after that works on the snapshot in memory.
- `ApModel::learn` reads the pages of the snapshot and keeps a model; every page
  is then read through it (or, with the store at hand, through what the page
  itself says). The image a caller hands in need not be the store's: it may be newer, or
  of a page the store does not have. Slotted pages and page links are looked for in
  what comes out.
- The two chain followers call back into the caller for every next item. The
  caller may answer anything, also something else the second time.
- A materialized page hands out records; a record is the first segment of a chain
  or the carrier of one row; a row is decoded with a schema the caller supplies. A
  closure that answers from parsed pages turns the chain walker's contract into one
  about stored records.

### What is hard here

There is no concurrency inside the library and nothing is persisted, so the
hazards are: the unsynchronised server (`store.rs`, `main.rs`); closures whose
answers form cycles, grow without end or are malformed half way; in-place loops
that overwrite what they read (`page_permutation.rs`); one-pass loops that keep
several things at once (`recover_step_confidence`, `scan_from`); two code paths
that must agree (parse and `record` of a page, the exact and the prefix row
decoder, learning and recovering a bv, the rows of the library and those the CLI
prints); a closure that needs many steps of its own to answer one call; the order
of a hash map (`ap.rs`); and boundaries of lengths, limits and widths everywhere. `PROJECT.json` lists each
one at its line with the properties that would catch it going wrong.

## 2. Modules

| module | models | proofs |
|---|---|---|
| `BoundedWalk` | abstract: collect items, none twice, never more than a limit, and stop | – |
| `RowSegmentChain` | `parse_row_segment`, `walk_row_segment_chain`; implements `BoundedWalk` | `RowSegmentChain_proofs` |
| `PageLinks` | `find_page_link_metadata`, `walk_page_links`; implements `BoundedWalk` | `PageLinks_proofs` |
| `StoreSnapshot` | `PageStore::open` against a writer of the file | `Inspect_proofs` |
| `Inspect` | `inspect`, `dump-page` and `superblock()` on top of `StoreSnapshot`, against a server that writes pages | `Inspect_proofs` |
| `MaterializedPage` | `MaterializedTablePage::parse` and `record` | `RecordChain_proofs` |
| `RecordChain` | `RowSegmentChain` with a closure that answers from the pages of `MaterializedPage` | `RecordChain_proofs` |
| `PagePermutation` | both permutations, and the call that undoes one | `PagePermutation_proofs` |
| `RowDecoder` | the three entry points of the row decoder | `RowDecoder_proofs` |
| `Argmax`, `StepRecovery` | which maximum a loop keeps; the loop that picks a sector's step | `ApModel_proofs` |
| `ApModel` | `learn`, the ways to find a bv, deobfuscation, composed with `StepRecovery` | `ApModel_proofs` |
| `Slotted` | `find_slot_directory`, `scan_from`, `row_slots`, `slot_rows` of the CLI | `Slotted_proofs` |
| `SaDate`, `RowValues` | `SaDate::ymd`; numbers read, numbers rendered, dates day after day | `RowDecoder_proofs` |

Compositions are by `EXTENDS` with shared variables: `Inspect` runs the reader and
the writer of `StoreSnapshot` and adds the command's loop; `ApModel` runs the loop
of `StepRecovery` once per sector. `RecordChain` extends `MaterializedPage` and
takes the walker as an instance with variables of its own. Refinements are by
`INSTANCE ... WITH` (`BoundedWalk`, and `RowSegmentChain` for `RecordChain`) or, for
`Inspect`, by the identity on the variables of `StoreSnapshot`. Each `MC` module
gives the constants of one component values for TLC, and no definition of a
component is replaced there.

How state and actions correspond to the code:

- **RowSegmentChain.** `segments`, `total`, `visited`, `target`, `bytes` are the
  walker's locals; `pc = "resolve"` is being inside the closure. One action per way
  an iteration can end, in the order of the code's checks: limit before parsing,
  header, exact length, payload budget, complete, cycle, limit before resolving,
  call. `requests` and `supplied` are histories of what crossed the closure. A byte
  string is what the header parser reads of it (length, declared length,
  continuation bit and target), and the environment may answer with any of them.
- **PageLinks.** `pages`, `current`, `stop` are the walker's; a page is the sequence
  of its candidate blocks in offset order, of which the first that matches decides.
  A lookup that cannot decode a page answers as one without metadata.
- **StoreSnapshot.** One action per system call of the reader: seek to the end,
  seek to the start, each short read of `read_exact`, the second seek. Any of them
  may fail. `Grow`, `Truncate` and `Rewrite` are the writer's, one unit at a time,
  a page being `PAGE_SIZE` units. `grew`, `shrank`, `rewrote` and `held` are
  histories of what the file went through.
- **Inspect.** The server writes whole pages front to back, one unit per step, and
  drops pages at the end. `command` is what the client was asked: `inspect` with or
  without `--verify-crc`, `dump-page` of a page, or `superblock()`. `crc_failures`
  and `trailer_failures` are the lists of `inspect`; for `dump-page` the former holds
  the page whose checksum it calls wrong. A checksum matches exactly when all units
  of the page come from one write; the magic is a property of the first unit.
- **MaterializedPage.** A page is its length, type byte, record count, directory
  and the word at each offset. `parse` is a loop with an action per entry, `record`
  may be asked for anything, any number of times, once the page is accepted.
- **RecordChain.** The closure looks up the page of the target's `resolver_key` in the
  caller's context (`OwnerUnknown`, `OpenOwner`), runs `parse` step by step
  (`ParseOwner`), selects the record (`SelectRecord`) and returns its bytes
  (`RecordReturned`) or an error (`PageRejected`, `RecordRejected`). `resolver` says
  how far it has come; in between the walker waits. The header of a record, which
  `MaterializedPage` does not look at, is given beside the page by offset.
- **PagePermutation.** One action per byte moved. The parts of the key keep their
  widths, all derived from `BYTE`; the 16-bit stride is signed and wraps. After
  `Ok` the caller may call again with the negated key.
- **RowDecoder.** `cursor`, `column`, `values` and `present` are the decoder's. One
  action per field, per Boolean word and per packed run, then the tail. The same
  row and schema are decoded exactly and then up to any column, because the code
  writes the two decoders apart. `Unpack` is the carrier's envelope, with the size
  word that is masked to 13 bits.
- **ApModel, StepRecovery.** `learn` reads one page per step; `bv_map` and `bv0` are
  its fields; where the code iterates a `HashMap` every order is a choice.
  Deobfuscation goes sector by sector, and in each the loop looks at one step after
  the other. A page also carries how it was written, which only the properties look
  at. The image a call is given is the store's or one of `Newer`; the votes of a page
  come from the image, a score from the store, as in the code.
- **Slotted.** One action per word of `scan_from`, for every start and both byte
  orders; `best` is the candidate kept. `RowSlots` is `row_slots` of what is found,
  by the sorted offsets (`Bounds`), and `SlotRow` the CLI's own cut of the page. A
  caller may also make a directory (the fields are public); then only the two cuts
  are compared.
- **RowValues.** A token is read, then rendered; or the date of one time after the
  other is asked for. A coefficient is a sequence of digits.

## 3. Runs

Nine runs that pass and three that find a disagreement. All counts are distinct
states; a run takes about a minute at most.

| run | states | what it shows |
|---|---|---|
| `row_segment_chain` | 8,421 | whatever the resolver answers: no target asked for twice, limits kept, segments are the path the bytes describe, the resolver called only when all before was checked, the verdict the one deserved, and the walk a `BoundedWalk` that stops |
| `page_links` | 1,006 | only safe targets are followed, the stop reason is true, the walk is a `BoundedWalk` that stops |
| `inspect` | 2,623,000 | the read is bounded; a snapshot is whole pages whose units were in the file; a file only grown or only truncated is refused; the exit status of each command is that of the checks it was asked for; no torn page passes `inspect --verify-crc` or is called sound by `dump-page`; the command ends |
| `record_chain` | 156,238 | a page that parses serves every record, within bounds, and the error names the first misfit; a chain over pages is made of the stored records and stops for a reason the pages show; walker and closure together are the walker of `RowSegmentChain`, its termination included |
| `page_permutation` | 29,595 | only the active range is touched, each byte of it moved once, the cycle never lost, the negated key an inverse |
| `slotted` | 144,307 | the rows tile the row area, no directory has more live slots than the one found, the sentinel flag is right, library and CLI cut the same rows |
| `row_decoder` | 441,227 | a row decoded exactly is the encoding of its values; a carrier is decoded whole; every prefix agrees with the whole row |
| `ap_model` | 754,286 | the bv of a block is learned; fill reads back as zeros; reading with the store needs no other page, whatever image the caller holds; block recovery; the evidence of every sector |
| `row_values` | 150,903 | what is rendered is the number of the token; dates follow the Gregorian calendar |
| `store_resized` | – | violation, see section 6 |
| `slotted_trailing_zeros` | – | violation, see section 6 |
| `ap_model_fallback` | – | violation, see section 6 |

Every property has a mutant, a plausible bug of the code, under which TLC finds it
violated in the same run.

### Bounds, and why they are enough

- `row_segment_chain`: four targets, limits of 0 to 4 segments and 0 to 2 payload
  bytes, payloads of 0 and 1 byte, and each way a header can be wrong. A cycle of
  every length up to four occurs, a limit is reached before, at and after it, and
  a budget is exceeded by the first and by a later segment.
- `page_links`: a store of four pages, one page number past its end, bounds of 0 to
  5 pages, pages with near misses and with blocks of other pages before the block
  that counts. The walk is longer than the store only if a page is repeated.
- `inspect`: pages of two units, files of up to three pages, five writes. Two units
  are what tears a page; two pages tell one page's failure from another's; five
  writes truncate a file and grow it back during the read. Initial files include
  half a page, a page and a half, torn pages, bad trailers and a wrong magic. Page 1
  is asked of `dump-page`, which every file of two pages has, and page 2, which only
  a file that has grown has.
- `record_chain`: two pages of 24 bytes with up to two records and a directory at
  offset 2; a third key without a page and a record id no page has. Entries and length
  words lie below, at and above each bound, and there is a page too short, one of
  another type and one whose directory does not fit. Chains go within a page, to the
  other page and back, into a cycle, to a record shorter than its header and to each
  way a lookup fails; limits of 0 to 9 segments, and no payload at all, occur.
- `page_permutation`: bytes of four values, every active range of buffers of 1, 2,
  4 and 8 bytes (below, at and above `BYTE`), 26 keys that vary each part taken
  from them, `i32::MIN` included. Lengths that are refused occur too.
- `slotted`: bytes of four values and all 4,096 contents of the six bytes searched,
  so a directory has at most three slots, enough for a sentinel, a deleted slot
  between live ones and both byte orders. Directories made by a caller have up to
  four slots with offsets below, in and above the row area, unordered and repeated.
- `row_decoder`: bytes of two bits, digits up to 2, sizes cut at 8. Schemas of up to
  three columns under every Boolean layout, bit order and coverage, or with one
  field of every type; rows of up to nine bytes after their size, carriers longer than the size limit.
- `ap_model`: bytes of eight values, three blocks of four pages, sectors of three
  and two bytes. Of nine pages six vary: two of one block, which may differ, the
  three of another that a recovery samples, and the only one of the last. The
  image a caller holds may differ from the store's page 2, or be of page 9, which the
  store does not have; the types include a lowercase one.
- `row_values`: every short token, base-100 tokens of up to two digits shifted by up
  to two places, decimals of every sign; 400 years across year zero, in which every
  branch of the date formula is taken, and the years around the two epochs, in
  steps of a minute less than a day.

Deadlock is not checked in any run: each behaviour is a call that returns.

### Fairness

Liveness is checked where the code promises to end against an environment that
does not help:

- `RowSegmentChain`, `PageLinks`: weak fairness of the loop and of the closure. The
  loop is straight-line code between two calls, and a closure that never returns
  holds up its caller by its own fault. `IsBoundedWalk` contains the termination.
- `RecordChain`: weak fairness of the whole (`ChainNext`), the one thread that runs
  walker and closure. Nothing is assumed of the closure itself: that it returns, which
  `RowSegmentChain` assumes, follows here, as parsing a page ends.
- `Inspect`: weak fairness of the command without `OpenFails`, so that a failing
  call is never what ends it; nothing is assumed of the server, which may stop in
  the middle of a page or write until its bound. So a file truncated under the reader
  may stay truncated, and only a reader that gives up on a read of nothing ends.

The other modules state safety only.

## 4. Proofs

Every safety property that a passing run checks is also a theorem, for every value
of the constants the `ASSUME`s beside them allow. Eight modules hold the proofs; a
component that is the base of another is proved about in the other's module.

| module | invariant | what it gives |
|---|---|---|
| `RowSegmentChain_proofs` | `ChainInv` = types, call in progress, limits, contents; then `PathInv` | types, `NeverResolvedTwice`, `WithinLimits`, `ChainFollowsBytes`, `CallsOnlyWhenChecked`, `VerdictIsDeserved`, safety part of `BoundedWalk` |
| `PageLinks_proofs` | `WalkInv` = types, `InStep`, safe edges, `Distinct`, `StopIsTrue` | types, `OnlySafeTargetsFollowed`, `StopIsTrue`, safety part of `BoundedWalk` |
| `Inspect_proofs`, `StoreSnapshot` part | `SnapshotInv` = types, `Progress`, `Resized`, `Buffered` | types, `SnapshotIsWholePages`, `OneWayResizeIsRejected`, `SnapshotWasInFile` |
| `Inspect_proofs` | `ServerInv`, then `Verified`, then `TornInv` | `ExitTellsIntegrity` for every command; `Inspect` implements `StoreSnapshot`, so its snapshot properties carry over; `VerifiedPagesWereWhole` |
| `RecordChain_proofs`, `MaterializedPage` part | `PageInv` = types, `Passed`, the two properties; then `Refused` | `RecordsAreServed`, `RecordIsBounded`, `RejectNamesFirstMisfit` |
| `RecordChain_proofs` | `ChainInv` = `Closure` and `WalkInv` | `ChainIsTheRecords`; the three properties above on every page of the chain; walker and closure together take only steps of `RowSegmentChain` |
| `PagePermutation_proofs` | `PermuteInv` = types, `Checked`, the two properties; then the walk's ranks, then `RestoreInv` | types, `InactiveUntouched`, `CycleIsFound`, `EachByteMovedOnce`, `NegatedKeyRestores` |
| `Slotted_proofs` | `SlottedInv` = `TypesInv`, `ScanInv`, `BestInv`, `FoundInv` | `FindsTheLongest`, `LeadingZeroIsTold`, `TwoViewsAgree`, `RowsTileTheRowArea` |
| `RowDecoder_proofs` | `CarrierInv` = `InputOK`, `Rebuilt`, `Uncut`, the property; `DecoderInv` = types and `RowInv` | `CarrierIsDecodedWhole`; `PrefixAgreesWithTheRow`, `RowIsTheEncodingOfItsValues` |
| `RowDecoder_proofs`, `RowValues` part | `NumberInv`; the date of the time at hand | `TextIsPlain`, `RenderingIsTheToken`, `DatesAreGregorian` |
| `ApModel_proofs`, `StepRecovery` part | `LoopInv` = types, `BestSoFar`, `RunnerUpSoFar`, `TiesSoFar` | `EvidenceIsRight` for any peaks |
| `ApModel_proofs` | `ApInv` = `ModelInv`, `AnswerInv`, `LoopInv`, `SectorsInv` | `LearnsTheBlock`, `BlockIsRecovered`, `RightBvReadsZeros`, `StoreNeedsNoOtherPage`, `EvidenceIsRight` within the whole |

### Assumptions

Most of them say only that widths, lengths and limits are natural numbers (and
positive where the code's are) and that inputs have the shape of their type. The
others:

- `FreshStampAssumption` (`Inspect`): the stamps of the server's writes are not in
  the initial file, so that units with one stamp are of one write. It names
  contents and says nothing of the code.
- `WalkAssumption` (`RecordChain`): there are finitely many targets, which are a
  `u32` and a `u16`.
- `ByteAssumption` (`PagePermutation`): a byte has an even number of values. It is
  what makes an odd stride odd after it wraps. `PowerOfTwo` is defined by divisors;
  the `MC` module compares it with the powers of two up to 64 (`PowersOfTwo`).
- `RowAssumption` (`RowDecoder`): a row that has a size word is followed by the rest
  of its bytes; a carrier is not bound by it.
- `ApAssumption` (`ApModel`): a key stream has as many steps as a byte has values,
  and a page has more than one sector.
- `TokenAssumption`, `MadeAssumption`, `SpanAssumption`, `StepAssumption`
  (`RowValues`): tokens are bytes; the coefficients of decimals that callers make are
  canonical, as `row_decoder.rs` documents them; times are integers, and two dates are
  asked for less than a day apart. The theorems are for every set of such tokens,
  decimals and spans; the code has an `i32` of minutes and computes dates in `i64`,
  which none overflows.

### Why the invariants are what they are

- `NeverResolvedTwice` is about `requests`, which the walker does not read; it needs
  that `visited` is the initial target and all requests (`VisitedCovers`).
- `WithinLimits` needs how far `segments`, `requests` and `supplied` run in step at
  each `pc`; `ChainFollowsBytes` needs that everything before the bytes in hand was
  checked (`Checked`), which is also the fail-closed argument.
- `VerdictIsDeserved` needs that `visited` is the path so far and `total` the sum of
  the payloads on it (`PathInv`).
- `StopIsTrue` is inductive with the others of `WalkInv`; that a cycle is never a
  page pointing at itself or at page zero needs that only safe targets are followed.
- `OneWayResizeIsRejected` compares two lengths at two moments; `Resized` relates
  the length now to the one measured, according to what the file went through.
- `SnapshotWasInFile` needs that the buffer is read from where the position is
  (`Progress`) and that each unit read is that of a content in `held` (`Buffered`).
- `Inspect` is proved in rounds. `ServerInv` makes each of the server's page
  writes an action of `StoreSnapshot`'s writer, so every step of a command against
  the server is one of `StoreSnapshot` or a stutter (`InspectOpensAStore`) and the
  snapshot's own theorems hold. With them at hand, `ExitTellsIntegrity` needs that
  the failure lists are those of the pages below `index` (`Verified`), which no step
  of the server disturbs, the snapshot being in memory (`VerifiedStable`).
- `VerifiedPagesWereWhole` is about one moment of the past. While a snapshot is read,
  each page whose first unit has been read has one of three fates (`PageFate`): the
  whole page of that write was in the file at some moment; or that write is still in
  progress, front to back; or some unit of the page has been read, or will be read
  where it lies ahead in the file, from another write (`Foreign`), and the checksum
  will not match. It needs that a write's stamp is found nowhere but where the server
  has put it (`Stamps`, `PutSoFar`).
- `RejectNamesFirstMisfit` needs that every entry passed is absent or fits, which is
  `Passed`, and that the error was made of the first that does not (`Refused`).
- `ChainIsTheRecords`: `Closure` says that the page the closure works on is the one
  the target names and has passed as far as the parser has come, so a record handed
  to the walker is a stored one; `WalkInv` that the walker has gone along stored
  records only. That a limit stops it only when that many records exist is the
  pigeonhole principle on the targets of the path (`PathIsNew`).
- `CycleIsFound` is the first of three results of number theory: after `len` strides
  from the active range the walk is back where it was (`FullTurn`), so the search
  always has a hit. It needs neither that the stride is odd nor that the length is a
  power of two.
- `EachByteMovedOnce` does: an odd stride and a power of two have no common factor,
  so the turns of the walk are distinct until all of the page is covered. The
  invariant gives each active byte its rank on the cycle and says that those of a
  lower rank have been moved (`WalkPlace`, `FirstWalk`).
- `NegatedKeyRestores`: the buffer between the two calls is `Permuted` by the ranks
  of the first, and the ranks of the second walk, by the negated stride, are the
  same ones backwards (`RestoreInv`).
- `CarrierIsDecodedWhole` needs that the size cut off by the mask shows in the flags
  (`SizeAndFlags`, `UncutSize`): a payload too long to be declared has nonzero
  flags and the row header refuses it.
- `PrefixAgreesWithTheRow` relates two decoders that run one after the other. Both
  are measured by one description of the row, its `Trace`: where each column begins,
  as the bytes say it. The exact decoder walks the trace to its end; the prefix
  decoder walks the same trace (it exists only once, `GoesOnce`) and stops earlier.
- `RowIsTheEncodingOfItsValues` reads the same trace backwards: the encodings of the
  columns are adjacent slices of the body, whose concatenation is the body.
- `RenderingIsTheToken` follows a number through leading zeros dropped, zeros
  appended, zeros padded and the split at the point (`Stands`); each is a lemma
  about what digits stand for (`LeadingZeros`, `TrailingZeros`, `CutIs`).
- `DatesAreGregorian`: every day is the `doy`-th of the `y`-th year of an era
  (`DayExists`), the formula finds these three (`YmdIs`), and the next day is found
  from them (`NextDay`), so the date is the next of the calendar (`DateAfter`).
- `FindsTheLongest` is not about the candidate kept but about all of them: every run
  of the page whose start has been tried is dominated by the candidate (`BestInv`),
  and a scan in progress has read a prefix of a run (`ScanInv`).
- `RowsTileTheRowArea`: sorting is by order statistics, so the end of a slot's row
  is the least larger offset; descending offsets leave no gap and no overlap.
- `EvidenceIsRight` is the classic loop invariant: each variable is right for the
  steps before `step`. Within `ApModel` the loop runs once per sector, and
  `SectorsInv` says that its peaks are those of the sector at hand.
- `RightBvReadsZeros`: a sector of zeros obfuscated with the bv it is read with has
  one peak of full height, at its own step, so any other best step has the same
  stream and reads zeros as well.
- `LearnsTheBlock` needs no count of votes but where they are zero (`VotesInv`): if
  all calibrating pages of a block have one bv, only that one has votes, and every
  order of the hash map finds it. `BlockIsRecovered` compares sums of scores, by
  pages.

Sums, paths, digits and concatenations are recursive functions. What is needed of
them for all lengths is proved by the least number that would refute it (`Least`,
from `WellFoundedInduction`'s facts on natural numbers), an induction by hand.

### Only model-checked

Liveness: the termination in `IsBoundedWalk` (both) and in `WalkIsChain`, whose
safety parts are theorems, and `InspectEnds`. The three expected violations are runs
and not theorems. `PowerOfTwo` is compared with the powers of two up to a bound.

## 5. Not modelled

- `superblock.rs` apart from the magic: fields read at fixed offsets and printed,
  without a decision.
- `error.rs`, `lib.rs`, `Display` implementations, accessors, and the table of page
  type names, of which only the letter case that `learn` tells apart is modelled.
- What CLI commands print. `slots` and `deob --raw` end exactly as `dump-page` does
  (a page the snapshot has, or an error); `ap-info` and `deob` print what the calls
  of `ApModel` return.
- `unclassified_prefix` and the counters of `slotted.rs`: views of the directory.
- `legacy_systable_schema`, `legacy_syscolumn_schema`: constant tables; `RowDecoder`
  varies the schema instead.
- The CRC itself: taken to tell apart any two contents (external, `crc32fast`).
- The closures of callers other than the one of `RecordChain`, which the repository
  describes (`row_segment.rs`, `ContinuationTarget`) and does not contain.
- The documentation site and the build files of the repository.

## 6. Disagreements between code and documentation

Found while modelling; the first three are runs expected to find a violation.

1. `store_resized`. `store.rs:105` says a later length check rejects growth or
   truncation during the read, and only same-length in-place rewrites go unseen.
   The code (`store.rs:129`) compares two lengths. A file truncated and grown back
   between them is accepted, with a mixture the file never held. What does hold is
   `OneWayResizeIsRejected`.
2. `slotted_trailing_zeros`. `slotted.rs:54` and `SPECIFICATION.md:211` say deleted
   slots are zero words between live entries. `scan_from` (`slotted.rs:212`) also
   pushes the zero words after the last live slot, and `deleted_count` counts them.
3. `ap_model_fallback`. `ap.rs:408` says the fallback is block 0 or the lowest
   observed block. The code (`ap.rs:412`) takes the first value of a `HashMap`,
   which is any block, and not the same one in every run of the program.

Seen without a run of its own: `row_decoder.rs:147` and `:152` say a Boolean byte is
true when nonzero, while `:759` refuses any byte but 0 and 1; and `:350` promises a
canonical coefficient while `:1464` appends zeros to a zero, giving `000`.

## 7. Plan

Order of work, the most important behaviour first: the chain walker and its
abstract specification; the page-link walk as a second implementation; the store
against a writer and the commands on it; materialized pages; the permutation;
slotted pages; the row decoder; the AP model; numbers and dates; the chain walker
over materialized pages. All of these are modelled and checked, and all of the
safety properties checked are proved.

What is left:

- `deob`, `ap-info` and `slots` as commands over a store a server writes, if they
  come to decide an exit status by more than errors.
- A schema found in the store rather than given (`legacy_systable_schema`), should
  the library come to read its own catalogue.
- Proofs that are long because the provers need small steps, in particular of the
  permutation and the AP model, could be made shorter by lemmas on sums and on
  residues shared between them.
