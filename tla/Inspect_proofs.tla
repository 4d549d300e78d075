--------------------------- MODULE Inspect_proofs ---------------------------
(***************************************************************************)
(* Two parts.  What PageStore::open guarantees against an unsynchronised   *)
(* writer, for every page size, file and number of writes; and inspect on  *)
(* top of it, for every server: its exit status, what a passed page was,   *)
(* and that the store it opens is the one the first part is about.         *)
(***************************************************************************)
EXTENDS Inspect, SequenceTheorems, TLAPS

(* How far the reader is at each pc. *)
Progress ==
  /\ position = Len(bytes)
  /\ Len(bytes) <= initial_size
  /\ pc \in {"size", "start"} => bytes = <<>>
  /\ pc = "size" => ~grew /\ ~shrank
  /\ pc # "returned" => result = "Pending"
  /\ Reading => ValidSize(initial_size) /\ file \in held
  /\ pc = "recheck" => Len(bytes) = initial_size
  /\ result = "Ok" => Len(bytes) = initial_size /\ ValidSize(initial_size)

(* What resizes in one direction do to the length while it is read. *)
Resized ==
  /\ Reading /\ ~shrank => Len(file) >= initial_size
  /\ Reading /\ ~shrank /\ grew => Len(file) > initial_size
  /\ Reading /\ ~grew => Len(file) <= initial_size
  /\ Reading /\ ~grew /\ shrank => Len(file) < initial_size
  /\ OneWayResizeIsRejected

(* Where the buffer's units come from. *)
Buffered ==
  Reading \/ result = "Ok" =>
    /\ \A i \in 1..Len(bytes) :
         \E contents \in held : i <= Len(contents) /\ contents[i] = bytes[i]
    /\ \A contents \in held : held = {contents} =>
         /\ Len(bytes) <= Len(contents)
         /\ \A i \in 1..Len(bytes) : bytes[i] = contents[i]
         /\ result = "Ok" => Len(contents) = Len(bytes)

SnapshotInv == TypeOK /\ Progress /\ Resized /\ Buffered

LEMMA SnapshotInit == Init => SnapshotInv
<1> SUFFICES ASSUME Init
             PROVE  SnapshotInv
  OBVIOUS
<1>1. TypeOK
  <2>1. file \in Seq(Nat) /\ Len(file) <= MaxLen
    BY FileAssumption DEF Init
  <2>2. writes \in 0..MaxWrites
    BY SizeAssumption DEF Init
  <2>3. held \subseteq Seq(Nat) /\ bytes \in Seq(Nat) /\ Len(bytes) <= initial_size
    BY DEF Init
  <2>4. /\ initial_size \in Nat /\ position \in 0..initial_size
        /\ pc \in {"size", "start", "read", "recheck", "returned"}
        /\ result \in {"Pending", "Ok", "TooSmall", "NotPageAligned", "UnexpectedEof",
                       "Changed", "Io"}
    BY DEF Init
  <2>5. grew \in BOOLEAN /\ shrank \in BOOLEAN /\ rewrote \in BOOLEAN
    BY DEF Init
  <2> QED
    BY <2>1, <2>2, <2>3, <2>4, <2>5 DEF TypeOK
<1>2. Progress /\ Resized /\ Buffered
  BY DEF Init, Progress, Resized, Buffered, Reading, OneWayResizeIsRejected
<1> QED
  BY <1>1, <1>2 DEF SnapshotInv

---------------------------------------------------------------------------
(* The writer's steps *)

(* A write of contents of the right type and length keeps everything that  *)
(* is not about the direction of a resize.                                 *)
LEMMA WriteKeeps ==
  ASSUME SnapshotInv, NEW contents \in Seq(Nat), Len(contents) <= MaxLen, Write(contents),
         grew' \in BOOLEAN, shrank' \in BOOLEAN, rewrote' \in BOOLEAN,
         ~Reading => UNCHANGED <<grew, shrank>>
  PROVE  TypeOK' /\ Progress' /\ Buffered'
<1>1. /\ writes < MaxWrites /\ writes' = writes + 1 /\ file' = contents
      /\ held' = (IF Reading THEN held \cup {contents} ELSE held)
      /\ UNCHANGED <<pc, initial_size, position, bytes, result>>
      /\ Reading' = Reading
  BY DEF Write, reader, Reading
<1>2. TypeOK'
  BY <1>1, SizeAssumption DEF SnapshotInv, TypeOK
<1>3. Progress'
  BY <1>1 DEF SnapshotInv, Progress, Reading, ValidSize, TooSmall, NotPageAligned
<1>4. Buffered'
  <2>1. CASE Reading
    <3>1. file \in held /\ held' = held \cup {contents}
      BY <2>1, <1>1 DEF SnapshotInv, Progress
    <3>2. \A c \in held' : held' = {c} => held = {c}
      BY <3>1
    <3>3. Buffered
      BY DEF SnapshotInv
    <3> QED
      BY <1>1, <2>1, <3>1, <3>2, <3>3 DEF Buffered
  <2>2. CASE ~Reading
    BY <1>1, <2>2 DEF SnapshotInv, Buffered
  <2> QED
    BY <2>1, <2>2
<1> QED
  BY <1>2, <1>3, <1>4

LEMMA WriterStep == SnapshotInv /\ Writer => SnapshotInv'
<1> SUFFICES ASSUME SnapshotInv, Writer
             PROVE  SnapshotInv'
  OBVIOUS
<1>0. /\ file \in Seq(Nat) /\ Len(file) \in Nat /\ Len(file) <= MaxLen /\ MaxLen \in Nat
      /\ initial_size \in Nat /\ writes \in Nat /\ grew \in BOOLEAN /\ shrank \in BOOLEAN /\ rewrote \in BOOLEAN
  BY SizeAssumption DEF SnapshotInv, TypeOK
<1>1. ASSUME NEW stamp \in Stamp, Grow(stamp)
      PROVE  SnapshotInv'
  <2>1. /\ Append(file, stamp) \in Seq(Nat)
        /\ Len(Append(file, stamp)) = Len(file) + 1
    BY <1>0 DEF Stamp
  <2>2. /\ Write(Append(file, stamp)) /\ Len(file) < MaxLen
        /\ grew' = (IF Reading THEN TRUE ELSE grew) /\ UNCHANGED <<shrank, rewrote>>
    BY <1>1 DEF Grow
  <2>3. TypeOK' /\ Progress' /\ Buffered'
    <3>1. Len(Append(file, stamp)) <= MaxLen
      BY <1>0, <2>1, <2>2
    <3>2. /\ grew' \in BOOLEAN /\ shrank' \in BOOLEAN /\ rewrote' \in BOOLEAN
          /\ ~Reading => UNCHANGED <<grew, shrank>>
      BY <1>0, <2>2
    <3> QED
      BY <2>1, <2>2, <3>1, <3>2, WriteKeeps
  <2>4. /\ UNCHANGED <<pc, initial_size, result>> /\ Reading' = Reading
        /\ file' = Append(file, stamp)
    BY <2>2 DEF Write, reader, Reading
  <2>5. Resized'
    BY <1>0, <2>1, <2>2, <2>4
       DEF SnapshotInv, Resized, OneWayResizeIsRejected, Reading, Progress, TypeOK
  <2> QED
    BY <2>3, <2>5 DEF SnapshotInv
<1>2. ASSUME NEW n \in 0..(Len(file) - 1), Truncate(n)
      PROVE  SnapshotInv'
  <2>1. SubSeq(file, 1, n) \in Seq(Nat) /\ Len(SubSeq(file, 1, n)) = n
    <3>1. \A i \in 1..n : file[i] \in Nat
      BY <1>0, ElementOfSeq
    <3>2. n \in Int /\ 1 \in Int /\ n >= 0
      BY <1>0
    <3> QED
      BY <3>1, <3>2, SubSeqProperties
  <2>2. /\ Write(SubSeq(file, 1, n))
        /\ shrank' = (IF Reading THEN TRUE ELSE shrank) /\ UNCHANGED <<grew, rewrote>>
    BY <1>2 DEF Truncate
  <2>3. TypeOK' /\ Progress' /\ Buffered'
    <3>1. Len(SubSeq(file, 1, n)) <= MaxLen
      BY <1>0, <2>1, <2>2
    <3>2. /\ grew' \in BOOLEAN /\ shrank' \in BOOLEAN /\ rewrote' \in BOOLEAN
          /\ ~Reading => UNCHANGED <<grew, shrank>>
      BY <1>0, <2>2
    <3> QED
      BY <2>1, <2>2, <3>1, <3>2, WriteKeeps
  <2>4. /\ UNCHANGED <<pc, initial_size, result>> /\ Reading' = Reading
        /\ Len(file') < Len(file) /\ Len(file') \in Nat
    BY <1>0, <2>1, <2>2 DEF Write, reader, Reading
  <2>5. Resized'
    BY <1>0, <2>2, <2>4
       DEF SnapshotInv, Resized, OneWayResizeIsRejected, Reading, Progress, TypeOK
  <2> QED
    BY <2>3, <2>5 DEF SnapshotInv
<1>3. ASSUME NEW i \in 1..Len(file), NEW stamp \in Stamp, Rewrite(i, stamp)
      PROVE  SnapshotInv'
  <2>1. /\ [file EXCEPT ![i] = stamp] \in Seq(Nat)
        /\ Len([file EXCEPT ![i] = stamp]) = Len(file)
    BY <1>0, ExceptSeq DEF Stamp
  <2>2. /\ Write([file EXCEPT ![i] = stamp])
        /\ rewrote' = (IF Reading THEN TRUE ELSE rewrote) /\ UNCHANGED <<grew, shrank>>
    BY <1>3 DEF Rewrite
  <2>3. TypeOK' /\ Progress' /\ Buffered'
    <3>1. Len([file EXCEPT ![i] = stamp]) <= MaxLen
      BY <1>0, <2>1, <2>2
    <3>2. /\ grew' \in BOOLEAN /\ shrank' \in BOOLEAN /\ rewrote' \in BOOLEAN
          /\ ~Reading => UNCHANGED <<grew, shrank>>
      BY <1>0, <2>2
    <3> QED
      BY <2>1, <2>2, <3>1, <3>2, WriteKeeps
  <2>4. /\ UNCHANGED <<pc, initial_size, result>> /\ Reading' = Reading
        /\ Len(file') = Len(file)
    BY <2>1, <2>2 DEF Write, reader, Reading
  <2>5. Resized'
    BY <2>2, <2>4 DEF SnapshotInv, Resized, OneWayResizeIsRejected
  <2> QED
    BY <2>3, <2>5 DEF SnapshotInv
<1> QED
  BY <1>1, <1>2, <1>3 DEF Writer

---------------------------------------------------------------------------
(* The reader's steps *)

(* What one read appends: the units of the file at the reader's position.   *)
LEMMA ReadSomeEffect ==
  ASSUME SnapshotInv, NEW n \in 1..Len(file), ReadSome(n)
  PROVE  /\ position = Len(bytes) /\ Reading /\ result = "Pending"
         /\ position + n <= Len(file) /\ n <= initial_size - Len(bytes)
         /\ bytes' \in Seq(Nat) /\ Len(bytes') = Len(bytes) + n /\ position' = position + n
         /\ \A i \in 1..(Len(bytes) + n) :
              bytes'[i] = IF i <= Len(bytes) THEN bytes[i] ELSE file[i]
         /\ UNCHANGED <<file, writes, pc, initial_size, result, grew, shrank, rewrote, held>>
<1> DEFINE part == SubSeq(file, position + 1, position + n)
<1>0. /\ file \in Seq(Nat) /\ Len(file) \in Nat
      /\ bytes \in Seq(Nat) /\ Len(bytes) \in Nat
      /\ initial_size \in Nat /\ n \in Nat
      /\ position = Len(bytes) /\ pc = "read" /\ Reading
      /\ n <= initial_size - Len(bytes)
      /\ position + n <= Len(file)
  BY DEF SnapshotInv, TypeOK, Progress, ReadSome, Remaining, Available, Reading
<1>1. /\ part \in Seq(Nat) /\ Len(part) = n
      /\ \A i \in 1..n : part[i] = file[position + i]
  <2>1. \A i \in (position + 1)..(position + n) : file[i] \in Nat
    BY <1>0, ElementOfSeq
  <2>2. position + 1 \in Int /\ position + n \in Int
    BY <1>0
  <2>3. /\ part \in Seq(Nat)
        /\ Len(part) = IF position + 1 <= position + n
                         THEN (position + n) - (position + 1) + 1 ELSE 0
        /\ \A i \in 1..((position + n) - (position + 1) + 1) :
             part[i] = file[(position + 1) + i - 1]
    BY <2>1, <2>2, SubSeqProperties
  <2> HIDE DEF part
  <2>4. n \in Nat /\ n >= 1 /\ position \in Nat
    BY <1>0
  <2>5. Len(part) = n
    BY <2>3, <2>4
  <2>6. ASSUME NEW i \in 1..n
        PROVE  part[i] = file[position + i]
    <3>1. i \in 1..((position + n) - (position + 1) + 1)
      BY <2>4
    <3>2. (position + 1) + i - 1 = position + i
      BY <2>4
    <3> QED
      BY <2>3, <3>1, <3>2
  <2> QED
    BY <2>3, <2>5, <2>6
<1> HIDE DEF part
<1>2. /\ bytes' = bytes \o part /\ position' = position + n
      /\ UNCHANGED <<file, writes, pc, initial_size, result, grew, shrank, rewrote, held>>
  BY DEF ReadSome, part
<1>3. /\ bytes' \in Seq(Nat) /\ Len(bytes') = Len(bytes) + n
      /\ \A i \in 1..(Len(bytes) + n) :
           bytes'[i] = IF i <= Len(bytes) THEN bytes[i] ELSE file[i]
  <2>1. /\ bytes \o part \in Seq(Nat)
        /\ Len(bytes \o part) = Len(bytes) + Len(part)
        /\ \A i \in 1..(Len(bytes) + Len(part)) : (bytes \o part)[i] =
             IF i <= Len(bytes) THEN bytes[i] ELSE part[i - Len(bytes)]
    BY <1>0, <1>1, ConcatProperties
  <2>2. ASSUME NEW i \in (Len(bytes) + 1)..(Len(bytes) + n)
        PROVE  part[i - Len(bytes)] = file[i]
    BY <1>0, <1>1, <2>2
  <2>3. bytes' \in Seq(Nat) /\ Len(bytes') = Len(bytes) + n
    BY <1>1, <1>2, <2>1
  <2>4. ASSUME NEW i \in 1..(Len(bytes) + n)
        PROVE  bytes'[i] = IF i <= Len(bytes) THEN bytes[i] ELSE file[i]
    <3>1. bytes'[i] = IF i <= Len(bytes) THEN bytes[i] ELSE part[i - Len(bytes)]
      BY <1>1, <1>2, <2>1
    <3>2. i <= Len(bytes) \/ i \in (Len(bytes) + 1)..(Len(bytes) + n)
      BY <1>0
    <3> QED
      BY <2>2, <3>1, <3>2
  <2> QED
    BY <2>3, <2>4
<1> QED
  BY <1>0, <1>2, <1>3 DEF SnapshotInv, Progress

LEMMA ReadSomeStep ==
  ASSUME SnapshotInv, NEW n \in 1..Len(file), ReadSome(n)
  PROVE  SnapshotInv'
<1>0. /\ file \in Seq(Nat) /\ Len(file) \in Nat
      /\ bytes \in Seq(Nat) /\ Len(bytes) \in Nat
      /\ initial_size \in Nat /\ n \in Nat
      /\ position = Len(bytes) /\ pc = "read" /\ Reading
      /\ n <= initial_size - Len(bytes)
      /\ position + n <= Len(file)
  <2>1. /\ file \in Seq(Nat) /\ bytes \in Seq(Nat) /\ initial_size \in Nat
        /\ position = Len(bytes)
    BY DEF SnapshotInv, TypeOK, Progress
  <2>2. pc = "read" /\ Reading /\ n <= initial_size - Len(bytes) /\ position + n <= Len(file)
    BY ReadSomeEffect DEF ReadSome
  <2>3. Len(file) \in Nat /\ Len(bytes) \in Nat /\ n \in Nat
    BY <2>1
  <2> QED
    BY <2>1, <2>2, <2>3
<1>2. /\ position' = position + n
      /\ UNCHANGED <<file, writes, pc, initial_size, result, grew, shrank, rewrote, held>>
  BY ReadSomeEffect
<1>3. /\ bytes' \in Seq(Nat) /\ Len(bytes') = Len(bytes) + n
      /\ \A i \in 1..(Len(bytes) + n) :
           bytes'[i] = IF i <= Len(bytes) THEN bytes[i] ELSE file[i]
  BY ReadSomeEffect
<1>4. TypeOK'
  BY <1>0, <1>2, <1>3 DEF SnapshotInv, TypeOK
<1>5. Progress'
  BY <1>0, <1>2, <1>3
     DEF SnapshotInv, Progress, Reading, ValidSize, TooSmall, NotPageAligned
<1>6. Resized'
  BY <1>2 DEF SnapshotInv, Resized, Reading, OneWayResizeIsRejected
<1>7. Buffered'
  <2>1. file \in held /\ Buffered /\ result = "Pending"
    BY <1>0 DEF SnapshotInv, Progress
  <2>2. ASSUME NEW i \in 1..Len(bytes')
        PROVE  \E contents \in held : i <= Len(contents) /\ contents[i] = bytes'[i]
    <3>1. CASE i \in 1..Len(bytes)
      <4>1. \E contents \in held : i <= Len(contents) /\ contents[i] = bytes[i]
        BY <1>0, <2>1, <3>1 DEF Buffered
      <4>2. bytes'[i] = bytes[i]
        BY <1>0, <1>3, <3>1
      <4> QED
        BY <4>1, <4>2
    <3>2. CASE i > Len(bytes)
      <4>1. i <= Len(file) /\ file[i] = bytes'[i]
        BY <1>0, <1>3, <2>2, <3>2
      <4> QED
        BY <4>1, <2>1
    <3> QED
      BY <1>0, <1>3, <2>2, <3>1, <3>2
  <2>3. ASSUME NEW c \in held, held = {c}
        PROVE  Len(bytes') <= Len(c) /\ \A i \in 1..Len(bytes') : bytes'[i] = c[i]
    <3>1. c = file /\ \A i \in 1..Len(bytes) : bytes[i] = c[i]
      BY <1>0, <2>1, <2>3 DEF Buffered
    <3>2. Len(bytes') <= Len(c)
      BY <1>0, <1>3, <3>1
    <3>3. ASSUME NEW i \in 1..Len(bytes')
          PROVE  bytes'[i] = c[i]
      <4>1. i \in 1..(Len(bytes) + n)
        BY <1>3, <3>3
      <4>2. CASE i \in 1..Len(bytes)
        BY <1>0, <1>3, <3>1, <4>1, <4>2
      <4>3. CASE i > Len(bytes)
        BY <1>0, <1>3, <3>1, <4>1, <4>3
      <4> QED
        BY <1>0, <4>1, <4>2, <4>3
    <3> QED
      BY <3>2, <3>3
  <2> QED
    BY <1>2, <2>1, <2>2, <2>3 DEF Buffered
<1> QED
  BY <1>4, <1>5, <1>6, <1>7 DEF SnapshotInv

LEMMA ReaderStep == SnapshotInv /\ Reader => SnapshotInv'
<1> SUFFICES ASSUME SnapshotInv, Reader
             PROVE  SnapshotInv'
  OBVIOUS
<1> USE DEF SnapshotInv
<1>0. Len(file) \in Nat /\ Len(bytes) \in Nat /\ initial_size \in Nat
  BY DEF TypeOK
<1>1. CASE MeasureSize
  <2>1. /\ pc = "size" /\ initial_size' = Len(file) /\ bytes = <<>> /\ position = 0
        /\ ~grew /\ ~shrank /\ result = "Pending"
        /\ UNCHANGED <<file, writes, position, bytes, grew, shrank, rewrote>>
    BY <1>1 DEF MeasureSize, Progress
  <2>2. CASE pc' = "start" /\ ValidSize(Len(file)) /\ held' = {file} /\ UNCHANGED result
    <3>1. TypeOK' /\ Progress' /\ Resized'
      BY <1>0, <2>1, <2>2
         DEF TypeOK, Progress, Resized, Reading, OneWayResizeIsRejected, ValidSize, TooSmall,
             NotPageAligned
    <3>2. Buffered'
      BY <1>0, <2>1, <2>2 DEF Buffered
    <3> QED
      BY <3>1, <3>2
  <2>3. CASE pc' = "returned" /\ result' \in {"TooSmall", "NotPageAligned"} /\ held' = held
    BY <1>0, <2>1, <2>3 DEF TypeOK, Progress, Resized, Buffered, Reading,
       OneWayResizeIsRejected
  <2> QED
    BY <1>1, <2>2, <2>3 DEF MeasureSize, Return
<1>2. CASE SeekStart
  <2>1. /\ pc = "start" /\ pc' = "read" /\ bytes = <<>> /\ position' = 0
        /\ UNCHANGED <<file, writes, initial_size, bytes, result, grew, shrank, rewrote, held>>
    BY <1>2 DEF SeekStart, Progress
  <2>2. TypeOK' /\ Progress' /\ Resized'
    BY <1>0, <2>1 DEF TypeOK, Progress, Resized, Reading, OneWayResizeIsRejected, ValidSize,
       TooSmall, NotPageAligned
  <2>3. Buffered'
    BY <2>1 DEF Buffered, Reading
  <2> QED
    BY <2>2, <2>3
<1>3. CASE ReadNothing \/ CallFails
  <2>1. /\ pc' = "returned" /\ result' \in {"UnexpectedEof", "Io"} /\ pc # "returned"
        /\ UNCHANGED <<file, writes, initial_size, position, bytes, grew, shrank, rewrote, held>>
    BY <1>3 DEF ReadNothing, CallFails, Return
  <2> QED
    BY <2>1 DEF TypeOK, Progress, Resized, Buffered, Reading, OneWayResizeIsRejected
<1>4. CASE ReadFull
  <2>1. /\ pc = "read" /\ pc' = "recheck" /\ Len(bytes) = initial_size
        /\ UNCHANGED <<file, writes, initial_size, position, bytes, result, grew, shrank,
                       rewrote, held>>
    BY <1>0, <1>4 DEF ReadFull, Remaining
  <2>2. TypeOK' /\ Progress' /\ Resized'
    BY <2>1 DEF TypeOK, Progress, Resized, Reading, OneWayResizeIsRejected, ValidSize,
       TooSmall, NotPageAligned
  <2>3. Buffered'
    BY <2>1 DEF Buffered, Reading
  <2> QED
    BY <2>2, <2>3
<1>5. CASE Recheck
  <2>1. /\ pc = "recheck" /\ pc' = "returned" /\ Reading /\ ~Reading'
        /\ file \in held /\ Len(bytes) = initial_size /\ ValidSize(initial_size)
        /\ UNCHANGED <<file, writes, initial_size, position, bytes, grew, shrank, rewrote, held>>
    BY <1>5 DEF Recheck, Return, Reading, Progress
  <2>2. CASE result' = "Changed"
    BY <2>1, <2>2 DEF TypeOK, Progress, Resized, Buffered, OneWayResizeIsRejected
  <2>3. CASE result' = "Ok" /\ Len(file) = initial_size
    <3>1. TypeOK' /\ Progress'
      BY <2>1, <2>3 DEF TypeOK, Progress, ValidSize, TooSmall, NotPageAligned
    <3>2. Resized'
      BY <1>0, <2>1, <2>3 DEF Resized, OneWayResizeIsRejected, TypeOK
    <3>3. Buffered'
      BY <1>0, <2>1, <2>3 DEF Buffered
    <3> QED
      BY <3>1, <3>2, <3>3
  <2> QED
    BY <1>5, <2>2, <2>3 DEF Recheck, Return
<1>6. ASSUME NEW n \in 1..Len(file), ReadSome(n)
      PROVE  SnapshotInv'
  BY <1>6, ReadSomeStep
<1> QED
  BY <1>1, <1>2, <1>3, <1>4, <1>5, <1>6 DEF Reader, Advance

THEOREM SnapshotInvariant == Spec => []SnapshotInv
<1>1. SnapshotInv /\ UNCHANGED vars => SnapshotInv'
  BY DEF SnapshotInv, vars, reader, TypeOK, Progress, Resized, Buffered, Reading,
     OneWayResizeIsRejected, ValidSize, TooSmall, NotPageAligned
<1>2. SnapshotInv /\ [Next]_vars => SnapshotInv'
  BY <1>1, WriterStep, ReaderStep DEF Next
<1> QED
  BY <1>2, SnapshotInit, PTL DEF Spec

---------------------------------------------------------------------------

(* Every variable keeps its type; the reader's position never passes the   *)
(* length measured first.                                                  *)
THEOREM SnapshotTypeCorrect == Spec => []TypeOK
<1>1. SnapshotInv => TypeOK
  BY DEF SnapshotInv
<1> QED
  BY <1>1, SnapshotInvariant, PTL

(* A snapshot is a positive whole number of pages.                         *)
THEOREM SnapshotIsAligned == Spec => []SnapshotIsWholePages
<1>1. SnapshotInv => SnapshotIsWholePages
  BY SizeAssumption
     DEF SnapshotInv, TypeOK, Progress, SnapshotIsWholePages, ValidSize,
         TooSmall, NotPageAligned
<1> QED
  BY <1>1, SnapshotInvariant, PTL

(* A file that only grows, or is only truncated, while it is read is never *)
(* handed out.                                                             *)
THEOREM RejectsOneWayResize == Spec => []OneWayResizeIsRejected
<1>1. SnapshotInv => OneWayResizeIsRejected
  BY DEF SnapshotInv, Resized
<1> QED
  BY <1>1, SnapshotInvariant, PTL

(* Every unit of the snapshot was at its place during the read, and the    *)
(* snapshot of a file that held still is the file.                         *)
THEOREM SnapshotComesFromFile == Spec => []SnapshotWasInFile
<1>1. ASSUME SnapshotInv PROVE SnapshotWasInFile
  <2>1. ASSUME result = "Ok", NEW c \in held, held = {c}
        PROVE  bytes = c
    <3>1. bytes \in Seq(Nat) /\ c \in Seq(Nat)
      BY <1>1, <2>1 DEF SnapshotInv, TypeOK
    <3>2. Len(bytes) = Len(c) /\ \A i \in 1..Len(bytes) : bytes[i] = c[i]
      BY <1>1, <2>1 DEF SnapshotInv, Buffered
    <3> QED
      BY <3>1, <3>2, SeqEqual
  <2>2. ASSUME result = "Ok"
        PROVE  \A i \in 1..Len(bytes) :
                 \E contents \in held : i <= Len(contents) /\ contents[i] = bytes[i]
    BY <1>1, <2>2 DEF SnapshotInv, Buffered
  <2> QED
    BY <2>1, <2>2 DEF SnapshotWasInFile
<1> QED
  BY <1>1, SnapshotInvariant, PTL

---------------------------------------------------------------------------
(* inspect on top of the store *)

(* A page write in progress stores a stamp that was new when it began. *)
ServerInv ==
  /\ writes \in Nat
  /\ server.units \in 1..PAGE_SIZE
  /\ server.units < PAGE_SIZE => server.stamp \in 1..writes
  /\ server.page \in Nat

(* The failures collected are those of the pages looked at. *)
Verified ==
  /\ command \in Commands
  /\ index \in Nat
  /\ index > 0 => index <= page_count
  /\ trailer_failures = {p \in 0..(index - 1) : ~TrailerIsZero(p)}
  /\ command.name = "inspect" =>
       crc_failures = {p \in 0..(index - 1) : command.verify_crc /\ ~CrcMatches(p)}
  /\ pc # "returned" => index = 0 /\ exit = "running"
  /\ ExitTellsIntegrity

LEMMA InspectInitial == InspectInit => ServerInv /\ Verified
<1> SUFFICES ASSUME InspectInit PROVE ServerInv /\ Verified
  OBVIOUS
<1>1. ServerInv
  BY SizeAssumption DEF InspectInit, Init, Idle, ServerInv
<1>2. index = 0 /\ exit = "running" /\ 0..(index - 1) = {}
  BY DEF InspectInit
<1>3. Verified
  BY <1>2 DEF InspectInit, Verified, ExitTellsIntegrity
<1> QED
  BY <1>1, <1>3

(* While the server writes, the snapshot and the inspection stand still.    *)
LEMMA ServerStep ==
  ASSUME ServerInv, Server
  PROVE  ServerInv' /\ Writer /\ UNCHANGED <<reader, inspection>>
<1> USE SizeAssumption
<1>1. ASSUME NEW i \in Nat \ {0}, NEW stamp \in Stamp, PutUnit(i, stamp)
      PROVE  Writer /\ writes' = writes + 1 /\ UNCHANGED <<reader, inspection>>
  <2>1. UNCHANGED inspection
    BY <1>1 DEF PutUnit
  <2>2. CASE i <= Len(file)
    <3>1. i \in 1..Len(file) /\ Rewrite(i, stamp)
      BY <1>1, <2>2 DEF PutUnit
    <3> QED
      BY <2>1, <3>1 DEF Writer, Rewrite, Write
  <2>3. CASE ~(i <= Len(file))
    <3>1. Grow(stamp)
      BY <1>1, <2>3 DEF PutUnit
    <3> QED
      BY <2>1, <3>1 DEF Writer, Grow, Write
  <2> QED
    BY <2>2, <2>3
<1>2. CASE ContinuePageWrite
  <2>1. /\ server.page * PAGE_SIZE + server.units + 1 \in Nat \ {0}
        /\ server.stamp \in Stamp /\ server.stamp \in 1..writes
    BY <1>2 DEF ContinuePageWrite, ServerInv, Stamp
  <2>2. PutUnit(server.page * PAGE_SIZE + server.units + 1, server.stamp)
    BY <1>2 DEF ContinuePageWrite
  <2>3. Writer /\ writes' = writes + 1 /\ UNCHANGED <<reader, inspection>>
    BY <1>1, <2>1, <2>2
  <2>4. server' = [server EXCEPT !.units = @ + 1]
    BY <1>2 DEF ContinuePageWrite
  <2>5. /\ server'.stamp = server.stamp /\ server'.page = server.page
        /\ server'.units = server.units + 1
    BY <2>4
  <2>6. server'.units \in 1..PAGE_SIZE
    BY <1>2, <2>5 DEF ContinuePageWrite, ServerInv
  <2> QED
    BY <2>1, <2>3, <2>5, <2>6 DEF ServerInv
<1>3. ASSUME NEW p \in Nat, BeginPageWrite(p)
      PROVE  ServerInv' /\ Writer /\ UNCHANGED <<reader, inspection>>
  <2>1. p * PAGE_SIZE + 1 \in Nat \ {0} /\ writes + 1 \in Stamp
    BY DEF ServerInv, Stamp
  <2>2. Writer /\ writes' = writes + 1 /\ UNCHANGED <<reader, inspection>>
    BY <1>1, <1>3, <2>1 DEF BeginPageWrite
  <2>3. server' = [page |-> p, units |-> 1, stamp |-> writes + 1]
    BY <1>3 DEF BeginPageWrite
  <2> QED
    BY <2>2, <2>3 DEF ServerInv
<1>4. ASSUME NEW p \in Nat, DropPages(p)
      PROVE  ServerInv' /\ Writer /\ UNCHANGED <<reader, inspection>>
  <2>1. /\ Truncate(p * PAGE_SIZE) /\ p * PAGE_SIZE < Len(file)
        /\ UNCHANGED <<server, inspection>>
    BY <1>4 DEF DropPages
  <2>2. writes' = writes + 1 /\ UNCHANGED reader
    BY <2>1 DEF Truncate, Write
  <2>3. ServerInv'
    BY <2>1, <2>2 DEF ServerInv
  <2> QED
    BY <2>1, <2>2, <2>3 DEF Writer
<1> QED
  BY <1>2, <1>3, <1>4 DEF Server

(* Each step of the command is a step of opening the store or leaves it.    *)
LEMMA CommandOpens ==
  ASSUME ServerInv, Command \/ OpenFails
  PROVE  ServerInv' /\ (Reader \/ UNCHANGED vars)
<1>1. CASE OpenStep \/ OpenFails
  <2>1. (Advance \/ CallFails) /\ UNCHANGED server
    BY <1>1 DEF OpenStep, OpenFails
  <2>2. UNCHANGED writes
    BY <2>1 DEF Advance, CallFails, MeasureSize, SeekStart, ReadNothing, ReadFull, Recheck,
       ReadSome
  <2> QED
    BY <2>1, <2>2 DEF Reader, ServerInv
<1>2. CASE OpenFailed \/ InspectPage \/ Finish \/ DumpPage \/ Superblock
  <2>1. UNCHANGED <<vars, server>>
    BY <1>2 DEF OpenFailed, InspectPage, Finish, DumpPage, Superblock, Exit
  <2> QED
    BY <2>1 DEF vars, ServerInv
<1> QED
  BY <1>1, <1>2 DEF Command

(* A client opens its store as StoreSnapshot says: all that is proved of    *)
(* the store there holds here.                                              *)
THEOREM InspectOpensAStore == InspectSpec => Spec
<1>1. InspectInit => Init /\ ServerInv
  BY InspectInitial DEF InspectInit
<1>2. ServerInv /\ [InspectNext]_inspectVars => ServerInv' /\ [Next]_vars
  <2> SUFFICES ASSUME ServerInv, [InspectNext]_inspectVars
               PROVE  ServerInv' /\ [Next]_vars
    OBVIOUS
  <2>1. CASE UNCHANGED inspectVars
    BY <2>1 DEF inspectVars, vars, ServerInv
  <2> QED
    BY <2>1, ServerStep, CommandOpens DEF InspectNext, Next
<1> QED
  BY <1>1, <1>2, PTL DEF InspectSpec, Spec

(* The snapshot a client looks at is one of whole pages, each unit of which *)
(* was in the file, whatever the server does.                               *)
THEOREM InspectedSnapshot == InspectSpec => [](SnapshotIsWholePages /\ SnapshotWasInFile)
BY InspectOpensAStore, SnapshotIsAligned, SnapshotComesFromFile, PTL

---------------------------------------------------------------------------
(* While the snapshot and the command stand still, so does what is known.   *)
LEMMA VerifiedStable ==
  ASSUME Verified, UNCHANGED <<reader, inspection>>
  PROVE  Verified'
BY DEF reader, inspection, Verified, TrailerIsZero, CrcMatches, UnitOf,
   ExitTellsIntegrity, page_count

LEMMA CommandVerifies ==
  ASSUME Verified, SnapshotIsWholePages, bytes \in Seq(Nat), Command \/ OpenFails
  PROVE  Verified'
<1>1. CASE OpenStep \/ OpenFails
  <2>1. (Advance \/ CallFails) /\ UNCHANGED inspection
    BY <1>1 DEF OpenStep, OpenFails
  <2>2. pc # "returned"
    BY <2>1 DEF Advance, CallFails, MeasureSize, SeekStart, ReadNothing, ReadFull, Recheck,
       ReadSome
  <2>3. index = 0 /\ exit = "running" /\ 0..(index - 1) = {}
    BY <2>2 DEF Verified
  <2>4. trailer_failures = {} /\ (command.name = "inspect" => crc_failures = {})
    BY <2>3 DEF Verified
  <2> QED
    BY <2>1, <2>3, <2>4 DEF Verified, inspection, ExitTellsIntegrity
<1>2. ASSUME UNCHANGED vars
      PROVE  /\ \A p : TrailerIsZero(p)' = TrailerIsZero(p) /\ CrcMatches(p)' = CrcMatches(p)
             /\ page_count' = page_count /\ result' = result /\ bytes' = bytes /\ pc' = pc
  BY <1>2 DEF vars, reader, TrailerIsZero, CrcMatches, UnitOf, page_count
<1>3. result = "Ok" => page_count \in Nat /\ page_count > 0
  <2>1. Len(bytes) \in Nat
    BY DEF SnapshotIsWholePages
  <2>2. ASSUME NEW n \in Nat, n >= PAGE_SIZE PROVE n \div PAGE_SIZE \in Nat /\ n \div PAGE_SIZE > 0
    BY <2>2, SizeAssumption
  <2> QED
    BY <2>1, <2>2 DEF SnapshotIsWholePages, page_count
<1>4. CASE InspectPage
  <2>1. /\ UNCHANGED <<vars, command, exit>>
        /\ exit = "running" /\ pc = "returned" /\ index' = index + 1
        /\ command.name = "inspect"
        /\ trailer_failures' =
             trailer_failures \cup (IF ~TrailerIsZero(index) THEN {index} ELSE {})
        /\ crc_failures' = crc_failures \cup
             (IF command.verify_crc /\ ~CrcMatches(index) THEN {index} ELSE {})
    BY <1>4 DEF InspectPage, Serving
  <2>2. 0..(index' - 1) = (0..(index - 1)) \cup {index}
    BY <2>1 DEF Verified
  <2>3. trailer_failures' = {p \in 0..(index' - 1) : ~TrailerIsZero(p)'}
    BY <1>2, <2>1, <2>2 DEF Verified
  <2>4. crc_failures' = {p \in 0..(index' - 1) : command'.verify_crc /\ ~CrcMatches(p)'}
    BY <1>2, <2>1, <2>2 DEF Verified
  <2>5. pc' = "returned" /\ exit' = "running" /\ index' \in Nat /\ command' \in Commands
    BY <1>2, <2>1 DEF Verified
  <2>6. index' <= page_count'
    BY <1>2, <1>3, <1>4, <2>1 DEF InspectPage, Serving, InRange, Verified
  <2> QED
    BY <2>3, <2>4, <2>5, <2>6 DEF Verified, ExitTellsIntegrity
<1>5. ASSUME UNCHANGED <<vars, command, index, trailer_failures>>, pc = "returned",
             command.name = "inspect" => crc_failures' = crc_failures,
             ExitTellsIntegrity'
      PROVE  Verified'
  BY <1>2, <1>5 DEF Verified
<1>6. CASE OpenFailed
  BY <1>2, <1>5, <1>6 DEF OpenFailed, Exit, ExitTellsIntegrity
<1>7. CASE Finish
  <2>1. /\ pc = "returned" /\ result = "Ok" /\ ~InRange(index) /\ command.name = "inspect"
        /\ Exit(InRange(0) /\ crc_failures \cup trailer_failures = {})
        /\ UNCHANGED crc_failures
    BY <1>7 DEF Finish, Serving
  <2>2. InRange(0) /\ 0..(page_count - 1) \subseteq 0..(index - 1)
    BY <1>3, <2>1 DEF InRange, Verified
  <2>3. crc_failures \cup trailer_failures = {} <=>
          \A p \in 0..(index - 1) :
            TrailerIsZero(p) /\ (command.verify_crc => CrcMatches(p))
    BY <2>1 DEF Verified
  <2>4. 0..(page_count - 1) = 0..(index - 1)
    <3>1. index \in Nat /\ index <= page_count
      BY <1>3, <2>1 DEF Verified
    <3> QED
      BY <1>3, <2>1, <3>1 DEF InRange
  <2>5. exit' = "success" <=>
          \A p \in 0..(page_count - 1) :
            TrailerIsZero(p) /\ (command.verify_crc => CrcMatches(p))
    BY <2>1, <2>2, <2>3, <2>4 DEF Exit
  <2>6. UNCHANGED <<vars, command, index, trailer_failures, crc_failures>>
    BY <2>1 DEF Exit
  <2>7. ExitTellsIntegrity'
    BY <1>2, <2>1, <2>5, <2>6 DEF ExitTellsIntegrity
  <2> QED
    BY <1>5, <2>1, <2>6, <2>7
<1>8. CASE DumpPage
  <2>1. /\ pc = "returned" /\ result = "Ok" /\ command.name = "dump_page"
        /\ Exit(InRange(command.page))
    BY <1>8 DEF DumpPage, Serving
  <2>2. command.page \in Nat
    BY <2>1, PageArgAssumption DEF Verified, Commands
  <2>3. InRange(command.page) <=> command.page \in 0..(page_count - 1)
    BY <1>3, <2>1, <2>2 DEF InRange
  <2> QED
    BY <1>2, <1>5, <2>1, <2>3 DEF Exit, ExitTellsIntegrity
<1>9. CASE Superblock
  <2>1. /\ pc = "returned" /\ result = "Ok" /\ command.name = "superblock"
        /\ Exit(InRange(0) /\ MagicOk)
    BY <1>9 DEF Superblock, Serving
  <2>2. InRange(0) /\ (MagicOk <=> bytes[1] \notin BadMagic)
    BY <1>3, <2>1, SizeAssumption DEF InRange, MagicOk, UnitOf
  <2> QED
    BY <1>2, <1>5, <2>1, <2>2 DEF Exit, ExitTellsIntegrity
<1> QED
  BY <1>1, <1>4, <1>6, <1>7, <1>8, <1>9 DEF Command

THEOREM InspectInvariant == InspectSpec => [](ServerInv /\ Verified)
<1>1. InspectSpec => [](SnapshotIsWholePages /\ TypeOK)
  BY InspectOpensAStore, InspectedSnapshot, SnapshotTypeCorrect, PTL
<1>2. ASSUME ServerInv, Verified, SnapshotIsWholePages, TypeOK, [InspectNext]_inspectVars
      PROVE  (ServerInv /\ Verified)'
  <2>1. CASE UNCHANGED inspectVars
    BY <1>2, <2>1, VerifiedStable DEF inspectVars, vars, ServerInv
  <2>2. CASE Server
    BY <1>2, <2>2, ServerStep, VerifiedStable
  <2>3. CASE Command \/ OpenFails
    BY <1>2, <2>3, CommandOpens, CommandVerifies DEF TypeOK
  <2> QED
    BY <1>2, <2>1, <2>2, <2>3 DEF InspectNext
<1> QED
  BY <1>1, <1>2, InspectInitial, PTL DEF InspectSpec

(* The exit status is that of the checks, for every store and server. *)
THEOREM ExitIsIntegrity == InspectSpec => []ExitTellsIntegrity
<1>1. Verified => ExitTellsIntegrity
  BY DEF Verified
<1> QED
  BY <1>1, InspectInvariant, PTL

---------------------------------------------------------------------------
(* No torn page is passed.  The argument follows one page of the snapshot:  *)
(* from the moment its first unit is read, either the file has held the     *)
(* whole page with that unit's stamp, or the write of that stamp is still   *)
(* going on, or the page will never be read with one stamp only.            *)

Writing == server.units < PAGE_SIZE

(* A stamp the server will not give to a new write. *)
Known(stamp) == stamp \in 1..MaxWrites => stamp <= writes

(* The units the write in progress has put. *)
Started(i) ==
  server.page * PAGE_SIZE < i /\ i <= server.page * PAGE_SIZE + server.units

Stamps(contents) ==
  \A i \in 1..Len(contents) :
    Known(contents[i]) /\ (Writing /\ contents[i] = server.stamp => Started(i))

PutSoFar ==
  \A k \in 1..server.units :
    /\ server.page * PAGE_SIZE + k <= Len(file)
    /\ file[server.page * PAGE_SIZE + k] = server.stamp

Holds(contents, p, stamp) ==
  \A k \in 1..PAGE_SIZE :
    p * PAGE_SIZE + k <= Len(contents) /\ contents[p * PAGE_SIZE + k] = stamp

(* A unit of the page has been read, or will be, with another stamp. *)
Foreign(p, stamp) ==
  \E k \in 1..PAGE_SIZE :
    LET i == p * PAGE_SIZE + k
    IN  IF i <= Len(bytes) THEN bytes[i] # stamp
        ELSE i <= Len(file) => file[i] # stamp

FirstUnit(p) == p * PAGE_SIZE + 1

PageFate(p) ==
  LET stamp == bytes[FirstUnit(p)]
  IN  \/ \E contents \in held : Holds(contents, p, stamp)
      \/ Writing /\ server.page = p /\ server.stamp = stamp
      \/ (Writing => server.stamp # stamp) /\ Foreign(p, stamp)

BeingRead ==
  Reading => \A p \in Nat : FirstUnit(p) <= Len(bytes) => PageFate(p)

HasBeenRead ==
  result = "Ok" =>
    \A p \in 0..(page_count - 1) :
      \/ \E contents \in held : Holds(contents, p, bytes[FirstUnit(p)])
      \/ \E k \in 1..PAGE_SIZE : bytes[p * PAGE_SIZE + k] # bytes[FirstUnit(p)]

TornInv ==
  /\ Stamps(file) /\ Stamps(bytes) /\ (Writing => PutSoFar)
  /\ BeingRead /\ HasBeenRead

LEMMA SamePage ==
  ASSUME NEW p \in Nat, NEW q \in Nat, NEW i \in Nat,
         p * PAGE_SIZE < i, i <= p * PAGE_SIZE + PAGE_SIZE,
         q * PAGE_SIZE < i, i <= q * PAGE_SIZE + PAGE_SIZE
  PROVE  p = q
<1> USE SizeAssumption
<1>1. ASSUME NEW a \in Nat, NEW b \in Nat, a < b
      PROVE  a * PAGE_SIZE + PAGE_SIZE <= b * PAGE_SIZE
  <2>1. PICK d \in Nat : b = a + 1 + d
    <3>1. b - a - 1 \in Nat /\ b = a + 1 + (b - a - 1)
      BY <1>1
    <3> QED
      BY <3>1
  <2>2. b * PAGE_SIZE = a * PAGE_SIZE + PAGE_SIZE + d * PAGE_SIZE
    BY <2>1
  <2>3. d * PAGE_SIZE \in Nat /\ a * PAGE_SIZE \in Nat
    OBVIOUS
  <2> QED
    BY <2>2, <2>3
<1>2. p * PAGE_SIZE \in Nat /\ q * PAGE_SIZE \in Nat
  OBVIOUS
<1>3. ~(p < q)
  BY <1>1, <1>2
<1>4. ~(q < p)
  BY <1>1, <1>2
<1> QED
  BY <1>3, <1>4


(* What the server's steps do to the file: they put one unit, of the write  *)
(* in progress or of a new one, or cut pages off.                           *)
Wrote(i, stamp) ==
  /\ i \in 1..(Len(file) + 1)
  /\ Len(file') = IF i <= Len(file) THEN Len(file) ELSE i
  /\ \A j \in 1..Len(file') : file'[j] = IF j = i THEN stamp ELSE file[j]

PutNext ==
  /\ server'.page \in Nat /\ server'.units \in 1..PAGE_SIZE
  /\ Wrote(server'.page * PAGE_SIZE + server'.units, server'.stamp)
  /\ \/ /\ Writing
        /\ server'.page = server.page /\ server'.stamp = server.stamp
        /\ server'.units = server.units + 1 /\ server.stamp \in 1..writes
     \/ ~Writing /\ server'.stamp = writes + 1 /\ server'.units = 1

CutOff ==
  /\ ~Writing /\ server' = server
  /\ Len(file') \in Nat /\ Len(file') <= Len(file)
  /\ \A j \in 1..Len(file') : file'[j] = file[j]

LEMMA PutUnitWrites ==
  ASSUME NEW i \in 1..(Len(file) + 1), NEW stamp \in Stamp, TypeOK, PutUnit(i, stamp)
  PROVE  /\ Wrote(i, stamp)
         /\ writes < MaxWrites /\ writes' = writes + 1
         /\ held' = (IF Reading THEN held \cup {file'} ELSE held)
<1>0. file \in Seq(Nat) /\ Len(file) \in Nat /\ stamp \in Nat
  BY DEF TypeOK, Stamp
<1>1. CASE i <= Len(file)
  <2>1. Write([file EXCEPT ![i] = stamp])
    BY <1>1 DEF PutUnit, Rewrite
  <2>2. /\ Len([file EXCEPT ![i] = stamp]) = Len(file)
        /\ \A j \in 1..Len(file) : [file EXCEPT ![i] = stamp][j] = IF j = i THEN stamp ELSE file[j]
    BY <1>0, <1>1, ExceptSeq
  <2> QED
    BY <1>1, <2>1, <2>2 DEF Write, Wrote
<1>2. CASE ~(i <= Len(file))
  <2>1. i = Len(file) + 1 /\ Write(Append(file, stamp))
    BY <1>0, <1>2 DEF PutUnit, Grow
  <2>2. /\ Len(Append(file, stamp)) = Len(file) + 1
        /\ \A j \in 1..(Len(file) + 1) :
             Append(file, stamp)[j] = IF j = Len(file) + 1 THEN stamp ELSE file[j]
    BY <1>0, AppendProperties
  <2> QED
    BY <1>0, <1>2, <2>1, <2>2 DEF Write, Wrote
<1> QED
  BY <1>1, <1>2

LEMMA ServerEffect ==
  ASSUME ServerInv, TypeOK, Writing => PutSoFar, Server
  PROVE  /\ PutNext \/ CutOff
         /\ writes < MaxWrites /\ writes' = writes + 1
         /\ held' = (IF Reading THEN held \cup {file'} ELSE held)
<1> USE SizeAssumption
<1>0. file \in Seq(Nat) /\ Len(file) \in Nat
  BY DEF TypeOK
<1>1. CASE ContinuePageWrite
  <2> DEFINE i == server.page * PAGE_SIZE + server.units + 1
  <2>1. /\ Writing /\ server' = [server EXCEPT !.units = @ + 1]
        /\ PutUnit(i, server.stamp)
    BY <1>1 DEF ContinuePageWrite, Writing
  <2>2. /\ server.page \in Nat /\ server.page * PAGE_SIZE \in Nat /\ server.stamp \in 1..writes
        /\ server.units \in 1..PAGE_SIZE /\ server.units < PAGE_SIZE
    BY <2>1 DEF ServerInv, Writing
  <2>3. server'.page = server.page /\ server'.stamp = server.stamp
        /\ server'.units = server.units + 1
    BY <2>1
  <2>4. i \in 1..(Len(file) + 1)
    <3>1. server.page * PAGE_SIZE + server.units <= Len(file)
      <4>1. server.units \in 1..server.units
        BY <2>2
      <4> QED
        BY <2>1, <4>1 DEF PutSoFar
    <3> DEFINE base == server.page * PAGE_SIZE
    <3>2. base \in Nat /\ i = base + server.units + 1 /\ base + server.units <= Len(file)
      BY <2>2, <3>1
    <3>3. server.units \in Nat /\ Len(file) \in Nat
      BY <1>0, <2>2
    <3> HIDE DEF i, base
    <3> QED
      BY <3>2, <3>3
  <2>5. i = server'.page * PAGE_SIZE + server'.units
    <3> DEFINE base == server.page * PAGE_SIZE
    <3>1. base \in Nat /\ i = base + server.units + 1 /\ base = server'.page * PAGE_SIZE
      BY <2>2, <2>3
    <3>3. server.units \in Nat /\ server'.units = server.units + 1
      BY <2>2, <2>3
    <3> HIDE DEF i, base
    <3>2. i = base + server'.units
      BY <3>1, <3>3
    <3> QED
      BY <3>1, <3>2
  <2>6. server.stamp \in Stamp /\ server'.units \in 1..PAGE_SIZE
    <3>1. server.stamp \in 1..writes /\ writes \in 0..MaxWrites
      BY <2>2 DEF TypeOK
    <3>2. server.units \in 1..PAGE_SIZE /\ server.units < PAGE_SIZE
      BY <2>2
    <3>3. server'.units \in 1..PAGE_SIZE
      BY <2>3, <3>2
    <3> QED
      BY <3>1, <3>3 DEF Stamp
  <2> HIDE DEF i
  <2>7. /\ Wrote(i, server.stamp)
        /\ writes < MaxWrites /\ writes' = writes + 1
        /\ held' = (IF Reading THEN held \cup {file'} ELSE held)
    BY <2>1, <2>4, <2>6, PutUnitWrites
  <2> QED
    BY <2>1, <2>2, <2>3, <2>5, <2>6, <2>7 DEF PutNext
<1>2. ASSUME NEW q \in 0..(Len(file) \div PAGE_SIZE), BeginPageWrite(q)
      PROVE  /\ PutNext /\ writes < MaxWrites /\ writes' = writes + 1
             /\ held' = (IF Reading THEN held \cup {file'} ELSE held)
  <2>1. /\ ~Writing /\ server' = [page |-> q, units |-> 1, stamp |-> writes + 1]
        /\ PutUnit(q * PAGE_SIZE + 1, writes + 1)
    BY <1>2 DEF BeginPageWrite, Writing
  <2>2. q \in Nat /\ q * PAGE_SIZE \in Nat /\ q * PAGE_SIZE <= Len(file)
    BY <1>0
  <2>3. q * PAGE_SIZE + 1 \in 1..(Len(file) + 1) /\ writes + 1 \in Stamp
    BY <1>0, <2>2 DEF ServerInv, Stamp
  <2> QED
    BY <2>1, <2>2, <2>3, PutUnitWrites DEF PutNext
<1>3. ASSUME NEW q \in Nat, DropPages(q)
      PROVE  /\ CutOff /\ writes < MaxWrites /\ writes' = writes + 1
             /\ held' = (IF Reading THEN held \cup {file'} ELSE held)
  <2>1. /\ ~Writing /\ server' = server /\ q * PAGE_SIZE < Len(file)
        /\ Write(SubSeq(file, 1, q * PAGE_SIZE))
    BY <1>3 DEF DropPages, Writing, Truncate
  <2>2. q * PAGE_SIZE \in Nat
    OBVIOUS
  <2>3. /\ Len(SubSeq(file, 1, q * PAGE_SIZE)) = q * PAGE_SIZE
        /\ \A j \in 1..(q * PAGE_SIZE) : SubSeq(file, 1, q * PAGE_SIZE)[j] = file[j]
    BY <1>0, <2>1, <2>2
  <2> QED
    BY <1>0, <2>1, <2>2, <2>3 DEF Write, CutOff
<1> QED
  BY <1>1, <1>2, <1>3 DEF Server

LEMMA TornServerStep ==
  ASSUME ServerInv, TypeOK, TornInv, Server
  PROVE  TornInv'
<1> USE SizeAssumption
<1>1. /\ PutNext \/ CutOff
      /\ writes < MaxWrites /\ writes' = writes + 1 /\ writes \in Nat
      /\ held' = (IF Reading THEN held \cup {file'} ELSE held)
  BY ServerEffect DEF TornInv, TypeOK
<1>2. /\ UNCHANGED <<pc, bytes, result>> /\ Reading' = Reading
      /\ page_count' = page_count /\ held \subseteq held'
  BY <1>1, ServerStep DEF reader, Reading, page_count
<1>3. /\ Len(file) \in Nat /\ Len(bytes) \in Nat /\ Len(file') \in Nat
      /\ server.page * PAGE_SIZE \in Nat /\ server.units \in 1..PAGE_SIZE
  <2>1. Len(file) \in Nat /\ Len(bytes) \in Nat /\ server.page * PAGE_SIZE \in Nat
    BY DEF TypeOK, ServerInv
  <2>2. Len(file') \in Nat
    BY <1>1, <2>1 DEF PutNext, Wrote, CutOff
  <2> QED
    BY <2>1, <2>2 DEF ServerInv
<1>4. /\ server'.page \in Nat /\ server'.page * PAGE_SIZE \in Nat
      /\ server'.units \in 1..PAGE_SIZE
  <2>1. server'.page \in Nat /\ server'.units \in 1..PAGE_SIZE
    BY <1>1 DEF PutNext, CutOff, ServerInv
  <2> QED
    BY <2>1
<1>5. \A stamp : Known(stamp) => Known(stamp)'
  BY <1>1 DEF Known
<1>6. ASSUME PutNext, ~Writing, NEW stamp, Known(stamp)
      PROVE  server'.stamp # stamp
  BY <1>1, <1>6 DEF PutNext, Known
(* What was put stays put, and nothing known is taken for the new write.    *)
<1>7. ASSUME NEW i \in Int, Writing', NEW stamp, stamp = server'.stamp, Known(stamp),
             Writing /\ stamp = server.stamp => Started(i)
      PROVE  Started(i)'
  <2>1. PutNext
    BY <1>1, <1>7 DEF CutOff, Writing
  <2>2. Writing
    BY <1>6, <1>7, <2>1
  <2>3. /\ server'.page = server.page /\ server'.stamp = server.stamp
        /\ server'.units = server.units + 1
    BY <2>1, <2>2 DEF PutNext
  <2> QED
    BY <1>3, <1>4, <1>7, <2>2, <2>3 DEF Started
<1>8. Stamps(bytes)'
  BY <1>2, <1>3, <1>5, <1>7 DEF TornInv, Stamps
<1>9. Stamps(file)'
  <2> SUFFICES ASSUME NEW j \in 1..Len(file')
               PROVE  /\ file'[j] \in 1..MaxWrites => file'[j] <= writes'
                      /\ Writing' /\ file'[j] = server'.stamp => Started(j)'
    BY DEF Stamps, Known
  <2>1. CASE j \in 1..Len(file) /\ file'[j] = file[j]
    <3>1. Known(file[j]) /\ (Writing /\ file[j] = server.stamp => Started(j))
      BY <2>1 DEF TornInv, Stamps
    <3>2. \A stamp : Known(stamp) => (stamp \in 1..MaxWrites => stamp <= writes')
      BY <1>5 DEF Known
    <3> QED
      BY <1>7, <2>1, <3>1, <3>2
  <2>2. CASE PutNext /\ j = server'.page * PAGE_SIZE + server'.units
    <3>1. file'[j] = server'.stamp /\ Started(j)'
      BY <1>4, <2>2 DEF PutNext, Wrote, Started
    <3>2. server'.stamp \in 1..writes'
      BY <1>1, <2>2 DEF PutNext
    <3> QED
      BY <1>1, <3>1, <3>2
  <2> QED
    BY <1>1, <1>3, <2>1, <2>2 DEF PutNext, Wrote, CutOff
<1>10. ASSUME PutNext PROVE PutSoFar'
  <2>1. ASSUME NEW k \in 1..server'.units
        PROVE  /\ server'.page * PAGE_SIZE + k <= Len(file')
               /\ file'[server'.page * PAGE_SIZE + k] = server'.stamp
    <3>1. CASE k = server'.units
      <4> DEFINE i == server'.page * PAGE_SIZE + server'.units
             base == server'.page * PAGE_SIZE
      <4>1. Wrote(i, server'.stamp)
        BY <1>10 DEF PutNext
      <4>2. base \in Nat /\ server'.units \in 1..PAGE_SIZE /\ i = base + server'.units
        BY <1>4
      <4> HIDE DEF i, base
      <4>3. i \in Nat /\ i >= 1
        BY <4>2, SizeAssumption
      <4>4. i <= Len(file') /\ file'[i] = server'.stamp
        BY <1>3, <4>1, <4>3 DEF Wrote
      <4> QED
        BY <3>1, <4>4 DEF i
    <3>2. CASE k # server'.units
      <4>1. /\ Writing /\ k \in 1..server.units
            /\ server'.page = server.page /\ server'.stamp = server.stamp
        BY <1>3, <1>10, <2>1, <3>2 DEF PutNext
      <4>2. /\ server.page * PAGE_SIZE + k <= Len(file)
            /\ file[server.page * PAGE_SIZE + k] = server.stamp
        BY <4>1 DEF TornInv, PutSoFar
      <4>3. server.page * PAGE_SIZE + k \in 1..Len(file)
        BY <1>3, <4>1, <4>2
      <4>4. /\ Len(file) <= Len(file')
            /\ \A j \in 1..Len(file) :
                 j # server'.page * PAGE_SIZE + server'.units => file'[j] = file[j]
        <5> DEFINE i == server'.page * PAGE_SIZE + server'.units
        <5>1. Wrote(i, server'.stamp)
          BY <1>10 DEF PutNext
        <5> HIDE DEF i
        <5>2. Len(file) <= Len(file') /\ \A j \in 1..Len(file) : j # i => file'[j] = file[j]
          BY <1>3, <5>1 DEF Wrote
        <5> QED
          BY <5>2 DEF i
      <4> DEFINE base == server.page * PAGE_SIZE
      <4>5. base + k # base + server'.units
        <5>1. base \in Nat /\ k \in Nat /\ server'.units \in Nat /\ k # server'.units
          BY <1>3, <1>4, <3>2
        <5> HIDE DEF base
        <5> QED
          BY <5>1
      <4>6. /\ base + k <= Len(file) /\ file[base + k] = server.stamp
            /\ base + k \in 1..Len(file) /\ base = server'.page * PAGE_SIZE
            /\ base + k # base + server'.units
        BY <4>1, <4>2, <4>3, <4>5
      <4>7. \A j \in 1..Len(file) : j # base + server'.units => file'[j] = file[j]
        BY <4>4, <4>6
      <4> HIDE DEF base
      <4>8. base + k <= Len(file') /\ file'[base + k] = server'.stamp
        BY <1>3, <4>1, <4>4, <4>6, <4>7
      <4> QED
        BY <4>6, <4>8
    <3> QED
      BY <3>1, <3>2
  <2> QED
    BY <2>1 DEF PutSoFar
<1>11. Writing' => PutSoFar'
  BY <1>1, <1>10 DEF CutOff, Writing
<1>12. BeingRead'
  <2> SUFFICES ASSUME Reading', NEW p \in Nat, (FirstUnit(p) <= Len(bytes))'
               PROVE  PageFate(p)'
    BY DEF BeingRead
  <2> DEFINE stamp == bytes[FirstUnit(p)]
  <2>1. FirstUnit(p) \in 1..Len(bytes) /\ FirstUnit(p)' = FirstUnit(p) /\ p * PAGE_SIZE \in Nat
    <3>1. p * PAGE_SIZE \in Nat
      OBVIOUS
    <3> QED
      BY <1>2, <1>3, <3>1 DEF FirstUnit
  <2>2. /\ PageFate(p) /\ Known(stamp)
        /\ file' \in held' /\ stamp' = stamp
    BY <1>1, <1>2, <2>1 DEF TornInv, BeingRead, Stamps
  <2> HIDE DEF stamp
  <2>3. CASE \E contents \in held : Holds(contents, p, stamp)
    BY <1>2, <2>2, <2>3 DEF PageFate, Holds, stamp
  <2>4. CASE Writing /\ server.page = p /\ server.stamp = stamp
    <3>1. /\ PutNext /\ server'.page = p /\ server'.stamp = stamp
      BY <1>1, <2>4 DEF PutNext, CutOff
    <3>2. CASE Writing'
      BY <2>2, <3>1, <3>2 DEF PageFate, stamp
    <3>3. CASE ~Writing'
      <4>1. server'.units = PAGE_SIZE
        BY <1>4, <3>3 DEF Writing
      <4>2. Holds(file', p, stamp)
        BY <1>10, <3>1, <4>1 DEF PutSoFar, Holds
      <4> QED
        BY <2>2, <4>2 DEF PageFate, Holds, stamp
    <3> QED
      BY <3>2, <3>3
  <2>5. CASE (Writing => server.stamp # stamp) /\ Foreign(p, stamp)
    <3>1. (Writing' => server'.stamp # stamp) /\ (PutNext => server'.stamp # stamp)
      <4>1. CASE PutNext
        BY <1>6, <2>2, <2>5, <4>1 DEF PutNext
      <4>2. CASE CutOff
        BY <1>6, <2>2, <4>2 DEF CutOff, Writing
      <4> QED
        BY <1>1, <4>1, <4>2
    <3>2. PICK k \in 1..PAGE_SIZE :
            IF p * PAGE_SIZE + k <= Len(bytes) THEN bytes[p * PAGE_SIZE + k] # stamp
            ELSE p * PAGE_SIZE + k <= Len(file) => file[p * PAGE_SIZE + k] # stamp
      BY <2>5 DEF Foreign
    <3>3. ASSUME p * PAGE_SIZE + k <= Len(file')
          PROVE  \/ PutNext /\ file'[p * PAGE_SIZE + k] = server'.stamp
                 \/ /\ p * PAGE_SIZE + k <= Len(file)
                    /\ file'[p * PAGE_SIZE + k] = file[p * PAGE_SIZE + k]
      <4>1. p * PAGE_SIZE + k \in 1..Len(file')
        BY <1>3, <2>1, <3>3
      <4> QED
        BY <1>1, <1>3, <4>1 DEF PutNext, Wrote, CutOff
    <3>4. IF p * PAGE_SIZE + k <= Len(bytes') THEN bytes'[p * PAGE_SIZE + k] # stamp
          ELSE p * PAGE_SIZE + k <= Len(file') => file'[p * PAGE_SIZE + k] # stamp
      BY <1>2, <3>1, <3>2, <3>3
    <3> QED
      BY <2>2, <3>1, <3>4 DEF PageFate, Foreign, stamp
  <2> QED
    BY <2>2, <2>3, <2>4, <2>5 DEF PageFate, stamp
<1>13. HasBeenRead'
  BY <1>2 DEF TornInv, HasBeenRead, Holds
<1> QED
  BY <1>8, <1>9, <1>11, <1>12, <1>13 DEF TornInv

LEMMA PagesOfSnapshot ==
  ASSUME bytes \in Seq(Nat), Len(bytes) % PAGE_SIZE = 0, NEW p \in 0..(page_count - 1)
  PROVE  p \in Nat /\ p * PAGE_SIZE \in Nat /\ p * PAGE_SIZE + PAGE_SIZE <= Len(bytes)
<1> USE SizeAssumption
<1>1. Len(bytes) \in Nat /\ Len(bytes) = PAGE_SIZE * page_count /\ page_count \in Nat
  BY DEF page_count
<1>2. PICK d \in Nat : page_count = p + 1 + d
  <2>1. page_count - p - 1 \in Nat /\ page_count = p + 1 + (page_count - p - 1)
    BY <1>1
  <2> QED
    BY <2>1
<1>3. PAGE_SIZE * page_count = p * PAGE_SIZE + PAGE_SIZE + d * PAGE_SIZE
  BY <1>2
<1>4. d * PAGE_SIZE \in Nat /\ p * PAGE_SIZE \in Nat
  OBVIOUS
<1> QED
  BY <1>1, <1>3, <1>4

LEMMA TornReadSome ==
  ASSUME SnapshotInv, ServerInv, TornInv, UNCHANGED server,
         NEW n \in 1..Len(file), ReadSome(n)
  PROVE  TornInv'
<1> USE SizeAssumption
<1>1. /\ position = Len(bytes) /\ Reading /\ result = "Pending" /\ Reading'
      /\ Len(bytes') = Len(bytes) + n /\ Len(bytes') <= Len(file)
      /\ \A i \in 1..Len(bytes') :
           bytes'[i] = IF i <= Len(bytes) THEN bytes[i] ELSE file[i]
      /\ UNCHANGED <<file, writes, pc, result, held>>
  BY ReadSomeEffect DEF Reading
<1>2. Len(bytes) \in Nat /\ Len(file) \in Nat /\ n \in Nat /\ file \in held
  BY <1>1 DEF SnapshotInv, TypeOK, Progress
<1>3. Writing' = Writing /\ \A stamp, i : Known(stamp)' = Known(stamp) /\ Started(i)' = Started(i)
  BY <1>1 DEF Writing, Known, Started
<1>4. Stamps(file)' /\ (Writing' => PutSoFar')
  BY <1>1, <1>3 DEF TornInv, Stamps, PutSoFar
<1>5. Stamps(bytes)'
  BY <1>1, <1>2, <1>3 DEF TornInv, Stamps
<1>6. BeingRead'
  <2> SUFFICES ASSUME NEW p \in Nat, (FirstUnit(p) <= Len(bytes))'
               PROVE  PageFate(p)'
    BY DEF BeingRead
  <2>1. FirstUnit(p)' = FirstUnit(p) /\ FirstUnit(p) \in 1..Len(bytes') /\ p * PAGE_SIZE \in Nat
    <3>1. p * PAGE_SIZE \in Nat
      OBVIOUS
    <3> QED
      BY <1>1, <1>2, <3>1 DEF FirstUnit
  (* A unit that is foreign stays so when it is read. *)
  <2>2. ASSUME NEW stamp, NEW k \in 1..PAGE_SIZE,
               IF p * PAGE_SIZE + k <= Len(bytes) THEN bytes[p * PAGE_SIZE + k] # stamp
               ELSE p * PAGE_SIZE + k <= Len(file) => file[p * PAGE_SIZE + k] # stamp
        PROVE  IF p * PAGE_SIZE + k <= Len(bytes') THEN bytes'[p * PAGE_SIZE + k] # stamp
               ELSE p * PAGE_SIZE + k <= Len(file') => file'[p * PAGE_SIZE + k] # stamp
    <3> DEFINE i == p * PAGE_SIZE + k
    <3>1. i \in Nat /\ i >= 1
      BY <2>1
    <3>2. IF i <= Len(bytes) THEN bytes[i] # stamp ELSE i <= Len(file) => file[i] # stamp
      BY <2>2
    <3> HIDE DEF i
    <3>3. IF i <= Len(bytes') THEN bytes'[i] # stamp ELSE i <= Len(file') => file'[i] # stamp
      BY <1>1, <1>2, <3>1, <3>2
    <3> QED
      BY <3>3 DEF i
  <2>3. CASE FirstUnit(p) <= Len(bytes)
    <3>1. PageFate(p) /\ bytes'[FirstUnit(p)] = bytes[FirstUnit(p)]
      BY <1>1, <2>1, <2>3 DEF TornInv, BeingRead
    <3>2. Foreign(p, bytes[FirstUnit(p)]) => Foreign(p, bytes[FirstUnit(p)])'
      BY <1>1, <2>1, <2>2, <3>1 DEF Foreign
    <3> QED
      BY <1>1, <1>3, <2>1, <3>1, <3>2 DEF PageFate, Holds
  <2>4. CASE Len(bytes) < FirstUnit(p)
    <3> DEFINE stamp == file[FirstUnit(p)]
    <3>1. bytes'[FirstUnit(p)] = stamp
      BY <1>1, <1>2, <2>1, <2>4
    <3>2. CASE Holds(file, p, stamp)
      BY <1>1, <1>2, <2>1, <3>1, <3>2 DEF PageFate, Holds
    <3>3. CASE ~Holds(file, p, stamp)
      <4>1. PICK k \in 1..PAGE_SIZE :
              p * PAGE_SIZE + k <= Len(file) => file[p * PAGE_SIZE + k] # stamp
        BY <3>3 DEF Holds
      <4>2. ~(p * PAGE_SIZE + k <= Len(bytes))
        BY <1>2, <2>1, <2>4 DEF FirstUnit
      <4>3. IF p * PAGE_SIZE + k <= Len(bytes') THEN bytes'[p * PAGE_SIZE + k] # stamp
            ELSE p * PAGE_SIZE + k <= Len(file') => file'[p * PAGE_SIZE + k] # stamp
        BY <2>2, <4>1, <4>2
      <4>4. CASE Writing /\ server.stamp = stamp
        <5>1. Started(FirstUnit(p))
          BY <1>1, <1>2, <2>1, <4>4 DEF TornInv, Stamps
        <5>2. server.page \in Nat /\ server.units \in 1..PAGE_SIZE
          BY DEF ServerInv
        <5>3. server.page * PAGE_SIZE \in Nat
          BY <5>2
        <5>4. /\ server.page * PAGE_SIZE < FirstUnit(p)
              /\ FirstUnit(p) <= server.page * PAGE_SIZE + PAGE_SIZE
          BY <2>1, <5>1, <5>2, <5>3 DEF Started
        <5>5. FirstUnit(p) \in Nat /\ p * PAGE_SIZE < FirstUnit(p)
              /\ FirstUnit(p) <= p * PAGE_SIZE + PAGE_SIZE
          BY <2>1 DEF FirstUnit
        <5>6. server.page = p
          BY <5>2, <5>4, <5>5, SamePage
        <5> QED
          BY <1>3, <2>1, <3>1, <4>4, <5>6 DEF PageFate
      <4>5. CASE Writing => server.stamp # stamp
        BY <1>3, <2>1, <3>1, <4>3, <4>5 DEF PageFate, Foreign
      <4> QED
        BY <4>4, <4>5
    <3> QED
      BY <3>2, <3>3
  <2> QED
    BY <1>2, <2>1, <2>3, <2>4 DEF FirstUnit
<1>7. HasBeenRead'
  BY <1>1 DEF HasBeenRead
<1> QED
  BY <1>4, <1>5, <1>6, <1>7 DEF TornInv

LEMMA TornReaderStep ==
  ASSUME SnapshotInv, ServerInv, TornInv, UNCHANGED server, Reader
  PROVE  TornInv'
<1> USE SizeAssumption
<1>0. bytes \in Seq(Nat) /\ Len(bytes) \in Nat
  BY DEF SnapshotInv, TypeOK
<1>1. ASSUME UNCHANGED <<file, writes, bytes>>
      PROVE  Stamps(file)' /\ Stamps(bytes)' /\ (Writing' => PutSoFar')
  BY <1>1 DEF TornInv, Stamps, PutSoFar, Writing, Known, Started
<1>2. CASE MeasureSize
  <2>1. /\ bytes = <<>> /\ UNCHANGED <<file, writes, bytes>> /\ result' # "Ok"
    BY <1>2 DEF MeasureSize, Return, SnapshotInv, Progress
  <2>2. \A p \in Nat : ~(FirstUnit(p) <= Len(bytes'))
    <3>1. \A p \in Nat : p * PAGE_SIZE \in Nat
      OBVIOUS
    <3> QED
      BY <2>1, <3>1 DEF FirstUnit
  <2>3. BeingRead' /\ HasBeenRead'
    BY <2>1, <2>2 DEF BeingRead, HasBeenRead, FirstUnit
  <2> QED
    BY <1>1, <2>1, <2>3 DEF TornInv
<1>3. CASE SeekStart \/ ReadFull
  <2>1. /\ Reading /\ result = "Pending"
        /\ UNCHANGED <<file, writes, bytes, result, held>>
    BY <1>3 DEF SeekStart, ReadFull, Reading, SnapshotInv, Progress
  <2>2. BeingRead'
    BY <2>1 DEF TornInv, BeingRead, PageFate, Holds, Foreign, FirstUnit, Writing
  <2>3. HasBeenRead'
    BY <2>1 DEF HasBeenRead
  <2> QED
    BY <1>1, <2>1, <2>2, <2>3 DEF TornInv
<1>4. CASE ReadNothing \/ CallFails
  <2>1. UNCHANGED <<file, writes, bytes>> /\ result' # "Ok" /\ ~Reading'
    BY <1>4 DEF ReadNothing, CallFails, Return, Reading
  <2> QED
    BY <1>1, <2>1 DEF TornInv, BeingRead, HasBeenRead
<1>5. CASE Recheck
  <2>1. Reading /\ UNCHANGED <<file, writes, bytes, held>> /\ ~Reading'
    BY <1>5 DEF Recheck, Return, Reading
  <2>2. ASSUME result' = "Ok", NEW p \in 0..(page_count - 1)
        PROVE  \/ \E contents \in held : Holds(contents, p, bytes[FirstUnit(p)])
               \/ \E k \in 1..PAGE_SIZE : bytes[p * PAGE_SIZE + k] # bytes[FirstUnit(p)]
    <3>1. Len(bytes) % PAGE_SIZE = 0
      BY <1>5, <2>2 DEF Recheck, Return, SnapshotInv, Progress, ValidSize, TooSmall, NotPageAligned
    <3>2. p \in Nat /\ p * PAGE_SIZE \in Nat /\ p * PAGE_SIZE + PAGE_SIZE <= Len(bytes)
      BY <1>0, <3>1, PagesOfSnapshot
    <3>3. PageFate(p)
      BY <1>0, <2>1, <3>2 DEF TornInv, BeingRead, FirstUnit
    <3>4. CASE Writing /\ server.page = p /\ server.stamp = bytes[FirstUnit(p)]
      <4>1. p * PAGE_SIZE + PAGE_SIZE \in 1..Len(bytes)
        BY <1>0, <3>2
      <4>2. ~Started(p * PAGE_SIZE + PAGE_SIZE)
        BY <3>2, <3>4 DEF Started, Writing, ServerInv
      <4>3. bytes[p * PAGE_SIZE + PAGE_SIZE] # bytes[FirstUnit(p)]
        BY <3>4, <4>1, <4>2 DEF TornInv, Stamps
      <4> QED
        BY <4>3
    <3>5. CASE Foreign(p, bytes[FirstUnit(p)])
      <4>1. PICK k \in 1..PAGE_SIZE :
              p * PAGE_SIZE + k <= Len(bytes) => bytes[p * PAGE_SIZE + k] # bytes[FirstUnit(p)]
        BY <3>5 DEF Foreign
      <4>2. p * PAGE_SIZE + k <= Len(bytes)
        BY <1>0, <3>2
      <4> QED
        BY <4>1, <4>2
    <3> QED
      BY <3>3, <3>4, <3>5 DEF PageFate
  <2>3. HasBeenRead'
    BY <2>1, <2>2 DEF HasBeenRead, Holds, FirstUnit, page_count
  <2> QED
    BY <1>1, <2>1, <2>3 DEF TornInv, BeingRead
<1>6. CASE \E n \in 1..Len(file) : ReadSome(n)
  BY <1>6, TornReadSome
<1> QED
  BY <1>2, <1>3, <1>4, <1>5, <1>6 DEF Reader, Advance

(* What dump-page has said of a page it printed is so. *)
Dumped ==
  exit = "success" /\ command.name = "dump_page" /\ command.page \notin crc_failures =>
    CrcMatches(command.page)

LEMMA TornStep ==
  ASSUME SnapshotInv, ServerInv, Verified, TornInv, Dumped, [InspectNext]_inspectVars
  PROVE  (TornInv /\ Dumped)'
<1>1. ASSUME UNCHANGED <<vars, server>> PROVE TornInv'
  <2>1. UNCHANGED <<file, writes, server, bytes, held, pc, result>>
    BY <1>1 DEF vars, reader
  <2>2. Stamps(file)' /\ Stamps(bytes)' /\ (Writing' => PutSoFar')
    BY <2>1 DEF TornInv, Stamps, PutSoFar, Writing, Known, Started
  <2>3. \A p : PageFate(p)' = PageFate(p)
    BY <2>1 DEF PageFate, Holds, Foreign, FirstUnit, Writing
  <2>4. BeingRead' /\ HasBeenRead'
    BY <2>1, <2>3 DEF TornInv, BeingRead, HasBeenRead, Reading, Holds, FirstUnit, page_count
  <2> QED
    BY <2>2, <2>4 DEF TornInv
<1>2. ASSUME UNCHANGED <<vars, inspection>> PROVE Dumped'
  BY <1>2 DEF vars, reader, inspection, Dumped, CrcMatches, UnitOf
<1>3. CASE UNCHANGED inspectVars
  BY <1>1, <1>2, <1>3 DEF inspectVars
<1>4. CASE Server
  <2>1. UNCHANGED <<bytes, inspection>>
    BY <1>4, ServerStep DEF reader
  <2>2. Dumped'
    BY <2>1 DEF inspection, Dumped, CrcMatches, UnitOf
  <2> QED
    BY <1>4, <2>2, TornServerStep DEF SnapshotInv
<1>5. CASE OpenStep \/ OpenFails
  <2>1. (Advance \/ CallFails) /\ UNCHANGED <<server, inspection>>
    BY <1>5 DEF OpenStep, OpenFails
  <2>2. pc # "returned"
    BY <2>1 DEF Advance, CallFails, MeasureSize, SeekStart, ReadNothing, ReadFull, Recheck,
       ReadSome
  <2>3. exit' = "running"
    BY <2>1, <2>2 DEF Verified, inspection
  <2> QED
    BY <2>1, <2>3, TornReaderStep DEF Reader, Dumped
<1>6. CASE OpenFailed \/ InspectPage \/ Finish \/ DumpPage \/ Superblock
  <2>1. UNCHANGED <<vars, server, command>> /\ exit = "running"
    BY <1>6 DEF OpenFailed, InspectPage, Finish, DumpPage, Superblock, Exit, Serving
  <2>2. CrcMatches(command.page)' = CrcMatches(command.page)
    BY <2>1 DEF vars, reader, CrcMatches, UnitOf
  <2>3. Dumped'
    <3>1. CASE DumpPage
      BY <2>1, <2>2, <3>1 DEF DumpPage, Exit, Dumped
    <3>2. CASE OpenFailed \/ InspectPage
      BY <2>1, <3>2 DEF OpenFailed, InspectPage, Exit, Dumped
    <3>3. CASE Finish \/ Superblock
      BY <2>1, <3>3 DEF Finish, Superblock, Serving, Dumped
    <3> QED
      BY <1>6, <3>1, <3>2, <3>3
  <2> QED
    BY <1>1, <2>1, <2>3
<1> QED
  BY <1>3, <1>4, <1>5, <1>6 DEF InspectNext, Command

LEMMA TornInit == InspectInit => TornInv /\ Dumped
<1> SUFFICES ASSUME InspectInit PROVE TornInv /\ Dumped
  OBVIOUS
<1> USE SizeAssumption
<1>1. /\ file \in InitialFile /\ writes = 0 /\ pc = "size" /\ bytes = <<>>
      /\ result = "Pending" /\ exit = "running" /\ ~Writing
  BY DEF InspectInit, Init, Idle, Writing
<1>2. Stamps(file) /\ Stamps(bytes)
  BY <1>1, FreshStampAssumption DEF Stamps, Known
<1> QED
  BY <1>1, <1>2 DEF TornInv, BeingRead, HasBeenRead, Reading, Dumped

THEOREM TornInvariant == InspectSpec => [](TornInv /\ Dumped)
<1>1. InspectSpec => [](SnapshotInv /\ ServerInv /\ Verified)
  BY InspectOpensAStore, SnapshotInvariant, InspectInvariant, PTL
<1> QED
  BY <1>1, TornInit, TornStep, PTL DEF InspectSpec

(* A page that inspect --verify-crc or dump-page has called sound was in    *)
(* the file as a whole at one moment of the read, whatever the server       *)
(* rewrote, appended or dropped meanwhile, however it was interleaved.      *)
THEOREM PassedPageWasWhole == InspectSpec => []VerifiedPagesWereWhole
<1> USE SizeAssumption
<1>1. ASSUME Verified, Dumped, HasBeenRead PROVE VerifiedPagesWereWhole
  <2> SUFFICES ASSUME NEW p \in Passed
               PROVE  \E contents \in held : \A k \in 1..PAGE_SIZE :
                        /\ p * PAGE_SIZE + k <= Len(contents)
                        /\ UnitOf(contents, p, k) = UnitOf(bytes, p, k)
    BY DEF VerifiedPagesWereWhole
  <2>1. result = "Ok" /\ p \in 0..(page_count - 1) /\ CrcMatches(p)
    <3>1. CASE exit = "success" /\ command.name = "inspect" /\ command.verify_crc
      <4>1. p \in 0..(page_count - 1)
        BY <3>1 DEF Passed
      <4> QED
        BY <1>1, <3>1, <4>1 DEF Verified, ExitTellsIntegrity
    <3>2. CASE exit = "success" /\ command.name = "dump_page"
      <4>1. p = command.page /\ command.page \notin crc_failures
        BY <3>2 DEF Passed
      <4> QED
        BY <1>1, <3>2, <4>1 DEF Verified, ExitTellsIntegrity, Dumped
    <3> QED
      BY <3>1, <3>2 DEF Passed
  <2>2. \A k \in 1..PAGE_SIZE : bytes[p * PAGE_SIZE + k] = bytes[FirstUnit(p)]
    BY <2>1 DEF CrcMatches, UnitOf, FirstUnit
  <2>3. PICK contents \in held : Holds(contents, p, bytes[FirstUnit(p)])
    BY <1>1, <2>1, <2>2 DEF HasBeenRead
  <2> QED
    BY <2>2, <2>3 DEF Holds, UnitOf
<1> QED
  BY <1>1, InspectInvariant, TornInvariant, PTL DEF TornInv
=============================================================================
