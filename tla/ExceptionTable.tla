--------------------------- MODULE ExceptionTable ---------------------------
(***************************************************************************)
(* controlflow/exceptiontable311.py: the bytes of co_exceptiontable are    *)
(* decoded to exception regions, which are then validated.                 *)
(*                                                                         *)
(* A table is a sequence of bytes.  Each entry is four numbers (start,     *)
(* length and target in code units, depth and lasti together), and each    *)
(* number one or more bytes with six bits of it, the highest first; 64     *)
(* says that more bytes follow, 128 marks the first byte of an entry.      *)
(***************************************************************************)
EXTENDS Naturals, Sequences, SequencesExt

Low6(byte)      == byte % 64
Continues(byte) == (byte \div 64) % 2 = 1

\* What the loop has read: the entries so far, the numbers of the entry it is
\* in, the bits of the number it is in, and whether that number goes on.
NothingRead == [entries |-> <<>>, numbers |-> <<>>, value |-> 0, inside |-> FALSE]

\* The ExceptionRegion of an entry's numbers.
RegionOf(numbers) ==
  [start  |-> 2 * numbers[1],
   end    |-> 2 * numbers[1] + 2 * numbers[2],
   target |-> 2 * numbers[3],
   depth  |-> numbers[4] \div 2,
   lasti  |-> numbers[4] % 2 = 1]

\* Defect: the low bits come first.
ReadByteLittle(read, byte) ==
  LET value == IF read.inside THEN read.value + 64 * Low6(byte) ELSE Low6(byte)
      full  == Append(read.numbers, value)
  IN  IF Continues(byte) THEN [read EXCEPT !.value = value, !.inside = TRUE]
      ELSE IF Len(full) < 4 THEN [read EXCEPT !.numbers = full, !.inside = FALSE]
      ELSE [NothingRead EXCEPT !.entries = Append(read.entries, RegionOf(full))]

\* One byte: _parse_varint goes on with its number or returns it, and the
\* fourth number completes the entry.
ReadByte(read, byte) ==
  LET value == 64 * (IF read.inside THEN read.value ELSE 0) + Low6(byte)
      full  == Append(read.numbers, value)
  IN  IF Continues(byte) THEN [read EXCEPT !.value = value, !.inside = TRUE]
      ELSE IF Len(full) < 4 THEN [read EXCEPT !.numbers = full, !.inside = FALSE]
      ELSE [NothingRead EXCEPT !.entries = Append(read.entries, RegionOf(full))]

\* The bytes end inside an entry: ExceptionTableDecodeError.
Truncated(read) == read.inside \/ read.numbers # <<>>

Regions(read) == {read.entries[k] : k \in DOMAIN read.entries}

\* The regions of a whole table, as another reader of it finds them.
Decoded(table) == Regions(FoldLeft(ReadByte, NothingRead, table))

\* What validate_exception_regions demands of a region of code of that length.
IsValid(r, length) ==
  /\ r.start \in Nat /\ r.end \in Nat /\ r.target \in Nat /\ r.depth \in Nat
  /\ r.start % 2 = 0 /\ r.end % 2 = 0 /\ r.target % 2 = 0
  /\ r.start < r.end /\ r.end <= length /\ r.target < length

(***************************************************************************)
(* The other side: how CPython's assembler writes a table.                 *)
(***************************************************************************)
Chunks[n \in Nat] ==
  IF n < 64 THEN <<n>> ELSE Append(Chunks[n \div 64], n % 64)

WrittenNumber(n) ==
  [k \in 1 .. Len(Chunks[n]) |-> Chunks[n][k] + (IF k < Len(Chunks[n]) THEN 64 ELSE 0)]

WrittenEntry(r) ==
  LET bytes == WrittenNumber(r.start \div 2) \o WrittenNumber((r.end - r.start) \div 2)
                 \o WrittenNumber(r.target \div 2)
                 \o WrittenNumber(2 * r.depth + (IF r.lasti THEN 1 ELSE 0))
  IN  [bytes EXCEPT ![1] = @ + 128]

\* The table of a sequence of regions.
Written(regions) ==
  LET upTo[k \in 0 .. Len(regions)] ==
        IF k = 0 THEN <<>> ELSE upTo[k - 1] \o WrittenEntry(regions[k])
  IN  upTo[Len(regions)]
=============================================================================
