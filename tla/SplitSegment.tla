---------------------------- MODULE SplitSegment ----------------------------
(* SplitSegmentInfoParser (split_seg.cpp) and SpanReader::read_uleb128       *)
(* (memio.h): the split-segment info of a kext is a list of sections, each   *)
(* with a list of offsets, each with a list of kinds, each with a list of    *)
(* offsets again, all in unsigned LEB128 and the offsets as differences.     *)
(*                                                                           *)
(* One step reads one byte.  A byte has Group bits of a number and one that  *)
(* says whether more follow; an integer has Width bits, of which the last    *)
(* group fills only a part, as 64 bits are nine groups of seven and one bit. *)
EXTENDS Integers, Sequences

CONSTANTS
    Group,     \* bits of a number in a byte: 7
    Width,     \* bits of an integer: 64
    Kinds,     \* DyldCacheAdjV2Kind::Invalid, the first value that is no kind: 14
    Jobs       \* the files: [data, dataoff, commands, encodes, pad]

Pow2[n \in Nat] == IF n = 0 THEN 1 ELSE 2 * Pow2[n - 1]
Base == Pow2[Group]
Limit == Pow2[Width]
(* DYLD_CACHE_ADJ_V2_FORMAT, 0x7F: all bits of a group. *)
Version == Base - 1

-----------------------------------------------------------------------------
(* What a file of nested lists says, defined on the lists. *)
KindRecords == [kind : Nat, deltas : Seq(Nat)]
OffsetRecords == [delta : Nat, kinds : Seq(KindRecords)]
SectionRecords == [from : Nat, to : Nat, offsets : Seq(OffsetRecords)]

(* The last n of a list of sequences, joined: like all sums and folds here a *)
(* recursive function, whose equation the proofs can unfold.                 *)
Joined(seqs) ==
    LET join[n \in 0 .. Len(seqs)] ==
          IF n = 0 THEN << >> ELSE seqs[Len(seqs) - n + 1] \o join[n - 1]
    IN join
Flatten(seqs) == Joined(seqs)[Len(seqs)]

(* The numbers of a list, each with its name, in the order they are written. *)
Num(name, n) == [is |-> name, n |-> n]
DeltaNumbers(deltas) == [d \in DOMAIN deltas |-> Num("delta", deltas[d])]
KindNumbers(kinds) ==
    Flatten([k \in DOMAIN kinds |->
               <<Num("kind", kinds[k].kind), Num("deltas", Len(kinds[k].deltas))>>
               \o DeltaNumbers(kinds[k].deltas)])
OffsetNumbers(offsets) ==
    Flatten([o \in DOMAIN offsets |->
               <<Num("to_delta", offsets[o].delta), Num("from_offsets", Len(offsets[o].kinds))>>
               \o KindNumbers(offsets[o].kinds)])
SectionNumbers(sections) ==
    Flatten([s \in DOMAIN sections |->
               <<Num("from_section", sections[s].from), Num("to_section", sections[s].to),
                 Num("to_offsets", Len(sections[s].offsets))>>
               \o OffsetNumbers(sections[s].offsets)])
ListNumbers(list) == <<Num("sections", Len(list))>> \o SectionNumbers(list)

(* A number in as many groups as it needs, the lowest first, and behind them *)
(* as many groups of zeros as the linker may pad it with.                    *)
Size(n) == CHOOSE m \in 1 .. n + 1 : n < Pow2[Group * m] /\ \A k \in 1 .. m - 1 : Pow2[Group * k] <= n
Uleb(n, pad) == LET m == Size(n) + pad IN
    [i \in 1 .. m |-> ((n \div Pow2[Group * (i - 1)]) % Base) + (IF i < m THEN Base ELSE 0)]

NumberBytes(numbers, pad) == [i \in DOMAIN numbers |-> Uleb(numbers[i].n, pad)]
Encoding(list, pad) == <<Version>> \o Flatten(NumberBytes(ListNumbers(list), pad))

(* An offset is the sum of its own and all earlier differences of its list. *)
Sums(numbers) ==
    LET sum[i \in 0 .. Len(numbers)] == IF i = 0 THEN 0 ELSE sum[i - 1] + numbers[i] IN sum
SumTo(start, numbers, i) == (start + Sums(numbers)[i]) % Limit

Entry(from, to, from_offset, to_offset, kind) ==
    [from_section |-> from, to_section |-> to, from_offset |-> from_offset,
     to_offset |-> to_offset, kind |-> kind]
DeltaEntries(from, to, start, offset, kind, deltas) ==
    [d \in DOMAIN deltas |-> Entry(from, to, SumTo(start, deltas, d), offset, kind)]
KindEntries(from, to, offset, kinds) ==
    Flatten([k \in DOMAIN kinds |-> DeltaEntries(from, to, 0, offset, kinds[k].kind, kinds[k].deltas)])
OffsetDeltas(offsets) == [o \in DOMAIN offsets |-> offsets[o].delta]
OffsetEntries(from, to, start, offsets) ==
    Flatten([o \in DOMAIN offsets |->
               KindEntries(from, to, SumTo(start, OffsetDeltas(offsets), o), offsets[o].kinds)])
Entries(list) ==
    Flatten([s \in DOMAIN list |-> OffsetEntries(list[s].from, list[s].to, 0, list[s].offsets)])

(* A job's `encodes' are the lists whose encoding its file holds at dataoff, *)
(* or would if it were longer.                                               *)
Begins(bytes, data, at) == \A i \in DOMAIN bytes : at + i <= Len(data) => data[at + i] = bytes[i]

ASSUME ParserAssumption ==
    /\ Group \in Nat \ {0} /\ Width \in Nat \ {0} /\ Kinds \in 1 .. Base
    /\ \A j \in Jobs : /\ j.data \in Seq(0 .. 2 * Base - 1)
                       /\ j.dataoff \in Nat /\ j.commands \in Nat /\ j.pad \in Nat
                       /\ \A list \in j.encodes :
                            /\ list \in Seq(SectionRecords)
                            /\ Begins(Encoding(list, j.pad), j.data, j.dataoff)

-----------------------------------------------------------------------------
VARIABLES
    job,      \* the file, fixed at the start
    pc,       \* the number that is read next, or how parse() ended
    cursor,   \* reader.cursor()
    bit,      \* read_uleb128: bit
    acc,      \* read_uleb128: result
    left,     \* rounds each of the four loops still has to run
    entry,    \* what the next entry is made of
    result    \* the entries so far

vars == <<job, pc, cursor, bit, acc, left, entry, result>>

Numbers == {"sections", "from_section", "to_section", "to_offsets", "to_delta",
            "from_offsets", "kind", "deltas", "delta"}

Init == /\ job \in Jobs
        /\ pc = "open"
        /\ cursor = 0 /\ bit = 0 /\ acc = 0
        /\ left = [sections |-> 0, to_offsets |-> 0, from_offsets |-> 0, deltas |-> 0]
        /\ entry = Entry(0, 0, 0, 0, 0)
        /\ result = << >>

Fail == pc' = "failed" /\ UNCHANGED <<job, cursor, bit, acc, left, entry, result>>

-----------------------------------------------------------------------------
(* SpanReader: a read of one byte needs one more byte in the file. *)
HasByte == cursor + 1 <= Len(job.data)
Byte == job.data[cursor + 1]

(* read_command<linkedit_data_command>(LC_SEGMENT_SPLIT_INFO) refuses two    *)
(* commands and returns nullptr for none, which the caller dereferences.     *)
NoCommand ==
    /\ pc = "open" /\ job.commands = 0
    /\ pc' = "crashed"
    /\ UNCHANGED <<job, cursor, bit, acc, left, entry, result>>

CannotOpen ==
    /\ pc = "open"
    /\ job.commands > 1 \/ (job.commands = 1 /\ job.dataoff > Len(job.data))
    /\ Fail

Open ==
    /\ pc = "open" /\ job.commands = 1 /\ job.dataoff <= Len(job.data)
    /\ pc' = "version"
    /\ cursor' = job.dataoff
    /\ UNCHANGED <<job, bit, acc, left, entry, result>>

ReadVersion ==
    /\ pc = "version" /\ HasByte /\ Byte = Version
    /\ pc' = "sections"
    /\ cursor' = cursor + 1
    /\ UNCHANGED <<job, bit, acc, left, entry, result>>

WrongVersion == pc = "version" /\ HasByte /\ Byte # Version /\ Fail

(* SpanReader::ensure_capacity throws. *)
EndOfFile == pc \in Numbers \cup {"version"} /\ ~HasByte /\ Fail

-----------------------------------------------------------------------------
(* read_uleb128. *)
Slice == Byte % Base
More == Byte >= Base
Shifted == (Slice * Pow2[bit]) % Limit
(* Mutants: no check of the bits shifted out; a last group that is only a    *)
(* part of one refused.                                                      *)
FitsAlways == bit < Width
FitsWhole == bit + Group <= Width
Fits == bit < Width /\ Shifted \div Pow2[bit] = Slice
Number == acc + Shifted

ReadMore ==
    /\ pc \in Numbers /\ HasByte /\ Fits /\ More
    /\ acc' = Number
    /\ bit' = bit + Group
    /\ cursor' = cursor + 1
    /\ UNCHANGED <<job, pc, left, entry, result>>

TooLong == pc \in Numbers /\ HasByte /\ ~Fits /\ Fail

(* A mutant: peek in place of read for the last byte. *)
AfterPeek == cursor
AfterByte == cursor + 1

(* The number named pc is complete. *)
Reads(name) ==
    /\ pc = name /\ HasByte /\ Fits /\ ~More
    /\ cursor' = AfterByte
    /\ acc' = 0 /\ bit' = 0
    /\ UNCHANGED job

-----------------------------------------------------------------------------
(* parse: the innermost loop with a round left begins that round. *)
Resume(l) == IF l.deltas > 0 THEN "delta"
             ELSE IF l.from_offsets > 0 THEN "kind"
             ELSE IF l.to_offsets > 0 THEN "to_delta"
             ELSE IF l.sections > 0 THEN "from_section" ELSE "done"

Count(loop) == /\ left' = [left EXCEPT ![loop] = Number]
               /\ pc' = Resume(left')
Round(loop) == left' = [left EXCEPT ![loop] = @ - 1]

ReadSections == Reads("sections") /\ Count("sections") /\ UNCHANGED <<entry, result>>

ReadFromSection ==
    /\ Reads("from_section") /\ Round("sections")
    /\ pc' = "to_section"
    /\ entry' = [entry EXCEPT !.from_section = Number]
    /\ UNCHANGED result

ReadToSection ==
    /\ Reads("to_section")
    /\ pc' = "to_offsets"
    /\ entry' = [entry EXCEPT !.to_section = Number]
    /\ UNCHANGED <<left, result>>

(* Mutants: the offset runs on into the next list. *)
RunsOn(offset) == offset
Restarts(offset) == 0

ReadToOffsets ==
    /\ Reads("to_offsets") /\ Count("to_offsets")
    /\ entry' = [entry EXCEPT !.to_offset = Restarts(@)]
    /\ UNCHANGED result

ReadToDelta ==
    /\ Reads("to_delta") /\ Round("to_offsets")
    /\ pc' = "from_offsets"
    /\ entry' = [entry EXCEPT !.to_offset = (@ + Number) % Limit]
    /\ UNCHANGED result

ReadFromOffsets ==
    /\ Reads("from_offsets") /\ Count("from_offsets")
    /\ UNCHANGED <<entry, result>>

ReadKind ==
    /\ Reads("kind") /\ Number < Kinds /\ Round("from_offsets")
    /\ pc' = "deltas"
    /\ entry' = [entry EXCEPT !.kind = Number]
    /\ UNCHANGED result

UnknownKind == pc = "kind" /\ HasByte /\ Fits /\ ~More /\ Number >= Kinds /\ Fail

ReadDeltas ==
    /\ Reads("deltas") /\ Count("deltas")
    /\ entry' = [entry EXCEPT !.from_offset = Restarts(@)]
    /\ UNCHANGED result

ReadDelta ==
    /\ Reads("delta") /\ Round("deltas")
    /\ pc' = Resume(left')
    /\ entry' = [entry EXCEPT !.from_offset = (@ + Number) % Limit]
    /\ result' = Append(result, entry')

Ended == pc \in {"done", "failed", "crashed"} /\ UNCHANGED vars

Next == \/ NoCommand \/ CannotOpen \/ Open
        \/ ReadVersion \/ WrongVersion \/ EndOfFile
        \/ ReadMore \/ TooLong
        \/ ReadSections \/ ReadFromSection \/ ReadToSection
        \/ ReadToOffsets \/ ReadToDelta \/ ReadFromOffsets
        \/ ReadKind \/ UnknownKind \/ ReadDeltas \/ ReadDelta
        \/ Ended

Spec == Init /\ [][Next]_vars

-----------------------------------------------------------------------------
(* The file holds all of the encoding, every number is one of Width bits in  *)
(* as many groups as those fill, and every kind is one.                      *)
Groups == (Width + Group - 1) \div Group
Readable(number) ==
    /\ number.n < Limit /\ Size(number.n) + job.pad <= Groups
    /\ number.is = "kind" => number.n < Kinds
WellFormed(list) ==
    /\ job.commands = 1
    /\ job.dataoff + Len(Encoding(list, job.pad)) <= Len(job.data)
    /\ \A i \in DOMAIN ListNumbers(list) : Readable(ListNumbers(list)[i])

(* Every result is what the nested lists in the file denote, and the parser  *)
(* has read exactly their bytes, whatever follows them in the file: dataoff  *)
(* is used and datasize is not (split_seg.cpp:37).  Nothing is returned for  *)
(* a list that is cut off or holds a number or a kind out of range.          *)
ListsParsed ==
    pc = "done" => \A list \in job.encodes :
        /\ WellFormed(list)
        /\ result = Entries(list)
        /\ cursor = job.dataoff + Len(Encoding(list, job.pad))

(* A well-formed list is never refused, padded numbers and numbers of all    *)
(* Width bits included (the two checks of memio.h:83).                       *)
RefusalsJustified ==
    pc \in {"failed", "crashed"} => \A list \in job.encodes : ~WellFormed(list)

(* The number that groups of bits, the lowest first, stand for, in integers  *)
(* without a limit; and the bytes of a number that have been read.           *)
Values(bytes) ==
    LET value[k \in 0 .. Len(bytes)] ==
          IF k = 0 THEN 0 ELSE value[k - 1] + (bytes[k] % Base) * Pow2[Group * (k - 1)]
    IN value
BytesRead == SubSeq(job.data, cursor - bit \div Group + 1, cursor)

(* read_uleb128 never loses bits of a number, in any file whatever: between  *)
(* two bytes its result is the exact value of the bytes read so far.         *)
NumbersExact == pc \in Numbers => acc = Values(BytesRead)[Len(BytesRead)] /\ acc < Limit

(* Counts come from the file and are not checked against it; still a loop    *)
(* of any number of rounds yields no more entries than the file has bytes:   *)
(* each round of every loop reads some.                                      *)
ResultBounded == result # << >> => Len(result) <= cursor - job.dataoff
=============================================================================
