------------------------ MODULE SegmentsPlaceProofs ------------------------
(* Where the kext's bytes are when the replacement ends: the new header can *)
(* be read back, and every section is where it says, whatever the number    *)
(* and sizes of commands, segments and sections.                            *)
EXTENDS SegmentsProofs, FiniteSetTheorems

Cmds == job.kext.cmds

(* A segment that was replaced holds the kext's bytes, and zeros behind     *)
(* them.                                                                    *)
Filled(p) ==
    /\ Replaces(p[2], p[1])
    /\ \A c \in CellsOf(p[2].seg) :
         file[c] = IF c < p[2].seg.fileoff + Used(p[1])
                   THEN New(p[1].seg.fileoff + (c - p[2].seg.fileoff)) ELSE Zero
SegmentsFilled == \A p \in Pairs : p[2].seg.name \in Passed \ {"__TEXT"} => Filled(p)

(* No segment was passed for want of one in the victim. *)
VictimsFound ==
    \A k \in Segs(Cmds) : k.seg.name \in Passed =>
      \E v \in Segs(job.victim) : v.seg.name = k.seg.name

(* current_segments still says what the old header said. *)
CurrentKnown ==
    /\ \A n \in DOMAIN current : current[n] \in Segment
    /\ \A v \in Segs(job.victim) : In(current, v.seg.name) = v.seg

(* A command as it was copied, and as the loop over the header leaves it. *)
Copied(h, c) ==
    h.kind = c.kind /\ h.seg = c.seg /\ h.sections = c.sections /\ h.nsyms = c.nsyms
Placed(h, c) ==
    /\ h.kind = c.kind /\ Len(h.sections) = Len(c.sections)
    /\ h.kind = "symtab" => h.nsyms = 0
    /\ h.kind = "segment" => h.seg.name = c.seg.name
    /\ \A v \in Segs(job.victim) : h.kind = "segment" /\ v.seg.name = c.seg.name =>
         /\ h.seg = v.seg
         /\ \A n \in DOMAIN c.sections :
              LET s == h.sections[n]
                  o == c.sections[n]
              IN /\ s.size = o.size /\ s.zerofill = o.zerofill
                 /\ s.addr = o.addr + (v.seg.vmaddr - c.seg.vmaddr)
                 /\ s.offset = o.offset + (v.seg.fileoff - c.seg.fileoff)

(* The commands copied so far, and those of them that have been corrected. *)
Taken == IF pc = "commands" THEN {n \in KeptIndices : n < i} ELSE KeptIndices
IsFixed(k) == pc \in {"sections", "done"} \/ (pc = "fix" /\ k < i)

Chained ==
    /\ header \in Seq(Command)
    /\ \A k \in DOMAIN header : header[k].at = IF k = 1 THEN 1 ELSE EndOf(header[k - 1])
    /\ w = Dst.fileoff + (IF header = << >> THEN 1 ELSE EndOf(header[Len(header)]))

HeaderHas(n) ==
    LET c == Cmds[n]
        h == header[Place(n)]
    IN /\ IF IsFixed(Place(n)) THEN Placed(h, c) ELSE Copied(h, c)
       /\ CmdSize(h) = CmdSize(c) /\ Dst.fileoff + EndOf(h) <= w
       /\ \A m \in 0 .. CmdSize(c) - 1 : file[Dst.fileoff + h.at + m] = New(c.at + m)

HeaderKnown ==
    /\ Chained
    /\ Len(header) = Cardinality(Taken)
    /\ \A n \in Taken : HeaderHas(n)
    /\ pc # "commands" => \E n \in DOMAIN Cmds : w <= Dst.fileoff + EndOf(Cmds[n])

(* The sections of __TEXT that have been copied behind the header. *)
SectionCopied(t, n) ==
    \A x \in t.sections[n].offset .. t.sections[n].offset + t.sections[n].size - 1 :
      file[Dst.fileoff + x] = New(x)
TextCopied ==
    \A t \in Segs(Cmds) : t.seg.name = "__TEXT" =>
      \A n \in DOMAIN t.sections : pc = "done" \/ n < i => SectionCopied(t, n)

(* The load commands have not gone on behind __TEXT, or they have, until the *)
(* check behind their loop.                                                  *)
WriterInText == w <= Dst.fileoff + Dst.filesize
Overran == pc = "commands" /\ Dst.fileoff + Dst.filesize < w

(* Inv says what was not written; this, what was, at which place, and what   *)
(* the header says of it.  It holds unless the commands have overrun.        *)
PlaceInv ==
    /\ SegmentsFilled /\ VictimsFound
    /\ pc \in Editing \cup {"done"} => TextKnown /\ CurrentKnown /\ HeaderKnown /\ WriterInText
    /\ pc \in {"sections", "done"} => TextCopied

-----------------------------------------------------------------------------
(* The place of a command in the new header. *)
LEMMA PlaceFacts ==
    ASSUME job \in Jobs
    PROVE  /\ IsFiniteSet(KeptIndices) /\ KeptIndices \subseteq DOMAIN Cmds /\ DOMAIN Cmds = 1 .. Len(Cmds)
           /\ \A n \in KeptIndices :
                /\ Place(n) \in 1 .. Cardinality(KeptIndices)
                /\ \A x \in Int : n < x => Place(n) <= Cardinality({m \in KeptIndices : m < x})
           /\ \A n \in KeptIndices : Place(n) = Cardinality({m \in KeptIndices : m < n}) + 1
           /\ \A x \in Int :
                /\ Cardinality({m \in KeptIndices : m < x}) \in Nat
                /\ x \in KeptIndices =>
                     Cardinality({m \in KeptIndices : m < x + 1}) = Cardinality({m \in KeptIndices : m < x}) + 1
                /\ x \notin KeptIndices =>
                     {m \in KeptIndices : m < x + 1} = {m \in KeptIndices : m < x}
<1>1. Cmds \in Seq(Command) /\ DOMAIN Cmds = 1 .. Len(Cmds) /\ Len(Cmds) \in Nat
  BY JobsAssumption DEF Cmds
<1>2. IsFiniteSet(1 .. Len(Cmds))
  BY <1>1, FS_Interval
<1>3. KeptIndices \subseteq DOMAIN Cmds
  BY DEF KeptIndices, Cmds
<1>4. IsFiniteSet(KeptIndices)
  BY <1>1, <1>2, <1>3, FS_Subset
<1>5. \A m \in KeptIndices : m \in Int
  BY <1>1, <1>3
<1>6. ASSUME NEW S, S \subseteq KeptIndices
      PROVE  IsFiniteSet(S) /\ Cardinality(S) \in Nat /\ Cardinality(S) <= Cardinality(KeptIndices)
  <2>1. IsFiniteSet(S) /\ Cardinality(S) <= Cardinality(KeptIndices)
    BY <1>4, <1>6, FS_Subset
  <2> QED BY <2>1, FS_CardinalityType
<1>7. ASSUME NEW n \in KeptIndices
      PROVE  /\ Place(n) = Cardinality({m \in KeptIndices : m < n}) + 1
             /\ {m \in KeptIndices : m <= n} = {m \in KeptIndices : m < n} \cup {n}
  <2>1. {m \in KeptIndices : m <= n} = {m \in KeptIndices : m < n} \cup {n}
    <3>1. \A m \in KeptIndices : m <= n <=> m < n \/ m = n
      BY <1>5
    <3>2. n <= n
      BY <1>5
    <3> QED BY <3>1, <3>2
  <2>2. n \notin {m \in KeptIndices : m < n}
    BY <1>5
  <2>3. IsFiniteSet({m \in KeptIndices : m < n})
    BY <1>6
  <2>4. Cardinality({m \in KeptIndices : m < n} \cup {n}) = Cardinality({m \in KeptIndices : m < n}) + 1
    BY <2>2, <2>3, FS_AddElement
  <2> QED BY <2>1, <2>4 DEF Place
<1>8. ASSUME NEW n \in KeptIndices
      PROVE  /\ Place(n) \in 1 .. Cardinality(KeptIndices)
             /\ \A x \in Int : n < x => Place(n) <= Cardinality({m \in KeptIndices : m < x})
  <2>1. Place(n) = Cardinality({m \in KeptIndices : m < n}) + 1
    BY <1>7
  <2>2. Cardinality({m \in KeptIndices : m < n}) \in Nat /\ Cardinality(KeptIndices) \in Nat
    BY <1>6
  <2>3. Place(n) <= Cardinality(KeptIndices)
    <3>1. {m \in KeptIndices : m <= n} \subseteq KeptIndices
      OBVIOUS
    <3> QED BY <1>6, <3>1 DEF Place
  <2>4. ASSUME NEW x \in Int, n < x
        PROVE  Place(n) <= Cardinality({m \in KeptIndices : m < x})
    <3>1. {m \in KeptIndices : m <= n} \subseteq {m \in KeptIndices : m < x}
      <4>1. \A m \in KeptIndices : m <= n => m < x
        BY <1>5, <2>4
      <4> QED BY <4>1
    <3>2. IsFiniteSet({m \in KeptIndices : m < x})
      BY <1>6
    <3> QED BY <3>1, <3>2, FS_Subset DEF Place
  <2> QED BY <2>1, <2>2, <2>3, <2>4
<1>9. ASSUME NEW x \in Int
      PROVE  /\ Cardinality({m \in KeptIndices : m < x}) \in Nat
             /\ x \in KeptIndices =>
                  Cardinality({m \in KeptIndices : m < x + 1}) = Cardinality({m \in KeptIndices : m < x}) + 1
             /\ x \notin KeptIndices => {m \in KeptIndices : m < x + 1} = {m \in KeptIndices : m < x}
  <2>1. Cardinality({m \in KeptIndices : m < x}) \in Nat
    BY <1>6
  <2>2. {m \in KeptIndices : m < x + 1} = {m \in KeptIndices : m <= x}
    <3>1. \A m \in KeptIndices : m < x + 1 <=> m <= x
      BY <1>5
    <3> QED BY <3>1
  <2>3. x \in KeptIndices =>
          Cardinality({m \in KeptIndices : m < x + 1}) = Cardinality({m \in KeptIndices : m < x}) + 1
    BY <1>7, <2>2 DEF Place
  <2>4. x \notin KeptIndices => {m \in KeptIndices : m < x + 1} = {m \in KeptIndices : m < x}
    <3>1. x \notin KeptIndices => \A m \in KeptIndices : m < x + 1 <=> m < x
      BY <1>5
    <3> QED BY <3>1
  <2> QED BY <2>1, <2>3, <2>4
<1> QED BY <1>1, <1>3, <1>4, <1>7, <1>8, <1>9

(* Correcting a command moves its sections and nothing in the header. *)
LEMMA FixedFacts ==
    ASSUME job \in Jobs, CurrentKnown, NEW h \in Command, NEW c \in Command, Copied(h, c)
    PROVE  Fixed(h) \in Command /\ Fixed(h).at = h.at /\ CmdSize(Fixed(h)) = CmdSize(h)
           /\ Placed(Fixed(h), c)
<1>1. h.kind \in Kinds /\ h.at \in Nat /\ h.seg \in Segment /\ h.sections \in Seq(Section) /\ h.nsyms \in Nat
  BY DEF Command
<1>2. /\ [OldSegment(h) EXCEPT !.name = h.seg.name] \in Segment
      /\ [OldSegment(h) EXCEPT !.name = h.seg.name].name = h.seg.name
      /\ OldSegment(h).vmaddr \in Nat /\ OldSegment(h).fileoff \in Nat
  <2>1. h.seg.name \in STRING
    BY <1>1 DEF Segment
  <2>2. CASE h.seg.name \in DOMAIN current
    <3>1. OldSegment(h) \in Segment
      BY <2>2 DEF CurrentKnown, OldSegment, In
    <3> QED BY <2>1, <3>1 DEF Segment
  <2>3. CASE h.seg.name \notin DOMAIN current
    <3>1. OldSegment(h) = NoSegment
      BY <2>3 DEF OldSegment, In
    <3>2. PICK x \in STRING : x = h.seg.name
      BY <2>1
    <3>3. PICK e : NoSegment = [name |-> e, vmaddr |-> 0, vmsize |-> 0, fileoff |-> 0, filesize |-> 0]
      BY Zenon DEF NoSegment
    <3>4. [NoSegment EXCEPT !.name = x]
            = [name |-> x, vmaddr |-> 0, vmsize |-> 0, fileoff |-> 0, filesize |-> 0]
      BY <3>3
    <3>5. [NoSegment EXCEPT !.name = x] \in Segment /\ [NoSegment EXCEPT !.name = x].name = x
      BY <3>4 DEF Segment
    <3>6. NoSegment.vmaddr \in Nat /\ NoSegment.fileoff \in Nat
      BY <3>3
    <3> QED BY <3>1, <3>2, <3>5, <3>6
  <2> QED BY <2>2, <2>3
<1>3. h.seg.vmaddr \in Nat /\ h.seg.fileoff \in Nat
  BY <1>1 DEF Segment
<1>4. AddrDelta(h) \in Int /\ OffsetDelta(h) \in Int
  BY <1>2, <1>3 DEF AddrDelta, OffsetDelta
<1> DEFINE S(k) == IF k > Len(h.sections) THEN h.sections[k]
                   ELSE [h.sections[k] EXCEPT !.addr = @ + AddrDelta(h), !.offset = @ + OffsetDelta(h)]
           ss == [k \in DOMAIN h.sections |-> S(k)]
<1>5. ASSUME NEW k \in DOMAIN h.sections
      PROVE  /\ S(k) \in Section
             /\ S(k).addr = h.sections[k].addr + AddrDelta(h)
             /\ S(k).offset = h.sections[k].offset + OffsetDelta(h)
             /\ S(k).size = h.sections[k].size /\ S(k).zerofill = h.sections[k].zerofill
  <2>1. h.sections[k] \in Section /\ ~(k > Len(h.sections))
    BY <1>1, <1>5
  <2>2. PICK o : o = h.sections[k]
    OBVIOUS
  <2>3. PICK x \in Int, y \in Int : x = AddrDelta(h) /\ y = OffsetDelta(h)
    BY <1>4
  <2>4. S(k) = [o EXCEPT !.addr = @ + x, !.offset = @ + y]
    BY <2>1, <2>2, <2>3
  <2>5. o \in Section
    BY <2>1, <2>2
  <2> HIDE DEF S
  <2>6. o.addr \in Int /\ o.offset \in Int /\ o.size \in Nat /\ o.zerofill \in BOOLEAN /\ o.reloff \in Nat
        /\ o = [addr |-> o.addr, offset |-> o.offset, size |-> o.size,
                zerofill |-> o.zerofill, reloff |-> o.reloff]
    BY <2>5 DEF Section
  <2>7. S(k) = [addr |-> o.addr + x, offset |-> o.offset + y, size |-> o.size,
                zerofill |-> o.zerofill, reloff |-> o.reloff]
    BY <2>4, <2>6
  <2>8. S(k) \in Section
    BY <2>3, <2>6, <2>7 DEF Section
  <2> QED BY <2>2, <2>3, <2>7, <2>8
<1>6. ss \in Seq(Section) /\ Len(ss) = Len(h.sections) /\ DOMAIN ss = DOMAIN h.sections
  <2>1. DOMAIN ss = 1 .. Len(h.sections) /\ Len(h.sections) \in Nat
    BY <1>1
  <2>2. ss \in [1 .. Len(h.sections) -> Section]
    <3>1. \A k \in DOMAIN h.sections : S(k) \in Section
      BY <1>5
    <3> HIDE DEF S
    <3> QED BY <2>1, <3>1
  <2> HIDE DEF ss
  <2> QED BY <1>1, <2>1, <2>2
<1>7. CASE h.kind = "segment"
  <2> DEFINE f == [h EXCEPT !.seg = [OldSegment(h) EXCEPT !.name = h.seg.name], !.sections = ss]
  <2>1. Fixed(h) = f
    BY <1>7 DEF Fixed, Moved
  <2> HIDE DEF ss, S
  <2>2. f \in Command
    BY <1>1, <1>2, <1>6 DEF Command
  <2>3. /\ f.kind = h.kind /\ f.at = h.at /\ f.sections = ss
        /\ f.seg = [OldSegment(h) EXCEPT !.name = h.seg.name] /\ f.seg.name = h.seg.name
    BY <1>1, <1>2 DEF Command
  <2>4. CmdSize(f) = CmdSize(h)
    BY <1>6, <2>3 DEF CmdSize
  <2>5. ASSUME NEW v \in Segs(job.victim), v.seg.name = c.seg.name
        PROVE  /\ f.seg = v.seg
               /\ \A n \in DOMAIN c.sections :
                    LET s == f.sections[n]
                        o == c.sections[n]
                    IN /\ s.size = o.size /\ s.zerofill = o.zerofill
                       /\ s.addr = o.addr + (v.seg.vmaddr - c.seg.vmaddr)
                       /\ s.offset = o.offset + (v.seg.fileoff - c.seg.fileoff)
    <3>1. OldSegment(h) = v.seg
      BY <2>5 DEF OldSegment, CurrentKnown, Copied
    <3>2. v.seg \in Segment
      BY VictimFacts DEF Command
    <3>3. f.seg = v.seg
      <4>1. v.seg.name = h.seg.name
        BY <2>5 DEF Copied
      <4> QED BY <2>3, <3>1, <3>2, <4>1 DEF Segment
    <3>4. AddrDelta(h) = v.seg.vmaddr - c.seg.vmaddr /\ OffsetDelta(h) = v.seg.fileoff - c.seg.fileoff
      BY <3>1 DEF AddrDelta, OffsetDelta, Copied
    <3>5. h.sections = c.sections
      BY DEF Copied
    <3>6. ASSUME NEW n \in DOMAIN c.sections
          PROVE  LET s == f.sections[n]
                     o == c.sections[n]
                 IN /\ s.size = o.size /\ s.zerofill = o.zerofill
                    /\ s.addr = o.addr + (v.seg.vmaddr - c.seg.vmaddr)
                    /\ s.offset = o.offset + (v.seg.fileoff - c.seg.fileoff)
      <4>1. n \in DOMAIN h.sections /\ h.sections[n] = c.sections[n]
        BY <3>5, <3>6
      <4>2. f.sections[n] = S(n)
        BY <2>3, <4>1 DEF ss
      <4> HIDE DEF f, S
      <4> QED BY <1>5, <3>4, <4>1, <4>2
    <3> QED BY <3>3, <3>6
  <2>6. Placed(f, c)
    <3>1. h.kind = c.kind /\ Len(f.sections) = Len(c.sections) /\ f.seg.name = c.seg.name
      BY <1>6, <2>3 DEF Copied
    <3> HIDE DEF f
    <3> QED BY <1>7, <2>3, <2>5, <3>1 DEF Placed
  <2> QED BY <2>1, <2>2, <2>3, <2>4, <2>6
<1>8. CASE h.kind # "segment"
  <2> DEFINE f == IF h.kind = "symtab" THEN [h EXCEPT !.nsyms = 0] ELSE h
  <2>1. Fixed(h) = f
    BY <1>8 DEF Fixed
  <2>2. f \in Command /\ f.kind = h.kind /\ f.at = h.at /\ f.sections = h.sections
        /\ (h.kind = "symtab" => f.nsyms = 0)
    BY <1>1 DEF Command
  <2> HIDE DEF f
  <2>3. CmdSize(f) = CmdSize(h) /\ Placed(f, c)
    BY <1>8, <2>2 DEF CmdSize, Placed, Copied
  <2> QED BY <2>1, <2>2, <2>3
<1> QED BY <1>7, <1>8

-----------------------------------------------------------------------------
(* What a step that writes leaves alone. *)

LEMMA WrittenFacts ==
    ASSUME NEW f, NEW a \in Int, NEW n \in Nat, NEW o, NEW b \in Int, NEW c \in Cells
    PROVE  /\ c < a \/ (a + n <= c /\ b <= c) => Written(f, a, n, o, b)[c] = f[c]
           /\ a <= c /\ c < a + n => Written(f, a, n, o, b)[c] = New(o + (c - a))
           /\ a <= c /\ a + n <= c /\ c < b => Written(f, a, n, o, b)[c] = Zero
<1>1. c \in Int
  BY JobsAssumption DEF Cells
<1>2. Written(f, a, n, o, b)[c] =
        IF a <= c /\ c < a + n THEN New(o + (c - a))
        ELSE IF a + n <= c /\ c < b THEN Zero ELSE f[c]
  BY DEF Written
<1> QED BY <1>1, <1>2

(* A writer within one segment of the victim leaves the others alone. *)
LEMMA OthersKept ==
    ASSUME AllSupported, job \in Jobs,
           NEW v \in Segs(job.victim), NEW u \in Segs(job.victim), u.seg.name # v.seg.name,
           NEW a \in Int, NEW n \in Nat, NEW o, NEW b \in Int,
           v.seg.fileoff <= a, a + n <= v.seg.fileoff + v.seg.filesize,
           b <= v.seg.fileoff + v.seg.filesize,
           NEW c \in CellsOf(u.seg)
    PROVE  Written(file, a, n, o, b)[c] = file[c]
<1>1. c \in Cells /\ c \in Int
  BY VictimFacts, JobsAssumption DEF Cells
<1>2. c \notin CellsOf(v.seg)
  BY DEF AllSupported, Supported, VictimApart
<1>3. v.seg.fileoff \in Nat /\ v.seg.filesize \in Nat
  BY VictimFacts
<1>4. c < a \/ (a + n <= c /\ b <= c)
  BY <1>1, <1>2, <1>3 DEF CellsOf
<1> QED BY <1>1, <1>4, WrittenFacts

LEMMA FilledFrame ==
    ASSUME job' = job, SegmentsFilled, Passed' \ {"__TEXT"} \subseteq Passed,
           \A p \in Pairs : p[2].seg.name # "__TEXT" =>
             \A c \in CellsOf(p[2].seg) : file'[c] = file[c]
    PROVE  SegmentsFilled'
<1>1. Pairs' = Pairs
  BY DEF Pairs, Victims
<1>2. ASSUME NEW p \in Pairs, p[2].seg.name \in Passed' \ {"__TEXT"}
      PROVE  Filled(p)'
  <2>1. Filled(p)
    BY <1>2 DEF SegmentsFilled
  <2>2. \A c \in CellsOf(p[2].seg) : file'[c] = file[c]
    BY <1>2
  <2>3. Replaces(p[2], p[1])'
    BY <2>1 DEF Filled, Replaces
  <2> QED BY <2>1, <2>2, <2>3 DEF Filled
<1> QED BY <1>1, <1>2 DEF SegmentsFilled

(* From BeginText on the writer is in the victim's __TEXT. *)
LEMMA TextRoom ==
    ASSUME AllSupported, Inv, PlaceInv, pc \in Editing
    PROVE  \E v \in Segs(job.victim), k \in Segs(Cmds) :
             /\ v.seg.name = "__TEXT" /\ k.seg.name = "__TEXT" /\ Dst = v.seg /\ TextFits(v.seg, k)
             /\ v.seg.fileoff \in Nat /\ v.seg.filesize \in Nat
             /\ v.seg.fileoff + v.seg.filesize <= FileSize
             /\ \A n \in DOMAIN Cmds : EndOf(Cmds[n]) \in Nat
             /\ w \in Nat /\ v.seg.fileoff < w /\ w <= v.seg.fileoff + v.seg.filesize
<1>1. job \in Jobs /\ TextKnown /\ HeaderKnown /\ i \in Nat \ {0} /\ WriterInText
  BY DEF Inv, PlaceInv
<1>2. PICK v \in Segs(job.victim), k \in Segs(job.kext.cmds) :
        v.seg.name = "__TEXT" /\ k.seg.name = "__TEXT" /\ Dst = v.seg /\ TextFits(Dst, k)
  BY <1>1 DEF TextKnown
<1>3. /\ v.seg.fileoff \in Nat /\ v.seg.filesize \in Nat
      /\ v.seg.fileoff + v.seg.filesize <= FileSize
  BY <1>1, <1>2, VictimFacts
<1>4. \A n \in DOMAIN Cmds : EndOf(Cmds[n]) \in Nat
  BY <1>1, KextFacts DEF Cmds
<1>5. w \in Nat /\ v.seg.fileoff < w
  <2>1. header \in Seq(Command)
    BY <1>1 DEF HeaderKnown, Chained
  <2>2. CASE header = << >>
    BY <1>1, <1>2, <1>3, <2>2 DEF HeaderKnown, Chained
  <2>3. CASE header # << >>
    <3>1. header[Len(header)] \in Command
      BY <2>1, <2>3
    <3>2. EndOf(header[Len(header)]) \in Nat \ {0}
      BY <3>1 DEF Command, EndOf, CmdSize
    <3> QED BY <1>1, <1>2, <1>3, <2>3, <3>2 DEF HeaderKnown, Chained
  <2> QED BY <2>2, <2>3
<1>6. w <= v.seg.fileoff + v.seg.filesize
  BY <1>1, <1>2 DEF WriterInText
<1> QED BY <1>2, <1>3, <1>4, <1>5, <1>6 DEF Cmds

LEMMA TakenFacts ==
    ASSUME job \in Jobs, i \in Nat, HeaderKnown, NEW n \in Taken
    PROVE  /\ n \in KeptIndices /\ n \in DOMAIN Cmds /\ n \in Nat \ {0} /\ DOMAIN header = 1 .. Len(header)
           /\ Place(n) \in Nat \ {0} /\ Place(n) <= Len(header) /\ Place(n) \in DOMAIN header
           /\ header[Place(n)] \in Command /\ header[Place(n)].at \in Nat
           /\ CmdSize(header[Place(n)]) \in Nat \ {0}
           /\ EndOf(header[Place(n)]) = header[Place(n)].at + CmdSize(header[Place(n)])
           /\ HeaderHas(n)
<1>1. n \in KeptIndices /\ n \in DOMAIN Cmds /\ n \in Nat \ {0}
  BY PlaceFacts DEF Taken
<1>2. header \in Seq(Command) /\ DOMAIN header = 1 .. Len(header) /\ Len(header) \in Nat
  BY DEF HeaderKnown, Chained
<1>3. Place(n) \in Nat \ {0} /\ Place(n) <= Len(header)
  <2>1. Place(n) \in 1 .. Cardinality(KeptIndices) /\ Place(n) \in Int
    BY <1>1, PlaceFacts
  <2>2. CASE pc = "commands"
    <3>1. Len(header) = Cardinality({m \in KeptIndices : m < i})
      BY <2>2 DEF HeaderKnown, Taken
    <3>2. n < i
      BY <2>2 DEF Taken
    <3>3. Place(n) <= Cardinality({m \in KeptIndices : m < i})
      BY <1>1, <3>2, PlaceFacts
    <3> QED BY <2>1, <3>1, <3>3
  <2>3. CASE pc # "commands"
    BY <2>1, <2>3 DEF HeaderKnown, Taken
  <2> QED BY <2>2, <2>3
<1>4. Place(n) \in DOMAIN header /\ header[Place(n)] \in Command
  BY <1>2, <1>3
<1>5. header[Place(n)].at \in Nat /\ CmdSize(header[Place(n)]) \in Nat \ {0}
  BY <1>4 DEF Command, CmdSize
<1> QED BY <1>1, <1>2, <1>3, <1>4, <1>5 DEF HeaderKnown, EndOf

(* A command keeps its place when nothing is written into the header. *)
LEMMA HeaderFrame ==
    ASSUME AllSupported, Inv, PlaceInv, pc \in Editing, NEW n \in Taken,
           job' = job, current' = current, header'[Place(n)] = header[Place(n)],
           w' \in Int, w <= w',
           IsFixed(Place(n))' <=> IsFixed(Place(n)),
           \A c \in Cells : c < w => file'[c] = file[c]
    PROVE  HeaderHas(n)'
<1>1. job \in Jobs /\ i \in Nat /\ HeaderKnown
  BY DEF Inv, PlaceInv
<1>2. PICK v \in Segs(job.victim) :
        /\ Dst = v.seg /\ v.seg.fileoff \in Nat /\ v.seg.filesize \in Nat
        /\ v.seg.fileoff + v.seg.filesize <= FileSize
        /\ w \in Nat /\ w <= v.seg.fileoff + v.seg.filesize
  BY TextRoom
<1>3. PICK h \in Command : h = header[Place(n)]
  BY <1>1, TakenFacts
<1>4. h.at \in Nat /\ CmdSize(h) \in Nat \ {0} /\ EndOf(h) = h.at + CmdSize(h) /\ HeaderHas(n)
  BY <1>1, <1>3, TakenFacts
<1>5. Cmds' = Cmds /\ Dst' = Dst /\ Place(n)' = Place(n)
  BY DEF Cmds, Dst, Place, KeptIndices
<1>6. PICK c : c = Cmds[n]
  OBVIOUS
<1>7. /\ IF IsFixed(Place(n)) THEN Placed(h, c) ELSE Copied(h, c)
      /\ CmdSize(h) = CmdSize(c) /\ Dst.fileoff + EndOf(h) <= w
      /\ \A m \in 0 .. CmdSize(c) - 1 : file[Dst.fileoff + h.at + m] = New(c.at + m)
  BY <1>3, <1>4, <1>6 DEF HeaderHas
<1>8. Placed(h, c)' <=> Placed(h, c)
  BY DEF Placed
<1>9. ASSUME NEW m \in 0 .. CmdSize(c) - 1
      PROVE  file'[Dst.fileoff + h.at + m] = New(c.at + m)
  <2>1. Dst.fileoff + h.at + m \in Cells /\ Dst.fileoff + h.at + m < w
    <3>1. m \in Nat /\ m < CmdSize(h)
      BY <1>4, <1>7
    <3>2. Dst.fileoff \in Nat /\ w <= FileSize /\ FileSize \in Nat
      BY <1>2, JobsAssumption
    <3>3. Dst.fileoff + h.at + m \in Nat /\ Dst.fileoff + h.at + m < w
      BY <1>2, <1>4, <1>7, <3>1, <3>2
    <3> QED BY <1>2, <3>2, <3>3 DEF Cells
  <2> QED BY <1>7, <2>1
<1>10. header'[Place(n)'] = h /\ Cmds'[n] = c /\ Dst.fileoff + EndOf(h) <= w'
  BY <1>2, <1>3, <1>4, <1>5, <1>6, <1>7
<1> QED BY <1>5, <1>7, <1>8, <1>9, <1>10 DEF HeaderHas

-----------------------------------------------------------------------------
LEMMA InitPlace == Init => PlaceInv
<1> SUFFICES ASSUME Init PROVE PlaceInv
  OBVIOUS
<1>1. Passed = {} /\ pc \notin Editing \cup {"done"}
  BY DEF Init, Passed, Editing
<1> QED BY <1>1 DEF PlaceInv, SegmentsFilled, VictimsFound, Editing

(* __TEXT_EXEC, __DATA_CONST and __DATA. *)
LEMMA ReplaceSegmentPlace ==
    ASSUME AllSupported, Inv, PlaceInv,
           NEW s \in Copying, NEW after \in Copying \cup {"__TEXT"},
           ReplaceSegment(s, after), Passed' = Passed \cup {s}
    PROVE  PlaceInv'
<1>1. job \in Jobs /\ job' = job /\ pc = s /\ pc' = after /\ header = job.victim
  BY DEF Inv, ReplaceSegment
<1>2. job.victim \in Seq(Command) /\ job.kext.cmds \in Seq(Command)
  BY <1>1, JobsAssumption
<1>3. PICK v \in ReadSegment(job.victim, s), k \in ReadSegment(job.kext.cmds, s) :
        /\ Replaces(v, k)
        /\ file' = Written(file, v.seg.fileoff, Used(k), k.seg.fileoff, Remainder(v.seg, Used(k)))
  BY <1>1 DEF ReplaceSegment
<1>4. v \in Segs(job.victim) /\ v.seg.name = s /\ k \in Segs(job.kext.cmds) /\ k.seg.name = s
  BY <1>2, TheSegment
<1>5. v.seg.fileoff \in Nat /\ v.seg.filesize \in Nat /\ Used(k) \in Int
  BY <1>1, <1>4, VictimFacts, UsedFacts
<1>6. Used(k) \in Nat /\ Used(k) <= v.seg.filesize
      /\ Remainder(v.seg, Used(k)) = v.seg.fileoff + v.seg.filesize
  BY <1>3, <1>5 DEF Replaces, FitsIn, Available, Remainder
<1>7. PICK b \in Int : b = v.seg.fileoff + v.seg.filesize
  BY <1>5
<1>8. file' = Written(file, v.seg.fileoff, Used(k), k.seg.fileoff, b)
  BY <1>3, <1>6, <1>7
<1>9. ASSUME NEW c \in CellsOf(v.seg)
      PROVE  file'[c] = IF c < v.seg.fileoff + Used(k)
                        THEN New(k.seg.fileoff + (c - v.seg.fileoff)) ELSE Zero
  <2>1. c \in Cells /\ c \in Int /\ v.seg.fileoff <= c /\ c < b
    BY <1>1, <1>4, <1>5, <1>7, VictimFacts DEF CellsOf
  <2>2. PICK a \in Nat, n \in Nat : a = v.seg.fileoff /\ n = Used(k)
    BY <1>5, <1>6
  <2>3. file'[c] = Written(file, a, n, k.seg.fileoff, b)[c]
    BY <1>8, <2>2
  <2>4. Written(file, a, n, k.seg.fileoff, b)[c] = IF c < a + n THEN New(k.seg.fileoff + (c - a)) ELSE Zero
    BY <1>7, <2>1, <2>2 DEF Written
  <2> QED BY <2>2, <2>3, <2>4
<1>10. ASSUME NEW u \in Segs(job.victim), u.seg.name # s, NEW c \in CellsOf(u.seg)
       PROVE  file'[c] = file[c]
  <2>1. v.seg.fileoff <= v.seg.fileoff /\ v.seg.fileoff + Used(k) <= v.seg.fileoff + v.seg.filesize
        /\ b <= v.seg.fileoff + v.seg.filesize /\ v.seg.fileoff \in Int
    BY <1>5, <1>6, <1>7
  <2>2. Written(file, v.seg.fileoff, Used(k), k.seg.fileoff, b)[c] = file[c]
    BY <1>1, <1>4, <1>6, <1>10, <2>1, OthersKept
  <2> QED BY <1>8, <2>2
<1>11. Pairs' = Pairs
  BY <1>1 DEF Pairs, Victims
<1>12. ASSUME NEW p \in Pairs, p[2].seg.name \in Passed' \ {"__TEXT"}
       PROVE  Filled(p)'
  <2>1. p[1] \in Segs(job.kext.cmds) /\ p[2] \in Segs(job.victim) /\ p[1].seg.name = p[2].seg.name
    BY DEF Pairs, Victims
  <2>2. CASE p[2].seg.name = s
    <3>1. p[2] = v
      BY <1>1, <1>4, <2>1, <2>2, TheVictim
    <3>2. p[1] = k
      BY <1>1, <1>4, <2>1, <2>2 DEF AllSupported, Supported, NamesUnique, Segs
    <3>3. Replaces(v, k)'
      BY <1>1, <1>3 DEF Replaces
    <3> QED BY <1>9, <3>1, <3>2, <3>3 DEF Filled
  <2>3. CASE p[2].seg.name # s
    <3>1. Filled(p)
      BY <1>12, <2>3 DEF PlaceInv, SegmentsFilled
    <3>2. Replaces(p[2], p[1])'
      BY <1>1, <3>1 DEF Filled, Replaces
    <3>3. \A c \in CellsOf(p[2].seg) : file'[c] = file[c]
      BY <1>10, <2>1, <2>3
    <3> QED BY <3>1, <3>2, <3>3 DEF Filled
  <2> QED BY <2>2, <2>3
<1>13. SegmentsFilled'
  BY <1>11, <1>12 DEF SegmentsFilled
<1>14. VictimsFound'
  BY <1>1, <1>4 DEF PlaceInv, VictimsFound, Cmds
<1> QED BY <1>1, <1>13, <1>14 DEF PlaceInv, Editing, Copying

LEMMA KextHasNotPlace ==
    ASSUME AllSupported, Inv, PlaceInv,
           NEW s \in Copying, NEW after \in Copying \cup {"__TEXT"},
           KextHasNot(s, after), Passed' = Passed \cup {s}
    PROVE  PlaceInv'
<1>1. job \in Jobs /\ job' = job /\ pc' = after /\ file' = file
  BY DEF Inv, KextHasNot
<1>2. \A c \in Segs(job.kext.cmds) : c.seg.name # s
  <2>1. NamesUnique(job.kext.cmds) /\ job.kext.cmds \in Seq(Command)
    BY <1>1, JobsAssumption DEF AllSupported, Supported
  <2> QED BY <2>1, TheSegment DEF KextHasNot
<1>3. SegmentsFilled'
  <2>1. Pairs' = Pairs /\ \A p \in Pairs : p[2].seg.name # s
    BY <1>1, <1>2 DEF Pairs, Victims
  <2>2. \A p \in Pairs : Filled(p)' <=> Filled(p)
    BY <1>1 DEF Filled, Replaces
  <2> QED BY <2>1, <2>2 DEF PlaceInv, SegmentsFilled
<1>4. VictimsFound'
  BY <1>1, <1>2 DEF PlaceInv, VictimsFound, Cmds
<1> QED BY <1>1, <1>3, <1>4 DEF PlaceInv, Editing, Copying

LEMMA CopySegmentsPlace ==
    ASSUME AllSupported, Inv, PlaceInv, CopySegments
    PROVE  PlaceInv'
<1>1. ASSUME NEW s \in Copying, NEW after \in Copying \cup {"__TEXT"},
             ReplaceSegment(s, after) \/ KextHasNot(s, after),
             Passed' = Passed \cup {s}
      PROVE  PlaceInv'
  BY <1>1, ReplaceSegmentPlace, KextHasNotPlace
<1>2. CASE ReplaceSegment("__TEXT_EXEC", "__DATA_CONST") \/ KextHasNot("__TEXT_EXEC", "__DATA_CONST")
  <2>1. Passed' = Passed \cup {"__TEXT_EXEC"}
    BY <1>2 DEF ReplaceSegment, KextHasNot, Passed
  <2> QED BY <1>1, <1>2, <2>1 DEF Copying
<1>3. CASE ReplaceSegment("__DATA_CONST", "__DATA") \/ KextHasNot("__DATA_CONST", "__DATA")
  <2>1. Passed' = Passed \cup {"__DATA_CONST"}
    BY <1>3 DEF ReplaceSegment, KextHasNot, Passed
  <2> QED BY <1>1, <1>3, <2>1 DEF Copying
<1>4. CASE ReplaceSegment("__DATA", "__TEXT") \/ KextHasNot("__DATA", "__TEXT")
  <2>1. Passed' = Passed \cup {"__DATA"}
    BY <1>4 DEF ReplaceSegment, KextHasNot, Passed
  <2> QED BY <1>1, <1>4, <2>1 DEF Copying
<1> QED BY <1>2, <1>3, <1>4 DEF CopySegments

(* current_segments has every segment of the victim under its name. *)
LEMMA CurrentIsVictim ==
    ASSUME AllSupported, job \in Jobs, header = job.victim, current' = CurrentSegments, job' = job
    PROVE  CurrentKnown'
<1>1. header \in Seq(Command) /\ NamesUnique(header) /\ SegmentsOf(header) \subseteq DOMAIN header
  BY JobsAssumption DEF AllSupported, Supported, SegmentsOf
<1>2. \A n \in DOMAIN header : n \in Int /\ header[n] \in Command
  BY <1>1
<1> DEFINE Newest(x) == CHOOSE m \in SegmentsOf(header) : header[m].seg.name = x /\
              \A q \in SegmentsOf(header) : header[q].seg.name = x => q <= m
<1>3. ASSUME NEW n \in SegmentsOf(header)
      PROVE  Newest(header[n].seg.name) = n
  <2>1. \A q \in SegmentsOf(header) : header[q].seg.name = header[n].seg.name => q = n
    BY <1>1, <1>3 DEF NamesUnique
  <2>2. n <= n
    BY <1>1, <1>2, <1>3
  <2> QED BY <2>1, <2>2
<1>4. /\ DOMAIN CurrentSegments = {header[n].seg.name : n \in SegmentsOf(header)}
      /\ \A x \in DOMAIN CurrentSegments : CurrentSegments[x] = header[Newest(x)].seg
  BY DEF CurrentSegments
<1> HIDE DEF Newest
<1>5. ASSUME NEW n \in SegmentsOf(header)
      PROVE  /\ header[n].seg.name \in DOMAIN CurrentSegments
             /\ CurrentSegments[header[n].seg.name] = header[n].seg
             /\ header[n].seg \in Segment
  <2>1. header[n].seg \in Segment
    BY <1>1, <1>2, <1>5 DEF Command
  <2> QED BY <1>3, <1>4, <1>5, <2>1
<1>6. \A x \in DOMAIN CurrentSegments : CurrentSegments[x] \in Segment
  BY <1>4, <1>5
<1>7. \A v \in Segs(job.victim) : In(CurrentSegments, v.seg.name) = v.seg
  BY <1>5 DEF Segs, In
<1> QED BY <1>6, <1>7 DEF CurrentKnown

LEMMA BeginTextPlace ==
    ASSUME AllSupported, Inv, PlaceInv, BeginText, ~Overran'
    PROVE  PlaceInv'
<1>1. job \in Jobs /\ job' = job /\ pc = "__TEXT" /\ pc' = "commands" /\ header = job.victim
      /\ header' = << >> /\ i' = 1 /\ current' = CurrentSegments /\ Inv'
  BY BeginTextInv DEF Inv, BeginText
<1>2. CurrentKnown' /\ TextKnown'
  BY <1>1, CurrentIsVictim DEF Inv, Editing
<1>3. PICK v \in Segs(job.victim), k \in Segs(job.kext.cmds) :
        v.seg.name = "__TEXT" /\ k.seg.name = "__TEXT" /\ Dst' = v.seg /\ TextFits(v.seg, k)
  BY <1>1, <1>2 DEF TextKnown, TextFits
<1>4. /\ v.seg.fileoff \in Nat /\ v.seg.filesize \in Nat \ {0}
      /\ WriterInText'
  <2>1. v.seg.fileoff \in Nat /\ v.seg.filesize \in Nat
    BY <1>1, <1>3, VictimFacts
  <2>2. w' = v.seg.fileoff + 1
    BY <1>3 DEF BeginText
  <2>3. ~(v.seg.fileoff + v.seg.filesize < v.seg.fileoff + 1)
    BY <1>1, <1>3, <2>2 DEF Overran
  <2> QED BY <1>3, <2>1, <2>2, <2>3 DEF WriterInText
<1>5. Passed' = Passed
  BY <1>1 DEF Passed
<1>6. SegmentsFilled'
  <2>1. ASSUME NEW p \in Pairs, p[2].seg.name # "__TEXT", NEW c \in CellsOf(p[2].seg)
        PROVE  file'[c] = file[c]
    <3>1. p[2] \in Segs(job.victim)
      BY DEF Pairs, Victims
    <3>2. v.seg.fileoff <= v.seg.fileoff /\ v.seg.fileoff + 1 <= v.seg.fileoff + v.seg.filesize
          /\ 0 <= v.seg.fileoff + v.seg.filesize /\ v.seg.fileoff \in Int /\ 1 \in Nat /\ 0 \in Int
      BY <1>4
    <3>3. Written(file, v.seg.fileoff, 1, 0, 0)[c] = file[c]
      BY <1>1, <1>3, <2>1, <3>1, <3>2, OthersKept
    <3> QED BY <1>3, <3>3 DEF BeginText
  <2> QED BY <1>1, <1>5, <2>1, FilledFrame DEF PlaceInv
<1>7. VictimsFound'
  BY <1>1, <1>5 DEF PlaceInv, VictimsFound, Cmds
<1>8. HeaderKnown'
  <2>1. Taken' = {}
    <3>1. \A n \in KeptIndices' : ~(n < 1)
      <4>1. KeptIndices' = KeptIndices
        BY <1>1 DEF KeptIndices
      <4>2. \A n \in KeptIndices : n \in Nat \ {0}
        BY <1>1, PlaceFacts
      <4> QED BY <4>1, <4>2
    <3> QED BY <1>1, <3>1 DEF Taken
  <2>2. Len(header') = 0 /\ DOMAIN header' = {} /\ header' \in Seq(Command)
    BY <1>1
  <2>3. Cardinality({}) = 0
    BY FS_EmptySet
  <2>4. w' = Dst'.fileoff + 1
    BY DEF BeginText
  <2> QED BY <1>1, <2>1, <2>2, <2>3, <2>4 DEF HeaderKnown, Chained
<1> QED BY <1>1, <1>2, <1>4, <1>6, <1>7, <1>8 DEF PlaceInv, Editing

-----------------------------------------------------------------------------
(* replace_text_segment, from the copy of its commands on. *)

(* A step of it keeps the segments that were copied before. *)
LEMMA EditingFrame ==
    ASSUME AllSupported, Inv, PlaceInv, pc \in Editing, pc' \in Editing \cup {"done"},
           job' = job, current' = current, TextKnown',
           \A u \in Segs(job.victim) : u.seg.name # "__TEXT" =>
             \A c \in CellsOf(u.seg) : file'[c] = file[c]
    PROVE  SegmentsFilled' /\ VictimsFound' /\ TextKnown' /\ CurrentKnown' /\ Dst' = Dst
<1>1. Passed' \subseteq Passed \cup {"__TEXT"}
  BY DEF Passed, Editing, Replaceable
<1>2. SegmentsFilled'
  <2>1. \A p \in Pairs : p[2] \in Segs(job.victim)
    BY DEF Pairs, Victims
  <2> QED BY <1>1, <2>1, FilledFrame DEF PlaceInv
<1>3. VictimsFound'
  <2>1. \E v \in Segs(job.victim) : v.seg.name = "__TEXT"
    BY DEF PlaceInv, TextKnown
  <2> QED BY <1>1, <2>1 DEF PlaceInv, VictimsFound, Cmds
<1>4. CurrentKnown'
  BY DEF PlaceInv, CurrentKnown
<1> QED BY <1>2, <1>3, <1>4 DEF Dst

(* What a writer in __TEXT leaves alone. *)
LEMMA TextWriter ==
    ASSUME AllSupported, job \in Jobs, NEW v \in Segs(job.victim), v.seg.name = "__TEXT",
           NEW a \in Int, NEW n \in Nat, NEW o, NEW b \in Int,
           v.seg.fileoff <= a, a + n <= v.seg.fileoff + v.seg.filesize,
           b <= v.seg.fileoff + v.seg.filesize,
           file' = Written(file, a, n, o, b)
    PROVE  /\ \A u \in Segs(job.victim) : u.seg.name # "__TEXT" =>
                \A c \in CellsOf(u.seg) : file'[c] = file[c]
           /\ \A c \in Cells : c < a => file'[c] = file[c]
           /\ \A c \in Cells : a <= c /\ c < a + n => file'[c] = New(o + (c - a))
<1>1. ASSUME NEW u \in Segs(job.victim), u.seg.name # "__TEXT", NEW c \in CellsOf(u.seg)
      PROVE  file'[c] = file[c]
  BY <1>1, OthersKept
<1>2. ASSUME NEW c \in Cells
      PROVE  /\ c < a => file'[c] = file[c]
             /\ a <= c /\ c < a + n => file'[c] = New(o + (c - a))
  <2>1. c \in Int
    BY JobsAssumption DEF Cells
  <2>2. file'[c] = IF a <= c /\ c < a + n THEN New(o + (c - a))
                   ELSE IF a + n <= c /\ c < b THEN Zero ELSE file[c]
    BY DEF Written
  <2>3. a <= c /\ c < a + n => file'[c] = New(o + (c - a))
    BY <2>2
  <2>4. c < a => ~(a <= c) /\ ~(a + n <= c)
    BY <2>1
  <2>5. c < a => file'[c] = file[c]
    BY <2>2, <2>4
  <2> QED BY <2>3, <2>5
<1> QED BY <1>1, <1>2

LEMMA CopyCommandPlace ==
    ASSUME AllSupported, Inv, PlaceInv, CopyCommand, ~Overran'
    PROVE  PlaceInv'
<1>1. job \in Jobs /\ job' = job /\ pc = "commands" /\ pc' = pc /\ current' = current
      /\ i \in Nat \ {0} /\ WriterBehind /\ HeaderKnown /\ CurrentKnown /\ TextKnown'
  BY CopyCommandInv DEF Inv, CopyCommand, PlaceInv, Editing
<1>2. /\ i' = i + 1 /\ w' = w + CmdSize(Cmd) /\ file' = Written(file, w, CmdSize(Cmd), Cmd.at, 0)
      /\ header' = Append(header, [Cmd EXCEPT !.at = w - Dst.fileoff])
      /\ i <= Len(Cmds) /\ Cmd.kind \in Kept /\ Cmd = Cmds[i]
  BY DEF CopyCommand, Cmd, Cmds
<1>3. PICK v \in Segs(job.victim) :
        /\ v.seg.name = "__TEXT" /\ Dst = v.seg
        /\ v.seg.fileoff \in Nat /\ v.seg.filesize \in Nat /\ v.seg.fileoff + v.seg.filesize <= FileSize
        /\ w \in Nat /\ v.seg.fileoff < w
  BY <1>1, TextRoom DEF Editing
<1>4. i \in DOMAIN Cmds /\ i \in KeptIndices
  <2>1. Cmds \in Seq(Command)
    BY <1>1, JobsAssumption DEF Cmds
  <2>2. i \in DOMAIN Cmds
    BY <1>1, <1>2, <2>1
  <2> QED BY <1>2, <2>2 DEF KeptIndices, Cmds
<1>5. PICK c \in Command : c = Cmd
  BY <1>1, <1>2, <1>4, KextFacts DEF Cmds
<1>6. c.at = Reader /\ c.at \in Nat /\ CmdSize(c) \in Nat \ {0} /\ EndOf(c) = c.at + CmdSize(c)
  BY <1>1, <1>2, <1>4, <1>5, KextFacts DEF Cmds, Reader, EndOf
<1>7. w + CmdSize(c) <= v.seg.fileoff + v.seg.filesize
  <2>1. Dst' = v.seg /\ w' = w + CmdSize(c)
    BY <1>1, <1>2, <1>3, <1>5 DEF Dst
  <2> QED BY <1>1, <1>3, <1>6, <2>1 DEF Overran
<1>8. /\ \A u \in Segs(job.victim) : u.seg.name # "__TEXT" =>
           \A x \in CellsOf(u.seg) : file'[x] = file[x]
      /\ \A x \in Cells : x < w => file'[x] = file[x]
      /\ \A x \in Cells : w <= x /\ x < w + CmdSize(c) => file'[x] = New(c.at + (x - w))
  <2>1. w \in Int /\ CmdSize(c) \in Nat /\ 0 \in Int /\ v.seg.fileoff <= w
        /\ 0 <= v.seg.fileoff + v.seg.filesize
    BY <1>3, <1>6
  <2>2. file' = Written(file, w, CmdSize(c), c.at, 0)
    BY <1>2, <1>5
  <2> QED BY <1>1, <1>3, <1>7, <2>1, <2>2, TextWriter
<1>9. SegmentsFilled' /\ VictimsFound' /\ CurrentKnown' /\ Dst' = v.seg
  BY <1>1, <1>3, <1>8, EditingFrame DEF Editing
<1>10. PICK x : x = [c EXCEPT !.at = w - v.seg.fileoff]
  OBVIOUS
<1>11. /\ x \in Command /\ x.at = w - v.seg.fileoff /\ Copied(x, c)
       /\ CmdSize(x) = CmdSize(c) /\ EndOf(x) = w + CmdSize(c) - v.seg.fileoff
  <2>1. w - v.seg.fileoff \in Nat
    BY <1>3
  <2>2. x \in Command /\ x.at = w - v.seg.fileoff /\ x.sections = c.sections /\ Copied(x, c)
    BY <1>10, <2>1 DEF Command, Copied
  <2>3. CmdSize(x) = CmdSize(c)
    BY <2>2 DEF CmdSize
  <2> QED BY <1>3, <1>6, <2>2, <2>3 DEF EndOf
<1>12. header \in Seq(Command) /\ header' = Append(header, x)
  BY <1>1, <1>2, <1>3, <1>5, <1>10 DEF HeaderKnown, Chained
<1>13. /\ header' \in Seq(Command) /\ Len(header') = Len(header) + 1 /\ header'[Len(header) + 1] = x
       /\ Len(header) \in Nat /\ DOMAIN header' = 1 .. Len(header) + 1 /\ DOMAIN header = 1 .. Len(header)
       /\ \A k \in DOMAIN header : header'[k] = header[k]
  BY <1>11, <1>12
<1>14. Chained'
  <2>1. w = v.seg.fileoff + (IF header = << >> THEN 1 ELSE EndOf(header[Len(header)]))
        /\ \A k \in DOMAIN header : header[k].at = IF k = 1 THEN 1 ELSE EndOf(header[k - 1])
    BY <1>1, <1>3 DEF HeaderKnown, Chained
  <2>2. ASSUME NEW k \in DOMAIN header'
        PROVE  header'[k].at = IF k = 1 THEN 1 ELSE EndOf(header'[k - 1])
    <3>1. CASE k \in DOMAIN header
      <4>1. k # 1 => k - 1 \in DOMAIN header
        BY <1>13, <3>1
      <4> QED BY <1>13, <2>1, <3>1, <4>1
    <3>2. CASE k \notin DOMAIN header
      <4>1. k = Len(header) + 1
        BY <1>13, <2>2, <3>2
      <4>2. header'[k] = x
        BY <1>13, <4>1
      <4>3. CASE header = << >>
        <5>1. k = 1
          BY <4>1, <4>3
        <5> QED BY <1>3, <1>11, <2>1, <4>2, <4>3, <5>1
      <4>4. CASE header # << >>
        <5>1. Len(header) \in DOMAIN header /\ k # 1 /\ k - 1 = Len(header)
          BY <1>12, <1>13, <4>1, <4>4
        <5>2. EndOf(header[Len(header)]) \in Nat
          <6>1. header[Len(header)] \in Command
            BY <1>12, <5>1
          <6> QED BY <6>1 DEF Command, EndOf, CmdSize
        <5>3. header'[k - 1] = header[Len(header)]
          BY <1>13, <5>1
        <5> QED BY <1>3, <1>11, <2>1, <4>2, <4>4, <5>1, <5>2, <5>3
      <4> QED BY <4>3, <4>4
    <3> QED BY <3>1, <3>2
  <2>3. w' = Dst'.fileoff + EndOf(header'[Len(header')])
    <3>1. w' = v.seg.fileoff + EndOf(x)
      BY <1>2, <1>3, <1>5, <1>6, <1>11
    <3> QED BY <1>9, <1>13, <3>1
  <2>4. header' # << >>
    BY <1>13
  <2> QED BY <1>13, <2>2, <2>3, <2>4 DEF Chained
<1>15. Place(i) = Len(header) + 1 /\ Taken' = Taken \cup {i} /\ Len(header') = Cardinality(Taken')
  <2>1. KeptIndices' = KeptIndices
    BY <1>1 DEF KeptIndices
  <2>2. Taken = {m \in KeptIndices : m < i} /\ Taken' = {m \in KeptIndices : m < i + 1}
    BY <1>1, <1>2, <2>1 DEF Taken
  <2>3. \A m \in KeptIndices : m \in Int
    BY <1>1, PlaceFacts
  <2>4. \A m \in KeptIndices : m < i + 1 <=> m < i \/ m = i
    BY <1>1, <2>3
  <2>5. Place(i) = Len(header) + 1
    BY <1>1, <1>4, <2>2, PlaceFacts DEF HeaderKnown
  <2>6. Cardinality({m \in KeptIndices : m < i + 1}) = Cardinality({m \in KeptIndices : m < i}) + 1
    BY <1>1, <1>4, PlaceFacts
  <2>7. Len(header') = Cardinality(Taken')
    BY <1>1, <1>13, <2>2, <2>6 DEF HeaderKnown
  <2> QED BY <1>4, <2>2, <2>4, <2>5, <2>7
<1>16. \A n : ~IsFixed(Place(n)) /\ ~IsFixed(Place(n))'
  BY <1>1 DEF IsFixed
<1>17. ASSUME NEW n \in Taken
       PROVE  HeaderHas(n)'
  <2>1. header'[Place(n)] = header[Place(n)]
    BY <1>1, <1>13, TakenFacts
  <2>2. w' \in Int /\ w <= w'
    BY <1>2, <1>3, <1>5, <1>6
  <2> QED BY <1>1, <1>8, <1>16, <2>1, <2>2, HeaderFrame DEF Editing
<1>18. ASSUME NEW q, q = i
       PROVE  HeaderHas(q)'
  <2>1. Place(q)' = Place(q) /\ Cmds'[q] = c /\ header'[Place(q)] = x
    <3>1. Place(q)' = Place(q)
      BY <1>1 DEF Place, KeptIndices
    <3>2. Place(q) = Len(header) + 1
      BY <1>15, <1>18
    <3>3. Cmds'[q] = c
      BY <1>1, <1>2, <1>5, <1>18 DEF Cmds
    <3> QED BY <1>13, <3>1, <3>2, <3>3
  <2>2. ASSUME NEW m \in 0 .. CmdSize(c) - 1
        PROVE  file'[v.seg.fileoff + x.at + m] = New(c.at + m)
    <3>1. PICK y : y = v.seg.fileoff + x.at + m
      OBVIOUS
    <3>2. m \in Nat /\ m < CmdSize(c)
      BY <1>6
    <3>3. y = w + m
      BY <1>3, <1>11, <3>1, <3>2
    <3>4. y \in Cells /\ w <= y /\ y < w + CmdSize(c) /\ y - w = m
      <4>1. FileSize \in Nat
        BY JobsAssumption
      <4>2. y \in Nat /\ w <= y /\ y < w + CmdSize(c) /\ y - w = m
        BY <1>3, <1>6, <3>2, <3>3
      <4>3. y < FileSize
        BY <1>3, <1>6, <1>7, <4>1, <4>2
      <4> QED BY <4>1, <4>2, <4>3 DEF Cells
    <3>5. file'[y] = New(c.at + (y - w))
      BY <1>8, <3>4
    <3> QED BY <3>1, <3>4, <3>5
  <2>3. v.seg.fileoff + EndOf(x) <= w'
    BY <1>2, <1>3, <1>5, <1>6, <1>11
  <2>4. Copied(x, c)'
    BY <1>11 DEF Copied
  <2>5. ~IsFixed(Place(q))'
    BY <1>16
  <2> QED BY <1>9, <1>11, <2>1, <2>2, <2>3, <2>4, <2>5 DEF HeaderHas
<1>19. HeaderKnown'
  BY <1>1, <1>14, <1>15, <1>17, <1>18 DEF HeaderKnown
<1>20. WriterInText'
  BY <1>2, <1>5, <1>7, <1>9 DEF WriterInText
<1> QED BY <1>1, <1>9, <1>19, <1>20 DEF PlaceInv, Editing

(* A step that writes nothing into the header and keeps its fields. *)
LEMMA HeaderKept ==
    ASSUME AllSupported, Inv, PlaceInv, pc \in Editing, pc' # "commands",
           job' = job, current' = current, header' = header, w' = w,
           Taken' = Taken, \A n \in Taken : IsFixed(Place(n))' <=> IsFixed(Place(n)),
           \A c \in Cells : c < w => file'[c] = file[c],
           \E n \in DOMAIN Cmds : w <= Dst.fileoff + EndOf(Cmds[n])
    PROVE  HeaderKnown'
<1>1. HeaderKnown /\ w \in Int /\ w <= w
  BY TextRoom DEF PlaceInv
<1>2. Dst' = Dst /\ Cmds' = Cmds
  BY DEF Dst, Cmds
<1>3. \A n \in Taken : HeaderHas(n)'
  <2> SUFFICES ASSUME NEW n \in Taken PROVE HeaderHas(n)'
    OBVIOUS
  <2>1. (IsFixed(Place(n))' <=> IsFixed(Place(n))) /\ header'[Place(n)] = header[Place(n)]
    OBVIOUS
  <2> QED BY <1>1, <2>1, HeaderFrame
<1>4. Chained'
  BY <1>1, <1>2 DEF HeaderKnown, Chained
<1> QED BY <1>1, <1>2, <1>3, <1>4 DEF HeaderKnown

LEMMA DropCommandPlace ==
    ASSUME AllSupported, Inv, PlaceInv, DropCommand
    PROVE  PlaceInv'
<1>1. job \in Jobs /\ job' = job /\ pc = "commands" /\ pc' = pc /\ current' = current
      /\ header' = header /\ file' = file /\ w' = w /\ i' = i + 1 /\ i \in Nat \ {0}
      /\ HeaderKnown /\ TextKnown'
  BY DropCommandInv DEF Inv, DropCommand, PlaceInv, Editing
<1>2. SegmentsFilled' /\ VictimsFound' /\ CurrentKnown' /\ Dst' = Dst
  BY <1>1, EditingFrame DEF Editing
<1>3. Taken' = Taken
  <2>1. KeptIndices' = KeptIndices
    BY <1>1 DEF KeptIndices
  <2>2. i \notin KeptIndices
    BY DEF DropCommand, KeptIndices, Cmd
  <2>3. {m \in KeptIndices : m < i + 1} = {m \in KeptIndices : m < i}
    BY <1>1, <2>2, PlaceFacts
  <2> QED BY <1>1, <2>1, <2>3 DEF Taken
<1>4. \A n \in Taken : HeaderHas(n)'
  <2> SUFFICES ASSUME NEW n \in Taken PROVE HeaderHas(n)'
    OBVIOUS
  <2>1. w \in Int /\ w <= w
    BY <1>1, TextRoom DEF Editing
  <2>2. IsFixed(Place(n))' <=> IsFixed(Place(n))
    BY <1>1 DEF IsFixed
  <2> QED BY <1>1, <2>1, <2>2, HeaderFrame DEF Editing
<1>5. Chained'
  BY <1>1, <1>2 DEF HeaderKnown, Chained
<1>6. HeaderKnown'
  BY <1>1, <1>3, <1>4, <1>5 DEF HeaderKnown
<1> QED BY <1>1, <1>2, <1>6 DEF PlaceInv, Editing, WriterInText

LEMMA FinishCommandsPlace ==
    ASSUME AllSupported, Inv, PlaceInv, FinishCommands
    PROVE  PlaceInv'
<1>1. job \in Jobs /\ job' = job /\ pc = "commands" /\ pc' = "fix" /\ current' = current
      /\ header' = header /\ w' = w /\ i = Len(Cmds) + 1 /\ i' = 1
      /\ WriterBehind /\ HeaderKnown /\ TextKnown'
  BY FinishCommandsInv DEF Inv, FinishCommands, PlaceInv, Editing, Cmds
<1>2. PICK v \in Segs(job.victim), k \in Segs(Cmds) :
        /\ v.seg.name = "__TEXT" /\ Dst = v.seg
        /\ v.seg.fileoff \in Nat /\ v.seg.filesize \in Nat
        /\ w \in Nat /\ v.seg.fileoff < w /\ w <= v.seg.fileoff + v.seg.filesize
  BY <1>1, TextRoom DEF Editing
<1>3. /\ \A u \in Segs(job.victim) : u.seg.name # "__TEXT" =>
           \A x \in CellsOf(u.seg) : file'[x] = file[x]
      /\ \A x \in Cells : x < w => file'[x] = file[x]
  <2>1. PICK b \in Int : b = v.seg.fileoff + v.seg.filesize
    BY <1>2
  <2>2. file' = Written(file, w, 0, 0, b)
    BY <1>2, <2>1 DEF FinishCommands, TextRemainder
  <2>3. w \in Int /\ 0 \in Nat /\ v.seg.fileoff <= w /\ w + 0 <= v.seg.fileoff + v.seg.filesize
        /\ b <= v.seg.fileoff + v.seg.filesize
    BY <1>2, <2>1
  <2> QED BY <1>1, <1>2, <2>2, <2>3, TextWriter
<1>4. SegmentsFilled' /\ VictimsFound' /\ CurrentKnown' /\ Dst' = Dst
  BY <1>1, <1>3, EditingFrame DEF Editing
<1>5. Cmds \in Seq(Command) /\ Len(Cmds) \in Nat /\ DOMAIN Cmds = 1 .. Len(Cmds)
  BY <1>1, JobsAssumption DEF Cmds
<1>6. Taken' = Taken
  <2>1. KeptIndices' = KeptIndices
    BY <1>1 DEF KeptIndices
  <2>2. \A m \in KeptIndices : m < i
    BY <1>1, <1>5, PlaceFacts
  <2> QED BY <1>1, <2>1, <2>2 DEF Taken
<1>7. \A n \in Taken : IsFixed(Place(n))' <=> IsFixed(Place(n))
  <2> SUFFICES ASSUME NEW n \in Taken PROVE ~IsFixed(Place(n))' /\ ~IsFixed(Place(n))
    OBVIOUS
  <2>1. Place(n) \in Nat \ {0}
    BY <1>1, <1>5, TakenFacts
  <2>2. Place(n)' = Place(n)
    BY <1>1 DEF Place, KeptIndices
  <2> QED BY <1>1, <2>1, <2>2 DEF IsFixed
<1>8. \E n \in DOMAIN Cmds : w <= Dst.fileoff + EndOf(Cmds[n])
  <2>1. DOMAIN Cmds # {}
    BY <1>2 DEF Segs, SegmentsOf
  <2>2. Len(Cmds) \in DOMAIN Cmds /\ i # 1 /\ i - 1 = Len(Cmds)
    BY <1>1, <1>5, <2>1
  <2>3. Reader = EndOf(Cmds[Len(Cmds)])
    BY <2>2 DEF Reader, Cmds
  <2> QED BY <1>1, <2>2, <2>3 DEF WriterBehind
<1>9. HeaderKnown'
  BY <1>1, <1>3, <1>6, <1>7, <1>8, HeaderKept DEF Editing
<1> QED BY <1>1, <1>4, <1>9 DEF PlaceInv, Editing, WriterInText

LEMMA FixCommandPlace ==
    ASSUME AllSupported, Inv, PlaceInv, FixCommand
    PROVE  PlaceInv'
<1>1. job \in Jobs /\ job' = job /\ pc = "fix" /\ pc' = pc /\ current' = current /\ file' = file
      /\ w' = w /\ i \in Nat \ {0} /\ i' = i + 1 /\ i <= Len(header)
      /\ header' = [header EXCEPT ![i] = Fixed(header[i])]
      /\ HeaderKnown /\ CurrentKnown /\ TextKnown'
  BY HeaderOnlyInv DEF Inv, FixCommand, PlaceInv, Editing
<1>2. SegmentsFilled' /\ VictimsFound' /\ CurrentKnown' /\ Dst' = Dst
  BY <1>1, EditingFrame DEF Editing
<1>3. header \in Seq(Command) /\ i \in DOMAIN header /\ header[i] \in Command
      /\ DOMAIN header = 1 .. Len(header) /\ Len(header) \in Nat
  <2>1. header \in Seq(Command)
    BY <1>1 DEF HeaderKnown, Chained
  <2> QED BY <1>1, <2>1
<1>4. PICK h \in Command : h = header[i]
  BY <1>3
<1>5. PICK f : f = Fixed(h)
  OBVIOUS
<1>6. f \in Command /\ f.at = h.at /\ CmdSize(f) = CmdSize(h)
  BY <1>1, <1>4, <1>5, FixedFacts DEF Copied
<1>7. /\ header' = [header EXCEPT ![i] = f]
      /\ header' \in Seq(Command) /\ Len(header') = Len(header) /\ DOMAIN header' = DOMAIN header
      /\ header'[i] = f /\ \A k \in DOMAIN header : k # i => header'[k] = header[k]
  BY <1>1, <1>3, <1>4, <1>5, <1>6
<1>8. ASSUME NEW k \in DOMAIN header
      PROVE  header'[k].at = header[k].at /\ EndOf(header'[k]) = EndOf(header[k])
  BY <1>4, <1>6, <1>7 DEF EndOf
<1>9. Chained'
  <2>1. w = Dst.fileoff + (IF header = << >> THEN 1 ELSE EndOf(header[Len(header)]))
        /\ \A k \in DOMAIN header : header[k].at = IF k = 1 THEN 1 ELSE EndOf(header[k - 1])
    BY <1>1 DEF HeaderKnown, Chained
  <2>2. ASSUME NEW k \in DOMAIN header'
        PROVE  header'[k].at = IF k = 1 THEN 1 ELSE EndOf(header'[k - 1])
    <3>1. k # 1 => k - 1 \in DOMAIN header
      BY <1>3, <1>7
    <3> QED BY <1>7, <1>8, <2>1, <3>1
  <2>3. header # << >> /\ header' # << >> /\ Len(header) \in DOMAIN header
    BY <1>3, <1>7
  <2> QED BY <1>1, <1>2, <1>7, <1>8, <2>1, <2>2, <2>3 DEF Chained
<1>10. Taken' = Taken
  BY <1>1 DEF Taken, KeptIndices
<1>11. ASSUME NEW n \in Taken
       PROVE  HeaderHas(n)'
  <2>1. Place(n)' = Place(n) /\ Cmds' = Cmds
    BY <1>1 DEF Place, KeptIndices, Cmds
  <2>2. Place(n) \in Nat \ {0} /\ Place(n) \in DOMAIN header /\ HeaderHas(n) /\ n \in DOMAIN Cmds
    BY <1>1, TakenFacts
  <2>3. CASE Place(n) # i
    <3>1. IsFixed(Place(n))' <=> IsFixed(Place(n))
      BY <1>1, <2>1, <2>2, <2>3 DEF IsFixed
    <3>2. header'[Place(n)] = header[Place(n)]
      BY <1>7, <2>2, <2>3
    <3>3. w \in Int /\ w <= w
      BY <1>1, TextRoom DEF Editing
    <3> QED BY <1>1, <3>1, <3>2, <3>3, HeaderFrame DEF Editing
  <2>4. CASE Place(n) = i
    <3>1. PICK c \in Command : c = Cmds[n]
      BY <1>1, <2>2, KextFacts DEF Cmds
    <3>2. ~IsFixed(Place(n)) /\ IsFixed(Place(n))'
      BY <1>1, <2>1, <2>4 DEF IsFixed
    <3>3. /\ Copied(h, c)
          /\ CmdSize(h) = CmdSize(c) /\ Dst.fileoff + EndOf(h) <= w
          /\ \A m \in 0 .. CmdSize(c) - 1 : file[Dst.fileoff + h.at + m] = New(c.at + m)
      BY <1>4, <2>2, <2>4, <3>1, <3>2 DEF HeaderHas
    <3>4. Placed(f, c)
      BY <1>1, <1>5, <3>3, FixedFacts
    <3>5. Placed(f, c)'
      BY <1>1, <3>4 DEF Placed
    <3>6. header'[Place(n)'] = f /\ Cmds'[n] = c /\ EndOf(f) = EndOf(h)
      BY <1>6, <1>7, <2>1, <2>4, <3>1 DEF EndOf
    <3> QED BY <1>1, <1>2, <1>6, <3>2, <3>3, <3>5, <3>6 DEF HeaderHas
  <2> QED BY <2>3, <2>4
<1>12. HeaderKnown'
  <2>1. Cmds' = Cmds
    BY <1>1 DEF Cmds
  <2> QED BY <1>1, <1>2, <1>7, <1>9, <1>10, <1>11, <2>1 DEF HeaderKnown
<1> QED BY <1>1, <1>2, <1>12 DEF PlaceInv, Editing, WriterInText

LEMMA FinishFixesPlace ==
    ASSUME AllSupported, Inv, PlaceInv, FinishFixes
    PROVE  PlaceInv'
<1>1. job \in Jobs /\ job' = job /\ pc = "fix" /\ pc' = "sections" /\ current' = current /\ file' = file
      /\ header' = header /\ w' = w /\ i \in Nat \ {0} /\ i' = 1 /\ i = Len(header) + 1
      /\ HeaderKnown /\ TextKnown'
  BY HeaderOnlyInv DEF Inv, FinishFixes, PlaceInv, Editing
<1>2. SegmentsFilled' /\ VictimsFound' /\ CurrentKnown' /\ Dst' = Dst
  BY <1>1, EditingFrame DEF Editing
<1>3. Taken' = Taken
  BY <1>1 DEF Taken, KeptIndices
<1>4. \A n \in Taken : IsFixed(Place(n))' <=> IsFixed(Place(n))
  <2> SUFFICES ASSUME NEW n \in Taken PROVE IsFixed(Place(n))' /\ IsFixed(Place(n))
    OBVIOUS
  <2>1. Place(n) \in Nat \ {0} /\ Place(n) <= Len(header) /\ Len(header) \in Nat
    <3>1. header \in Seq(Command)
      BY <1>1 DEF HeaderKnown, Chained
    <3> QED BY <1>1, <3>1, TakenFacts
  <2> QED BY <1>1, <2>1 DEF IsFixed
<1>5. HeaderKnown'
  <2>1. \E n \in DOMAIN Cmds : w <= Dst.fileoff + EndOf(Cmds[n])
    BY <1>1 DEF HeaderKnown
  <2> QED BY <1>1, <1>3, <1>4, <2>1, HeaderKept DEF Editing
<1>6. TextCopied'
  <2>1. ASSUME NEW t \in Segs(Cmds)
        PROVE  \A n \in DOMAIN t.sections : ~(n < 1)
    <3>1. PICK m \in DOMAIN Cmds : t = Cmds[m]
      BY DEF Segs, SegmentsOf
    <3>2. t.sections \in Seq(Section)
      BY <1>1, <3>1, KextFacts DEF Cmds
    <3> QED BY <3>2
  <2>2. Cmds' = Cmds
    BY <1>1 DEF Cmds
  <2> QED BY <1>1, <2>1, <2>2 DEF TextCopied
<1> QED BY <1>1, <1>2, <1>5, <1>6 DEF PlaceInv, Editing, WriterInText

LEMMA CopySectionPlace ==
    ASSUME AllSupported, Inv, PlaceInv, CopySection
    PROVE  PlaceInv'
<1>1. job \in Jobs /\ job' = job /\ pc = "sections" /\ pc' = pc /\ current' = current
      /\ header' = header /\ w' = w /\ i \in Nat \ {0} /\ i' = i + 1
      /\ HeaderKnown /\ TextCopied /\ TextKnown'
  BY CopySectionInv DEF Inv, CopySection, PlaceInv, Editing
<1>2. PICK v \in Segs(job.victim), k \in Segs(Cmds) :
        /\ v.seg.name = "__TEXT" /\ k.seg.name = "__TEXT" /\ Dst = v.seg /\ TextFits(v.seg, k)
        /\ v.seg.fileoff \in Nat /\ v.seg.filesize \in Nat /\ v.seg.fileoff + v.seg.filesize <= FileSize
        /\ \A n \in DOMAIN Cmds : EndOf(Cmds[n]) \in Nat
        /\ w \in Nat /\ v.seg.fileoff < w /\ w <= v.seg.fileoff + v.seg.filesize
  BY <1>1, TextRoom DEF Editing
<1>3. PICK t \in ReadSegment(job.kext.cmds, "__TEXT") :
        /\ i <= Len(t.sections)
        /\ LET s == t.sections[i] IN
             /\ s.offset + s.size <= Dst.filesize
             /\ file' = Written(file, Dst.fileoff + s.offset, s.size, s.offset, 0)
  BY DEF CopySection
<1>4. t = k
  <2>1. t \in Segs(job.kext.cmds) /\ t.seg.name = "__TEXT"
    BY <1>1, JobsAssumption, TheSegment
  <2> QED BY <1>1, <1>2, <2>1 DEF AllSupported, Supported, NamesUnique, Segs, Cmds
<1>5. PICK s : s = k.sections[i]
  OBVIOUS
<1>6. k.sections \in Seq(Section) /\ i \in DOMAIN k.sections /\ s \in Range(k.sections)
      /\ \A n \in DOMAIN k.sections : n \in Int
  <2>1. k.sections \in Seq(Section)
    BY <1>1, <1>2, KextFacts DEF Segs, SegmentsOf, Cmds
  <2> QED BY <1>1, <1>3, <1>4, <1>5, <2>1 DEF Range
<1>7. s.offset \in Nat /\ s.size \in Nat /\ s.offset + s.size <= v.seg.filesize
  BY <1>1, <1>2, <1>3, <1>4, <1>5, <1>6, UsedFacts DEF Cmds
<1>8. PICK a \in Int, z \in Nat, o \in Nat : a = v.seg.fileoff + s.offset /\ z = s.size /\ o = s.offset
  BY <1>2, <1>7
<1>9. /\ \A u \in Segs(job.victim) : u.seg.name # "__TEXT" =>
           \A x \in CellsOf(u.seg) : file'[x] = file[x]
      /\ \A x \in Cells : x < a => file'[x] = file[x]
  <2>1. file' = Written(file, a, z, o, 0)
    BY <1>2, <1>3, <1>4, <1>5, <1>8
  <2>2. v.seg.fileoff <= a /\ a + z <= v.seg.fileoff + v.seg.filesize
        /\ 0 \in Int /\ 0 <= v.seg.fileoff + v.seg.filesize
    BY <1>2, <1>7, <1>8
  <2> QED BY <1>1, <1>2, <2>1, <2>2, TextWriter
<1>10. w <= a
  <2>1. PICK n \in DOMAIN Cmds : w <= v.seg.fileoff + EndOf(Cmds[n])
    BY <1>1, <1>2 DEF HeaderKnown
  <2>2. EndOf(Cmds[n]) <= s.offset
    <3>1. HeaderApart(job) /\ Cmds[n] \in Range(job.kext.cmds)
      BY <1>1 DEF AllSupported, Supported, Range, Cmds
    <3> QED BY <1>2, <1>6, <3>1 DEF HeaderApart, Cmds
  <2> QED BY <1>2, <1>7, <1>8, <2>1, <2>2
<1>11. SegmentsFilled' /\ VictimsFound' /\ CurrentKnown' /\ Dst' = v.seg
  BY <1>1, <1>2, <1>9, EditingFrame DEF Editing
<1>12. HeaderKnown'
  <2>1. Taken' = Taken
    BY <1>1 DEF Taken, KeptIndices
  <2>2. \A n \in Taken : IsFixed(Place(n))' <=> IsFixed(Place(n))
    BY <1>1 DEF IsFixed
  <2>3. \A c \in Cells : c < w => file'[c] = file[c]
    <3>1. \A c \in Cells : c < w => c < a
      BY <1>2, <1>10, JobsAssumption DEF Cells
    <3> QED BY <1>9, <3>1
  <2>4. \E n \in DOMAIN Cmds : w <= Dst.fileoff + EndOf(Cmds[n])
    BY <1>1 DEF HeaderKnown
  <2> QED BY <1>1, <2>1, <2>2, <2>3, <2>4, HeaderKept DEF Editing
<1>13. \A c \in Cells :
         file'[c] = IF a <= c /\ c < a + z THEN New(o + (c - a)) ELSE file[c]
  <2> SUFFICES ASSUME NEW c \in Cells
               PROVE  file'[c] = IF a <= c /\ c < a + z THEN New(o + (c - a)) ELSE file[c]
    OBVIOUS
  <2>1. file' = Written(file, a, z, o, 0)
    BY <1>2, <1>3, <1>4, <1>5, <1>8
  <2>2. file'[c] = IF a <= c /\ c < a + z THEN New(o + (c - a))
                   ELSE IF a + z <= c /\ c < 0 THEN Zero ELSE file[c]
    BY <2>1 DEF Written
  <2>3. c \in Nat
    BY JobsAssumption DEF Cells
  <2> QED BY <2>2, <2>3
<1>14. ASSUME NEW n \in DOMAIN k.sections, n < i + 1
       PROVE  SectionCopied(k, n)'
  <2>1. PICK b \in Nat, y \in Nat :
          b = k.sections[n].offset /\ y = k.sections[n].size /\ b + y <= v.seg.filesize
    <3>1. k.sections[n] \in Range(k.sections)
      BY DEF Range
    <3>2. k.sections[n].offset \in Nat /\ k.sections[n].size \in Nat /\ Used(k) \in Int
          /\ k.sections[n].offset + k.sections[n].size - k.seg.fileoff <= Used(k)
      BY <1>1, <1>2, <3>1, UsedFacts DEF Cmds
    <3>3. k.seg.fileoff = 0 /\ Used(k) <= v.seg.filesize
      BY <1>2 DEF TextFits, FitsIn
    <3> QED BY <1>2, <3>2, <3>3
  <2>2. ASSUME NEW x \in b .. b + y - 1
        PROVE  file'[v.seg.fileoff + x] = New(x)
    <3>1. x \in Nat /\ b <= x /\ x < b + y
      BY <2>1
    <3>2. PICK c : c = v.seg.fileoff + x
      OBVIOUS
    <3>3. c \in Cells /\ c \in Nat
      <4>1. v.seg.fileoff \in Nat /\ v.seg.filesize \in Nat /\ FileSize \in Nat
            /\ v.seg.fileoff + v.seg.filesize <= FileSize
        BY <1>2, JobsAssumption
      <4>2. x < v.seg.filesize
        BY <2>1, <3>1, <4>1
      <4>3. c \in Nat /\ c < FileSize
        BY <3>1, <3>2, <4>1, <4>2
      <4> QED BY <4>1, <4>3 DEF Cells
    <3>4. CASE a <= c /\ c < a + z
      <4>1. o + (c - a) = x
        BY <1>2, <1>7, <1>8, <3>1, <3>2
      <4> QED BY <1>13, <3>2, <3>3, <3>4, <4>1
    <3>5. CASE ~(a <= c /\ c < a + z)
      <4>1. n # i
        <5>1. n = i => b = o /\ y = z
          BY <1>5, <1>8, <2>1
        <5> QED BY <1>2, <1>7, <1>8, <3>1, <3>2, <3>5, <5>1
      <4>2. n < i
        BY <1>1, <1>6, <1>14, <4>1
      <4>3. SectionCopied(k, n)
        BY <1>1, <1>2, <4>2 DEF TextCopied
      <4>4. file[v.seg.fileoff + x] = New(x)
        BY <1>2, <2>1, <2>2, <4>3 DEF SectionCopied
      <4> QED BY <1>13, <3>2, <3>3, <3>5, <4>4
    <3> QED BY <3>4, <3>5
  <2> QED BY <1>11, <2>1, <2>2 DEF SectionCopied
<1>15. TextCopied'
  <2>1. \A u \in Segs(Cmds) : u.seg.name = "__TEXT" => u = k
    BY <1>1, <1>2 DEF AllSupported, Supported, NamesUnique, Segs, Cmds
  <2>2. Cmds' = Cmds
    BY <1>1 DEF Cmds
  <2> QED BY <1>1, <1>14, <2>1, <2>2 DEF TextCopied
<1> QED BY <1>1, <1>2, <1>11, <1>12, <1>15 DEF PlaceInv, Editing, WriterInText

LEMMA FinishSectionsPlace ==
    ASSUME AllSupported, Inv, PlaceInv, FinishSections
    PROVE  PlaceInv'
<1>1. job \in Jobs /\ job' = job /\ pc = "sections" /\ pc' = "done" /\ current' = current
      /\ file' = file /\ header' = header /\ w' = w /\ i' = i
      /\ HeaderKnown /\ TextCopied /\ TextKnown
  BY DEF Inv, FinishSections, PlaceInv, Editing
<1>2. TextKnown'
  BY <1>1 DEF TextKnown, TextFits, Dst
<1>3. SegmentsFilled' /\ VictimsFound' /\ CurrentKnown' /\ Dst' = Dst
  BY <1>1, <1>2, EditingFrame DEF Editing
<1>4. HeaderKnown'
  <2>1. Taken' = Taken
    BY <1>1 DEF Taken, KeptIndices
  <2>2. \A n \in Taken : IsFixed(Place(n))' <=> IsFixed(Place(n))
    BY <1>1 DEF IsFixed
  <2>3. \E n \in DOMAIN Cmds : w <= Dst.fileoff + EndOf(Cmds[n])
    BY <1>1 DEF HeaderKnown
  <2> QED BY <1>1, <2>1, <2>2, <2>3, HeaderKept DEF Editing
<1>5. PICK t \in ReadSegment(job.kext.cmds, "__TEXT") : i = Len(t.sections) + 1
  BY DEF FinishSections
<1>6. t \in Segs(Cmds) /\ t.seg.name = "__TEXT"
  BY <1>1, JobsAssumption, TheSegment DEF Cmds
<1>7. t.sections \in Seq(Section)
  BY <1>1, <1>6, KextFacts DEF Segs, SegmentsOf, Cmds
<1>8. \A n \in DOMAIN t.sections : n < i
  BY <1>5, <1>7
<1>9. \A u \in Segs(Cmds) : u.seg.name = "__TEXT" => u = t
  BY <1>1, <1>6 DEF AllSupported, Supported, NamesUnique, Segs, Cmds
<1>10. \A n \in DOMAIN t.sections : SectionCopied(t, n)'
  <2>1. \A n \in DOMAIN t.sections : SectionCopied(t, n)
    BY <1>1, <1>6, <1>8 DEF TextCopied
  <2> QED BY <1>1, <1>3, <2>1 DEF SectionCopied
<1>11. TextCopied'
  <2>1. Cmds' = Cmds
    BY <1>1 DEF Cmds
  <2> QED BY <1>9, <1>10, <2>1 DEF TextCopied
<1> QED BY <1>1, <1>2, <1>3, <1>4, <1>11 DEF PlaceInv, Editing, WriterInText

(* After a check that failed nothing is promised. *)
LEMMA StopPlace ==
    ASSUME \/ \E s \in Copying : CannotReplace(s)
           \/ CannotBeginText \/ CommandsTooLong \/ HasRelocations \/ KextTooShort
    PROVE  PlaceInv'
<1>1. pc' = "failed"
  BY DEF CannotReplace, CannotBeginText, CommandsTooLong, HasRelocations, KextTooShort, Fail
<1>2. Passed' = {}
  BY <1>1 DEF Passed
<1> QED BY <1>1, <1>2 DEF PlaceInv, SegmentsFilled, VictimsFound, Editing

LEMMA StutterPlace ==
    ASSUME PlaceInv, UNCHANGED vars
    PROVE  PlaceInv'
<1>1. Passed' = Passed /\ Cmds' = Cmds /\ Pairs' = Pairs /\ TextKnown' = TextKnown /\ Dst' = Dst
  BY DEF vars, Passed, Cmds, Pairs, Victims, TextKnown, TextFits, Dst
<1>2. SegmentsFilled' /\ VictimsFound'
  <2>1. \A p \in Pairs : Filled(p)' <=> Filled(p)
    BY DEF vars, Filled, Replaces
  <2> QED BY <1>1, <2>1 DEF PlaceInv, SegmentsFilled, VictimsFound, vars
<1>3. CurrentKnown => CurrentKnown'
  BY DEF vars, CurrentKnown
<1>4. HeaderKnown => HeaderKnown'
  <2>1. Taken' = Taken /\ \A n : Place(n)' = Place(n) /\ (IsFixed(Place(n))' <=> IsFixed(Place(n)))
    BY DEF vars, Taken, KeptIndices, Place, IsFixed
  <2>2. \A h, c : Placed(h, c)' <=> Placed(h, c)
    BY DEF vars, Placed
  <2>3. ASSUME NEW n, HeaderHas(n)
        PROVE  HeaderHas(n)'
    <3>1. header'[Place(n)'] = header[Place(n)] /\ Cmds'[n] = Cmds[n] /\ file' = file /\ w' = w
      BY <1>1, <2>1 DEF vars
    <3>2. PICK h, c : h = header[Place(n)] /\ c = Cmds[n]
      OBVIOUS
    <3>3. Placed(h, c)' <=> Placed(h, c)
      BY <2>2
    <3> QED BY <1>1, <2>1, <2>3, <3>1, <3>2, <3>3 DEF HeaderHas, Copied
  <2> QED BY <1>1, <2>1, <2>3 DEF HeaderKnown, Chained, vars
<1>5. TextCopied => TextCopied'
  BY <1>1 DEF vars, TextCopied, SectionCopied
<1>6. WriterInText => WriterInText'
  BY <1>1 DEF vars, WriterInText
<1> QED BY <1>1, <1>2, <1>3, <1>4, <1>5, <1>6 DEF PlaceInv, vars

LEMMA NextPlace ==
    ASSUME AllSupported, Inv, Overran \/ PlaceInv, [Next]_vars
    PROVE  Overran' \/ PlaceInv'
<1>1. CASE Overran
  <2>1. pc = "commands" /\ WriterBehind /\ TextKnown /\ Dst.fileoff + Dst.filesize < w
    BY <1>1 DEF Overran, Inv, Editing
  <2>2. job \in Jobs /\ i \in Nat \ {0} /\ w \in Nat /\ i \in 1 .. Len(job.kext.cmds) + 1
    BY <2>1 DEF Inv, WriterBehind
  <2>3. Dst.fileoff \in Nat /\ Dst.filesize \in Nat
    BY <2>1, <2>2, VictimFacts DEF TextKnown
  <2>4. CASE CopyCommand
    <3>1. i \in DOMAIN job.kext.cmds
      BY <2>2, <2>4, JobsAssumption DEF CopyCommand
    <3>2. CmdSize(Cmd) \in Nat
      BY <2>2, <3>1, KextFacts DEF Cmd
    <3>3. pc' = pc /\ Dst' = Dst /\ w' = w + CmdSize(Cmd)
      BY <2>4 DEF CopyCommand, Dst
    <3> QED BY <2>1, <2>2, <2>3, <3>2, <3>3 DEF Overran
  <2>5. CASE DropCommand \/ UNCHANGED vars
    <3>1. pc' = pc /\ Dst' = Dst /\ w' = w
      BY <2>5 DEF DropCommand, Dst, vars
    <3> QED BY <2>1, <3>1 DEF Overran
  <2>6. ~FinishCommands
    BY <2>1, <2>2, <2>3 DEF FinishCommands
  <2>7. CASE CommandsTooLong
    BY <2>7, StopPlace
  <2> QED BY <2>1, <2>4, <2>5, <2>6, <2>7
      DEF Next, CopySegments, ReplaceSegment, KextHasNot, CannotReplace, Fail, BeginText,
          CannotBeginText, FixCommand, HasRelocations, FinishFixes, CopySection, KextTooShort,
          FinishSections, Ended
<1>2. CASE PlaceInv /\ UNCHANGED vars
  BY <1>2, StutterPlace
<1>3. CASE PlaceInv /\ Next
  BY <1>3, CopySegmentsPlace, BeginTextPlace, CopyCommandPlace, DropCommandPlace,
     FinishCommandsPlace, FixCommandPlace, FinishFixesPlace, CopySectionPlace,
     FinishSectionsPlace, StopPlace, StutterPlace DEF Next, Ended, Copying
<1> QED BY <1>1, <1>2, <1>3

-----------------------------------------------------------------------------
(* What the invariant says in the end. *)

(* A section with contents lies as far into its segment in the file as in   *)
(* memory and within what is copied; a zero-fill section lies behind.       *)
LEMMA SectionFacts ==
    ASSUME AllSupported, NEW j \in Jobs, NEW c \in Segs(j.kext.cmds), NEW o \in Range(c.sections)
    PROVE  /\ o.addr \in Int /\ o.offset \in Nat /\ o.size \in Nat /\ o.zerofill \in BOOLEAN
           /\ c.seg.vmaddr \in Nat /\ c.seg.fileoff \in Nat /\ Used(c) \in Int
           /\ c.seg.vmaddr <= o.addr
           /\ ~o.zerofill => /\ o.addr - c.seg.vmaddr = o.offset - c.seg.fileoff
                             /\ o.offset + o.size - c.seg.fileoff <= Used(c)
           /\ o.zerofill => Used(c) <= o.addr - c.seg.vmaddr
<1>1. PICK n \in DOMAIN j.kext.cmds : c = j.kext.cmds[n]
  BY DEF Segs, SegmentsOf
<1>2. c \in Command /\ c.sections \in Seq(Section)
  BY <1>1, KextFacts
<1>3. ASSUME NEW s \in Range(c.sections)
      PROVE  s.addr \in Int /\ s.offset \in Nat /\ s.size \in Nat /\ s.zerofill \in BOOLEAN
  <2>1. PICK x \in DOMAIN c.sections : s = c.sections[x]
    BY DEF Range
  <2>2. s \in Section
    BY <1>2, <2>1
  <2>3. s.offset \in Nat
    BY UsedFacts
  <2> QED BY <2>2, <2>3 DEF Section
<1>4. c.seg.vmaddr \in Nat /\ c.seg.fileoff \in Nat
  BY <1>2 DEF Command, Segment
<1>5. SectionsApart(c) /\ ZeroFillBehind(c)
  BY DEF AllSupported, Supported
<1>6. Used(c) \in Int
      /\ \A s \in Range(c.sections) : s.offset + s.size - c.seg.fileoff <= Used(c)
  BY UsedFacts
<1>7. ASSUME NEW d \in InFile(c)
      PROVE  /\ d \in Range(c.sections)
             /\ d.addr - c.seg.vmaddr = d.offset - c.seg.fileoff /\ c.seg.fileoff <= d.offset
  BY <1>5 DEF SectionsApart, InFile
<1>8. CASE ~o.zerofill
  <2>1. o \in InFile(c)
    BY <1>8 DEF InFile
  <2> QED BY <1>3, <1>4, <1>6, <1>7, <1>8, <2>1
<1>9. CASE o.zerofill
  <2>1. o \in Range(c.sections) \ InFile(c)
    BY <1>9 DEF InFile
  <2>2. \A d \in InFile(c) : d.addr + d.size <= o.addr
    BY <1>5, <2>1 DEF ZeroFillBehind
  <2>3. PICK b \in InFile(c) : o.size <= b.offset + b.size
    BY <1>5, <2>1 DEF ZeroFillBehind
  <2>4. ASSUME NEW d \in InFile(c)
        PROVE  d.offset + d.size - c.seg.fileoff <= o.addr - c.seg.vmaddr /\ c.seg.vmaddr <= o.addr
    BY <1>3, <1>4, <1>7, <2>2, <2>4
  <2>5. ASSUME NEW m \in Reaches(c.sections)
        PROVE  m - c.seg.fileoff <= o.addr - c.seg.vmaddr
    <3>1. CASE m = 0
      BY <1>3, <1>4, <2>3, <2>4, <3>1
    <3>2. ASSUME NEW s \in Range(c.sections), m = s.offset + s.size
          PROVE  m - c.seg.fileoff <= o.addr - c.seg.vmaddr
      <4>1. CASE s \in InFile(c)
        BY <1>3, <1>4, <2>4, <3>2, <4>1
      <4>2. CASE s \notin InFile(c)
        <5>1. s.offset = 0
          BY <1>5, <3>2, <4>2 DEF ZeroFillBehind
        <5>2. PICK d \in InFile(c) : s.size <= d.offset + d.size
          BY <1>5, <3>2, <4>2 DEF ZeroFillBehind
        <5>3. d \in Range(c.sections) /\ d.offset + d.size - c.seg.fileoff <= o.addr - c.seg.vmaddr
          BY <1>7, <2>4, <5>2
        <5> QED BY <1>3, <1>4, <3>2, <5>1, <5>2, <5>3
      <4> QED BY <4>1, <4>2
    <3> QED BY <3>1, <3>2 DEF Reaches
  <2>6. MaxOffset(c.sections) \in Reaches(c.sections)
    <3>1. \E m \in Reaches(c.sections) : \A r \in Reaches(c.sections) : r <= m
      BY <1>1, JobsAssumption
    <3> QED BY <3>1 DEF MaxOffset
  <2>7. Used(c) <= o.addr - c.seg.vmaddr
    BY <2>5, <2>6 DEF Used
  <2> QED BY <1>3, <1>4, <1>6, <1>9, <2>3, <2>4, <2>7
<1> QED BY <1>3, <1>8, <1>9

(* A segment of the kext that has sections has taken its victim's place. *)
LEMMA SectionPlaced ==
    ASSUME AllSupported, Inv, PlaceInv, pc = "done",
           NEW k \in KeptIndices, NEW n \in DOMAIN Cmds[k].sections
    PROVE  LET c == Cmds[k]
               s == header[Place(k)].sections[n]
               o == Cmds[k].sections[n]
           IN \E v \in Segs(job.victim) :
                /\ c \in Segs(Cmds) /\ o \in Range(c.sections) /\ <<c, v>> \in Pairs
                /\ v.seg.name = c.seg.name /\ c.seg.name \in Replaceable
                /\ header[Place(k)].seg = v.seg
                /\ s.size = o.size /\ s.zerofill = o.zerofill
                /\ s.addr = o.addr + (v.seg.vmaddr - c.seg.vmaddr)
                /\ s.offset = o.offset + (v.seg.fileoff - c.seg.fileoff)
<1> DEFINE c == Cmds[k]
           o == Cmds[k].sections[n]
<1>1. job \in Jobs /\ k \in DOMAIN Cmds
  BY DEF Inv, KeptIndices, Cmds
<1>2. c.sections \in Seq(Section)
  BY <1>1, KextFacts DEF Cmds
<1>3. c.kind = "segment" /\ c.sections # << >> /\ o \in Range(c.sections)
  <2>1. c.sections # << >>
    OBVIOUS
  <2>2. c.kind = "segment" \/ c.sections = << >>
    BY <1>1, JobsAssumption DEF Cmds
  <2> QED BY <2>1, <2>2 DEF Range
<1>4. c \in Segs(Cmds)
  BY <1>1, <1>3 DEF Segs, SegmentsOf
<1>5. c.seg.name \in Replaceable
  BY <1>1, <1>3, <1>4 DEF AllSupported, Supported, SectionsCopied, Cmds
<1>6. PICK v \in Segs(job.victim) : v.seg.name = c.seg.name
  BY <1>4, <1>5 DEF PlaceInv, VictimsFound, Passed
<1>7. <<c, v>> \in Pairs
  BY <1>4, <1>5, <1>6 DEF Pairs, Victims, Cmds
<1>8. HeaderHas(k)
  BY DEF PlaceInv, HeaderKnown, Taken
<1>9. Placed(header[Place(k)], c)
  BY <1>8 DEF HeaderHas, IsFixed
<1> HIDE DEF c
<1>10. o = c.sections[n] /\ n \in DOMAIN c.sections
  BY DEF c
<1>11. header[Place(k)].kind = "segment"
  BY <1>3, <1>9 DEF Placed
<1>12. LET s == header[Place(k)].sections[n]
       IN /\ header[Place(k)].seg = v.seg
          /\ s.size = o.size /\ s.zerofill = o.zerofill
          /\ s.addr = o.addr + (v.seg.vmaddr - c.seg.vmaddr)
          /\ s.offset = o.offset + (v.seg.fileoff - c.seg.fileoff)
  BY <1>6, <1>9, <1>10, <1>11 DEF Placed
<1> QED BY <1>3, <1>4, <1>5, <1>6, <1>7, <1>12 DEF c

LEMMA InvHeader ==
    ASSUME AllSupported, Inv, PlaceInv
    PROVE  HeaderInPlace
<1> SUFFICES ASSUME pc = "done" PROVE HeaderInPlace
  BY DEF HeaderInPlace
<1>1. Dst.fileoff = job.fileoff
  BY DEF PlaceInv, TextKnown, TextFits
<1>2. HeaderKnown /\ Taken = KeptIndices
  BY DEF PlaceInv, Taken
<1>3. Len(header) = Cardinality(KeptIndices)
      /\ \A k \in DOMAIN header : header[k].at = IF k = 1 THEN 1 ELSE EndOf(header[k - 1])
  BY <1>2 DEF HeaderKnown, Chained
<1>4. ASSUME NEW n \in KeptIndices
      PROVE  LET c == job.kext.cmds[n]
                 h == header[Place(n)]
             IN /\ h.kind = c.kind /\ CmdSize(h) = CmdSize(c)
                /\ \A m \in 0 .. CmdSize(c) - 1 : file[job.fileoff + h.at + m] = New(c.at + m)
                /\ h.kind = "symtab" => h.nsyms = 0
                /\ \A v \in Segs(job.victim) :
                     h.kind = "segment" /\ h.seg.name = v.seg.name => h.seg = v.seg
  <2>1. HeaderHas(n)
    BY <1>2 DEF HeaderKnown
  <2>2. Placed(header[Place(n)], Cmds[n]) /\ CmdSize(header[Place(n)]) = CmdSize(Cmds[n])
        /\ \A m \in 0 .. CmdSize(Cmds[n]) - 1 :
             file[job.fileoff + header[Place(n)].at + m] = New(Cmds[n].at + m)
    BY <1>1, <2>1 DEF HeaderHas, IsFixed
  <2> QED BY <2>2 DEF Placed, Cmds
<1> QED BY <1>3, <1>4 DEF HeaderInPlace

(* The __TEXT of the kext and the victim's. *)
LEMMA DoneText ==
    ASSUME AllSupported, Inv, PlaceInv, pc \in Editing \cup {"done"},
           NEW c \in Segs(Cmds), NEW v \in Segs(job.victim),
           c.seg.name = "__TEXT", v.seg.name = "__TEXT"
    PROVE  Dst = v.seg /\ TextFits(Dst, c)
<1>1. job \in Jobs /\ TextKnown
  BY DEF Inv, PlaceInv
<1>2. PICK u \in Segs(job.victim), k \in Segs(job.kext.cmds) :
        u.seg.name = "__TEXT" /\ k.seg.name = "__TEXT" /\ Dst = u.seg /\ TextFits(Dst, k)
  BY <1>1 DEF TextKnown
<1>3. u = v
  BY <1>1, <1>2, TheVictim
<1>4. k = c
  BY <1>1, <1>2 DEF AllSupported, Supported, NamesUnique, Segs, Cmds
<1> QED BY <1>2, <1>3, <1>4

LEMMA InvSections ==
    ASSUME AllSupported, Inv, PlaceInv
    PROVE  SectionsInPlace
<1> SUFFICES ASSUME pc = "done", NEW k \in KeptIndices, NEW n \in DOMAIN Cmds[k].sections
             PROVE  LET g == header[Place(k)].seg
                        s == header[Place(k)].sections[n]
                        o == Cmds[k].sections[n]
                    IN /\ s.addr - g.vmaddr = o.addr - Cmds[k].seg.vmaddr
                       /\ g.vmaddr <= s.addr /\ s.addr + s.size <= g.vmaddr + g.vmsize
                       /\ ~s.zerofill =>
                            /\ s.offset - g.fileoff = s.addr - g.vmaddr
                            /\ \A m \in 0 .. s.size - 1 : file[s.offset + m] = New(o.offset + m)
  BY DEF SectionsInPlace, Cmds
<1>1. PICK c, o, s : c = Cmds[k] /\ o = Cmds[k].sections[n] /\ s = header[Place(k)].sections[n]
  OBVIOUS
<1>2. job \in Jobs
  BY DEF Inv
<1>3. PICK v \in Segs(job.victim) :
        /\ c \in Segs(Cmds) /\ o \in Range(c.sections) /\ <<c, v>> \in Pairs
        /\ v.seg.name = c.seg.name /\ c.seg.name \in Replaceable
        /\ header[Place(k)].seg = v.seg
        /\ s.size = o.size /\ s.zerofill = o.zerofill
        /\ s.addr = o.addr + (v.seg.vmaddr - c.seg.vmaddr)
        /\ s.offset = o.offset + (v.seg.fileoff - c.seg.fileoff)
  BY <1>1, SectionPlaced
<1>4. v.seg.vmaddr \in Nat /\ v.seg.vmsize \in Nat /\ v.seg.fileoff \in Nat /\ v.seg.filesize \in Nat
  BY <1>2, VictimFacts DEF Command, Segment
<1>5. /\ o.addr \in Int /\ o.offset \in Nat /\ o.size \in Nat /\ o.zerofill \in BOOLEAN
      /\ c.seg.vmaddr \in Nat /\ c.seg.fileoff \in Nat /\ Used(c) \in Int
      /\ c.seg.vmaddr <= o.addr
      /\ ~o.zerofill => /\ o.addr - c.seg.vmaddr = o.offset - c.seg.fileoff
                        /\ o.offset + o.size - c.seg.fileoff <= Used(c)
  BY <1>2, <1>3, SectionFacts DEF Cmds
<1>6. o.addr + o.size - c.seg.vmaddr <= v.seg.vmsize
  BY <1>2, <1>3 DEF AllSupported, Supported, FitsInMemory, Cmds
<1>7. ASSUME ~o.zerofill, NEW m \in 0 .. o.size - 1
      PROVE  file[s.offset + m] = New(o.offset + m)
  <2>1. m \in Nat /\ m < o.size
    BY <1>5
  <2>2. CASE c.seg.name = "__TEXT"
    <3>1. c.seg.fileoff = 0 /\ Dst = v.seg
      BY <1>3, <2>2, DoneText DEF TextFits
    <3>2. n \in DOMAIN c.sections /\ SectionCopied(c, n)
      BY <1>1, <1>3, <2>2 DEF PlaceInv, TextCopied
    <3>3. o.offset + m \in o.offset .. o.offset + o.size - 1
      BY <1>5, <2>1
    <3>4. file[v.seg.fileoff + (o.offset + m)] = New(o.offset + m)
      BY <1>1, <3>1, <3>2, <3>3 DEF SectionCopied
    <3>5. s.offset + m = v.seg.fileoff + (o.offset + m)
      BY <1>3, <1>4, <1>5, <2>1, <3>1
    <3> QED BY <3>4, <3>5
  <2>3. CASE c.seg.name # "__TEXT"
    <3>1. Filled(<<c, v>>)
      BY <1>3, <2>3 DEF PlaceInv, SegmentsFilled, Passed
    <3>2. /\ Used(c) <= v.seg.filesize
          /\ \A x \in CellsOf(v.seg) :
               file[x] = IF x < v.seg.fileoff + Used(c)
                         THEN New(c.seg.fileoff + (x - v.seg.fileoff)) ELSE Zero
      BY <3>1 DEF Filled, Replaces, FitsIn, Available
    <3>3. PICK x : x = s.offset + m
      OBVIOUS
    <3>4. c.seg.fileoff <= o.offset
      BY <1>5, <1>7
    <3>5. x \in CellsOf(v.seg) /\ x < v.seg.fileoff + Used(c)
          /\ c.seg.fileoff + (x - v.seg.fileoff) = o.offset + m
      BY <1>3, <1>4, <1>5, <1>7, <2>1, <3>2, <3>3, <3>4 DEF CellsOf
    <3> QED BY <3>2, <3>3, <3>5
  <2> QED BY <2>2, <2>3
<1>8. s.addr - v.seg.vmaddr = o.addr - c.seg.vmaddr
      /\ v.seg.vmaddr <= s.addr /\ s.addr + s.size <= v.seg.vmaddr + v.seg.vmsize
      /\ (~s.zerofill => s.offset - v.seg.fileoff = s.addr - v.seg.vmaddr)
  BY <1>3, <1>4, <1>5, <1>6
<1> QED BY <1>1, <1>3, <1>7, <1>8

LEMMA InvZeroFill ==
    ASSUME AllSupported, Inv, PlaceInv
    PROVE  ZeroFillIsZero
<1> SUFFICES ASSUME pc = "done", NEW k \in KeptIndices, NEW n \in DOMAIN Cmds[k].sections,
                    header[Place(k)].sections[n].zerofill
             PROVE  LET g == header[Place(k)].seg
                        s == header[Place(k)].sections[n]
                        at == g.fileoff + (s.addr - g.vmaddr)
                    IN \A x \in CellsOf(g) \cap (at .. at + s.size - 1) : file[x] = Zero
  BY DEF ZeroFillIsZero, Cmds
<1>1. PICK c, o, s : c = Cmds[k] /\ o = Cmds[k].sections[n] /\ s = header[Place(k)].sections[n]
  OBVIOUS
<1>2. job \in Jobs
  BY DEF Inv
<1>3. PICK v \in Segs(job.victim) :
        /\ c \in Segs(Cmds) /\ o \in Range(c.sections) /\ <<c, v>> \in Pairs
        /\ v.seg.name = c.seg.name /\ c.seg.name \in Replaceable
        /\ header[Place(k)].seg = v.seg
        /\ s.size = o.size /\ s.zerofill = o.zerofill
        /\ s.addr = o.addr + (v.seg.vmaddr - c.seg.vmaddr)
  BY <1>1, SectionPlaced
<1>4. v.seg.vmaddr \in Nat /\ v.seg.fileoff \in Nat /\ v.seg.filesize \in Nat
  BY <1>2, VictimFacts DEF Command, Segment
<1>5. /\ o.addr \in Int /\ o.size \in Nat /\ c.seg.vmaddr \in Nat /\ Used(c) \in Int
      /\ Used(c) <= o.addr - c.seg.vmaddr
  BY <1>1, <1>2, <1>3, SectionFacts DEF Cmds
<1>6. c.seg.name # "__TEXT"
  <2>1. HeaderApart(job) /\ c \in Range(job.kext.cmds)
    BY <1>2, <1>3 DEF AllSupported, Supported, Range, Segs, SegmentsOf, Cmds
  <2> QED BY <1>1, <1>3, <2>1 DEF HeaderApart, Cmds
<1>7. Filled(<<c, v>>)
  BY <1>3, <1>6 DEF PlaceInv, SegmentsFilled, Passed
<1>8. ASSUME NEW x \in CellsOf(v.seg), v.seg.fileoff + (s.addr - v.seg.vmaddr) <= x
      PROVE  file[x] = Zero
  <2>1. x \in Int
    BY <1>4 DEF CellsOf
  <2>2. ~(x < v.seg.fileoff + Used(c))
    BY <1>3, <1>4, <1>5, <1>8, <2>1
  <2> QED BY <1>7, <1>8, <2>2 DEF Filled
<1>9. s.addr \in Int /\ s.size \in Nat
  BY <1>3, <1>4, <1>5
<1> QED BY <1>1, <1>3, <1>4, <1>8, <1>9

-----------------------------------------------------------------------------
LEMMA Reachable ==
    ASSUME AllSupported
    PROVE  Spec => [](Inv /\ (Overran \/ PlaceInv))
<1>1. Init => Inv /\ PlaceInv
  BY InitInv, InitPlace
<1>2. Inv /\ (Overran \/ PlaceInv) /\ [Next]_vars => (Inv /\ (Overran \/ PlaceInv))'
  BY NextInv, NextPlace
<1> QED BY <1>1, <1>2, PTL DEF Spec

(* The commands the new header has follow one another, none is missing or   *)
(* was overwritten, and each names the place of the victim's segment,       *)
(* although the old header was gone by then.                                *)
THEOREM HeaderIsInPlace == AllSupported => (Spec => []HeaderInPlace)
<1> SUFFICES ASSUME AllSupported PROVE Spec => []HeaderInPlace
  OBVIOUS
<1>1. Inv /\ (Overran \/ PlaceInv) => HeaderInPlace
  BY InvHeader DEF Overran, HeaderInPlace
<1> QED BY <1>1, Reachable, PTL

(* Every section is where the new header says, in the file and in memory,   *)
(* with the bytes it has in the kext.                                       *)
THEOREM SectionsAreInPlace == AllSupported => (Spec => []SectionsInPlace)
<1> SUFFICES ASSUME AllSupported PROVE Spec => []SectionsInPlace
  OBVIOUS
<1>1. Inv /\ (Overran \/ PlaceInv) => SectionsInPlace
  BY InvSections DEF Overran, SectionsInPlace
<1> QED BY <1>1, Reachable, PTL

(* Where a section without contents lies in the file there are zeros, and   *)
(* nothing the victim had there.                                            *)
THEOREM ZeroFillHasZeros == AllSupported => (Spec => []ZeroFillIsZero)
<1> SUFFICES ASSUME AllSupported PROVE Spec => []ZeroFillIsZero
  OBVIOUS
<1>1. Inv /\ (Overran \/ PlaceInv) => ZeroFillIsZero
  BY InvZeroFill DEF Overran, ZeroFillIsZero
<1> QED BY <1>1, Reachable, PTL
=============================================================================
