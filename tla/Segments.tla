------------------------------ MODULE Segments ------------------------------
(* KernelCache::replace_segment and replace_text_segment (kernelcache.cpp)  *)
(* down to the cell: the kext's segments are written over the victim's, the *)
(* kext's load commands over the victim's, and the new commands are made to *)
(* name the victim's addresses while the old ones are already gone.         *)
(*                                                                          *)
(* Offsets and sizes count cells.  The Mach-O header, a load command and a  *)
(* section header take a cell each; a segment's section headers follow its  *)
(* command.  A cell of the kernelcache says where its bytes come from, and  *)
(* `header' what the fields of the load commands in it say.                 *)
EXTENDS Integers, SequencesExt

CONSTANTS
    FileSize,   \* the size of the kernelcache
    Jobs        \* [victim, fileoff, kext]: the victim's commands, the fileoff of
                \* its LC_FILESET_ENTRY, the kext's commands and file size

Cells == 0 .. FileSize - 1

Kept == {"segment", "uuid", "symtab", "build_version", "dysymtab"}
Kinds == Kept \cup {"chained_fixups", "split_info", "other"}

Segment == [name : STRING, vmaddr : Nat, vmsize : Nat, fileoff : Nat, filesize : Nat]
Section == [addr : Int, offset : Int, size : Nat, zerofill : BOOLEAN, reloff : Nat]
(* at is counted from the Mach-O header; nsyms is a symtab's. *)
Command == [kind : Kinds, at : Nat, seg : Segment, sections : Seq(Section), nsyms : Nat]

(* What std::map makes for a name it does not have. *)
NoSegment == [name |-> "", vmaddr |-> 0, vmsize |-> 0, fileoff |-> 0, filesize |-> 0]

CmdSize(c) == 1 + Len(c.sections)

EndOf(c) == c.at + CmdSize(c)

(* Where the sections of a segment reach in the file. *)
Reaches(sections) == {s.offset + s.size : s \in Range(sections)} \cup {0}

(* The victim's segments and its header, which was read to find it, lie in  *)
(* the kernelcache, whose own header is at 0.                               *)
(* The kext's commands follow one another, and of its sections one reaches  *)
(* furthest.                                                                *)
ASSUME JobsAssumption ==
    /\ FileSize \in Nat
    /\ \A j \in Jobs :
         /\ j.victim \in Seq(Command) /\ j.fileoff \in 1 .. FileSize - 1
         /\ \A n \in DOMAIN j.victim :
              j.victim[n].seg.fileoff + j.victim[n].seg.filesize <= FileSize
         /\ j.kext.cmds \in Seq(Command) /\ j.kext.size \in Nat
         /\ \A n \in DOMAIN j.kext.cmds :
              LET c == j.kext.cmds[n] IN
                /\ c.at = IF n = 1 THEN 1 ELSE EndOf(j.kext.cmds[n - 1])
                /\ c.kind = "segment" \/ c.sections = << >>
                /\ \A s \in Range(c.sections) : s.offset \in Nat
                /\ \E m \in Reaches(c.sections) : \A r \in Reaches(c.sections) : r <= m

VARIABLES
    job,       \* the kernelcache and the kext, fixed at the start
    pc,        \* the segment or loop replace_fileset is at, "done" or "failed"
    file,      \* cell -> <<whose bytes, at which offset>>
    header,    \* the load commands in the fileset's header
    current,   \* replace_text_segment: current_segments
    w,         \* replace_text_segment: writer.cursor()
    i          \* replace_text_segment: the index of its loops

vars == <<job, pc, file, header, current, w, i>>

Zero == <<"zero", 0>>
Old(c) == <<"kernelcache", c>>
New(o) == <<"kext", o>>

Init == /\ job \in Jobs
        /\ pc = "__TEXT_EXEC"
        /\ file = [c \in Cells |-> Old(c)]
        /\ header = job.victim
        /\ current = << >>
        /\ w = 0 /\ i = 1

-----------------------------------------------------------------------------
(* MachOBinary: the first LC_SEGMENT_64 of a name, {} for nullptr. *)
SegmentsOf(cmds) == {k \in DOMAIN cmds : cmds[k].kind = "segment"}
ReadSegment(cmds, name) ==
    {cmds[k] : k \in {k \in SegmentsOf(cmds) :
        cmds[k].seg.name = name /\ \A q \in SegmentsOf(cmds) : q < k => cmds[q].seg.name # name}}

(* read_used_segment_size: without sections the difference wraps at 2^64,   *)
(* which is larger than any segment.                                        *)
MaxOffset(sections) == CHOOSE m \in Reaches(sections) : \A n \in Reaches(sections) : n <= m
Used(c) == MaxOffset(c.sections) - c.seg.fileoff
FitsIn(used, room) == 0 <= used /\ used <= room

(* SpanWriter over file from cell a: n bytes of the kext from offset o, then *)
(* zeros up to cell b.  It throws at the end of the file.                    *)
Written(f, a, n, o, b) == [c \in Cells |->
    IF a <= c /\ c < a + n THEN New(o + (c - a))
    ELSE IF a + n <= c /\ c < b THEN Zero ELSE f[c]]

Fail(from) == pc = from /\ pc' = "failed" /\ UNCHANGED <<job, file, header, current, w, i>>

-----------------------------------------------------------------------------
(* replace_segment.  Mutants: the segment taken for as large as it is in    *)
(* memory; the remainder not cleared.                                       *)
AvailableInMemory(v) == v.vmsize
Available(v) == v.filesize
RemainderKept(v, used) == v.fileoff + used
Remainder(v, used) == v.fileoff + Available(v)

Replaces(v, k) ==
    /\ v.seg.filesize <= v.seg.vmsize
    /\ FitsIn(Used(k), Available(v.seg))
    /\ k.seg.fileoff + Used(k) <= job.kext.size

ReplaceSegment(s, after) ==
    /\ pc = s /\ pc' = after
    /\ \E v \in ReadSegment(header, s), k \in ReadSegment(job.kext.cmds, s) :
         /\ Replaces(v, k)
         /\ file' = Written(file, v.seg.fileoff, Used(k), k.seg.fileoff, Remainder(v.seg, Used(k)))
    /\ UNCHANGED <<job, header, current, w, i>>

KextHasNot(s, after) ==
    /\ pc = s /\ pc' = after
    /\ ReadSegment(job.kext.cmds, s) = {}
    /\ UNCHANGED <<job, file, header, current, w, i>>

(* Not found in the victim (a null pointer), or one of the checks. *)
CannotReplace(s) ==
    /\ Fail(s)
    /\ \E k \in ReadSegment(job.kext.cmds, s) : ~\E v \in ReadSegment(header, s) : Replaces(v, k)

CopySegments ==
    \/ ReplaceSegment("__TEXT_EXEC", "__DATA_CONST") \/ KextHasNot("__TEXT_EXEC", "__DATA_CONST")
    \/ ReplaceSegment("__DATA_CONST", "__DATA") \/ KextHasNot("__DATA_CONST", "__DATA")
    \/ ReplaceSegment("__DATA", "__TEXT") \/ KextHasNot("__DATA", "__TEXT")

-----------------------------------------------------------------------------
(* replace_text_segment: current_segments is a copy of the old commands. *)
CurrentSegments == [n \in {header[k].seg.name : k \in SegmentsOf(header)} |->
    header[CHOOSE k \in SegmentsOf(header) : header[k].seg.name = n /\
             \A q \in SegmentsOf(header) : header[q].seg.name = n => q <= k].seg]
In(segments, n) == IF n \in DOMAIN segments THEN segments[n] ELSE NoSegment
Dst == In(current, "__TEXT")

TextFits(dst, k) ==
    /\ k.seg.fileoff = 0
    /\ dst.fileoff = job.fileoff
    /\ FitsIn(Used(k), dst.filesize)

(* The old header is overwritten from here on. *)
BeginText ==
    /\ pc = "__TEXT" /\ pc' = "commands"
    /\ current' = CurrentSegments
    /\ \E k \in ReadSegment(job.kext.cmds, "__TEXT") : TextFits(Dst', k)
    /\ file' = Written(file, Dst'.fileoff, 1, 0, 0)
    /\ header' = << >>
    /\ w' = Dst'.fileoff + 1
    /\ i' = 1
    /\ UNCHANGED job

CannotBeginText ==
    /\ Fail("__TEXT")
    /\ ~\E k \in ReadSegment(job.kext.cmds, "__TEXT") : TextFits(In(CurrentSegments, "__TEXT"), k)

Cmd == job.kext.cmds[i]

CopyCommand ==
    /\ pc = "commands" /\ i <= Len(job.kext.cmds) /\ Cmd.kind \in Kept
    /\ w + CmdSize(Cmd) <= FileSize
    /\ file' = Written(file, w, CmdSize(Cmd), Cmd.at, 0)
    /\ header' = Append(header, [Cmd EXCEPT !.at = w - Dst.fileoff])
    /\ w' = w + CmdSize(Cmd)
    /\ i' = i + 1
    /\ UNCHANGED <<job, pc, current>>

DropCommand ==
    /\ pc = "commands" /\ i <= Len(job.kext.cmds) /\ Cmd.kind \notin Kept
    /\ i' = i + 1
    /\ UNCHANGED <<job, pc, file, header, current, w>>

(* A mutant: what the commands leave of the old __TEXT stays. *)
TextRemainderKept == w
TextRemainder == Dst.fileoff + Dst.filesize

FinishCommands ==
    /\ pc = "commands" /\ i = Len(job.kext.cmds) + 1
    /\ w - Dst.fileoff < Dst.filesize
    /\ pc' = "fix"
    /\ file' = Written(file, w, 0, 0, TextRemainder)
    /\ i' = 1
    /\ UNCHANGED <<job, header, current, w>>

(* The check, or the end of the file in the loop. *)
CommandsTooLong ==
    /\ Fail("commands")
    /\ IF i <= Len(job.kext.cmds) THEN Cmd.kind \in Kept /\ w + CmdSize(Cmd) > FileSize
       ELSE w - Dst.fileoff >= Dst.filesize

(* A mutant: the old segment looked up in the header that is being written. *)
OldSegmentNow(c) == In(CurrentSegments, c.seg.name)
OldSegment(c) == In(current, c.seg.name)
AddrDelta(c) == OldSegment(c).vmaddr - c.seg.vmaddr
(* A mutant: section offsets shifted as addresses are. *)
OffsetDeltaOfAddr(c) == AddrDelta(c)
OffsetDelta(c) == OldSegment(c).fileoff - c.seg.fileoff

(* The segment takes the old place, its first n sections move with it. *)
Moved(c, n) ==
    [c EXCEPT !.seg = [OldSegment(c) EXCEPT !.name = c.seg.name],
              !.sections = [k \in DOMAIN c.sections |->
                 IF k > n THEN c.sections[k]
                 ELSE [c.sections[k] EXCEPT !.addr = @ + AddrDelta(c), !.offset = @ + OffsetDelta(c)]]]
Relocated(c) == {k \in DOMAIN c.sections : c.sections[k].reloff # 0}

Fixed(c) == IF c.kind = "segment" THEN Moved(c, Len(c.sections))
            ELSE IF c.kind = "symtab" THEN [c EXCEPT !.nsyms = 0] ELSE c

FixCommand ==
    /\ pc = "fix" /\ i <= Len(header)
    /\ Relocated(header[i]) = {}
    /\ header' = [header EXCEPT ![i] = Fixed(@)]
    /\ i' = i + 1
    /\ UNCHANGED <<job, pc, file, current, w>>

(* kcmod_verify(section->reloff == 0), after the section has been moved. *)
HasRelocations ==
    /\ pc = "fix" /\ i <= Len(header)
    /\ \E n \in Relocated(header[i]) :
         /\ \A k \in Relocated(header[i]) : n <= k
         /\ header' = [header EXCEPT ![i] = Moved(@, n)]
    /\ pc' = "failed"
    /\ UNCHANGED <<job, file, current, w, i>>

FinishFixes ==
    /\ pc = "fix" /\ i = Len(header) + 1
    /\ pc' = "sections" /\ i' = 1
    /\ UNCHANGED <<job, file, header, current, w>>

(* A writer over the __TEXT of the victim only, at the kext's own offsets. *)
CopySection ==
    /\ pc = "sections"
    /\ \E k \in ReadSegment(job.kext.cmds, "__TEXT") :
         /\ i <= Len(k.sections)
         /\ LET s == k.sections[i] IN
              /\ s.offset + s.size <= Dst.filesize /\ s.offset + s.size <= job.kext.size
              /\ file' = Written(file, Dst.fileoff + s.offset, s.size, s.offset, 0)
    /\ i' = i + 1
    /\ UNCHANGED <<job, pc, header, current, w>>

(* SpanReader throws at the end of the kext. *)
KextTooShort ==
    /\ Fail("sections")
    /\ \E k \in ReadSegment(job.kext.cmds, "__TEXT") :
         i <= Len(k.sections) /\ k.sections[i].offset + k.sections[i].size > job.kext.size

FinishSections ==
    /\ pc = "sections"
    /\ \E k \in ReadSegment(job.kext.cmds, "__TEXT") : i = Len(k.sections) + 1
    /\ pc' = "done"
    /\ UNCHANGED <<job, file, header, current, w, i>>

Ended == pc \in {"done", "failed"} /\ UNCHANGED vars

Next == \/ CopySegments
        \/ \E s \in {"__TEXT_EXEC", "__DATA_CONST", "__DATA"} : CannotReplace(s)
        \/ BeginText \/ CannotBeginText
        \/ CopyCommand \/ DropCommand \/ FinishCommands \/ CommandsTooLong
        \/ FixCommand \/ HasRelocations \/ FinishFixes
        \/ CopySection \/ KextTooShort \/ FinishSections
        \/ Ended

Spec == Init /\ [][Next]_vars

-----------------------------------------------------------------------------
(* Kexts and kernelcaches the two functions are meant for. *)
Replaceable == {"__TEXT", "__TEXT_EXEC", "__DATA_CONST", "__DATA"}
Segs(cmds) == {cmds[k] : k \in SegmentsOf(cmds)}
CellsOf(g) == g.fileoff .. g.fileoff + g.filesize - 1
InFile(c) == {s \in Range(c.sections) : ~s.zerofill}

NamesUnique(cmds) == \A a, b \in SegmentsOf(cmds) : cmds[a].seg.name = cmds[b].seg.name => a = b

(* A section with contents lies in its segment, as far into it in the file  *)
(* as in memory, and apart from the others.                                 *)
SectionsApart(c) ==
    /\ \A s \in InFile(c) :
         /\ c.seg.fileoff <= s.offset /\ s.offset + s.size <= c.seg.fileoff + c.seg.filesize
         /\ s.addr - c.seg.vmaddr = s.offset - c.seg.fileoff
    /\ \A a, b \in DOMAIN c.sections :
         a < b => c.sections[a].addr + c.sections[a].size <= c.sections[b].addr

(* read_used_segment_size takes the offset of a zero-fill section, 0, for a *)
(* place in the file.  This must not exceed what the others reach.          *)
ZeroFillBehind(c) ==
    \A s \in Range(c.sections) \ InFile(c) :
        /\ s.offset = 0
        /\ \E d \in InFile(c) : s.size <= d.offset + d.size
        /\ \A d \in InFile(c) : d.addr + d.size <= s.addr

(* The load commands end before the sections of __TEXT begin. *)
HeaderApart(j) ==
    \A t \in Segs(j.kext.cmds), c \in Range(j.kext.cmds) :
      t.seg.name = "__TEXT" =>
        \A s \in Range(t.sections) : ~s.zerofill /\ EndOf(c) <= s.offset

(* No check of the code compares the sizes in memory: the victim's is kept. *)
FitsInMemory(j) ==
    \A c \in Segs(j.kext.cmds), v \in Segs(j.victim) :
      c.seg.name = v.seg.name =>
        \A s \in Range(c.sections) : s.addr + s.size - c.seg.vmaddr <= v.seg.vmsize

(* Segments that are not copied, as __LINKEDIT, have no sections. *)
SectionsCopied(j) ==
    \A c \in Segs(j.kext.cmds) : c.sections # << >> => c.seg.name \in Replaceable

VictimApart(j) ==
    \A a, b \in Segs(j.victim) : a # b => CellsOf(a.seg) \cap CellsOf(b.seg) = {}

Supported(j) ==
    /\ NamesUnique(j.kext.cmds) /\ NamesUnique(j.victim) /\ VictimApart(j)
    /\ \A c \in Segs(j.kext.cmds) : SectionsApart(c) /\ ZeroFillBehind(c)
    /\ HeaderApart(j) /\ FitsInMemory(j) /\ SectionsCopied(j)

-----------------------------------------------------------------------------
Victims == {v \in Segs(job.victim) : v.seg.name \in Replaceable}
Pairs == {p \in Segs(job.kext.cmds) \X Victims : p[1].seg.name = p[2].seg.name}

(* The one way out of the victim: nothing keeps the load commands of a      *)
(* __TEXT without sections within the victim's until they are all written.  *)
TextIsEmpty == \A t \in ReadSegment(job.kext.cmds, "__TEXT") : t.sections = << >>
Overrun == {c \in Cells : /\ TextIsEmpty /\ pc \in {"commands", "failed"}
                          /\ Dst.fileoff + Dst.filesize <= c /\ c < w}

(* At every moment, also where a check stops the replacement half way, what *)
(* has been written lies in a segment of the victim that the kext replaces; *)
(* the next fileset's bytes begin in the cell behind it.  Only the load     *)
(* commands of a __TEXT without sections may run on into them, up to the    *)
(* check behind the loop (kernelcache.cpp:596): it stops every run in which *)
(* they did, and in one that passes it nothing else was ever touched.       *)
OnlyVictimWritten ==
    \A c \in Cells : file[c] # Old(c) =>
      c \in Overrun \/ \E p \in Pairs : c \in CellsOf(p[2].seg)

(* In the end no byte of the victim is left in a segment that was replaced  *)
(* ("Copy segments from kext to victim fileset", kernelcache.cpp:70).       *)
NothingLeft ==
    pc = "done" => \A p \in Pairs : \A c \in CellsOf(p[2].seg) : file[c] # Old(c)

(* The commands of the kext the fileset keeps, and the place of each. *)
KeptIndices == {n \in DOMAIN job.kext.cmds : job.kext.cmds[n].kind \in Kept}
Place(n) == Cardinality({m \in KeptIndices : m <= n})

(* The new header can be read back: its commands follow one another, none   *)
(* is missing or was overwritten by a section, and each segment has the     *)
(* place in file and memory the victim's had, although the old header was   *)
(* gone when the commands were made to name it (kernelcache.cpp:548-551).   *)
HeaderInPlace ==
    pc = "done" =>
      /\ Len(header) = Cardinality(KeptIndices)
      /\ \A k \in DOMAIN header :
           header[k].at = IF k = 1 THEN 1 ELSE EndOf(header[k - 1])
      /\ \A n \in KeptIndices :
           LET c == job.kext.cmds[n]
               h == header[Place(n)]
           IN /\ h.kind = c.kind /\ CmdSize(h) = CmdSize(c)
              /\ \A m \in 0 .. CmdSize(c) - 1 : file[job.fileoff + h.at + m] = New(c.at + m)
              /\ h.kind = "symtab" => h.nsyms = 0
              /\ \A v \in Segs(job.victim) :
                   h.kind = "segment" /\ h.seg.name = v.seg.name => h.seg = v.seg

(* Every section is found where the new header says, in file and in memory: *)
(* the header's offset and address name the same cell, which has the        *)
(* section's bytes, and the section lies in the victim's segment as far     *)
(* from its start as the kext was linked for.                               *)
SectionsInPlace ==
    pc = "done" =>
      \A k \in KeptIndices : \A n \in DOMAIN job.kext.cmds[k].sections :
        LET g == header[Place(k)].seg
            s == header[Place(k)].sections[n]
            o == job.kext.cmds[k].sections[n]
        IN /\ s.addr - g.vmaddr = o.addr - job.kext.cmds[k].seg.vmaddr
           /\ g.vmaddr <= s.addr /\ s.addr + s.size <= g.vmaddr + g.vmsize
           /\ ~s.zerofill =>
                /\ s.offset - g.fileoff = s.addr - g.vmaddr
                /\ \A m \in 0 .. s.size - 1 : file[s.offset + m] = New(o.offset + m)

(* Where the victim's segment is backed by the file and the kext's section  *)
(* is not, the kernel must find zeros.                                      *)
ZeroFillIsZero ==
    pc = "done" =>
      \A k \in KeptIndices : \A n \in DOMAIN job.kext.cmds[k].sections :
        LET g == header[Place(k)].seg
            s == header[Place(k)].sections[n]
            at == g.fileoff + (s.addr - g.vmaddr)
        IN s.zerofill => \A c \in CellsOf(g) \cap (at .. at + s.size - 1) : file[c] = Zero
=============================================================================
