----------------------------- MODULE MCSegments -----------------------------
(* A victim with four segments and its share of __LINKEDIT, other filesets' *)
(* bytes between and behind them, each segment moved by its own distance.   *)
EXTENDS Segments, TLC

MCFileSize == 52

Seg(name, vmaddr, vmsize, fileoff, filesize) ==
    [name |-> name, vmaddr |-> vmaddr, vmsize |-> vmsize, fileoff |-> fileoff, filesize |-> filesize]
Cmdof(kind) == [kind |-> kind, at |-> 1, seg |-> NoSegment, sections |-> << >>, nsyms |-> 0]
LcSegment(seg, sections) == [Cmdof("segment") EXCEPT !.seg = seg, !.sections = sections]
Sect(addr, offset, size) == [addr |-> addr, offset |-> offset, size |-> size, zerofill |-> FALSE, reloff |-> 0]
Bss(addr, size) == [Sect(addr, 0, size) EXCEPT !.zerofill = TRUE]

(* Each command behind the one before it. *)
Start(cmds, k) == FoldLeft(LAMBDA n, c : n + CmdSize(c), 1, SubSeq(cmds, 1, k - 1))
Laid(cmds) == [k \in DOMAIN cmds |-> [cmds[k] EXCEPT !.at = Start(cmds, k)]]

Victim(t, e, c, d, memory) == Laid(
    <<LcSegment(Seg("__TEXT", 100, t, 2, t), << >>), Cmdof("uuid"),
      LcSegment(Seg("__TEXT_EXEC", 210, 6, 26, e), << >>)>>
    \o (IF c > 0 THEN <<LcSegment(Seg("__DATA_CONST", 320, 4, 33, c), << >>)>> ELSE << >>)
    \o <<LcSegment(Seg("__DATA", 430, memory, 38, d), << >>),
         LcSegment(Seg("__LINKEDIT", 540, 4, 47, 4), << >>)>>)

(* The kext: 16 cells of load commands at most, __TEXT up to 20, then the   *)
(* other segments.                                                          *)
Text(sections) == LcSegment(Seg("__TEXT", 0, 20, 0, 20), sections)
Exec(n) == LcSegment(Seg("__TEXT_EXEC", 20, 4, 20, 4), <<Sect(20, 20, n)>>)
Const(s) == LcSegment(Seg("__DATA_CONST", 24, 2, 24, 2), s)
Data(s) == LcSegment(Seg("__DATA", 26, 8, 26, 4), s)
Linkedit == LcSegment(Seg("__LINKEDIT", 34, 6, 30, 6), << >>)
Symtab == [Cmdof("symtab") EXCEPT !.nsyms = 3]

Relocs(s) == [s EXCEPT !.reloff = 30]
TextSections == {<< >>, <<Sect(17, 17, 1), Sect(18, 18, 2)>>, <<Sect(16, 16, 2), Relocs(Sect(18, 18, 1))>>}
DataParts == {<< >>} \cup {<<Data(<<Sect(26, 26, 3), Bss(30, n)>>)>> : n \in {1, 3}} \cup {<<Data(<<Sect(27, 27, 3)>>)>>}
ConstParts == {<< >>, <<Const(<<Sect(24, 24, 1)>>)>>, <<Const(<< >>)>>}

Kext(text, e, const, data, size) ==
    [cmds |-> Laid(text \o <<Cmdof("uuid"), Cmdof("split_info"), Exec(e)>> \o const \o data
                   \o <<Linkedit, Symtab, Cmdof("chained_fixups"), Cmdof("build_version")>>),
     size |-> size]

Kexts == {Kext(<<Text(t)>>, e, c, d, size) : t \in TextSections, e \in {2, 4}, c \in ConstParts,
             d \in DataParts, size \in {19, 36}}
         \cup {Kext(<< >>, 2, << >>, << >>, 36), Kext(<<Text(<<Sect(17, 17, 2)>>)>>, 2, << >>, << >>, 18)}
(* Sections of __TEXT behind the other segments in the file. *)
SmallKexts == {[cmds |-> Laid(<<Text(t)>> \o data \o <<Cmdof("uuid"), Symtab>>), size |-> n] :
                 t \in TextSections, data \in DataParts, n \in {18, 36}}

Kernelcaches == {Victim(t, e, c, d, m) : t \in {7, 12, 17, 20}, e \in {3, 6}, c \in {0, 3}, d \in {4, 6}, m \in {5, 8}}

(* Load commands that are too long for it reach the end of the file. *)
AtTheEnd == Laid(<<LcSegment(Seg("__TEXT", 100, 7, 45, 7), << >>),
                   LcSegment(Seg("__TEXT_EXEC", 210, 6, 26, 6), << >>)>>)

Jobs_ == [victim : Kernelcaches, fileoff : {2}, kext : Kexts \cup SmallKexts]
         \cup [victim : {AtTheEnd}, fileoff : {45}, kext : Kexts]
MCJobs == {j \in Jobs_ : Supported(j)}
=============================================================================
