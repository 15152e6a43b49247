--------------------------- MODULE SegmentsProofs ---------------------------
(* Copying a kext over a victim writes into the victim's segments only and  *)
(* leaves nothing of the victim in them, whatever their sizes and number.   *)
EXTENDS Segments, TLAPS

AllSupported == \A j \in Jobs : Supported(j)

Copying == {"__TEXT_EXEC", "__DATA_CONST", "__DATA"}
Editing == {"commands", "fix", "sections"}

(* Where the reader is in the kext's commands. *)
Reader == IF i = 1 THEN 1 ELSE EndOf(job.kext.cmds[i - 1])

(* From BeginText on, Dst is the victim's __TEXT, with room for the kext's. *)
TextKnown ==
    \E v \in Segs(job.victim), k \in Segs(job.kext.cmds) :
      /\ v.seg.name = "__TEXT" /\ k.seg.name = "__TEXT"
      /\ Dst = v.seg /\ TextFits(Dst, k)

(* The writer is not ahead of the reader, and what it passed is written. *)
WriterBehind ==
    /\ i \in 1 .. Len(job.kext.cmds) + 1
    /\ w \in Nat /\ Dst.fileoff < w /\ w <= Dst.fileoff + Reader
    /\ \A c \in Cells : Dst.fileoff <= c /\ c < w => file[c] # Old(c)

(* The segments the steps so far have gone over. *)
Passed == CASE pc = "__TEXT_EXEC" -> {}
            [] pc = "__DATA_CONST" -> {"__TEXT_EXEC"}
            [] pc = "__DATA" -> {"__TEXT_EXEC", "__DATA_CONST"}
            [] pc \in {"__TEXT", "commands"} -> {"__TEXT_EXEC", "__DATA_CONST", "__DATA"}
            [] pc \in {"fix", "sections", "done"} -> Replaceable
            [] OTHER -> {}

Clear(names) ==
    \A p \in Pairs : p[2].seg.name \in names => \A c \in CellsOf(p[2].seg) : file[c] # Old(c)

Locations == Copying \cup Editing \cup {"__TEXT", "done", "failed"}

Inv == /\ job \in Jobs /\ pc \in Locations /\ i \in Nat \ {0}
       /\ pc \in Copying \cup {"__TEXT"} => header = job.victim
       /\ pc \in Editing => TextKnown
       /\ pc = "commands" => WriterBehind
       /\ OnlyVictimWritten
       /\ Clear(Passed)

-----------------------------------------------------------------------------
(* What is written is never what was there at the start. *)
LEMMA NewIsNotOld == \A c, o : New(o) # Old(c) /\ Zero # Old(c)
BY DEF New, Old, Zero

(* Every command of a job has its type and its segment lies in the file. *)
LEMMA VictimFacts ==
    ASSUME NEW j \in Jobs, NEW v \in Segs(j.victim)
    PROVE  /\ v \in Command /\ v.seg.fileoff \in Nat /\ v.seg.filesize \in Nat
           /\ v.seg.fileoff + v.seg.filesize <= FileSize
           /\ CellsOf(v.seg) \subseteq Cells
<1>1. PICK n \in DOMAIN j.victim : v = j.victim[n]
  BY DEF Segs, SegmentsOf
<1>2. j.victim \in Seq(Command) /\ FileSize \in Nat
      /\ j.victim[n].seg.fileoff + j.victim[n].seg.filesize <= FileSize
  BY JobsAssumption
<1>3. v \in Command
  BY <1>1, <1>2
<1>4. v.seg \in Segment
  BY <1>3 DEF Command
<1>5. v.seg.fileoff \in Nat /\ v.seg.filesize \in Nat
  BY <1>4 DEF Segment
<1>6. CellsOf(v.seg) \subseteq Cells
  <2>1. v.seg.fileoff + v.seg.filesize <= FileSize /\ FileSize \in Nat
    BY <1>1, <1>2
  <2> QED BY <1>5, <2>1 DEF CellsOf, Cells
<1> QED BY <1>1, <1>2, <1>3, <1>5, <1>6

LEMMA KextFacts ==
    ASSUME NEW j \in Jobs, NEW n \in DOMAIN j.kext.cmds
    PROVE  LET c == j.kext.cmds[n] IN
             /\ j.kext.cmds \in Seq(Command) /\ c \in Command
             /\ c.at \in Nat /\ c.sections \in Seq(Section) /\ CmdSize(c) \in Nat \ {0}
             /\ c.seg.fileoff \in Nat /\ EndOf(c) \in Nat
             /\ c.at = IF n = 1 THEN 1 ELSE EndOf(j.kext.cmds[n - 1])
<1> DEFINE c == j.kext.cmds[n]
<1>1. j.kext.cmds \in Seq(Command) /\ c.at = IF n = 1 THEN 1 ELSE EndOf(j.kext.cmds[n - 1])
  BY JobsAssumption
<1>2. c \in Command
  BY <1>1
<1>3. c.at \in Nat /\ c.sections \in Seq(Section) /\ c.seg \in Segment
  BY <1>2 DEF Command
<1>4. CmdSize(c) \in Nat \ {0} /\ EndOf(c) \in Nat
  BY <1>3 DEF CmdSize, EndOf
<1>5. c.seg.fileoff \in Nat
  BY <1>3 DEF Segment
<1> QED BY <1>1, <1>2, <1>3, <1>4, <1>5

(* The section that reaches furthest is as far as read_used_segment_size    *)
(* says.                                                                    *)
LEMMA UsedFacts ==
    ASSUME NEW j \in Jobs, NEW k \in Segs(j.kext.cmds)
    PROVE  /\ Used(k) \in Int
           /\ \A s \in Range(k.sections) :
                s.offset \in Nat /\ s.size \in Nat /\ s.offset + s.size - k.seg.fileoff <= Used(k)
<1>1. PICK n \in DOMAIN j.kext.cmds : k = j.kext.cmds[n]
  BY DEF Segs, SegmentsOf
<1>2. k.sections \in Seq(Section) /\ k.seg.fileoff \in Nat
  BY <1>1, KextFacts
<1>3. \E m \in Reaches(k.sections) : \A r \in Reaches(k.sections) : r <= m
  BY <1>1, JobsAssumption
<1>4. \A s \in Range(k.sections) : s.offset \in Nat
  BY <1>1, JobsAssumption
<1>5. \A s \in Range(k.sections) : s.size \in Nat
  <2> SUFFICES ASSUME NEW x \in DOMAIN k.sections PROVE k.sections[x].size \in Nat
    BY DEF Range
  <2>1. k.sections[x] \in Section
    BY <1>2
  <2> QED BY <2>1 DEF Section
<1>6. MaxOffset(k.sections) \in Reaches(k.sections)
      /\ \A r \in Reaches(k.sections) : r <= MaxOffset(k.sections)
  BY <1>3 DEF MaxOffset
<1>7. \A r \in Reaches(k.sections) : r \in Int
  BY <1>4, <1>5 DEF Reaches
<1>8. \A s \in Range(k.sections) : s.offset + s.size \in Reaches(k.sections)
  BY DEF Reaches
<1> QED BY <1>2, <1>4, <1>5, <1>6, <1>7, <1>8 DEF Used

(* With unique names, the first segment of a name is the only one. *)
LEMMA TheSegment ==
    ASSUME NEW cmds \in Seq(Command), NEW name
    PROVE  /\ \A c \in ReadSegment(cmds, name) : c \in Segs(cmds) /\ c.seg.name = name
           /\ NamesUnique(cmds) => \A c \in Segs(cmds) :
                c.seg.name = name => ReadSegment(cmds, name) = {c}
<1>1. \A c \in ReadSegment(cmds, name) : c \in Segs(cmds) /\ c.seg.name = name
  BY DEF ReadSegment, Segs
<1>2. ASSUME NamesUnique(cmds), NEW a \in SegmentsOf(cmds), cmds[a].seg.name = name
      PROVE  ReadSegment(cmds, name) = {cmds[a]}
  <2>1. \A q \in SegmentsOf(cmds) : cmds[q].seg.name = name => q = a
    BY <1>2 DEF NamesUnique
  <2>2. {k \in SegmentsOf(cmds) :
          cmds[k].seg.name = name /\ \A q \in SegmentsOf(cmds) : q < k => cmds[q].seg.name # name}
        \subseteq {a}
    BY <2>1
  <2>3. a \in {k \in SegmentsOf(cmds) :
          cmds[k].seg.name = name /\ \A q \in SegmentsOf(cmds) : q < k => cmds[q].seg.name # name}
    <3>1. a \in Int
      BY DEF SegmentsOf
    <3> QED BY <2>1, <1>2, <3>1
  <2> QED BY <2>2, <2>3 DEF ReadSegment
<1> QED BY <1>1, <1>2 DEF Segs

(* A writer changes the cells it goes over only, and makes none old again. *)
LEMMA WriterFacts ==
    ASSUME NEW f, NEW a \in Int, NEW n \in Nat, NEW o, NEW b \in Int, NEW c \in Cells
    PROVE  /\ f[c] # Old(c) => Written(f, a, n, o, b)[c] # Old(c)
           /\ c < a \/ (a + n <= c /\ b <= c) => Written(f, a, n, o, b)[c] = f[c]
<1>1. c \in Int
  BY JobsAssumption DEF Cells
<1>2. Written(f, a, n, o, b)[c] =
        IF a <= c /\ c < a + n THEN New(o + (c - a))
        ELSE IF a + n <= c /\ c < b THEN Zero ELSE f[c]
  BY DEF Written
<1> QED BY <1>1, <1>2, NewIsNotOld

(* A writer that stays in a segment the kext replaces, or goes on behind    *)
(* __TEXT where nothing stops it yet, keeps the two properties.             *)
LEMMA WriterInPlace ==
    ASSUME OnlyVictimWritten, job' = job, job \in Jobs, Overrun \subseteq Overrun',
           NEW a \in Int, NEW n \in Nat, NEW o, NEW b \in Int,
           file' = Written(file, a, n, o, b),
           \A c \in Cells : a <= c /\ (c < a + n \/ c < b) =>
             c \in Overrun' \/ \E p \in Pairs : c \in CellsOf(p[2].seg)
    PROVE  /\ OnlyVictimWritten' /\ \A names : Clear(names) => Clear(names)'
           /\ \A c \in Cells : a <= c /\ (c < a + n \/ c < b) => file'[c] # Old(c)
<1>1. Pairs' = Pairs
  BY DEF Pairs, Victims
<1>2. \A q \in Pairs : CellsOf(q[2].seg) \subseteq Cells
  BY VictimFacts DEF Pairs, Victims
<1>3. ASSUME NEW c \in Cells, file'[c] # Old(c)
      PROVE  c \in Overrun' \/ \E p \in Pairs : c \in CellsOf(p[2].seg)
  <2>1. CASE a <= c /\ (c < a + n \/ c < b)
    BY <2>1
  <2>2. CASE ~(a <= c /\ (c < a + n \/ c < b))
    <3>1. c \in Int
      BY JobsAssumption DEF Cells
    <3>2. c < a \/ (a + n <= c /\ b <= c)
      BY <2>2, <3>1
    <3>3. file[c] # Old(c)
      BY <1>3, <3>2, WriterFacts
    <3> QED BY <3>3 DEF OnlyVictimWritten
  <2> QED BY <2>1, <2>2
<1>4. OnlyVictimWritten'
  BY <1>1, <1>3 DEF OnlyVictimWritten
<1>5. ASSUME NEW names, Clear(names)
      PROVE  Clear(names)'
  BY <1>1, <1>2, <1>5, WriterFacts DEF Clear
<1>6. ASSUME NEW c \in Cells, a <= c, c < a + n \/ c < b
      PROVE  file'[c] # Old(c)
  <2>1. Written(file, a, n, o, b)[c] # Old(c)
    <3>1. c \in Int
      BY JobsAssumption DEF Cells
    <3> QED BY <1>6, <3>1, NewIsNotOld DEF Written
  <2> QED BY <2>1
<1> QED BY <1>4, <1>5, <1>6

(* A writer that stays in one segment. *)
LEMMA WriterInVictim ==
    ASSUME OnlyVictimWritten, job' = job, job \in Jobs, Overrun \subseteq Overrun', NEW p \in Pairs,
           NEW a \in Int, NEW n \in Nat, NEW o, NEW b \in Int,
           file' = Written(file, a, n, o, b),
           p[2].seg.fileoff <= a,
           a + n <= p[2].seg.fileoff + p[2].seg.filesize,
           b <= p[2].seg.fileoff + p[2].seg.filesize
    PROVE  /\ OnlyVictimWritten' /\ \A names : Clear(names) => Clear(names)'
           /\ \A c \in Cells : a <= c /\ (c < a + n \/ c < b) => file'[c] # Old(c)
<1>1. p[2] \in Segs(job.victim)
  BY DEF Pairs, Victims
<1>2. \A c \in Cells : a <= c /\ (c < a + n \/ c < b) => c \in CellsOf(p[2].seg)
  <2>1. p[2].seg.fileoff \in Nat /\ p[2].seg.filesize \in Nat /\ \A c \in Cells : c \in Int
    BY <1>1, VictimFacts, JobsAssumption DEF Cells
  <2> QED BY <2>1 DEF CellsOf
<1> QED BY <1>2, WriterInPlace

(* A step that leaves the kernelcache alone keeps them. *)
LEMMA NothingWritten ==
    ASSUME job' = job, file' = file, Overrun \subseteq Overrun'
    PROVE  /\ OnlyVictimWritten => OnlyVictimWritten'
           /\ \A names : Clear(names) => Clear(names)'
BY DEF OnlyVictimWritten, Clear, Pairs, Victims

(* The overrun ends only in a run that has failed. *)
LEMMA OverrunKept ==
    /\ pc \notin {"commands", "failed"} => Overrun = {}
    /\ job' = job /\ current' = current /\ w' = w /\ pc' \in {"commands", "failed"}
         => Overrun \subseteq Overrun'
    /\ job' = job /\ current' = current /\ pc' = "commands" /\ w \in Int /\ w' \in Int /\ w <= w'
         => Overrun \subseteq Overrun'
<1>1. pc \notin {"commands", "failed"} => Overrun = {}
  BY DEF Overrun
<1>2. job' = job /\ current' = current => Dst' = Dst /\ TextIsEmpty' = TextIsEmpty
  BY DEF Dst, TextIsEmpty
<1>3. Cells \subseteq Int
  BY JobsAssumption DEF Cells
<1>4. ASSUME job' = job, current' = current, w' = w, pc' \in {"commands", "failed"}, NEW c \in Overrun
      PROVE  c \in Overrun'
  BY <1>2, <1>4 DEF Overrun, Cells
<1>5. ASSUME job' = job, current' = current, pc' = "commands", w \in Int, w' \in Int, w <= w', NEW c \in Overrun
      PROVE  c \in Overrun'
  <2>1. c \in Int /\ c < w
    BY <1>3 DEF Overrun
  <2>2. c < w'
    BY <1>5, <2>1
  <2> QED BY <1>2, <1>5, <2>2 DEF Overrun, Cells
<1> QED BY <1>1, <1>4, <1>5

(* Of two segments of a victim with one name there is only one. *)
LEMMA TheVictim ==
    ASSUME AllSupported, job \in Jobs, NEW v \in Segs(job.victim), NEW u \in Segs(job.victim),
           v.seg.name = u.seg.name
    PROVE  v = u
<1>1. NamesUnique(job.victim)
  BY DEF AllSupported, Supported
<1> QED BY <1>1 DEF NamesUnique, Segs

-----------------------------------------------------------------------------
LEMMA InitInv == Init => Inv
<1> SUFFICES ASSUME Init PROVE Inv
  OBVIOUS
<1>1. Passed = {}
  BY DEF Init, Passed
<1>2. Clear({})
  BY DEF Clear
<1> QED BY <1>1, <1>2 DEF Init, Inv, Locations, Copying, Editing, OnlyVictimWritten, Cells

(* __TEXT_EXEC, __DATA_CONST and __DATA. *)
LEMMA ReplaceSegmentInv ==
    ASSUME AllSupported, Inv, NEW s \in Copying, NEW after \in Copying \cup {"__TEXT"},
           ReplaceSegment(s, after),
           Passed' = Passed \cup {s}
    PROVE  Inv'
<1>1. job \in Jobs /\ job' = job /\ pc = s /\ pc' = after /\ header' = header /\ i' = i
  BY DEF Inv, ReplaceSegment
<1>2. header = job.victim
  BY <1>1 DEF Inv
<1>3. job.victim \in Seq(Command) /\ job.kext.cmds \in Seq(Command)
  BY <1>1, JobsAssumption
<1>4. PICK v \in ReadSegment(job.victim, s), k \in ReadSegment(job.kext.cmds, s) :
        /\ Replaces(v, k)
        /\ file' = Written(file, v.seg.fileoff, Used(k), k.seg.fileoff, Remainder(v.seg, Used(k)))
  BY <1>2 DEF ReplaceSegment
<1>5. v \in Segs(job.victim) /\ v.seg.name = s /\ k \in Segs(job.kext.cmds) /\ k.seg.name = s
  BY <1>3, TheSegment
<1>6. <<k, v>> \in Pairs
  BY <1>5 DEF Pairs, Victims, Replaceable, Copying
<1>7. v.seg.fileoff \in Nat /\ v.seg.filesize \in Nat /\ Used(k) \in Int
  BY <1>1, <1>5, VictimFacts, UsedFacts
<1>8. Used(k) \in Nat /\ Used(k) <= v.seg.filesize
      /\ Remainder(v.seg, Used(k)) = v.seg.fileoff + v.seg.filesize
  BY <1>4, <1>7 DEF Replaces, FitsIn, Available, Remainder
<1>9. OnlyVictimWritten' /\ Clear(Passed)'
  <2>1. Clear(Passed) /\ OnlyVictimWritten
    BY DEF Inv
  <2> DEFINE p == <<k, v>>
             b == Remainder(v.seg, Used(k))
  <2>2. b \in Int /\ b <= v.seg.fileoff + v.seg.filesize
    BY <1>7, <1>8
  <2>3. v.seg.fileoff + Used(k) <= v.seg.fileoff + v.seg.filesize /\ v.seg.fileoff <= v.seg.fileoff
    BY <1>7, <1>8
  <2>4. p \in Pairs /\ p[2] = v
    BY <1>6
  <2> HIDE DEF p, b
  <2>5. file' = Written(file, v.seg.fileoff, Used(k), k.seg.fileoff, b)
    BY <1>4 DEF b
  <2>6. /\ OnlyVictimWritten' /\ \A names : Clear(names) => Clear(names)'
        /\ \A c \in Cells : v.seg.fileoff <= c /\ c < b => file'[c] # Old(c)
    BY <1>1, <1>7, <1>8, <2>1, <2>2, <2>3, <2>4, <2>5, OverrunKept, WriterInVictim DEF Copying
  <2>7. PICK names : names = Passed
    OBVIOUS
  <2>8. Clear(names)'
    BY <2>1, <2>6, <2>7
  <2>9. ASSUME NEW q \in Pairs, q[2].seg.name = s, NEW c \in CellsOf(q[2].seg)
        PROVE  file'[c] # Old(c)
    <3>1. q[2] \in Segs(job.victim)
      BY DEF Pairs, Victims
    <3>2. q[2] = v
      BY <1>1, <1>5, <2>9, <3>1, TheVictim
    <3>3. c \in Cells /\ c \in Int
      BY <1>1, <1>5, <2>9, <3>2, VictimFacts, JobsAssumption DEF Cells
    <3>4. v.seg.fileoff <= c /\ c < b
      BY <1>7, <1>8, <2>9, <3>2, <3>3 DEF CellsOf, b
    <3> QED BY <2>6, <3>3, <3>4
  <2>10. Pairs' = Pairs
    BY <1>1 DEF Pairs, Victims
  <2> QED BY <2>6, <2>7, <2>8, <2>9, <2>10 DEF Clear
<1> QED BY <1>1, <1>2, <1>9 DEF Inv, Editing, Copying, Locations

LEMMA KextHasNotInv ==
    ASSUME AllSupported, Inv, NEW s \in Copying, NEW after \in Copying \cup {"__TEXT"},
           KextHasNot(s, after), Passed' = Passed \cup {s}
    PROVE  Inv'
<1>1. job \in Jobs /\ job' = job /\ pc = s /\ pc' = after /\ header' = header /\ i' = i
      /\ file' = file
  BY DEF Inv, KextHasNot
<1>2. \A q \in Pairs : q[2].seg.name # s
  <2>1. NamesUnique(job.kext.cmds) /\ job.kext.cmds \in Seq(Command)
    BY <1>1, JobsAssumption DEF AllSupported, Supported
  <2>2. \A c \in Segs(job.kext.cmds) : c.seg.name # s
    BY <2>1, TheSegment DEF KextHasNot
  <2> QED BY <2>2 DEF Pairs
<1>3. Clear(Passed)'
  <2>1. PICK names : names = Passed
    OBVIOUS
  <2>2. Clear(names)'
    BY <1>1, <2>1, OverrunKept, NothingWritten DEF Inv, Copying
  <2>3. Pairs' = Pairs
    BY <1>1 DEF Pairs, Victims
  <2> QED BY <1>2, <2>1, <2>2, <2>3 DEF Clear
<1>4. OnlyVictimWritten'
  BY <1>1, OverrunKept, NothingWritten DEF Inv, Copying
<1> QED BY <1>1, <1>3, <1>4 DEF Inv, Editing, Copying, Locations

LEMMA CopySegmentsInv ==
    ASSUME AllSupported, Inv, CopySegments
    PROVE  Inv'
<1>1. ASSUME NEW s \in Copying, NEW after \in Copying \cup {"__TEXT"},
             ReplaceSegment(s, after) \/ KextHasNot(s, after),
             Passed' = Passed \cup {s}
      PROVE  Inv'
  BY <1>1, ReplaceSegmentInv, KextHasNotInv
<1>2. CASE ReplaceSegment("__TEXT_EXEC", "__DATA_CONST") \/ KextHasNot("__TEXT_EXEC", "__DATA_CONST")
  <2>1. Passed' = Passed \cup {"__TEXT_EXEC"}
    BY <1>2 DEF ReplaceSegment, KextHasNot, Passed
  <2> QED BY <1>1, <1>2, <2>1 DEF Copying
<1>3. CASE ReplaceSegment("__DATA_CONST", "__DATA") \/ KextHasNot("__DATA_CONST", "__DATA")
  <2>1. Passed' = Passed \cup {"__DATA_CONST"}
    BY <1>3 DEF ReplaceSegment, KextHasNot, Passed
  <2> QED BY <1>1, <1>3, <2>1 DEF Copying
<1>4. CASE ReplaceSegment("__DATA", "__TEXT") \/ KextHasNot("__DATA", "__TEXT")
  <2>1. Passed' = Passed \cup {"__DATA"}
    BY <1>4 DEF ReplaceSegment, KextHasNot, Passed
  <2> QED BY <1>1, <1>4, <2>1 DEF Copying
<1> QED BY <1>2, <1>3, <1>4 DEF CopySegments

-----------------------------------------------------------------------------
(* With a segment the kext's __TEXT fits in, the victim's has room for each *)
(* of the kext's commands, if there is a section behind them.               *)
LEMMA TextFacts ==
    ASSUME AllSupported, job \in Jobs,
           NEW v \in Segs(job.victim), v.seg.name = "__TEXT",
           NEW k \in Segs(job.kext.cmds), k.seg.name = "__TEXT", TextFits(v.seg, k)
    PROVE  /\ <<k, v>> \in Pairs
           /\ v.seg.fileoff \in Nat /\ v.seg.filesize \in Nat
           /\ v.seg.fileoff = job.fileoff /\ v.seg.fileoff < FileSize
           /\ TextIsEmpty \/ \A n \in DOMAIN job.kext.cmds :
                               EndOf(job.kext.cmds[n]) \in Nat \ {0}
                               /\ EndOf(job.kext.cmds[n]) <= v.seg.filesize
           /\ DOMAIN job.kext.cmds # {}
<1>1. <<k, v>> \in Pairs
  BY DEF Pairs, Victims, Replaceable
<1>2. v.seg.fileoff \in Nat /\ v.seg.filesize \in Nat
  BY VictimFacts
<1>3. Used(k) <= v.seg.filesize /\ k.seg.fileoff = 0 /\ Used(k) \in Int
  BY UsedFacts DEF TextFits, FitsIn
<1>4. v.seg.fileoff = job.fileoff /\ v.seg.fileoff < FileSize
  BY <1>2, JobsAssumption DEF TextFits
<1>5. PICK m \in DOMAIN job.kext.cmds : k = job.kext.cmds[m]
  BY DEF Segs, SegmentsOf
<1>6. ASSUME NEW n \in DOMAIN job.kext.cmds
      PROVE  EndOf(job.kext.cmds[n]) \in Nat \ {0}
  BY KextFacts DEF EndOf
<1>7. ASSUME k.sections # << >>, NEW n \in DOMAIN job.kext.cmds
      PROVE  EndOf(job.kext.cmds[n]) <= v.seg.filesize
  <2>1. HeaderApart(job) /\ job.kext.cmds[n] \in Range(job.kext.cmds)
    BY DEF AllSupported, Supported, Range
  <2>2. k.sections \in Seq(Section)
    BY <1>5, KextFacts
  <2>3. 1 \in DOMAIN k.sections
    BY <1>7, <2>2
  <2>4. PICK s : s \in Range(k.sections)
    BY <2>3 DEF Range
  <2>5. EndOf(job.kext.cmds[n]) <= s.offset
    BY <2>1, <2>4 DEF HeaderApart
  <2>6. s.offset \in Nat /\ s.size \in Nat /\ s.offset + s.size - k.seg.fileoff <= Used(k)
    BY <2>4, UsedFacts
  <2> QED BY <1>2, <1>3, <1>6, <2>5, <2>6
<1>8. k.sections = << >> => TextIsEmpty
  <2>1. NamesUnique(job.kext.cmds) /\ job.kext.cmds \in Seq(Command)
    BY JobsAssumption DEF AllSupported, Supported
  <2>2. ReadSegment(job.kext.cmds, "__TEXT") = {k}
    BY <2>1, TheSegment
  <2> QED BY <2>2 DEF TextIsEmpty
<1> QED BY <1>1, <1>2, <1>4, <1>5, <1>6, <1>7, <1>8

(* current_segments has the victim's __TEXT under its name. *)
LEMMA CurrentFacts ==
    ASSUME AllSupported, job \in Jobs, header = job.victim, "__TEXT" \in DOMAIN CurrentSegments
    PROVE  \E v \in Segs(job.victim) : v.seg.name = "__TEXT" /\ CurrentSegments["__TEXT"] = v.seg
<1>1. NamesUnique(header) /\ SegmentsOf(header) \subseteq Int
  <2>1. header \in Seq(Command)
    BY JobsAssumption
  <2> QED BY <2>1 DEF AllSupported, Supported, SegmentsOf
<1>2. "__TEXT" \in {header[n].seg.name : n \in SegmentsOf(header)}
  BY DEF CurrentSegments
<1>3. PICK n \in SegmentsOf(header) : header[n].seg.name = "__TEXT"
  BY <1>2
<1> DEFINE m0 == CHOOSE m \in SegmentsOf(header) : header[m].seg.name = "__TEXT" /\
              \A q \in SegmentsOf(header) : header[q].seg.name = "__TEXT" => q <= m
<1>4. \A q \in SegmentsOf(header) : header[q].seg.name = "__TEXT" => q <= n
  BY <1>1, <1>3 DEF NamesUnique
<1>5. m0 \in SegmentsOf(header) /\ header[m0].seg.name = "__TEXT"
  BY <1>3, <1>4
<1>6. CurrentSegments["__TEXT"] = header[m0].seg
  BY <1>2 DEF CurrentSegments
<1> HIDE DEF m0
<1> QED BY <1>5, <1>6 DEF Segs

LEMMA BeginTextInv ==
    ASSUME AllSupported, Inv, BeginText
    PROVE  Inv'
<1>1. job \in Jobs /\ job' = job /\ pc = "__TEXT" /\ pc' = "commands" /\ header = job.victim
      /\ i' = 1 /\ current' = CurrentSegments /\ OnlyVictimWritten /\ Clear(Passed)
  BY DEF Inv, BeginText
<1>2. PICK k \in ReadSegment(job.kext.cmds, "__TEXT") : TextFits(Dst', k)
  BY DEF BeginText
<1>3. k \in Segs(job.kext.cmds) /\ k.seg.name = "__TEXT"
  BY <1>1, JobsAssumption, TheSegment
<1>4. Dst' = In(CurrentSegments, "__TEXT")
  BY <1>1 DEF Dst
<1>5. Dst'.fileoff # 0
  BY <1>1, <1>2, JobsAssumption DEF TextFits
<1>6. "__TEXT" \in DOMAIN CurrentSegments /\ Dst' = CurrentSegments["__TEXT"]
  BY <1>4, <1>5 DEF In, NoSegment
<1>7. PICK v \in Segs(job.victim) : v.seg.name = "__TEXT" /\ Dst' = v.seg
  BY <1>1, <1>6, CurrentFacts
<1>8. /\ <<k, v>> \in Pairs
      /\ v.seg.fileoff \in Nat /\ v.seg.filesize \in Nat
      /\ TextIsEmpty \/ v.seg.filesize # 0
  BY <1>1, <1>2, <1>3, <1>7, TextFacts
<1>9. TextKnown'
  BY <1>1, <1>2, <1>3, <1>7 DEF TextKnown, TextFits
<1>10. /\ OnlyVictimWritten' /\ \A names : Clear(names) => Clear(names)'
       /\ \A c \in Cells : v.seg.fileoff <= c /\ (c < v.seg.fileoff + 1 \/ c < 0) => file'[c] # Old(c)
  <2> DEFINE p == <<k, v>>
  <2>1. p \in Pairs /\ p[2] = v
    BY <1>8
  <2>2. file' = Written(file, v.seg.fileoff, 1, 0, 0)
    BY <1>7 DEF BeginText
  <2> HIDE DEF p
  <2>3. ASSUME NEW c \in Cells, v.seg.fileoff <= c, c < v.seg.fileoff + 1 \/ c < 0
        PROVE  c \in Overrun' \/ c \in CellsOf(v.seg)
    <3>1. c = v.seg.fileoff
      BY <1>8, <2>3, JobsAssumption DEF Cells
    <3>2. CASE v.seg.filesize # 0
      BY <1>8, <3>1, <3>2 DEF CellsOf
    <3>3. CASE v.seg.filesize = 0
      <4>1. TextIsEmpty' /\ w' = v.seg.fileoff + 1 /\ c \in Cells'
        BY <1>1, <1>7, <1>8, <3>3 DEF TextIsEmpty, BeginText, Cells
      <4> QED BY <1>1, <1>7, <1>8, <3>1, <3>3, <4>1 DEF Overrun
    <3> QED BY <3>2, <3>3
  <2>4. Overrun \subseteq Overrun' /\ 1 \in Nat /\ 0 \in Int /\ v.seg.fileoff \in Int
    BY <1>1, <1>8, OverrunKept
  <2> QED BY <1>1, <2>1, <2>2, <2>3, <2>4, WriterInPlace
<1>11. WriterBehind'
  <2>1. w' = v.seg.fileoff + 1 /\ Reader' = 1
    BY <1>1, <1>7 DEF BeginText, Reader
  <2>2. i' \in 1 .. Len(job'.kext.cmds) + 1
    BY <1>1, JobsAssumption
  <2>3. \A c \in Cells : c \in Int
    BY JobsAssumption DEF Cells
  <2>4. \A c \in Cells : v.seg.fileoff <= c /\ c < w' => file'[c] # Old(c)
    BY <1>10, <2>1, <2>3
  <2> QED BY <1>7, <1>8, <2>1, <2>2, <2>4 DEF WriterBehind
<1>12. Passed' = Passed
  BY <1>1 DEF Passed
<1>13. Clear(Passed)'
  <2>1. PICK names : names = Passed
    OBVIOUS
  <2> QED BY <1>1, <1>10, <1>12, <2>1 DEF Clear
<1> QED BY <1>1, <1>9, <1>10, <1>11, <1>13 DEF Inv, Locations, Editing, Copying

LEMMA CopyCommandInv ==
    ASSUME AllSupported, Inv, CopyCommand
    PROVE  Inv'
<1>1. job \in Jobs /\ job' = job /\ pc = "commands" /\ pc' = pc /\ current' = current
      /\ OnlyVictimWritten /\ Clear(Passed) /\ WriterBehind
  BY DEF Inv, CopyCommand
<1>2. i' = i + 1 /\ w' = w + CmdSize(Cmd) /\ file' = Written(file, w, CmdSize(Cmd), Cmd.at, 0)
  BY DEF CopyCommand
<1>3. PICK v \in Segs(job.victim), k \in Segs(job.kext.cmds) :
        v.seg.name = "__TEXT" /\ k.seg.name = "__TEXT" /\ Dst = v.seg /\ TextFits(Dst, k)
  BY <1>1 DEF Inv, Editing, TextKnown
<1>4. /\ <<k, v>> \in Pairs
      /\ v.seg.fileoff \in Nat /\ v.seg.filesize \in Nat
      /\ TextIsEmpty \/ \A n \in DOMAIN job.kext.cmds : EndOf(job.kext.cmds[n]) <= v.seg.filesize
  BY <1>1, <1>3, TextFacts
<1>5. i \in DOMAIN job.kext.cmds /\ i \in Nat \ {0} /\ i' \in 1 .. Len(job.kext.cmds) + 1
  BY <1>1, <1>2, JobsAssumption DEF CopyCommand, WriterBehind
<1>6. Cmd.at = Reader /\ Cmd.at \in Nat /\ CmdSize(Cmd) \in Nat \ {0}
  BY <1>1, <1>5, KextFacts DEF Cmd, Reader
<1>7. Reader' = EndOf(Cmd) /\ Reader' = Reader + CmdSize(Cmd)
  BY <1>1, <1>2, <1>5, <1>6 DEF Reader, Cmd, EndOf
<1>8. w \in Nat /\ v.seg.fileoff < w /\ w <= v.seg.fileoff + Reader
      /\ \A c \in Cells : v.seg.fileoff <= c /\ c < w => file[c] # Old(c)
  BY <1>1, <1>3 DEF WriterBehind
<1>9. TextIsEmpty \/ w + CmdSize(Cmd) <= v.seg.fileoff + v.seg.filesize
  <2>1. TextIsEmpty \/ EndOf(Cmd) <= v.seg.filesize
    BY <1>4, <1>5 DEF Cmd
  <2>2. Reader \in Nat /\ EndOf(Cmd) = Reader + CmdSize(Cmd)
    BY <1>6, <1>7
  <2> QED BY <1>4, <1>6, <1>8, <2>1, <2>2
<1>10. /\ OnlyVictimWritten' /\ \A names : Clear(names) => Clear(names)'
       /\ \A c \in Cells : w <= c /\ (c < w + CmdSize(Cmd) \/ c < 0) => file'[c] # Old(c)
  <2> DEFINE p == <<k, v>>
  <2>1. p \in Pairs /\ p[2] = v
    BY <1>4
  <2> HIDE DEF p
  <2>2. w \in Int /\ 0 \in Int /\ CmdSize(Cmd) \in Nat /\ w' \in Int /\ w <= w'
    BY <1>2, <1>6, <1>8
  <2>3. ASSUME NEW c \in Cells, w <= c, c < w + CmdSize(Cmd) \/ c < 0
        PROVE  c \in Overrun' \/ c \in CellsOf(v.seg)
    <3>1. c \in Nat /\ c < w + CmdSize(Cmd)
      BY <2>2, <2>3, JobsAssumption DEF Cells
    <3>2. CASE c < v.seg.fileoff + v.seg.filesize
      BY <1>4, <1>8, <2>3, <3>1, <3>2 DEF CellsOf
    <3>3. CASE v.seg.fileoff + v.seg.filesize <= c
      <4>1. TextIsEmpty'
        <5>1. TextIsEmpty
          BY <1>4, <1>9, <2>2, <3>1, <3>3
        <5> QED BY <1>1, <5>1 DEF TextIsEmpty
      <4>2. Dst' = v.seg /\ w' = w + CmdSize(Cmd) /\ c \in Cells'
        BY <1>1, <1>2, <1>3, <2>3 DEF Dst, Cells
      <4> QED BY <1>1, <3>1, <3>3, <4>1, <4>2 DEF Overrun
    <3> QED BY <1>4, <3>1, <3>2, <3>3
  <2>4. Overrun \subseteq Overrun'
    BY <1>1, <2>2, OverrunKept
  <2> QED BY <1>1, <1>2, <2>1, <2>2, <2>3, <2>4, WriterInPlace
<1>11. WriterBehind'
  <2>1. Dst' = v.seg /\ w' \in Nat /\ v.seg.fileoff < w' /\ w' <= v.seg.fileoff + Reader'
    BY <1>1, <1>2, <1>3, <1>4, <1>6, <1>7, <1>8 DEF Dst
  <2>2. ASSUME NEW c \in Cells, v.seg.fileoff <= c, c < w'
        PROVE  file'[c] # Old(c)
    <3>1. c \in Int
      BY JobsAssumption DEF Cells
    <3>2. CASE w <= c
      BY <1>2, <1>10, <2>2, <3>2
    <3>3. CASE c < w
      <4>1. file[c] # Old(c)
        BY <1>8, <2>2, <3>3
      <4>2. w \in Int /\ CmdSize(Cmd) \in Nat
        BY <1>6, <1>8
      <4> QED BY <1>2, <3>1, <3>3, <4>1, <4>2 DEF Written
    <3> QED BY <1>8, <3>1, <3>2, <3>3
  <2> QED BY <1>1, <1>5, <2>1, <2>2 DEF WriterBehind
<1>12. TextKnown'
  BY <1>1, <1>3 DEF TextKnown, TextFits, Dst
<1>13. Clear(Passed)'
  <2>1. PICK names : names = Passed
    OBVIOUS
  <2>2. Passed' = Passed
    BY <1>1 DEF Passed
  <2> QED BY <1>1, <1>10, <2>1, <2>2 DEF Clear
<1> QED BY <1>1, <1>5, <1>10, <1>11, <1>12, <1>13 DEF Inv, Locations, Editing, Copying

(* A step that leaves the kernelcache and the segments alone. *)
LEMMA Unwritten ==
    ASSUME Inv, job' = job, file' = file, current' = current, Passed' = Passed,
           pc \in Editing, pc' \in Editing, Overrun \subseteq Overrun'
    PROVE  TextKnown' /\ OnlyVictimWritten' /\ Clear(Passed)'
<1>1. TextKnown'
  BY DEF Inv, TextKnown, TextFits, Dst
<1>2. PICK names : names = Passed
  OBVIOUS
<1> QED BY <1>1, <1>2, NothingWritten DEF Inv, Clear

LEMMA DropCommandInv ==
    ASSUME AllSupported, Inv, DropCommand
    PROVE  Inv'
<1>1. job \in Jobs /\ job' = job /\ pc = "commands" /\ pc' = pc /\ current' = current
      /\ file' = file /\ w' = w /\ i' = i + 1 /\ WriterBehind
  BY DEF Inv, DropCommand
<1>2. i \in DOMAIN job.kext.cmds /\ i \in Nat \ {0} /\ i' \in 1 .. Len(job.kext.cmds) + 1
  BY <1>1, JobsAssumption DEF DropCommand, WriterBehind
<1>3. Cmd.at = Reader /\ Cmd.at \in Nat /\ CmdSize(Cmd) \in Nat \ {0}
  BY <1>1, <1>2, KextFacts DEF Cmd, Reader
<1>4. Reader' = Reader + CmdSize(Cmd)
  BY <1>1, <1>2, <1>3 DEF Reader, Cmd, EndOf
<1>5. Dst' = Dst /\ Dst.fileoff \in Nat
  BY <1>1, VictimFacts DEF Dst, Inv, TextKnown, Editing
<1>6. WriterBehind'
  <2>1. w <= Dst.fileoff + Reader'
    BY <1>1, <1>3, <1>4, <1>5 DEF WriterBehind
  <2> QED BY <1>1, <1>2, <1>5, <2>1 DEF WriterBehind
<1>7. TextKnown' /\ OnlyVictimWritten' /\ Clear(Passed)'
  <2>1. Overrun \subseteq Overrun'
    BY <1>1, OverrunKept
  <2> QED BY <1>1, <2>1, Unwritten DEF Passed, Editing
<1> QED BY <1>1, <1>2, <1>6, <1>7 DEF Inv, Locations, Editing, Copying

LEMMA FinishCommandsInv ==
    ASSUME AllSupported, Inv, FinishCommands
    PROVE  Inv'
<1>1. job \in Jobs /\ job' = job /\ pc = "commands" /\ pc' = "fix" /\ current' = current /\ i' = 1
      /\ OnlyVictimWritten /\ Clear(Passed) /\ WriterBehind
  BY DEF Inv, FinishCommands
<1>2. PICK v \in Segs(job.victim), k \in Segs(job.kext.cmds) :
        v.seg.name = "__TEXT" /\ k.seg.name = "__TEXT" /\ Dst = v.seg /\ TextFits(Dst, k)
  BY <1>1 DEF Inv, Editing, TextKnown
<1>3. <<k, v>> \in Pairs /\ v.seg.fileoff \in Nat /\ v.seg.filesize \in Nat
  BY <1>1, <1>2, TextFacts
<1>4. w \in Nat /\ v.seg.fileoff < w
      /\ \A c \in Cells : v.seg.fileoff <= c /\ c < w => file[c] # Old(c)
  BY <1>1, <1>2 DEF WriterBehind
<1>5. w <= v.seg.fileoff + v.seg.filesize
      /\ file' = Written(file, w, 0, 0, v.seg.fileoff + v.seg.filesize)
  BY <1>2, <1>3, <1>4 DEF FinishCommands, TextRemainder
<1>0. Overrun = {}
  <2>1. \A c \in Cells : c \in Int
    BY JobsAssumption DEF Cells
  <2> QED BY <1>2, <1>3, <1>4, <1>5, <2>1 DEF Overrun
<1>6. /\ OnlyVictimWritten' /\ \A names : Clear(names) => Clear(names)'
  <2> DEFINE p == <<k, v>>
             b == v.seg.fileoff + v.seg.filesize
  <2>1. p \in Pairs /\ p[2] = v
    BY <1>3
  <2>2. w \in Int /\ v.seg.fileoff <= w /\ w + 0 <= v.seg.fileoff + v.seg.filesize
        /\ b \in Int /\ b <= v.seg.fileoff + v.seg.filesize /\ 0 \in Nat
    BY <1>3, <1>4, <1>5
  <2>3. file' = Written(file, w, 0, 0, b)
    BY <1>5
  <2> HIDE DEF p, b
  <2> QED BY <1>0, <1>1, <2>1, <2>2, <2>3, WriterInVictim
<1>7. ASSUME NEW c \in CellsOf(v.seg)
      PROVE  file'[c] # Old(c)
  <2>1. c \in Int /\ c \in Cells /\ v.seg.fileoff <= c /\ c < v.seg.fileoff + v.seg.filesize
    <3>1. c \in Cells
      BY <1>1, VictimFacts
    <3> QED BY <1>3, <3>1 DEF CellsOf
  <2>2. CASE c < w
    <3>1. file[c] # Old(c)
      BY <1>4, <2>1, <2>2
    <3> QED BY <1>4, <1>5, <2>1, <2>2, <3>1 DEF Written
  <2>3. CASE w <= c
    BY <1>3, <1>4, <1>5, <2>1, <2>3, NewIsNotOld DEF Written
  <2> QED BY <1>4, <2>1, <2>2, <2>3
<1>8. Clear(Passed)'
  <2>1. PICK names : names = Passed
    OBVIOUS
  <2>2. Passed' = Passed \cup {"__TEXT"}
    BY <1>1 DEF Passed, Replaceable
  <2>3. \A q \in Pairs : q[2].seg.name = "__TEXT" => q[2] = v
    BY <1>1, <1>2, TheVictim DEF Pairs, Victims
  <2>4. Pairs' = Pairs
    BY <1>1 DEF Pairs, Victims
  <2> QED BY <1>1, <1>6, <1>7, <2>1, <2>2, <2>3, <2>4 DEF Clear
<1>9. TextKnown'
  BY <1>1, <1>2 DEF TextKnown, TextFits, Dst
<1> QED BY <1>1, <1>6, <1>8, <1>9 DEF Inv, Locations, Editing, Copying

LEMMA CopySectionInv ==
    ASSUME AllSupported, Inv, CopySection
    PROVE  Inv'
<1>1. job \in Jobs /\ job' = job /\ pc = "sections" /\ pc' = pc /\ current' = current /\ i' = i + 1
      /\ i \in Nat \ {0} /\ OnlyVictimWritten /\ Clear(Passed)
  BY DEF Inv, CopySection
<1>2. PICK v \in Segs(job.victim), k \in Segs(job.kext.cmds) :
        v.seg.name = "__TEXT" /\ k.seg.name = "__TEXT" /\ Dst = v.seg /\ TextFits(Dst, k)
  BY <1>1 DEF Inv, Editing, TextKnown
<1>3. <<k, v>> \in Pairs /\ v.seg.fileoff \in Nat /\ v.seg.filesize \in Nat
  BY <1>1, <1>2, TextFacts
<1>4. PICK t \in ReadSegment(job.kext.cmds, "__TEXT") :
        /\ i <= Len(t.sections)
        /\ LET s == t.sections[i] IN
             /\ s.offset + s.size <= Dst.filesize
             /\ file' = Written(file, Dst.fileoff + s.offset, s.size, s.offset, 0)
  BY DEF CopySection
<1> DEFINE s == t.sections[i]
<1>5. s.offset \in Nat /\ s.size \in Nat
  <2>1. t \in Segs(job.kext.cmds)
    BY <1>1, JobsAssumption, TheSegment
  <2>2. t.sections \in Seq(Section)
    BY <1>1, <2>1, KextFacts DEF Segs, SegmentsOf
  <2>3. s \in Range(t.sections)
    BY <1>1, <1>4, <2>2 DEF Range
  <2> QED BY <1>1, <2>1, <2>3, UsedFacts
<1>6. /\ OnlyVictimWritten' /\ \A names : Clear(names) => Clear(names)'
  <2> DEFINE p == <<k, v>>
             a == v.seg.fileoff + s.offset
  <2>1. p \in Pairs /\ p[2] = v
    BY <1>3
  <2>2. a \in Int /\ v.seg.fileoff <= a /\ a + s.size <= v.seg.fileoff + v.seg.filesize
        /\ 0 \in Int /\ 0 <= v.seg.fileoff + v.seg.filesize
    <3>1. s.offset + s.size <= v.seg.filesize
      BY <1>2, <1>4
    <3> HIDE DEF s
    <3> QED BY <1>3, <1>5, <3>1
  <2>3. file' = Written(file, a, s.size, s.offset, 0)
    BY <1>2, <1>4
  <2> HIDE DEF p, a, s
  <2> QED BY <1>1, <1>5, <2>1, <2>2, <2>3, OverrunKept, WriterInVictim
<1>7. Clear(Passed)'
  <2>1. PICK names : names = Passed
    OBVIOUS
  <2>2. Passed' = Passed
    BY <1>1 DEF Passed
  <2> QED BY <1>1, <1>6, <2>1, <2>2 DEF Clear
<1>8. TextKnown'
  BY <1>1, <1>2 DEF TextKnown, TextFits, Dst
<1> QED BY <1>1, <1>6, <1>7, <1>8 DEF Inv, Locations, Editing, Copying

(* The loop that corrects the header, and the ends of the loops, write      *)
(* nothing of the kernelcache but the fields of the load commands.          *)
LEMMA HeaderOnlyInv ==
    ASSUME Inv, FixCommand \/ FinishFixes
    PROVE  Inv'
<1>1. job' = job /\ file' = file /\ current' = current /\ pc = "fix" /\ pc' \in {"fix", "sections"}
      /\ i' \in Nat \ {0}
  BY DEF Inv, FixCommand, FinishFixes
<1>2. TextKnown' /\ OnlyVictimWritten' /\ Clear(Passed)'
  BY <1>1, Unwritten, OverrunKept DEF Passed, Editing
<1> QED BY <1>1, <1>2 DEF Inv, Locations, Editing, Copying

(* The end, and every check that stops the replacement half way. *)
LEMMA StopInv ==
    ASSUME Inv,
           \/ \E s \in Copying : CannotReplace(s)
           \/ CannotBeginText \/ CommandsTooLong \/ HasRelocations \/ KextTooShort \/ FinishSections
    PROVE  Inv'
<1>1. job' = job /\ file' = file /\ i' = i /\ (pc' = "failed" \/ (pc = "sections" /\ pc' = "done"))
  BY DEF CannotReplace, CannotBeginText, CommandsTooLong, HasRelocations, KextTooShort,
         FinishSections, Fail
<1>a. Overrun \subseteq Overrun'
  <2>1. current' = current /\ w' = w
    BY DEF CannotReplace, CannotBeginText, CommandsTooLong, HasRelocations, KextTooShort,
           FinishSections, Fail
  <2> QED BY <1>1, <2>1, OverrunKept
<1>2. OnlyVictimWritten'
  BY <1>1, <1>a, NothingWritten DEF Inv
<1>3. Clear(Passed)'
  <2>1. CASE pc' = "failed"
    <3>1. Passed' = {}
      BY <2>1 DEF Passed
    <3> QED BY <3>1 DEF Clear
  <2>2. CASE pc = "sections" /\ pc' = "done"
    <3>1. PICK names : names = Passed
      OBVIOUS
    <3>2. Passed' = Passed
      BY <2>2 DEF Passed
    <3> QED BY <1>1, <1>a, <3>1, <3>2, NothingWritten DEF Inv, Clear
  <2> QED BY <1>1, <2>1, <2>2
<1> QED BY <1>1, <1>2, <1>3 DEF Inv, Locations, Editing, Copying

LEMMA StutterInv ==
    ASSUME Inv, UNCHANGED vars
    PROVE  Inv'
<1>1. Passed' = Passed /\ TextKnown = TextKnown' /\ WriterBehind = WriterBehind'
  BY DEF vars, Passed, TextKnown, TextFits, WriterBehind, Reader, Dst
<1>2. PICK names : names = Passed
  OBVIOUS
<1>a. Overrun' = Overrun
  BY DEF vars, Overrun, TextIsEmpty, Dst, Cells
<1>3. Clear(Passed)'
  BY <1>1, <1>2, <1>a, NothingWritten DEF Inv, Clear, vars
<1> QED BY <1>1, <1>3, <1>a, NothingWritten DEF Inv, vars

LEMMA NextInv ==
    ASSUME AllSupported, Inv, [Next]_vars
    PROVE  Inv'
<1>1. CASE UNCHANGED vars
  BY <1>1, StutterInv
<1>2. CASE Next
  BY <1>2, CopySegmentsInv, BeginTextInv, CopyCommandInv, DropCommandInv, FinishCommandsInv,
     CopySectionInv, HeaderOnlyInv, StopInv, StutterInv DEF Next, Ended, Copying
<1> QED BY <1>1, <1>2

-----------------------------------------------------------------------------
(* Whatever the sizes, the number of segments, commands and sections: at    *)
(* every moment, also after a check that failed, only bytes of segments     *)
(* that the kext replaces are changed, but for the load commands of a kext  *)
(* whose __TEXT has no sections: until the check behind their loop, and in  *)
(* a run that this check stops, they may have gone on into what is behind.  *)
THEOREM OnlyTheVictimIsWritten == AllSupported => (Spec => []OnlyVictimWritten)
<1> SUFFICES ASSUME AllSupported PROVE Spec => []OnlyVictimWritten
  OBVIOUS
<1>1. Inv /\ [Next]_vars => Inv'
  BY NextInv
<1>2. Inv => OnlyVictimWritten
  BY DEF Inv
<1> QED BY <1>1, <1>2, InitInv, PTL DEF Spec

(* When the replacement ends, no byte of the victim is left in a segment    *)
(* the kext has.                                                            *)
THEOREM NothingOfTheVictimIsLeft == AllSupported => (Spec => []NothingLeft)
<1> SUFFICES ASSUME AllSupported PROVE Spec => []NothingLeft
  OBVIOUS
<1>1. Inv /\ [Next]_vars => Inv'
  BY NextInv
<1>2. Inv => NothingLeft
  <2> SUFFICES ASSUME Inv, pc = "done" PROVE NothingLeft
    BY DEF NothingLeft
  <2>1. Clear(Replaceable)
    BY DEF Inv, Passed
  <2>2. \A p \in Pairs : p[2].seg.name \in Replaceable
    BY DEF Pairs, Victims
  <2> QED BY <2>1, <2>2 DEF Clear, NothingLeft
<1> QED BY <1>1, <1>2, InitInv, PTL DEF Spec
=============================================================================
