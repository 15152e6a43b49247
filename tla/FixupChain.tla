----------------------------- MODULE FixupChain -----------------------------
(* DyldFixupChainEditor (fixup_chain.cpp) driven the way KernelCache::      *)
(* replace_fileset drives it: remove_fixups over each data segment of the   *)
(* victim fileset, the kext's segments copied over the victim's, one        *)
(* add_fixup per pointer of the kext.                                       *)
(*                                                                          *)
(* A file offset counts strides of 4 bytes, the unit of a pointer's `next'  *)
(* field.  Of a pointer only `next' is kept; its target, authentication     *)
(* and second word do not matter to the chains.  A page_start[i] is in      *)
(* strides too.  The loops are walked one pointer per step.                 *)
EXTENDS Integers

CONSTANTS
    Seg,         \* the segments with chained starts, numbered in file order
    SegOffset,   \* segment_offset of each
    PageCount,   \* page_count of each
    PageSize,    \* page_size: 16384 bytes, 4096 strides
    NextLimit,   \* the values of the `next' bit-field: 2^11
    FileSize,    \* where SpanReader stops
    Overrun,     \* per segment, the 16 bits that follow its page_start array
    KextNext,    \* `next' bits of the kext's bytes at each victim location
    Layouts      \* the jobs: [fixups, ranges, kext]

Cells == 0 .. FileSize - 1
Slots == UNION {{s} \X (0 .. PageCount[s]) : s \in Seg}
Pages == {p \in Slots : p[2] < PageCount[p[1]]}

(* DYLD_CHAINED_PTR_START_NONE is 0xFFFF bytes: 4 pages less one byte. *)
StartNone == 4 * PageSize - 1
(* The bound add_fixup compares a distance in strides with, 0xFFFF too. *)
DistanceLimit == 16 * PageSize - 1

Base(p) == SegOffset[p[1]] + p[2] * PageSize
CellsOf(r) == {c \in Cells : r.lo <= c /\ c < r.hi}
InPage(S, p) == {c \in S : Base(p) <= c /\ c < Base(p) + PageSize}
Victims(l) == UNION {CellsOf(r) : r \in l.ranges}

ASSUME SizesAssumption ==
    /\ Seg \subseteq Nat
    /\ PageSize \in Nat \ {0} /\ NextLimit \in Nat \ {0} /\ FileSize \in Nat
    /\ SegOffset \in [Seg -> Nat] /\ PageCount \in [Seg -> Nat \ {0}]
    /\ Overrun \in [Seg -> 0 .. StartNone]
    /\ KextNext \in [Cells -> 0 .. NextLimit - 1]

ASSUME LayoutsAssumption ==
    \A l \in Layouts : /\ l.fixups \in SUBSET Cells
                       /\ l.ranges \subseteq [lo : Nat, hi : Nat]
                       /\ l.kext \in SUBSET Victims(l)

VARIABLES
    layout,   \* the job, fixed at the start
    fixups,   \* auxiliary: the locations the chains are meant to hold
    next,     \* the `next' field at each location
    start,    \* page_start of every slot of every segment
    pc,       \* where replace_fileset is
    ranges,   \* victim segments remove_fixups is still to be called on
    rng,      \* remove_fixups: [fileoff, end)
    page,     \* remove_fixups: the for loop's cursor
    at,       \* the slot find_fixup_segment returned
    cur,      \* reader.cursor()
    prev,     \* remove_fixups: prev, -1 for nullptr
    target,   \* add_fixup: fileoff
    linked    \* the pointers of the kext added so far

file == <<fixups, next, start>>
args == <<ranges, rng, page, at, prev, target>>
vars == <<layout, file, pc, args, cur, linked>>

(* The chains of an image: each pointer leads to the next one of its page. *)
Later(F, p, c) == {d \in InPage(F, p) : d > c}
Nearest(S) == CHOOSE m \in S : \A d \in S : m <= d
ImageNext(F) == [c \in Cells |->
    IF \E p \in Pages : c \in InPage(F, p) /\ Later(F, p, c) # {}
      THEN Nearest(Later(F, CHOOSE p \in Pages : c \in InPage(F, p), c)) - c
      ELSE 0]
ImageStart(F) == [p \in Slots |->
    IF p \notin Pages THEN Overrun[p[1]]
    ELSE IF InPage(F, p) = {} THEN StartNone
    ELSE Nearest(InPage(F, p)) - Base(p)]

Init == /\ layout \in Layouts
        /\ fixups = layout.fixups
        /\ next = ImageNext(layout.fixups)
        /\ start = ImageStart(layout.fixups)
        /\ pc = "remove"
        /\ ranges = layout.ranges
        /\ rng = [lo |-> 0, hi |-> 0]
        /\ page = 0
        /\ at = <<0, 0>>
        /\ cur = 0 /\ prev = -1 /\ target = 0
        /\ linked = {}

-----------------------------------------------------------------------------
(* find_fixup_segment: the first segment whose pages hold off, counting one *)
(* page too many, as {<<segment, page_idx>>}; {} for nullptr.               *)
PageIndex(s, off) == (off - SegOffset[s]) \div PageSize
Holds(s, off) == SegOffset[s] <= off /\ PageIndex(s, off) <= PageCount[s]
Located(off) == {<<s, PageIndex(s, off)>> :
    s \in {s \in Seg : Holds(s, off) /\ \A q \in Seg : Holds(q, off) => s <= q}}

First(p) == Base(p) + start[p]

Fail == pc' = "failed"

-----------------------------------------------------------------------------
(* remove_fixups(fileoff, size), one call per data segment of the victim. *)
RemoveFixups(r) ==
    /\ pc = "remove" /\ r \in ranges
    /\ pc' = "page"
    /\ rng' = r
    /\ ranges' = ranges \ {r}
    /\ page' = (r.lo \div PageSize) * PageSize
    /\ UNCHANGED <<layout, file, at, prev, target, cur, linked>>

RangeDone ==
    /\ pc = "page" /\ page >= rng.hi
    /\ pc' = "remove"
    /\ UNCHANGED <<layout, file, args, cur, linked>>

SkipPage ==
    /\ pc = "page" /\ page < rng.hi
    /\ Located(page) = {}
    /\ page' = page + PageSize
    /\ UNCHANGED <<layout, file, pc, ranges, rng, at, prev, target, cur, linked>>

Covered(p) == First(p) >= rng.lo /\ Base(p) + PageSize <= rng.hi

ClearPage(p) ==
    /\ pc = "page" /\ page < rng.hi
    /\ p \in Located(page) /\ Covered(p)
    /\ start' = [start EXCEPT ![p] = StartNone]
    /\ fixups' = fixups \ InPage(fixups, p)
    /\ page' = page + PageSize
    /\ UNCHANGED <<layout, next, pc, ranges, rng, at, prev, target, cur, linked>>

(* The walk starts at page_start even when that is START_NONE: it then      *)
(* reads unaligned bytes of another page, whatever they are ("wild").       *)
EnterPage(p) ==
    /\ pc = "page" /\ page < rng.hi
    /\ p \in Located(page) /\ ~Covered(p)
    /\ pc' = IF start[p] = StartNone THEN "wild" ELSE "visit"
    /\ at' = p /\ cur' = First(p) /\ prev' = -1
    /\ UNCHANGED <<layout, file, ranges, rng, page, target, linked>>

(* `prev->next += pointer->next' in 11 bits, page_start in 16 bits of bytes. *)
(* A mutant: prev->next = pointer->next. *)
SplicedOver(n) == n
Spliced(n) == (next[prev] + n) % NextLimit
Advanced(n) == (start[at] + n) % (4 * PageSize)
(* A mutant: the first location of the range left out. *)
InRangeOpen(c) == rng.lo < c /\ c < rng.hi
InRange(c) == rng.lo <= c /\ c < rng.hi

Unlink ==
    /\ fixups' = fixups \ {cur}
    /\ prev' = prev
    /\ IF prev # -1
         THEN next' = [next EXCEPT ![prev] = Spliced(next[cur])] /\ UNCHANGED start
         ELSE start' = [start EXCEPT ![at] = Advanced(next[cur])] /\ UNCHANGED next

Keep == prev' = cur /\ UNCHANGED file

(* A mutant: the loop without its exit. *)
FollowForever == pc' = pc /\ page' = page /\ cur' = cur + next[cur]

(* pointer->next == 0 leaves the loop; otherwise the cursor moves on. *)
FollowChain ==
    IF next[cur] = 0
      THEN pc' = "page" /\ page' = page + PageSize /\ cur' = cur
      ELSE pc' = pc /\ page' = page /\ cur' = cur + next[cur]

VisitPointer ==
    /\ pc = "visit" /\ cur \in Cells
    /\ IF InRange(cur) THEN Unlink ELSE Keep
    /\ FollowChain
    /\ UNCHANGED <<layout, ranges, rng, at, target, linked>>

(* SpanReader::peek throws at the end of the file. *)
OffFile ==
    /\ pc \in {"visit", "seek"} /\ cur \notin Cells
    /\ Fail
    /\ UNCHANGED <<layout, file, args, cur, linked>>

-----------------------------------------------------------------------------
(* A mutant: the kext copied before all victim segments are cleared. *)
CopyTooEarly(S) ==
    /\ pc = "remove"
    /\ pc' = "add"
    /\ next' = [c \in Cells |->
                  IF \E r \in S : c \in CellsOf(r) THEN KextNext[c] ELSE next[c]]
    /\ UNCHANGED <<layout, fixups, start, args, cur, linked>>

(* replace_segment for each data segment the kext has (S). *)
CopySegments(S) ==
    /\ pc = "remove" /\ ranges = {}
    /\ pc' = "add"
    /\ next' = [c \in Cells |->
                  IF \E r \in S : c \in CellsOf(r) THEN KextNext[c] ELSE next[c]]
    /\ UNCHANGED <<layout, fixups, start, args, cur, linked>>

(* add_fixup(fileoff, pointer), once for each pointer the split-segment     *)
(* info names and each bind of the kext, in any order.                      *)
AddNowhere(l) ==
    /\ pc = "add" /\ l \in layout.kext \ linked
    /\ Located(l) = {}
    /\ Fail
    /\ UNCHANGED <<layout, file, args, cur, linked>>

AddAlone(l) ==
    /\ pc = "add" /\ l \in layout.kext \ linked
    /\ \E p \in Located(l) :
         /\ start[p] = StartNone
         /\ start' = [start EXCEPT ![p] = l - Base(p)]
    /\ next' = [next EXCEPT ![l] = 0]
    /\ fixups' = fixups \cup {l}
    /\ linked' = linked \cup {l}
    /\ UNCHANGED <<layout, pc, args, cur>>

AddToChain(l) ==
    /\ pc = "add" /\ l \in layout.kext \ linked
    /\ \E p \in Located(l) : start[p] # StartNone /\ at' = p /\ cur' = First(p)
    /\ pc' = "seek"
    /\ target' = l
    /\ UNCHANGED <<layout, file, ranges, rng, page, prev, linked>>

(* A mutant: the end of the chain not taken for a place to insert. *)
StopsInside == cur + next[cur] > target
Stops == next[cur] = 0 \/ cur + next[cur] > target
(* (fileoff - reader.cursor()) / 4 is unsigned: behind the cursor it is huge. *)
(* A mutant: the distance held against a quarter of a page. *)
FitsQuarter(d) == d \in 0 .. PageSize \div 4 - 1
Fits(d) == d \in 0 .. DistanceLimit - 1
Narrow(d) == d % NextLimit
(* Mutants: the rest of the chain dropped, or counted from its end too. *)
RestDropped(d) == 0
RestUnguarded(d) == next[cur] - d
Rest(d) == IF next[cur] > 0 THEN Narrow(next[cur] - d) ELSE 0

SeekOn ==
    /\ pc = "seek" /\ cur \in Cells /\ cur # target
    /\ ~Stops
    /\ cur' = cur + next[cur]
    /\ UNCHANGED <<layout, file, pc, args, linked>>

Refuse ==
    /\ pc = "seek" /\ cur \in Cells
    /\ cur = target \/ (Stops /\ ~Fits(target - cur))
    /\ Fail
    /\ UNCHANGED <<layout, file, args, cur, linked>>

Insert ==
    /\ pc = "seek" /\ cur \in Cells /\ cur # target
    /\ Stops /\ Fits(target - cur)
    /\ next' = [next EXCEPT ![cur] = Narrow(target - cur),
                            ![target] = Rest(target - cur)]
    /\ fixups' = fixups \cup {target}
    /\ linked' = linked \cup {target}
    /\ pc' = "add"
    /\ UNCHANGED <<layout, start, args, cur>>

Finish ==
    /\ pc = "add" /\ linked = layout.kext
    /\ pc' = "done"
    /\ UNCHANGED <<layout, file, args, cur, linked>>

Ended == pc \in {"done", "failed", "wild"} /\ UNCHANGED vars

-----------------------------------------------------------------------------
Remove == \/ \E r \in ranges : RemoveFixups(r)
          \/ RangeDone
          \/ SkipPage
          \/ \E p \in Slots : ClearPage(p) \/ EnterPage(p)
          \/ VisitPointer

Add == \/ \E l \in layout.kext : AddNowhere(l) \/ AddAlone(l) \/ AddToChain(l)
       \/ SeekOn
       \/ Refuse
       \/ Insert

Next == \/ Remove
        \/ OffFile
        \/ \E S \in SUBSET layout.ranges : CopySegments(S)
        \/ Add
        \/ Finish
        \/ Ended

Spec == Init /\ [][Next]_vars
(* One thread runs it: the tool takes its next step until it ends. *)
FairSpec == Spec /\ WF_vars(Next)

-----------------------------------------------------------------------------
(* Jobs the editor is meant for.  MCFixupTrailing shows what it does with   *)
(* jobs that are not Anchored.                                              *)
Kept(l) == l.fixups \ Victims(l)
CursorOf(r) == (r.lo \div PageSize) * PageSize

(* Segments start on page boundaries and are a page or more apart, so that  *)
(* the page find_fixup_segment counts too many is no other segment's.       *)
SegmentsApart ==
    /\ \A s \in Seg : SegOffset[s] % PageSize = 0
    /\ \A s, q \in Seg :
         s < q => SegOffset[s] + (PageCount[s] + 1) * PageSize <= SegOffset[q]
    /\ \A p \in Pages : Base(p) + PageSize <= FileSize

(* The victim's segments lie in the file, clear of every such extra page,   *)
(* and the pointers lie in pages that have a page_start.                    *)
InTheFile(l) ==
    /\ \A r \in l.ranges : \A p \in Slots \ Pages :
         ~(CursorOf(r) <= Base(p) /\ Base(p) < r.hi)
    /\ \A c \in l.fixups \cup l.kext : \E p \in Pages : c \in InPage(Cells, p)

(* On a page a victim segment takes part of, a fixup beyond every fixup of  *)
(* the victim remains, or else the segment takes all of the page's fixups   *)
(* and reaches the end of the page.                                         *)
Anchored(l) ==
    \A r \in l.ranges, p \in Pages :
      CursorOf(r) <= Base(p) /\ Base(p) < r.hi =>
        \/ /\ Base(p) + PageSize <= r.hi
           /\ \A f \in InPage(l.fixups, p) : r.lo <= f
        \/ \E f \in InPage(Kept(l), p) :
             \A g \in InPage(l.fixups \cap Victims(l), p) : g < f

(* Locations that can become neighbours in a chain are near enough for an   *)
(* 11-bit `next'.  The code does not check that: it compares a distance     *)
(* with 0xFFFF (fixup_chain.cpp:181), sixteen pages, and stores it in 11    *)
(* bits; a pointer half a page or more from its neighbour is linked wrongly.*)
Compact(l) ==
    \A p \in Pages : \A f, g \in InPage(l.fixups \cup l.kext, p) :
      \/ g - f < NextLimit
      \/ \E h \in Kept(l) : f < h /\ h < g

Supported(l) == InTheFile(l) /\ Anchored(l) /\ Compact(l)

-----------------------------------------------------------------------------
(* Every variable keeps its type. *)
TypeOK ==
    /\ layout \in Layouts
    /\ fixups \in SUBSET Cells
    /\ next \in [Cells -> 0 .. NextLimit - 1]
    /\ start \in [Slots -> 0 .. StartNone]
    /\ pc \in {"remove", "page", "visit", "add", "seek", "done", "failed", "wild"}
    /\ ranges \in SUBSET layout.ranges
    /\ rng \in [lo : Nat, hi : Nat]
    /\ page \in Nat
    /\ at \in Nat \X Nat
    /\ cur \in Nat
    /\ prev \in Cells \cup {-1}
    /\ target \in Nat
    /\ linked \in SUBSET layout.kext

(* head is the least of F and nx leads from each of F to the next of F. *)
IsChain(F, nx, head) ==
    /\ head \in F
    /\ \A f \in F : head <= f
    /\ \A f \in F : IF nx[f] = 0
                     THEN \A g \in F : g <= f
                     ELSE /\ f + nx[f] \in F
                          /\ \A g \in F : ~(f < g /\ g < f + nx[f])

(* The page_start of p leads to a chain of the fixups of F on p. *)
HoldsChain(p, F, nx, st) ==
    IF st[p] = StartNone THEN InPage(F, p) = {}
    ELSE IsChain(InPage(F, p), nx, Base(p) + st[p])

(* What add_fixup and remove_fixups rely on and must preserve: the chain of *)
(* every page, read in place, visits exactly the fixups it is meant to      *)
(* hold, in file order, after every single write of either of them.         *)
Represents == \A p \in Pages : HoldsChain(p, fixups, next, start)

(* What the kernel finds from c on when it walks the chains at boot, and all *)
(* that it finds.                                                            *)
Walk[c \in Cells] ==
    {c} \cup IF next[c] = 0 \/ c + next[c] \notin Cells THEN {} ELSE Walk[c + next[c]]
Loaded == UNION {IF First(p) \in Cells THEN Walk[First(p)] ELSE {} :
                 p \in {p \in Pages : start[p] # StartNone}}

(* "Remove dyld chained fixups in victim fileset" (kernelcache.cpp:59): when *)
(* the kext's bytes are about to be copied over the victim's data, no chain  *)
(* of the file leads into them any more, and none lost a fixup of another    *)
(* fileset.                                                                  *)
VictimCleared == pc = "remove" /\ ranges = {} => Loaded = Kept(layout)

(* "Link kext" (kernelcache.cpp:110): in the finished file the kernel finds  *)
(* the fixups of the other filesets and every pointer of the kext, and       *)
(* nothing else, whatever link bits the kext's own bytes brought along.      *)
KextLinked == pc = "done" => Loaded = Kept(layout) \cup layout.kext

(* The editor gives up for one reason only: a pointer that lies before the   *)
(* first fixup of its page, for which add_fixup has no case.                 *)
RefusalsExplained == pc = "failed" => \A f \in InPage(fixups, at) : target < f

(* Every walk of either loop ends, in any file and for any job: a link never *)
(* leads back and nothing is read twice.                                     *)
Terminates == <>(pc \in {"done", "failed", "wild"})

Abs == INSTANCE FixupSet WITH
         fixups <- Loaded,
         phase <- IF pc \in {"remove", "page", "visit"} THEN "removing"
                  ELSE IF pc \in {"add", "seek"} THEN "linking"
                  ELSE IF pc = "done" THEN "done" ELSE "failed"

(* Seen through the kernel's eyes, each single write of the two loops is a   *)
(* step of FixupSet or no step at all.                                       *)
ImplementsSet == Abs!Spec
=============================================================================
