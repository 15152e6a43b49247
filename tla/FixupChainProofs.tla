-------------------------- MODULE FixupChainProofs --------------------------
(* Proofs about FixupChain, for every kernelcache and every job that meets  *)
(* the conditions of its section on supported jobs.                         *)
EXTENDS FixupChain, WellFoundedInduction, TLAPS

ASSUME JobsAssumption == SegmentsApart /\ \A l \in Layouts : Supported(l)

-----------------------------------------------------------------------------
(* Chains, as sets of natural numbers linked in increasing order. *)

(* A chain depends on the links of its own members only. *)
LEMMA ChainCopy ==
    ASSUME NEW F \in SUBSET Nat, NEW nx, NEW nx2, NEW h \in Nat,
           IsChain(F, nx, h), \A f \in F : nx2[f] = nx[f]
    PROVE  IsChain(F, nx2, h)
  BY DEF IsChain

(* Inserting t between c and its successor. *)
LEMMA ChainInsert ==
    ASSUME NEW F \in SUBSET Nat, NEW nx, NEW nx2, NEW h \in Nat,
           IsChain(F, nx, h), \A f \in F : nx[f] \in Nat,
           NEW c \in F, NEW t \in Nat \ F, c < t, nx[c] = 0 \/ c + nx[c] > t,
           nx2[c] = t - c,
           nx2[t] = IF nx[c] > 0 THEN nx[c] - (t - c) ELSE 0,
           \A f \in F \ {c} : nx2[f] = nx[f]
    PROVE  IsChain(F \cup {t}, nx2, h)
<1>1. h \in F \cup {t} /\ \A f \in F \cup {t} : h <= f
  BY DEF IsChain
<1>2. \A g \in F : g <= c \/ g > t
  BY DEF IsChain
<1>3. ASSUME NEW f \in F \cup {t}, nx2[f] = 0
      PROVE  \A g \in F \cup {t} : g <= f
  <2>1. CASE f = t
    BY <1>2, <1>3, <2>1 DEF IsChain
  <2>2. CASE f # t
    <3>1. f \in F /\ f # c /\ nx[f] = 0
      BY <1>3, <2>2
    <3>2. \A g \in F : g <= f
      BY <3>1 DEF IsChain
    <3>3. f > t
      BY <1>2, <3>1, <3>2
    <3> QED BY <3>2, <3>3
  <2> QED BY <2>1, <2>2
<1>4. ASSUME NEW f \in F \cup {t}, nx2[f] # 0
      PROVE  /\ f + nx2[f] \in F \cup {t}
             /\ \A g \in F \cup {t} : ~(f < g /\ g < f + nx2[f])
  <2>1. CASE f = t
    <3>1. nx[c] # 0 /\ c + nx[c] \in F /\ f + nx2[f] = c + nx[c]
      BY <1>4, <2>1 DEF IsChain
    <3>2. \A g \in F : ~(c < g /\ g < c + nx[c])
      BY <3>1 DEF IsChain
    <3> QED BY <2>1, <3>1, <3>2
  <2>2. CASE f = c
    BY <1>2, <2>2
  <2>3. CASE f \in F \ {c}
    <3>1. nx2[f] = nx[f] /\ f + nx[f] \in F
      BY <1>4, <2>3 DEF IsChain
    <3>2. \A g \in F : ~(f < g /\ g < f + nx[f])
      BY <1>4, <2>3, <3>1 DEF IsChain
    <3>3. ~(f < t /\ t < f + nx[f])
      BY <1>2, <2>3, <3>1, <3>2
    <3> QED BY <3>1, <3>2, <3>3
  <2> QED BY <2>1, <2>2, <2>3
<1> QED BY <1>1, <1>3, <1>4 DEF IsChain

(* Removing c by having its predecessor p skip it. *)
LEMMA ChainSplice ==
    ASSUME NEW F \in SUBSET Nat, NEW nx, NEW nx2, NEW h \in Nat,
           IsChain(F, nx, h), \A f \in F : nx[f] \in Nat,
           NEW c \in F, NEW p \in F, nx[p] # 0, p + nx[p] = c, nx[c] # 0,
           nx2[p] = nx[p] + nx[c], \A f \in F \ {p} : nx2[f] = nx[f]
    PROVE  IsChain(F \ {c}, nx2, h)
<1>1. p < c /\ c + nx[c] \in F /\ c + nx[c] > c
  BY DEF IsChain
<1>2. h \in F \ {c} /\ \A f \in F \ {c} : h <= f
  BY <1>1 DEF IsChain
<1>3. ASSUME NEW f \in F \ {c}, nx2[f] = 0
      PROVE  \A g \in F \ {c} : g <= f
  BY <1>3 DEF IsChain
<1>4. ASSUME NEW f \in F \ {c}, nx2[f] # 0
      PROVE  /\ f + nx2[f] \in F \ {c}
             /\ \A g \in F \ {c} : ~(f < g /\ g < f + nx2[f])
  <2>1. CASE f = p
    BY <1>1, <2>1 DEF IsChain
  <2>2. CASE f # p
    <3>1. /\ nx2[f] = nx[f] /\ f + nx[f] \in F
          /\ \A g \in F : ~(f < g /\ g < f + nx[f])
      BY <1>4, <2>2 DEF IsChain
    <3>2. \A g \in F : ~(p < g /\ g < c)
      BY DEF IsChain
    <3>3. f + nx[f] # c
      BY <1>1, <2>2, <3>1, <3>2
    <3> QED BY <3>1, <3>3
  <2> QED BY <2>1, <2>2
<1> QED BY <1>2, <1>3, <1>4 DEF IsChain

(* Removing the first of a chain of two or more. *)
LEMMA ChainBehead ==
    ASSUME NEW F \in SUBSET Nat, NEW nx, NEW h \in Nat,
           IsChain(F, nx, h), \A f \in F : nx[f] \in Nat, nx[h] # 0
    PROVE  IsChain(F \ {h}, nx, h + nx[h])
<1>1. h + nx[h] \in F \ {h} /\ \A f \in F \ {h} : h + nx[h] <= f
  BY DEF IsChain
<1>2. ASSUME NEW f \in F \ {h}, nx[f] # 0
      PROVE  f + nx[f] \in F \ {h}
  BY <1>2 DEF IsChain
<1> QED BY <1>1, <1>2 DEF IsChain

-----------------------------------------------------------------------------
(* A set of natural numbers has a least element. *)
LessThan == {ss \in Nat \X Nat : ss[1] < ss[2]}

(* The order of the natural numbers has least elements. *)
LEMMA LessThanWellFounded == IsWellFoundedOn(LessThan, Nat)
  BY NatLessThanWellFounded, Zenon DEF OpToRel, LessThan

(* A set of numbers has a least one, which is what Nearest chooses. *)
LEMMA Least ==
    ASSUME NEW S \in SUBSET Nat, S # {}
    PROVE  /\ \E m \in S : \A d \in S : m <= d
           /\ Nearest(S) \in S /\ \A d \in S : Nearest(S) <= d
<1>1. PICK m \in S : \A d \in S : <<d, m>> \notin LessThan
  BY LessThanWellFounded, WFMin
<1>2. ASSUME NEW d \in S PROVE m <= d
  <2>1. m \in Nat /\ d \in Nat /\ <<d, m>> \notin LessThan
    BY <1>1
  <2>2. <<d, m>> \in Nat \X Nat /\ <<d, m>>[1] = d /\ <<d, m>>[2] = m
    BY <2>1
  <2>3. ~(d < m)
    BY <2>1, <2>2 DEF LessThan
  <2> QED BY <2>1, <2>3
<1> QED BY <1>2 DEF Nearest

-----------------------------------------------------------------------------
(* Pages. *)
Aligned(n) == n % PageSize = 0

(* What the assumptions on the sizes say of the derived constants. *)
LEMMA Constants ==
    /\ PageSize \in Nat \ {0} /\ NextLimit \in Nat \ {0} /\ FileSize \in Nat
    /\ Cells \subseteq Nat /\ Pages \subseteq Slots
    /\ StartNone \in Nat /\ StartNone = 4 * PageSize - 1
  BY SizesAssumption DEF Cells, Pages, StartNone

(* A number is aligned when it is a multiple of the page size. *)
LEMMA AlignedDef ==
    ASSUME NEW n \in Nat PROVE Aligned(n) <=> \E k \in Nat : n = k * PageSize
<1>1. ASSUME Aligned(n) PROVE \E k \in Nat : n = k * PageSize
  <2>1. n = (n \div PageSize) * PageSize /\ n \div PageSize \in Nat
    BY <1>1, Constants DEF Aligned
  <2> QED BY <2>1
<1>2. ASSUME NEW k \in Nat, n = k * PageSize PROVE Aligned(n)
  BY <1>2, Constants DEF Aligned
<1> QED BY <1>1, <1>2

(* Two multiples of the page size are a page apart. *)
LEMMA Multiples == ASSUME NEW a \in Nat, NEW b \in Nat, Aligned(a), Aligned(b), a < b
                   PROVE  a + PageSize <= b
<1>1. PICK i \in Nat, k \in Nat : a = i * PageSize /\ b = k * PageSize
  BY AlignedDef
<1>2. i < k
  BY <1>1, Constants
<1>3. (i + 1) * PageSize <= k * PageSize
  BY <1>2, Constants
<1> QED BY <1>1, <1>3, Constants

(* The page after a page is one. *)
LEMMA AlignedPlus == ASSUME NEW a \in Nat, Aligned(a) PROVE Aligned(a + PageSize)
<1>1. PICK k \in Nat : a = k * PageSize
  BY AlignedDef
<1>2. k + 1 \in Nat /\ a + PageSize \in Nat /\ a + PageSize = (k + 1) * PageSize
  BY <1>1, Constants
<1>3. \E j \in Nat : a + PageSize = j * PageSize
  BY <1>2
<1> QED BY <1>2, <1>3, AlignedDef

(* What a slot is: a segment, an index and an aligned base. *)
LEMMA SlotFacts ==
    ASSUME NEW p \in Slots
    PROVE  /\ p[1] \in Seg /\ p[2] \in 0 .. PageCount[p[1]] /\ p = <<p[1], p[2]>>
           /\ p \in Nat \X Nat
           /\ Base(p) \in Nat /\ Aligned(Base(p))
           /\ SegOffset[p[1]] <= Base(p)
           /\ Base(p) + PageSize <= SegOffset[p[1]] + (PageCount[p[1]] + 1) * PageSize
<1>1. p[1] \in Seg /\ p[2] \in 0 .. PageCount[p[1]] /\ p = <<p[1], p[2]>>
  BY DEF Slots
<1>2. SegOffset[p[1]] \in Nat /\ PageCount[p[1]] \in Nat /\ p[1] \in Nat /\ p[2] \in Nat
  BY <1>1, SizesAssumption
<1>3. SegOffset[p[1]] = (SegOffset[p[1]] \div PageSize) * PageSize
  BY <1>1, <1>2, Constants, JobsAssumption DEF SegmentsApart
<1>4. p[2] * PageSize \in Nat /\ p[2] * PageSize <= PageCount[p[1]] * PageSize
  BY <1>1, <1>2, Constants
<1>5. Base(p) = (SegOffset[p[1]] \div PageSize + p[2]) * PageSize
  BY <1>2, <1>3, <1>4, Constants DEF Base
<1>6. SegOffset[p[1]] \div PageSize + p[2] \in Nat
  BY <1>2, Constants
<1>7. Base(p) \in Nat /\ Aligned(Base(p))
  BY <1>5, <1>6, AlignedDef, Constants
<1> QED BY <1>1, <1>2, <1>4, <1>7, Constants DEF Base

(* What find_fixup_segment finds for a location holds it. *)
LEMMA LocatedIsPage ==
    ASSUME NEW c \in Nat, NEW p \in Located(c)
    PROVE  p \in Slots /\ Base(p) <= c /\ c < Base(p) + PageSize
<1>1. PICK s \in Seg : Holds(s, c) /\ p = <<s, PageIndex(s, c)>>
  BY DEF Located
<1>2. SegOffset[s] \in Nat /\ PageCount[s] \in Nat
  BY SizesAssumption
<1>3. LET x == c - SegOffset[s]
      IN  /\ x \in Nat /\ x \div PageSize \in Nat
          /\ (x \div PageSize) * PageSize <= x
          /\ x < (x \div PageSize) * PageSize + PageSize
  BY <1>1, <1>2, Constants DEF Holds
<1>4. p \in {s} \X (0 .. PageCount[s])
  BY <1>1, <1>2, <1>3 DEF Holds, PageIndex
<1> QED BY <1>1, <1>2, <1>3, <1>4, Constants DEF Slots, Base, PageIndex

(* The page of a location is the one find_fixup_segment finds. *)
LEMMA PageIsLocated ==
    ASSUME NEW c \in Nat, NEW p \in Slots, Base(p) <= c, c < Base(p) + PageSize
    PROVE  Located(c) = {p}
<1> DEFINE s == p[1]
           x == c - SegOffset[s]
<1>1. /\ s \in Seg /\ s \in Nat /\ SegOffset[s] \in Nat /\ PageCount[s] \in Nat
      /\ p[2] \in 0 .. PageCount[s] /\ p = <<s, p[2]>>
  BY SlotFacts, SizesAssumption
<1>2. x \in Nat /\ p[2] * PageSize <= x /\ x < (p[2] + 1) * PageSize
  BY <1>1, SlotFacts, Constants DEF Base
<1>3. x \div PageSize = p[2]
  BY <1>1, <1>2, Constants
<1>4. Holds(s, c) /\ PageIndex(s, c) = p[2]
  BY <1>1, <1>2, <1>3 DEF Holds, PageIndex
<1>5. ASSUME NEW q \in Seg, Holds(q, c), q # s PROVE FALSE
  <2>1. /\ q \in Nat /\ SegOffset[q] \in Nat /\ PageCount[q] \in Nat
    BY SizesAssumption
  <2>2. c - SegOffset[q] \in Nat /\ (c - SegOffset[q]) \div PageSize <= PageCount[q]
    BY <1>5, <2>1 DEF Holds, PageIndex
  <2>3. c - SegOffset[q] < (PageCount[q] + 1) * PageSize
    BY <2>1, <2>2, Constants
  <2>4. c < SegOffset[s] + (PageCount[s] + 1) * PageSize
    BY <1>1, SlotFacts, Constants
  <2>5. /\ q < s => SegOffset[q] + (PageCount[q] + 1) * PageSize <= SegOffset[s]
        /\ s < q => SegOffset[s] + (PageCount[s] + 1) * PageSize <= SegOffset[q]
    BY <1>1, JobsAssumption DEF SegmentsApart
  <2>6. CASE q < s
    <3>1. c < SegOffset[q] + (PageCount[q] + 1) * PageSize
      BY <2>1, <2>3, Constants
    <3>2. SegOffset[s] <= c
      BY <1>1, <1>2
    <3> QED BY <1>1, <2>1, <2>5, <2>6, <3>1, <3>2, Constants
  <2>7. CASE s < q
    <3>1. SegOffset[q] <= c
      BY <2>1, <2>2
    <3> QED BY <1>1, <2>1, <2>4, <2>5, <2>7, <3>1, Constants
  <2> QED BY <1>1, <1>5, <2>1, <2>6, <2>7
<1>6. {q \in Seg : Holds(q, c) /\ \A r \in Seg : Holds(r, c) => q <= r} = {s}
  <2>1. s \in {q \in Seg : Holds(q, c) /\ \A r \in Seg : Holds(r, c) => q <= r}
    BY <1>1, <1>4, <1>5
  <2> QED BY <1>5, <2>1
<1>7. Located(c) = {<<s, PageIndex(s, c)>>}
  BY <1>6 DEF Located
<1> QED BY <1>1, <1>4, <1>7

(* A location lies in one page. *)
LEMMA OnePage ==
    ASSUME NEW p \in Slots, NEW q \in Slots, NEW S \in SUBSET Nat,
           NEW c \in InPage(S, p), c \in InPage(S, q)
    PROVE  p = q
<1>1. Located(c) = {p}
  BY PageIsLocated DEF InPage
<1>2. Located(c) = {q}
  BY PageIsLocated DEF InPage
<1> QED BY <1>1, <1>2

(* remove_fixups starts at the page of the segment's first byte. *)
LEMMA CursorFacts ==
    ASSUME NEW r \in [lo : Nat, hi : Nat]
    PROVE  /\ CursorOf(r) \in Nat /\ Aligned(CursorOf(r))
           /\ CursorOf(r) <= r.lo /\ r.lo < CursorOf(r) + PageSize
<1>1. /\ r.lo \div PageSize \in Nat /\ (r.lo \div PageSize) * PageSize <= r.lo
      /\ r.lo < (r.lo \div PageSize) * PageSize + PageSize
  BY Constants
<1> QED BY <1>1, AlignedDef, Constants DEF CursorOf

-----------------------------------------------------------------------------
(* The inductive invariant.                                                 *)

(* What has become of the image's fixups and the kext's. *)
Accounted ==
    /\ Kept(layout) \subseteq fixups /\ fixups \subseteq layout.fixups \cup layout.kext
    /\ pc \in {"remove", "page", "visit"} => fixups \subseteq layout.fixups /\ linked = {}
    /\ pc \in {"add", "seek", "done"} => fixups = Kept(layout) \cup linked
    /\ pc = "done" => linked = layout.kext
    /\ pc # "wild"

(* remove_fixups leaves nothing of its range on the pages behind its cursor. *)
Swept ==
    /\ pc \in {"remove", "page", "visit"} =>
         \A r \in layout.ranges \ ranges :
            fixups \cap CellsOf(r) = {} \/ (pc # "remove" /\ r = rng)
    /\ pc \in {"page", "visit"} =>
         /\ rng \in layout.ranges /\ Aligned(page) /\ CursorOf(rng) <= page
         /\ \A p \in Pages : Base(p) < page => InPage(fixups, p) \cap CellsOf(rng) = {}

(* On a page, nothing of the range is left behind the pointer it is at, and *)
(* prev is the fixup before that pointer; the anchor lies beyond the range. *)
Visiting ==
    pc = "visit" =>
      /\ at \in Pages /\ Base(at) = page /\ page < rng.hi
      /\ start[at] # StartNone
      /\ cur \in InPage(fixups, at)
      /\ \A f \in InPage(fixups, at) : f < cur => ~InRange(f)
      /\ \E a \in InPage(Kept(layout), at) :
            \A g \in InPage(layout.fixups \cap Victims(layout), at) : g < a
      /\ IF prev = -1 THEN cur = First(at)
         ELSE /\ prev \in InPage(fixups, at) /\ ~InRange(prev)
              /\ next[prev] # 0 /\ prev + next[prev] = cur

(* add_fixup stays on the fixups of the target's page, before the target    *)
(* unless the page's first fixup is behind it.                              *)
Seeking ==
    pc = "seek" =>
      /\ target \in layout.kext \ linked
      /\ at \in Pages /\ start[at] # StartNone
      /\ Base(at) <= target /\ target < Base(at) + PageSize
      /\ cur \in InPage(fixups, at)
      /\ cur < target \/ cur = First(at)

IInv == TypeOK /\ Represents /\ Accounted /\ Swept /\ Visiting /\ Seeking /\ RefusalsExplained

-----------------------------------------------------------------------------
(* What the assumptions on the jobs say of one job. *)
LEMMA JobFacts ==
    ASSUME NEW l \in Layouts
    PROVE  /\ l.fixups \subseteq Cells /\ l.fixups \subseteq Nat
           /\ l.ranges \subseteq [lo : Nat, hi : Nat]
           /\ l.kext \subseteq Victims(l) /\ Victims(l) \subseteq Cells
           /\ Kept(l) \subseteq l.fixups /\ Kept(l) \cap Victims(l) = {}
           /\ InTheFile(l) /\ Anchored(l) /\ Compact(l)
  BY LayoutsAssumption, JobsAssumption, Constants DEF Supported, Kept, Victims, CellsOf

(* Locations of one page that can be neighbours fit a link. *)
LEMMA Near ==
    ASSUME NEW l \in Layouts, NEW p \in Pages,
           NEW f \in InPage(l.fixups \cup l.kext, p),
           NEW g \in InPage(l.fixups \cup l.kext, p),
           \A h \in Kept(l) : ~(f < h /\ h < g)
    PROVE  g - f < NextLimit
  BY JobFacts DEF Compact

(* An offset inside a page is a page_start and not START_NONE. *)
LEMMA PageLess == ASSUME NEW n \in Nat, n < PageSize
                  PROVE  n \in 0 .. StartNone /\ n # StartNone
  BY Constants

(* The chains of an image represent it. *)
LEMMA ImageChains ==
    ASSUME NEW l \in Layouts
    PROVE  /\ ImageNext(l.fixups) \in [Cells -> 0 .. NextLimit - 1]
           /\ ImageStart(l.fixups) \in [Slots -> 0 .. StartNone]
           /\ \A p \in Pages :
                HoldsChain(p, l.fixups, ImageNext(l.fixups), ImageStart(l.fixups))
<1> DEFINE F == l.fixups
           nx == ImageNext(F)
           st == ImageStart(F)
<1>1. F \subseteq Cells /\ F \subseteq Nat
  BY JobFacts
<1>2. ASSUME NEW p \in Pages, NEW c \in InPage(F, p)
      PROVE  nx[c] = IF Later(F, p, c) = {} THEN 0 ELSE Nearest(Later(F, p, c)) - c
  <2>1. \A q \in Pages : c \in InPage(F, q) => q = p
    BY <1>1, OnePage, Constants
  <2>2. (CHOOSE q \in Pages : c \in InPage(F, q)) = p
    BY <2>1
  <2>3. c \in Cells
    BY <1>1 DEF InPage
  <2> QED BY <2>1, <2>2, <2>3 DEF ImageNext
<1>3. ASSUME NEW p \in Pages, NEW c \in InPage(F, p), Later(F, p, c) # {}
      PROVE  /\ Nearest(Later(F, p, c)) \in InPage(F, p) /\ Nearest(Later(F, p, c)) > c
             /\ \A d \in InPage(F, p) : d > c => Nearest(Later(F, p, c)) <= d
  <2>1. Later(F, p, c) \in SUBSET Nat
    BY <1>1 DEF Later, InPage
  <2> QED BY <1>3, <2>1, Least DEF Later
<1>4. ASSUME NEW p \in Pages, NEW c \in InPage(F, p) PROVE nx[c] \in 0 .. NextLimit - 1
  <2>1. CASE Later(F, p, c) = {}
    BY <1>2, <2>1, Constants
  <2>2. CASE Later(F, p, c) # {}
    <3> DEFINE d == Nearest(Later(F, p, c))
    <3>0. /\ d \in InPage(F, p) /\ d > c
          /\ \A h \in InPage(F, p) : h > c => d <= h
      BY <1>3, <2>2
    <3>1. /\ d \in InPage(F, p) /\ d > c
          /\ \A h \in InPage(F, p) : ~(c < h /\ h < d)
      <4>1. c \in Nat /\ d \in Nat /\ \A h \in InPage(F, p) : h \in Nat
        BY <1>1, <3>0 DEF InPage
      <4> HIDE DEF d
      <4> QED BY <3>0, <4>1
    <3>2. \A h \in Kept(l) : ~(c < h /\ h < d)
      BY <1>1, <3>1, SlotFacts, Constants DEF InPage, Kept
    <3>3. d - c < NextLimit
      BY <3>1, <3>2, Near DEF InPage
    <3>4. c \in Nat /\ d \in Nat
      BY <1>1, <3>1 DEF InPage
    <3> QED BY <1>2, <2>2, <3>1, <3>3, <3>4, Constants
  <2> QED BY <2>1, <2>2
<1>5. nx \in [Cells -> 0 .. NextLimit - 1]
  <2>1. ASSUME NEW c \in Cells PROVE nx[c] \in 0 .. NextLimit - 1
    <3>1. CASE \E p \in Pages : c \in InPage(F, p)
      BY <1>4, <3>1
    <3>2. CASE ~ \E p \in Pages : c \in InPage(F, p)
      BY <3>2, Constants DEF ImageNext
    <3> QED BY <3>1, <3>2
  <2> QED BY <2>1 DEF ImageNext
<1>6. ASSUME NEW p \in Pages, InPage(F, p) # {}
      PROVE  LET n == Nearest(InPage(F, p))
             IN  n \in InPage(F, p) /\ (\A d \in InPage(F, p) : n <= d)
                 /\ n - Base(p) \in Nat /\ n - Base(p) < PageSize
  <2> DEFINE n == Nearest(InPage(F, p))
  <2>1. InPage(F, p) \in SUBSET Nat
    BY <1>1 DEF InPage
  <2>2. n \in InPage(F, p) /\ \A d \in InPage(F, p) : n <= d
    BY <1>6, <2>1, Least
  <2>3. n \in Nat /\ Base(p) <= n /\ n < Base(p) + PageSize
    BY <1>1, <2>2 DEF InPage
  <2>4. Base(p) \in Nat
    BY SlotFacts, Constants
  <2> QED BY <2>2, <2>3, <2>4, Constants
<1>7. st \in [Slots -> 0 .. StartNone]
  <2>1. ASSUME NEW p \in Slots PROVE st[p] \in 0 .. StartNone
    <3>1. CASE p \notin Pages
      BY <3>1, SlotFacts, SizesAssumption DEF ImageStart
    <3>2. CASE p \in Pages /\ InPage(F, p) = {}
      BY <3>2, Constants DEF ImageStart
    <3>3. CASE p \in Pages /\ InPage(F, p) # {}
      BY <1>6, <3>3, PageLess DEF ImageStart
    <3> QED BY <3>1, <3>2, <3>3
  <2> QED BY <2>1 DEF ImageStart
<1>8. ASSUME NEW p \in Pages, InPage(F, p) # {}
      PROVE  /\ st[p] # StartNone /\ Base(p) + st[p] = Nearest(InPage(F, p))
             /\ IsChain(InPage(F, p), nx, Base(p) + st[p])
  <2>1. st[p] = Nearest(InPage(F, p)) - Base(p)
    BY <1>8, Constants DEF ImageStart
  <2>2. st[p] # StartNone /\ Base(p) + st[p] = Nearest(InPage(F, p))
    BY <1>6, <1>8, <2>1, PageLess, SlotFacts, Constants, <1>1 DEF InPage
  <2>3. ASSUME NEW c \in InPage(F, p), nx[c] = 0
        PROVE  \A g \in InPage(F, p) : g <= c
    <3>1. c \in Nat /\ \A g \in InPage(F, p) : g \in Nat
      BY <1>1 DEF InPage
    <3>2. Later(F, p, c) = {}
      <4>1. SUFFICES ASSUME Later(F, p, c) # {} PROVE FALSE
        OBVIOUS
      <4>2. nx[c] = Nearest(Later(F, p, c)) - c
        BY <1>2, <4>1
      <4>3. Nearest(Later(F, p, c)) > c /\ Nearest(Later(F, p, c)) \in Nat
        BY <1>3, <3>1, <4>1
      <4> QED BY <2>3, <3>1, <4>2, <4>3
    <3> QED BY <3>1, <3>2 DEF Later
  <2>4. ASSUME NEW c \in InPage(F, p), nx[c] # 0
        PROVE  /\ c + nx[c] \in InPage(F, p)
               /\ \A g \in InPage(F, p) : ~(c < g /\ g < c + nx[c])
    <3>1. c \in Nat /\ \A g \in InPage(F, p) : g \in Nat
      BY <1>1 DEF InPage
    <3> DEFINE d == Nearest(Later(F, p, c))
    <3>2. Later(F, p, c) # {} /\ nx[c] = d - c
      BY <1>2, <2>4
    <3>3. /\ d \in InPage(F, p) /\ d \in Nat
          /\ \A g \in InPage(F, p) : g > c => d <= g
      BY <1>3, <3>1, <3>2
    <3> HIDE DEF d, nx
    <3>4. c + nx[c] = d
      BY <3>1, <3>2, <3>3
    <3>5. ASSUME NEW g \in InPage(F, p) PROVE ~(c < g /\ g < d)
      BY <3>1, <3>3
    <3> QED BY <3>3, <3>4, <3>5
  <2> QED BY <1>6, <1>8, <2>2, <2>3, <2>4 DEF IsChain
<1>9. ASSUME NEW p \in Pages
      PROVE  HoldsChain(p, F, nx, st)
  <2>1. CASE InPage(F, p) = {}
    BY <2>1, Constants DEF ImageStart, HoldsChain
  <2>2. CASE InPage(F, p) # {}
    BY <1>8, <2>2 DEF HoldsChain
  <2> QED BY <2>1, <2>2
<1> QED BY <1>5, <1>7, <1>9

(* The image as it is loaded satisfies the invariant. *)
LEMMA InitInv == Init => IInv
<1> SUFFICES ASSUME Init PROVE IInv
  OBVIOUS
<1>1. layout \in Layouts /\ layout.ranges \subseteq [lo : Nat, hi : Nat]
  BY JobFacts DEF Init
<1>2. TypeOK
  BY <1>1, JobFacts, ImageChains DEF Init, TypeOK
<1>3. Represents
  BY <1>1, ImageChains DEF Init, Represents
<1>4. Accounted /\ Swept /\ Visiting /\ Seeking /\ RefusalsExplained
  BY <1>1, JobFacts DEF Init, Accounted, Swept, Visiting, Seeking, RefusalsExplained
<1> QED BY <1>2, <1>3, <1>4 DEF IInv

-----------------------------------------------------------------------------
(* Every action preserves the invariant. *)

(* What the type invariant says of the parts used below. *)
LEMMA TypeFacts ==
    ASSUME TypeOK
    PROVE  /\ layout \in Layouts /\ fixups \subseteq Cells /\ fixups \subseteq Nat
           /\ \A c \in Cells : next[c] \in Nat /\ next[c] < NextLimit
           /\ \A p \in Slots : start[p] \in Nat /\ start[p] <= StartNone
           /\ ranges \subseteq layout.ranges
           /\ rng.lo \in Nat /\ rng.hi \in Nat /\ page \in Nat /\ cur \in Nat
           /\ layout.ranges \subseteq [lo : Nat, hi : Nat]
  BY JobFacts, Constants DEF TypeOK

(* A page none of whose fixups, links and page_start change. *)
LEMMA SamePage ==
    ASSUME NEW p \in Pages, NEW F \in SUBSET Nat, NEW G \in SUBSET Nat,
           NEW nx, NEW mx, NEW st, NEW tt, st[p] \in Nat,
           HoldsChain(p, F, nx, st), InPage(G, p) = InPage(F, p), tt[p] = st[p],
           \A f \in InPage(F, p) : mx[f] = nx[f]
    PROVE  HoldsChain(p, G, mx, tt)
<1>1. CASE st[p] = StartNone
  BY <1>1 DEF HoldsChain
<1>2. CASE st[p] # StartNone
  <2>1. Base(p) + st[p] \in Nat /\ InPage(F, p) \in SUBSET Nat
    BY SlotFacts, Constants DEF InPage
  <2>2. IsChain(InPage(F, p), nx, Base(p) + st[p])
    BY <1>2 DEF HoldsChain
  <2>3. IsChain(InPage(F, p), mx, Base(p) + st[p])
    BY <2>1, <2>2, ChainCopy
  <2> QED BY <1>2, <2>3 DEF HoldsChain
<1> QED BY <1>1, <1>2

(* Turning to the next victim range keeps the invariant. *)
LEMMA RemoveFixupsInv ==
    ASSUME IInv, NEW r \in ranges, RemoveFixups(r) PROVE IInv'
<1> USE DEF RemoveFixups, file, IInv
<1>1. r \in layout.ranges /\ r \in [lo : Nat, hi : Nat]
  BY TypeFacts
<1>2. page' \in Nat /\ Aligned(page') /\ page' = CursorOf(r) /\ CursorOf(r) <= r.lo
  BY <1>1, CursorFacts DEF CursorOf
<1>3. TypeOK'
  BY <1>1, <1>2 DEF TypeOK
<1>4. Represents' /\ Accounted' /\ Visiting' /\ Seeking' /\ RefusalsExplained'
  BY DEF Represents, Accounted, Visiting, Seeking, RefusalsExplained
<1>5. ASSUME NEW p \in Pages, Base(p) < page', NEW c \in InPage(fixups, p)
      PROVE  c \notin CellsOf(r)
  <2>1. Base(p) + PageSize <= page'
    BY <1>2, <1>5, Multiples, SlotFacts, Constants
  <2>2. c \in Nat /\ c < Base(p) + PageSize
    BY TypeFacts DEF InPage
  <2> QED BY <1>1, <1>2, <2>1, <2>2, SlotFacts, Constants DEF CellsOf
<1>6. Swept'
  BY <1>1, <1>2, <1>5 DEF Swept
<1> QED BY <1>3, <1>4, <1>6

(* Leaving a range keeps it: every page of the range was swept. *)
LEMMA RangeDoneInv == ASSUME IInv, RangeDone PROVE IInv'
<1> USE DEF RangeDone, file, args, IInv
<1>1. TypeOK'
  BY DEF TypeOK
<1>2. Represents' /\ Accounted' /\ Visiting' /\ Seeking' /\ RefusalsExplained'
  BY DEF Represents, Accounted, Visiting, Seeking, RefusalsExplained
<1>3. ASSUME NEW c \in fixups, c \in CellsOf(rng) PROVE FALSE
  <2>1. c \in layout.fixups /\ c \in Nat /\ c < rng.hi
    BY <1>3, TypeFacts DEF Accounted, CellsOf
  <2>2. PICK p \in Pages : c \in InPage(Cells, p)
    BY <2>1, TypeFacts, JobFacts DEF InTheFile
  <2>3. Base(p) \in Nat /\ Base(p) < page /\ c \in InPage(fixups, p)
    BY <2>1, <2>2, TypeFacts, SlotFacts, Constants DEF InPage
  <2> QED BY <1>3, <2>3 DEF Swept
<1>4. Swept'
  BY <1>3 DEF Swept
<1> QED BY <1>1, <1>2, <1>4

(* Stepping the cursor over a page that holds nothing of the range. *)
LEMMA CursorStep ==
    ASSUME IInv, pc \in {"page", "visit"}, page < rng.hi,
           NEW F \in SUBSET fixups,
           \A p \in Pages : Base(p) = page => InPage(F, p) \cap CellsOf(rng) = {}
    PROVE  /\ page + PageSize \in Nat /\ Aligned(page + PageSize)
           /\ CursorOf(rng) <= page + PageSize
           /\ \A p \in Pages : Base(p) < page + PageSize
                               => InPage(F, p) \cap CellsOf(rng) = {}
<1> USE DEF IInv
<1>1. page \in Nat /\ Aligned(page) /\ CursorOf(rng) <= page /\ CursorOf(rng) \in Nat
  BY TypeFacts, CursorFacts DEF Swept, TypeOK
<1>2. ASSUME NEW p \in Pages, Base(p) < page + PageSize
      PROVE  InPage(F, p) \cap CellsOf(rng) = {}
  <2>1. Base(p) \in Nat /\ Aligned(Base(p))
    BY SlotFacts, Constants
  <2>2. ~(page < Base(p))
    BY <1>1, <1>2, <2>1, Multiples, Constants
  <2>3. CASE Base(p) = page
    BY <2>3
  <2>4. CASE Base(p) < page
    BY <2>4 DEF Swept, InPage
  <2> QED BY <1>1, <2>1, <2>2, <2>3, <2>4
<1> QED BY <1>1, <1>2, AlignedPlus, Constants

(* A page without fixups is swept. *)
LEMMA SkipPageInv == ASSUME IInv, SkipPage PROVE IInv'
<1> USE DEF SkipPage, file, IInv
<1>1. \A p \in Pages : Base(p) # page
  BY PageIsLocated, TypeFacts, SlotFacts, Constants
<1>2. /\ page' \in Nat /\ Aligned(page') /\ CursorOf(rng) <= page'
      /\ \A p \in Pages : Base(p) < page' => InPage(fixups, p) \cap CellsOf(rng) = {}
  BY <1>1, CursorStep
<1>3. TypeOK'
  BY <1>2 DEF TypeOK
<1>4. Represents' /\ Accounted' /\ Visiting' /\ Seeking' /\ RefusalsExplained'
  BY DEF Represents, Accounted, Visiting, Seeking, RefusalsExplained
<1>5. Swept'
  BY <1>2 DEF Swept
<1> QED BY <1>3, <1>4, <1>5

(* The slot the cursor is at is a page with a page_start of its own. *)
LEMMA CursorPage ==
    ASSUME IInv, pc = "page", page < rng.hi, NEW p \in Located(page)
    PROVE  p \in Pages /\ Base(p) = page
<1> USE DEF IInv
<1>1. /\ rng \in layout.ranges /\ rng \in [lo : Nat, hi : Nat]
      /\ Aligned(page) /\ page \in Nat /\ CursorOf(rng) <= page
  BY TypeFacts DEF Swept
<1>2. p \in Slots /\ Base(p) <= page /\ page < Base(p) + PageSize
  BY <1>1, LocatedIsPage
<1>3. Base(p) = page
  BY <1>1, <1>2, SlotFacts, Multiples, Constants
<1>4. CursorOf(rng) <= Base(p) /\ Base(p) < rng.hi
  BY <1>1, <1>3
<1> QED BY <1>1, <1>2, <1>3, <1>4, TypeFacts, JobFacts DEF InTheFile

(* A page that is covered whole loses its whole chain. *)
LEMMA ClearPageInv == ASSUME IInv, NEW p \in Slots, ClearPage(p) PROVE IInv'
<1> USE DEF ClearPage, file, IInv
<1>1. p \in Pages /\ Base(p) = page
  BY CursorPage
<1>2. TypeOK'
  <2>1. start' \in [Slots -> 0 .. StartNone]
    <3>1. start \in [Slots -> 0 .. StartNone] /\ start' = [start EXCEPT ![p] = StartNone]
      BY DEF TypeOK
    <3>2. StartNone \in 0 .. StartNone
      BY Constants
    <3> HIDE DEF ClearPage, IInv
    <3> QED BY <3>1, <3>2
  <2>2. page' \in Nat
    BY TypeFacts, Constants
  <2>3. fixups' \in SUBSET Cells
    BY DEF TypeOK
  <2> QED BY <2>1, <2>2, <2>3 DEF TypeOK
<1>3. Represents'
  <2>1. ASSUME NEW q \in Pages PROVE HoldsChain(q, fixups', next', start')
    <3>1. CASE q = p
      BY <1>1, <3>1, Constants DEF HoldsChain, InPage, TypeOK
    <3>2. CASE q # p
      <4>1. InPage(fixups', q) = InPage(fixups, q)
        BY <1>1, <3>2, OnePage, TypeFacts, Constants DEF InPage
      <4>2. start'[q] = start[q] /\ HoldsChain(q, fixups, next, start)
        BY <3>2, Constants DEF TypeOK, Represents
      <4>3. fixups' \subseteq fixups
        OBVIOUS
      <4> QED BY <4>1, <4>2, <4>3, SamePage, TypeFacts, Constants
    <3> QED BY <3>1, <3>2
  <2> QED BY <2>1 DEF Represents
<1>4. InPage(fixups, p) \subseteq CellsOf(rng) /\ rng \in layout.ranges
  <2>1. ASSUME NEW f \in InPage(fixups, p) PROVE f \in CellsOf(rng)
    <3>1. start[p] # StartNone /\ First(p) <= f
      BY <1>1, <2>1 DEF Represents, HoldsChain, IsChain, First
    <3>2. f \in Cells /\ f \in Nat /\ f < Base(p) + PageSize
      BY TypeFacts DEF InPage
    <3>3. First(p) \in Nat /\ Base(p) \in Nat /\ rng.lo \in Nat /\ rng.hi \in Nat
      BY TypeFacts, SlotFacts, Constants DEF First
    <3> QED BY <3>1, <3>2, <3>3, Constants DEF Covered, CellsOf
  <2> QED BY <2>1 DEF Swept
<1>5. Accounted'
  <2>1. Kept(layout) \cap CellsOf(rng) = {}
    BY <1>4, JobFacts, TypeFacts DEF Victims
  <2> QED BY <1>4, <2>1 DEF Accounted
<1>6. InPage(fixups', p) = {} /\ \A q \in Pages : Base(q) = page => q = p
  <2>1. InPage(fixups', p) = {}
    BY DEF InPage
  <2>2. ASSUME NEW q \in Pages, Base(q) = page PROVE q = p
    BY <1>1, <2>2, PageIsLocated, SlotFacts, Constants, TypeFacts
  <2> QED BY <2>1, <2>2
<1>7. /\ Aligned(page') /\ CursorOf(rng) <= page'
      /\ \A q \in Pages : Base(q) < page' => InPage(fixups', q) \cap CellsOf(rng) = {}
  BY <1>6, CursorStep
<1>8. Swept'
  BY <1>7 DEF Swept
<1>9. Visiting' /\ Seeking' /\ RefusalsExplained'
  BY DEF Visiting, Seeking, RefusalsExplained
<1> QED BY <1>2, <1>3, <1>5, <1>8, <1>9

(* Entering a chain, or clearing the page, keeps it. *)
LEMMA EnterPageInv == ASSUME IInv, NEW p \in Slots, EnterPage(p) PROVE IInv'
<1> USE DEF EnterPage, file, IInv
<1>1. p \in Pages /\ Base(p) = page
  BY CursorPage
<1>2. /\ rng \in layout.ranges /\ rng \in [lo : Nat, hi : Nat] /\ rng.lo \in Nat /\ rng.hi \in Nat
      /\ CursorOf(rng) <= Base(p) /\ Base(p) < rng.hi /\ rng.lo < CursorOf(rng) + PageSize
      /\ CursorOf(rng) \in Nat /\ Base(p) \in Nat /\ fixups \subseteq layout.fixups
  BY <1>1, TypeFacts, CursorFacts DEF Swept, Accounted
<1>3. \E a \in InPage(Kept(layout), p) :
         \A g \in InPage(layout.fixups \cap Victims(layout), p) : g < a
  <2>1. SUFFICES ASSUME Base(p) + PageSize <= rng.hi,
                        \A f \in InPage(layout.fixups, p) : rng.lo <= f
                 PROVE  FALSE
    BY <1>1, <1>2, TypeFacts, JobFacts DEF Anchored
  <2>2. rng.lo <= First(p)
    <3>1. CASE start[p] = StartNone
      BY <1>2, <3>1, Constants DEF First
    <3>2. CASE start[p] # StartNone
      <4>1. First(p) \in InPage(fixups, p)
        BY <1>1, <3>2 DEF Represents, HoldsChain, IsChain, First
      <4> QED BY <1>2, <2>1, <4>1 DEF InPage
    <3> QED BY <3>1, <3>2
  <2> QED BY <2>1, <2>2 DEF Covered
<1>4. start[p] # StartNone /\ First(p) \in InPage(fixups, p)
      /\ \A f \in InPage(fixups, p) : First(p) <= f
  <2>1. InPage(fixups, p) # {}
    BY <1>3 DEF InPage, Accounted
  <2> QED BY <1>1, <2>1 DEF Represents, HoldsChain, IsChain, First
<1>5. First(p) \in Nat /\ p \in Nat \X Nat /\ InPage(fixups, p) \subseteq Nat
  BY <1>4, TypeFacts, SlotFacts DEF InPage
<1>6. TypeOK'
  BY <1>4, <1>5 DEF TypeOK
<1>7. Represents' /\ Seeking' /\ RefusalsExplained' /\ Accounted'
  BY <1>4 DEF Represents, Seeking, RefusalsExplained, Accounted
<1>8. Swept'
  BY <1>4 DEF Swept
<1>9. Visiting'
  <2>1. \A f \in InPage(fixups, p) : ~(f < First(p))
    BY <1>4, <1>5
  <2>2. /\ at' = p /\ cur' = First(p) /\ prev' = -1 /\ fixups' = fixups
        /\ First(p)' = First(p) /\ layout' = layout /\ page' = page /\ start' = start
        /\ rng' = rng
    BY DEF First
  <2>3. cur' = First(at)'
    BY <2>2 DEF First
  <2> QED BY <1>1, <1>3, <1>4, <2>1, <2>2, <2>3 DEF Visiting
<1> QED BY <1>6, <1>7, <1>8, <1>9

(* What is known of the pointer the removal walk is at. *)
LEMMA VisitFacts ==
    ASSUME IInv, VisitPointer
    PROVE  /\ at \in Pages /\ at \in Slots /\ start[at] # StartNone /\ Base(at) \in Nat
           /\ cur \in Nat /\ cur \in Cells /\ cur \in fixups /\ cur \in InPage(fixups, at)
           /\ fixups \subseteq layout.fixups /\ fixups \subseteq Nat
           /\ InPage(fixups, at) \in SUBSET Nat
           /\ \A f \in InPage(fixups, at) : next[f] \in Nat
           /\ First(at) \in Nat
           /\ IsChain(InPage(fixups, at), next, First(at))
<1> USE DEF IInv, VisitPointer
<1>1. /\ at \in Pages /\ at \in Slots /\ start[at] # StartNone /\ Base(at) \in Nat
      /\ cur \in InPage(fixups, at)
  BY SlotFacts, Constants DEF Visiting
<1>2. /\ cur \in fixups /\ cur \in Nat /\ fixups \subseteq layout.fixups
      /\ fixups \subseteq Nat /\ fixups \subseteq Cells
  BY <1>1, TypeFacts DEF InPage, Accounted
<1>3. InPage(fixups, at) \in SUBSET Nat /\ \A f \in InPage(fixups, at) : next[f] \in Nat
  BY <1>2, TypeFacts DEF InPage
<1>4. First(at) \in Nat
  BY <1>1, TypeFacts DEF First
<1>5. IsChain(InPage(fixups, at), next, First(at))
  BY <1>1 DEF Represents, HoldsChain, First
<1> QED BY <1>1, <1>2, <1>3, <1>4, <1>5

(* A fixup of the range is never the last of a page that is walked. *)
LEMMA NotLast ==
    ASSUME IInv, VisitPointer, InRange(cur)
    PROVE  next[cur] # 0 /\ cur \notin Kept(layout) /\ cur \in CellsOf(rng)
<1> USE DEF IInv, VisitPointer
<1>1. cur \in CellsOf(rng) /\ rng \in layout.ranges
  BY VisitFacts DEF InRange, CellsOf, Swept
<1>2. cur \in layout.fixups \cap Victims(layout)
  BY <1>1, VisitFacts DEF Victims
<1>3. PICK a \in InPage(Kept(layout), at) : cur < a
  BY <1>2, VisitFacts DEF Visiting, InPage
<1>4. a \in InPage(fixups, at) /\ a \in Nat
  BY <1>3, VisitFacts DEF InPage, Accounted
<1> QED BY <1>1, <1>2, <1>3, <1>4, VisitFacts DEF IsChain, Kept

(* The two writes of remove_fixups leave a chain without cur. *)
LEMMA UnlinkChain ==
    ASSUME IInv, VisitPointer, InRange(cur)
    PROVE  /\ HoldsChain(at, fixups', next', start')
           /\ next' \in [Cells -> 0 .. NextLimit - 1]
           /\ start' \in [Slots -> 0 .. StartNone]
           /\ start'[at] # StartNone
           /\ IF prev = -1 THEN cur + next[cur] = Base(at) + start'[at]
              ELSE next'[prev] # 0 /\ prev + next'[prev] = cur + next[cur]
           /\ \A f \in Cells \ {prev} : next'[f] = next[f]
           /\ \A q \in Slots \ {at} : start'[q] = start[q]
<1> DEFINE F == InPage(fixups, at)
<1>1. Unlink /\ fixups' = fixups \ {cur} /\ InPage(fixups', at) = F \ {cur}
  BY DEF VisitPointer, Unlink, InPage
<1>2. TypeOK /\ next \in [Cells -> 0 .. NextLimit - 1] /\ start \in [Slots -> 0 .. StartNone]
  BY DEF IInv, TypeOK
<1>3. /\ next[cur] # 0 /\ next[cur] \in Nat /\ cur + next[cur] \in F
      /\ \A g \in F : ~(cur < g /\ g < cur + next[cur])
  BY NotLast, VisitFacts DEF IsChain
<1>4. CASE prev # -1
  <2>1. /\ prev \in F /\ next[prev] # 0 /\ prev + next[prev] = cur
        /\ prev \in Nat /\ prev \in Cells /\ next[prev] \in Nat
    BY <1>4, VisitFacts, TypeFacts, <1>2 DEF IInv, Visiting, InPage, VisitPointer
  <2>2. \A g \in F : ~(prev < g /\ g < cur)
    BY <2>1, VisitFacts DEF IsChain
  <2>3. \A h \in Kept(layout) : ~(prev < h /\ h < cur + next[cur])
    <3>1. ASSUME NEW h \in Kept(layout), prev < h, h < cur + next[cur] PROVE FALSE
      <4>1. h \in fixups /\ h \in Nat /\ h # cur
        BY VisitFacts, NotLast DEF IInv, Accounted
      <4>2. h \in F
        BY <1>3, <2>1, <3>1, <4>1, VisitFacts, Constants DEF InPage
      <4> QED BY <1>3, <2>1, <2>2, <3>1, <4>1, <4>2, VisitFacts
    <3> QED BY <3>1
  <2>4. cur + next[cur] - prev < NextLimit
    BY <1>2, <1>3, <2>1, <2>3, Near, TypeFacts, VisitFacts DEF InPage
  <2>5. next[prev] + next[cur] \in 0 .. NextLimit - 1
    BY <1>3, <2>1, <2>4, VisitFacts, Constants
  <2>6. Spliced(next[cur]) = next[prev] + next[cur]
    BY <2>5, Constants DEF Spliced
  <2>7. next' = [next EXCEPT ![prev] = next[prev] + next[cur]] /\ start' = start
    BY <1>1, <1>4, <2>6 DEF Unlink
  <2>8. IsChain(F \ {cur}, next', First(at))
    <3>1. /\ next'[prev] = next[prev] + next[cur]
          /\ \A f \in F \ {prev} : next'[f] = next[f]
      BY <1>2, <2>1, <2>7, TypeFacts DEF InPage
    <3> HIDE DEF F
    <3> QED BY <1>3, <2>1, <3>1, VisitFacts, ChainSplice DEF F
  <2>9. next' \in [Cells -> 0 .. NextLimit - 1]
    BY <1>2, <2>5, <2>7
  <2>10. next'[prev] # 0 /\ prev + next'[prev] = cur + next[cur]
    BY <1>2, <1>3, <2>1, <2>7, VisitFacts
  <2>11. \A f \in Cells \ {prev} : next'[f] = next[f]
    BY <1>2, <2>7
  <2>12. HoldsChain(at, fixups', next', start')
    BY <1>1, <2>7, <2>8, VisitFacts DEF HoldsChain, First
  <2> QED BY <1>2, <1>4, <2>7, <2>9, <2>10, <2>11, <2>12, VisitFacts
<1>5. CASE prev = -1
  <2>1. cur = First(at)
    BY <1>5 DEF IInv, Visiting, VisitPointer
  <2>2. /\ start[at] \in Nat /\ start[at] + next[cur] < PageSize
        /\ First(at) = Base(at) + start[at]
    BY <1>2, <1>3, <2>1, TypeFacts, VisitFacts, Constants DEF First, InPage
  <2>3. Advanced(next[cur]) = start[at] + next[cur]
    BY <1>3, <2>2, Constants DEF Advanced
  <2>4. start' = [start EXCEPT ![at] = start[at] + next[cur]] /\ next' = next
    BY <1>1, <1>5, <2>3 DEF Unlink
  <2>5. start[at] + next[cur] \in 0 .. StartNone /\ start[at] + next[cur] # StartNone
    BY <1>3, <2>2, PageLess
  <2>6. start' \in [Slots -> 0 .. StartNone] /\ start'[at] = start[at] + next[cur]
    BY <1>2, <2>4, <2>5, VisitFacts
  <2>7. IsChain(F \ {cur}, next', Base(at) + start'[at])
    <3>1. IsChain(F \ {cur}, next, cur + next[cur])
      BY <1>3, <2>1, VisitFacts, ChainBehead
    <3> QED BY <2>1, <2>2, <2>4, <2>6, <3>1, <1>3, VisitFacts
  <2>8. HoldsChain(at, fixups', next', start')
    BY <1>1, <2>5, <2>6, <2>7 DEF HoldsChain
  <2>9. cur + next[cur] = Base(at) + start'[at]
    BY <1>3, <2>1, <2>2, <2>6, VisitFacts
  <2>10. \A q \in Slots \ {at} : start'[q] = start[q]
    BY <1>2, <2>4
  <2> QED BY <1>2, <1>5, <2>4, <2>5, <2>6, <2>8, <2>9, <2>10
<1> QED BY <1>4, <1>5

(* Whatever the walk does to the page it is on, the other pages keep theirs. *)
LEMMA VisitRepresents ==
    ASSUME IInv, VisitPointer
    PROVE  /\ Represents'
           /\ next' \in [Cells -> 0 .. NextLimit - 1]
           /\ start' \in [Slots -> 0 .. StartNone]
<1>1. CASE ~InRange(cur)
  BY <1>1 DEF VisitPointer, Keep, file, IInv, TypeOK, Represents
<1>2. CASE InRange(cur)
  <2>1. fixups' = fixups \ {cur}
    BY <1>2 DEF VisitPointer, Unlink
  <2>2. ASSUME NEW q \in Pages, q # at PROVE HoldsChain(q, fixups', next', start')
    <3>1. InPage(fixups', q) = InPage(fixups, q)
      BY <2>1, <2>2, VisitFacts, OnePage, Constants DEF InPage
    <3>2. \A f \in InPage(fixups, q) : next'[f] = next[f]
      <4>1. prev \notin InPage(fixups, q)
        <5>1. prev = -1 \/ prev \in InPage(fixups, at)
          BY DEF IInv, Visiting, VisitPointer
        <5> QED BY <2>2, <5>1, VisitFacts, OnePage, Constants DEF InPage
      <4> QED BY <1>2, <4>1, UnlinkChain, TypeFacts DEF InPage, IInv
    <3>3. start'[q] = start[q] /\ start[q] \in Nat
      BY <1>2, <2>2, UnlinkChain, TypeFacts, Constants DEF IInv
    <3>4. HoldsChain(q, fixups, next, start)
      BY DEF IInv, Represents
    <3> QED BY <2>1, <3>1, <3>2, <3>3, <3>4, VisitFacts, SamePage
  <2>3. ASSUME NEW q \in Pages PROVE HoldsChain(q, fixups', next', start')
    BY <1>2, <2>2, UnlinkChain
  <2>4. Represents'
    BY <2>3 DEF Represents
  <2> QED BY <1>2, <2>4, UnlinkChain
<1> QED BY <1>1, <1>2

(* Where the walk goes next, when it goes on. *)
LEMMA VisitNext ==
    ASSUME IInv, VisitPointer, next[cur] # 0
    PROVE  Visiting' /\ cur' \in Nat /\ prev' \in Cells \cup {-1}
<1>1. /\ pc' = "visit" /\ at' = at /\ page' = page /\ rng' = rng /\ layout' = layout
      /\ cur' = cur + next[cur]
  BY DEF VisitPointer, FollowChain
<1>2. /\ cur' \in InPage(fixups, at) /\ cur' > cur /\ cur' \in Nat
      /\ \A g \in InPage(fixups, at) : ~(cur < g /\ g < cur')
  BY <1>1, VisitFacts DEF IsChain
<1>3. /\ Base(at) = page /\ page < rng.hi
      /\ \A f \in InPage(fixups, at) : f < cur => ~InRange(f)
      /\ \E a \in InPage(Kept(layout), at) :
            \A g \in InPage(layout.fixups \cap Victims(layout), at) : g < a
  BY DEF IInv, Visiting, VisitPointer
<1>4. CASE InRange(cur)
  <2>1. fixups' = fixups \ {cur} /\ prev' = prev
    BY <1>4 DEF VisitPointer, Unlink
  <2>2. cur' \in InPage(fixups', at)
    BY <1>2, <2>1, VisitFacts DEF InPage
  <2>3. \A f \in InPage(fixups', at) : f < cur' => ~InRange(f)
    BY <1>2, <1>3, <2>1, VisitFacts DEF InPage
  <2>4. CASE prev = -1
    <3>1. cur' = First(at)' /\ start'[at] # StartNone
      BY <1>1, <1>4, <2>4, UnlinkChain DEF First
    <3>2. prev' \in Cells \cup {-1}
      BY <2>1, <2>4
    <3> QED BY <1>1, <1>2, <1>3, <2>1, <2>2, <2>3, <2>4, <3>1, <3>2, VisitFacts
            DEF Visiting, InRange
  <2>5. CASE prev # -1
    <3>1. prev \in InPage(fixups, at) /\ ~InRange(prev) /\ prev \in Cells
      BY <2>5, TypeFacts DEF IInv, Visiting, VisitPointer, InPage
    <3>2. prev \in InPage(fixups', at)
      BY <1>4, <2>1, <3>1 DEF InPage
    <3>3. next'[prev] # 0 /\ prev + next'[prev] = cur' /\ start'[at] # StartNone
      BY <1>1, <1>4, <2>5, UnlinkChain
    <3> QED BY <1>1, <1>2, <1>3, <2>1, <2>2, <2>3, <2>5, <3>1, <3>2, <3>3, VisitFacts
            DEF Visiting, InRange
  <2> QED BY <2>4, <2>5
<1>5. CASE ~InRange(cur)
  <2>1. fixups' = fixups /\ next' = next /\ start' = start /\ prev' = cur
    BY <1>5 DEF VisitPointer, Keep, file
  <2>2. \A f \in InPage(fixups, at) : f < cur' => ~InRange(f)
    BY <1>2, <1>3, <1>5, VisitFacts
  <2>3. cur # -1
    BY VisitFacts
  <2> QED BY <1>1, <1>2, <1>3, <1>5, <2>1, <2>2, <2>3, VisitFacts DEF Visiting, InRange
<1> QED BY <1>4, <1>5

(* Visiting a pointer keeps it, whether it is unlinked or kept. *)
LEMMA VisitPointerInv == ASSUME IInv, VisitPointer PROVE IInv'
<1>1. /\ layout' = layout /\ ranges' = ranges /\ rng' = rng /\ at' = at
      /\ target' = target /\ linked' = linked /\ pc \in {"visit"}
      /\ fixups' = IF InRange(cur) THEN fixups \ {cur} ELSE fixups
  BY DEF VisitPointer, Unlink, Keep, file
<1>2. page \in Nat /\ cur \in Nat /\ rng \in layout.ranges /\ Aligned(page)
      /\ CursorOf(rng) <= page
  BY <1>1, TypeFacts DEF IInv, Swept
<1>3. Accounted' /\ Seeking' /\ RefusalsExplained' /\ pc' \in {"page", "visit"}
  <2>1. Kept(layout) \subseteq fixups'
    BY <1>1, NotLast DEF IInv, Accounted
  <2>2. pc' \in {"page", "visit"}
    BY DEF VisitPointer, FollowChain
  <2>3. linked' = {} /\ fixups' \subseteq layout.fixups
    BY <1>1 DEF IInv, Accounted
  <2> QED BY <1>1, <2>1, <2>2, <2>3 DEF Accounted, Seeking, RefusalsExplained
<1>4. fixups' \subseteq fixups /\ fixups' \in SUBSET Cells
  BY <1>1 DEF IInv, TypeOK
<1>5. CASE next[cur] # 0
  <2>1. page' = page /\ pc' = "visit"
    BY <1>5 DEF VisitPointer, FollowChain
  <2>2. Swept'
    BY <1>1, <1>4, <2>1 DEF IInv, Swept, InPage
  <2>3. TypeOK'
    BY <1>1, <1>4, <1>5, <2>1, VisitNext, VisitRepresents DEF IInv, TypeOK
  <2> QED BY <1>3, <1>5, <2>2, <2>3, VisitNext, VisitRepresents DEF IInv
<1>6. CASE next[cur] = 0
  <2>1. page' = page + PageSize /\ pc' = "page" /\ cur' = cur
    BY <1>6 DEF VisitPointer, FollowChain
  <2>2. ~InRange(cur) /\ fixups' = fixups /\ prev' = cur
    BY <1>1, <1>6, NotLast DEF VisitPointer, Keep
  <2>3. \A f \in InPage(fixups, at) : ~InRange(f)
    <3>1. \A f \in InPage(fixups, at) : f <= cur
      BY <1>6, VisitFacts DEF IsChain
    <3>2. \A f \in InPage(fixups, at) : f < cur => ~InRange(f)
      BY <1>1 DEF IInv, Visiting
    <3> QED BY <2>2, <3>1, <3>2, VisitFacts
  <2>4. \A p \in Pages : Base(p) = page => InPage(fixups, p) \cap CellsOf(rng) = {}
    <3>1. ASSUME NEW p \in Pages, Base(p) = page PROVE p = at
      <4>1. Base(at) = page /\ at \in Pages /\ page < page + PageSize
        BY <1>1, <1>2, Constants DEF IInv, Visiting
      <4>2. Located(page) = {p} /\ Located(page) = {at}
        BY <1>2, <3>1, <4>1, PageIsLocated, Constants
      <4> QED BY <4>2
    <3> QED BY <2>3, <3>1 DEF InRange, CellsOf
  <2>5. page < rng.hi
    BY <1>1 DEF IInv, Visiting
  <2>6. /\ page' \in Nat /\ Aligned(page') /\ CursorOf(rng) <= page'
        /\ \A p \in Pages : Base(p) < page' => InPage(fixups, p) \cap CellsOf(rng) = {}
    BY <1>1, <2>1, <2>4, <2>5, CursorStep
  <2>7. Swept'
    BY <1>1, <1>2, <2>1, <2>2, <2>6 DEF IInv, Swept
  <2>8. TypeOK'
    BY <1>1, <1>2, <2>1, <2>2, <2>6, VisitFacts, VisitRepresents DEF IInv, TypeOK
  <2> QED BY <1>3, <2>1, <2>7, <2>8, VisitRepresents DEF IInv, Visiting
<1> QED BY <1>5, <1>6

(* No walk of a supported job leaves the file. *)
LEMMA OffFileInv == ASSUME IInv, OffFile PROVE IInv'
  BY TypeFacts DEF IInv, OffFile, Visiting, Seeking, InPage

(* Overwriting the victim keeps it: no chain leads there. *)
LEMMA CopySegmentsInv ==
    ASSUME IInv, NEW S \in SUBSET layout.ranges, CopySegments(S) PROVE IInv'
<1> USE DEF CopySegments, args, IInv
<1>1. fixups \cap Victims(layout) = {} /\ fixups = Kept(layout) /\ linked = {}
  <2>1. \A r \in layout.ranges : fixups \cap CellsOf(r) = {}
    BY DEF Swept
  <2> QED BY <2>1 DEF Accounted, Kept, Victims
<1>2. next' \in [Cells -> 0 .. NextLimit - 1]
  BY SizesAssumption DEF TypeOK
<1>3. \A c \in fixups : next'[c] = next[c]
  BY <1>1, TypeFacts DEF Victims
<1>4. TypeOK'
  BY <1>2 DEF TypeOK
<1>5. Represents'
  <2>1. ASSUME NEW p \in Pages PROVE HoldsChain(p, fixups, next', start)
    BY <1>3, SamePage, TypeFacts, Constants DEF Represents, InPage
  <2> QED BY <2>1 DEF Represents
<1>6. Accounted' /\ Swept' /\ Visiting' /\ Seeking' /\ RefusalsExplained'
  BY <1>1 DEF Accounted, Swept, Visiting, Seeking, RefusalsExplained
<1> QED BY <1>4, <1>5, <1>6

(* A pointer of the kext has one page, and no fixup is there yet. *)
LEMMA TargetFacts ==
    ASSUME IInv, pc \in {"add", "seek"}, NEW l \in layout.kext \ linked
    PROVE  /\ l \in Cells /\ l \in Nat /\ l \notin fixups
           /\ \E p \in Pages : /\ Located(l) = {p} /\ Base(p) <= l /\ l < Base(p) + PageSize
                              /\ \A q \in Pages \ {p}, T \in SUBSET Nat :
                                    InPage(T \cup {l}, q) = InPage(T, q)
<1>1. /\ layout \in Layouts /\ l \in Cells /\ l \in Nat /\ l \in Victims(layout)
      /\ fixups = Kept(layout) \cup linked
  BY TypeFacts, JobFacts, Constants DEF IInv, Accounted
<1>2. l \notin fixups
  BY <1>1, JobFacts
<1>3. PICK p \in Pages : Base(p) <= l /\ l < Base(p) + PageSize
  BY <1>1, JobFacts DEF InTheFile, InPage
<1>4. Located(l) = {p}
  BY <1>1, <1>3, PageIsLocated, Constants
<1>5. ASSUME NEW q \in Pages \ {p}, NEW T \in SUBSET Nat
      PROVE  InPage(T \cup {l}, q) = InPage(T, q)
  BY <1>1, <1>4, PageIsLocated, Constants DEF InPage
<1> QED BY <1>1, <1>2, <1>3, <1>4, <1>5

(* A pointer of a supported job lies on a page. *)
LEMMA AddNowhereInv == ASSUME IInv, NEW l \in layout.kext, AddNowhere(l) PROVE IInv'
  BY TargetFacts DEF AddNowhere

(* The first pointer of a page keeps it. *)
LEMMA AddAloneInv == ASSUME IInv, NEW l \in layout.kext, AddAlone(l) PROVE IInv'
<1> USE DEF IInv
<1>1. pc = "add" /\ l \in layout.kext \ linked
  BY DEF AddAlone
<1>2. PICK p \in Pages : /\ Located(l) = {p} /\ Base(p) <= l /\ l < Base(p) + PageSize
                         /\ \A q \in Pages \ {p}, T \in SUBSET Nat :
                               InPage(T \cup {l}, q) = InPage(T, q)
  BY <1>1, TargetFacts
<1>3. l \in Cells /\ l \in Nat /\ l \notin fixups /\ p \in Slots /\ Base(p) \in Nat
  BY <1>1, TargetFacts, SlotFacts, Constants
<1>4. /\ start[p] = StartNone /\ start' = [start EXCEPT ![p] = l - Base(p)]
      /\ next' = [next EXCEPT ![l] = 0] /\ fixups' = fixups \cup {l}
      /\ linked' = linked \cup {l}
      /\ UNCHANGED <<layout, pc, ranges, rng, page, at, prev, target, cur>>
  BY <1>2 DEF AddAlone, args
<1>5. l - Base(p) \in 0 .. StartNone /\ l - Base(p) # StartNone
  BY <1>2, <1>3, PageLess, Constants
<1>6. /\ start \in [Slots -> 0 .. StartNone] /\ start' \in [Slots -> 0 .. StartNone]
      /\ next \in [Cells -> 0 .. NextLimit - 1] /\ next' \in [Cells -> 0 .. NextLimit - 1]
  BY <1>3, <1>4, <1>5, Constants DEF TypeOK
<1>7. start'[p] = l - Base(p) /\ next'[l] = 0
  BY <1>3, <1>4, <1>6
<1>8. TypeOK'
  BY <1>1, <1>3, <1>4, <1>6 DEF TypeOK
<1>9. HoldsChain(p, fixups', next', start')
  <2>1. InPage(fixups, p) = {}
    BY <1>4 DEF Represents, HoldsChain
  <2>2. InPage(fixups', p) = {l}
    BY <1>2, <1>4, <2>1 DEF InPage
  <2>3. Base(p) + start'[p] = l
    BY <1>3, <1>7
  <2> QED BY <1>3, <1>5, <1>7, <2>2, <2>3 DEF HoldsChain, IsChain
<1>10. ASSUME NEW q \in Pages, q # p PROVE HoldsChain(q, fixups', next', start')
  <2>1. InPage(fixups', q) = InPage(fixups, q) /\ l \notin InPage(fixups, q)
    BY <1>2, <1>3, <1>4, <1>10, TypeFacts DEF InPage
  <2>2. \A f \in InPage(fixups, q) : next'[f] = next[f]
    BY <1>4, <1>6, <2>1, TypeFacts DEF InPage
  <2>3. start'[q] = start[q] /\ start[q] \in Nat /\ fixups' \in SUBSET Nat
    BY <1>3, <1>4, <1>6, <1>10, TypeFacts, Constants
  <2> QED BY <2>1, <2>2, <2>3, SamePage, TypeFacts DEF Represents
<1>11. Represents'
  BY <1>9, <1>10 DEF Represents
<1>12. Accounted' /\ Swept' /\ Visiting' /\ Seeking' /\ RefusalsExplained'
  BY <1>1, <1>4 DEF Accounted, Swept, Visiting, Seeking, RefusalsExplained
<1> QED BY <1>8, <1>11, <1>12

(* Entering the chain of a page keeps it. *)
LEMMA AddToChainInv == ASSUME IInv, NEW l \in layout.kext, AddToChain(l) PROVE IInv'
<1> USE DEF IInv
<1>1. pc = "add" /\ l \in layout.kext \ linked
  BY DEF AddToChain
<1>2. PICK p \in Pages : Located(l) = {p} /\ Base(p) <= l /\ l < Base(p) + PageSize
  BY <1>1, TargetFacts
<1>3. /\ start[p] # StartNone /\ at' = p /\ cur' = First(p) /\ pc' = "seek" /\ target' = l
      /\ UNCHANGED <<layout, fixups, next, start, ranges, rng, page, prev, linked>>
  BY <1>2 DEF AddToChain, file
<1>4. /\ First(p) \in InPage(fixups, p) /\ First(p) \in Nat /\ p \in Nat \X Nat
      /\ l \in Nat
  BY <1>1, <1>3, TypeFacts, SlotFacts, TargetFacts, Constants
     DEF Represents, HoldsChain, IsChain, First, InPage
<1>5. TypeOK'
  BY <1>3, <1>4 DEF TypeOK
<1>6. cur' = First(at)'
  BY <1>3 DEF First
<1>7. Seeking'
  BY <1>1, <1>2, <1>3, <1>4, <1>6 DEF Seeking
<1>8. Represents' /\ Accounted' /\ Swept' /\ Visiting' /\ RefusalsExplained'
  BY <1>1, <1>3 DEF Represents, Accounted, Swept, Visiting, RefusalsExplained
<1> QED BY <1>5, <1>7, <1>8

(* What is known of the pointer the insertion walk is at. *)
LEMMA SeekFacts ==
    ASSUME IInv, pc = "seek"
    PROVE  /\ at \in Pages /\ at \in Slots /\ Base(at) \in Nat /\ start[at] # StartNone
           /\ cur \in InPage(fixups, at) /\ cur \in Nat /\ cur \in Cells
           /\ next[cur] \in Nat /\ next[cur] < NextLimit
           /\ target \in layout.kext \ linked /\ target \in Cells /\ target \in Nat
           /\ target \notin fixups
           /\ Base(at) <= target /\ target < Base(at) + PageSize
           /\ fixups \subseteq Nat /\ fixups \subseteq layout.fixups \cup layout.kext
           /\ First(at) \in Nat /\ IsChain(InPage(fixups, at), next, First(at))
<1> USE DEF IInv
<1>1. /\ at \in Pages /\ at \in Slots /\ Base(at) \in Nat /\ start[at] # StartNone
      /\ cur \in InPage(fixups, at) /\ target \in layout.kext \ linked
      /\ Base(at) <= target /\ target < Base(at) + PageSize
  BY SlotFacts, Constants DEF Seeking
<1>2. target \in Cells /\ target \in Nat /\ target \notin fixups
  BY <1>1, TargetFacts
<1>3. cur \in Nat /\ cur \in Cells /\ next[cur] \in Nat /\ next[cur] < NextLimit
  BY <1>1, TypeFacts DEF InPage
<1>4. fixups \subseteq Nat /\ fixups \subseteq layout.fixups \cup layout.kext
  BY TypeFacts, JobFacts DEF Accounted, TypeOK
<1>5. First(at) \in Nat /\ IsChain(InPage(fixups, at), next, First(at))
  BY <1>1, TypeFacts DEF Represents, HoldsChain, First
<1> QED BY <1>1, <1>2, <1>3, <1>4, <1>5

(* Going on to the next pointer keeps it. *)
LEMMA SeekOnInv == ASSUME IInv, SeekOn PROVE IInv'
<1> USE DEF IInv, SeekOn, file, args
<1>1. cur' \in InPage(fixups, at) /\ cur' \in Nat /\ cur' < target
  <2>1. next[cur] # 0 /\ cur' = cur + next[cur] /\ cur' <= target
    BY SeekFacts DEF Stops
  <2>2. cur' \in InPage(fixups, at)
    BY <2>1, SeekFacts DEF IsChain
  <2> QED BY <2>1, <2>2, SeekFacts DEF InPage
<1>2. TypeOK'
  BY <1>1 DEF TypeOK
<1>3. Seeking'
  BY <1>1 DEF Seeking
<1>4. Represents' /\ Accounted' /\ Swept' /\ Visiting' /\ RefusalsExplained'
  BY DEF Represents, Accounted, Swept, Visiting, RefusalsExplained
<1> QED BY <1>2, <1>3, <1>4

(* Giving up keeps it, and explains itself. *)
LEMMA RefuseInv == ASSUME IInv, Refuse PROVE IInv'
<1> USE DEF IInv, Refuse, Fail, file, args
<1>1. cur # target
  BY SeekFacts DEF InPage
<1>2. ~(target - cur \in 0 .. DistanceLimit - 1)
  BY <1>1 DEF Fits
<1>3. target - cur < PageSize
  BY SeekFacts, Constants DEF InPage
<1>4. target < cur
  BY <1>2, <1>3, SeekFacts, Constants DEF DistanceLimit
<1>5. cur = First(at)
  BY <1>4, SeekFacts DEF Seeking
<1>6. \A f \in InPage(fixups, at) : target < f
  BY <1>4, <1>5, SeekFacts DEF IsChain, InPage
<1>7. TypeOK'
  BY DEF TypeOK
<1>8. Represents' /\ Accounted' /\ Swept' /\ Visiting' /\ Seeking' /\ RefusalsExplained'
  BY <1>6 DEF Represents, Accounted, Swept, Visiting, Seeking, RefusalsExplained
<1> QED BY <1>7, <1>8

(* Inserting between two pointers, or at the end, keeps it. *)
LEMMA InsertInv == ASSUME IInv, Insert PROVE IInv'
<1> USE DEF IInv
<1> DEFINE F == InPage(fixups, at)
           d == target - cur
<1>1. /\ pc = "seek" /\ cur # target /\ Stops /\ Fits(d)
      /\ next' = [next EXCEPT ![cur] = Narrow(d), ![target] = Rest(d)]
      /\ fixups' = fixups \cup {target} /\ linked' = linked \cup {target} /\ pc' = "add"
      /\ UNCHANGED <<layout, start, ranges, rng, page, at, prev, target, cur>>
  BY DEF Insert, args
<1>2. cur < target /\ d \in Nat /\ d # 0
  BY <1>1, SeekFacts DEF Fits
<1>3. \A g \in F : g <= cur \/ g > target
  BY <1>1, <1>2, SeekFacts DEF Stops, IsChain, InPage
<1>4. d < NextLimit
  <2>1. \A h \in Kept(layout) : ~(cur < h /\ h < target)
    <3>1. ASSUME NEW h \in Kept(layout), cur < h, h < target PROVE FALSE
      <4>1. h \in fixups /\ h \in Nat
        BY <1>1, SeekFacts DEF Accounted
      <4>2. h \in F
        BY <3>1, <4>1, SeekFacts, <1>1, Constants DEF InPage
      <4> QED BY <1>3, <3>1, <4>1, <4>2, <1>1, SeekFacts
    <3> QED BY <3>1
  <2>2. cur \in InPage(layout.fixups \cup layout.kext, at)
        /\ target \in InPage(layout.fixups \cup layout.kext, at)
    BY <1>1, SeekFacts DEF InPage
  <2> QED BY <1>1, <2>1, <2>2, Near, SeekFacts, TypeFacts
<1>5. Narrow(d) = d /\ d \in 0 .. NextLimit - 1
  BY <1>2, <1>4, Constants DEF Narrow
<1>6. Rest(d) = (IF next[cur] > 0 THEN next[cur] - d ELSE 0) /\ Rest(d) \in 0 .. NextLimit - 1
  <2>1. CASE next[cur] = 0
    BY <1>1, <2>1, SeekFacts, Constants DEF Rest
  <2>2. CASE next[cur] # 0
    <3>1. next[cur] - d \in 0 .. NextLimit - 1 /\ next[cur] > 0
      BY <1>1, <1>2, <2>2, SeekFacts, Constants DEF Stops
    <3>2. Narrow(next[cur] - d) = next[cur] - d
      BY <3>1, Constants DEF Narrow
    <3> QED BY <3>1, <3>2 DEF Rest
  <2> QED BY <2>1, <2>2
<1>7. /\ next \in [Cells -> 0 .. NextLimit - 1] /\ next' \in [Cells -> 0 .. NextLimit - 1]
      /\ next'[cur] = d /\ next'[target] = IF next[cur] > 0 THEN next[cur] - d ELSE 0
      /\ \A c \in Cells \ {cur, target} : next'[c] = next[c]
  <2>1. next \in [Cells -> 0 .. NextLimit - 1] /\ cur \in Cells /\ target \in Cells
    BY <1>1, SeekFacts DEF TypeOK
  <2> HIDE DEF d
  <2>2. next' = [next EXCEPT ![cur] = d, ![target] = Rest(d)]
    BY <1>1, <1>5
  <2> QED BY <1>1, <1>5, <1>6, <2>1, <2>2
<1>8. TypeOK'
  BY <1>1, <1>7, SeekFacts DEF TypeOK
<1>9. HoldsChain(at, fixups', next', start')
  <2>1. InPage(fixups', at) = F \cup {target}
    BY <1>1, SeekFacts DEF InPage
  <2>2. /\ F \in SUBSET Nat /\ target \in Nat \ F /\ cur \in F
        /\ (next[cur] = 0 \/ cur + next[cur] > target)
        /\ IsChain(F, next, First(at)) /\ First(at) \in Nat
    BY <1>1, SeekFacts DEF Stops, InPage
  <2>3. \A f \in F : next[f] \in Nat
    BY TypeFacts DEF InPage
  <2>4. \A f \in F \ {cur} : next'[f] = next[f]
    BY <1>1, <1>7, SeekFacts, TypeFacts DEF InPage
  <2>5. IsChain(F \cup {target}, next', First(at))
    <3> HIDE DEF F
    <3> QED BY <1>2, <1>7, <2>2, <2>3, <2>4, ChainInsert
  <2> QED BY <1>1, <2>1, <2>5, SeekFacts DEF HoldsChain, First
<1>10. ASSUME NEW q \in Pages, q # at PROVE HoldsChain(q, fixups', next', start')
  <2>1. InPage(fixups', q) = InPage(fixups, q) /\ target \notin InPage(fixups, q)
    <3>1. target \in InPage({target}, at)
      BY <1>1, SeekFacts DEF InPage
    <3>2. target \notin InPage({target}, q)
      BY <1>1, <1>10, <3>1, SeekFacts, OnePage, Constants
    <3> QED BY <1>1, <3>2, SeekFacts DEF InPage
  <2>2. cur \notin InPage(fixups, q)
    BY <1>1, <1>10, SeekFacts, OnePage, Constants
  <2>3. \A f \in InPage(fixups, q) : next'[f] = next[f]
    BY <1>7, <2>1, <2>2, TypeFacts DEF InPage
  <2>4. start[q] \in Nat /\ fixups' \in SUBSET Nat /\ fixups \in SUBSET Nat
    BY <1>1, SeekFacts, TypeFacts, Constants
  <2> QED BY <1>1, <2>1, <2>3, <2>4, SamePage DEF Represents
<1>11. Represents'
  BY <1>9, <1>10 DEF Represents
<1>12. Accounted' /\ Swept' /\ Visiting' /\ Seeking' /\ RefusalsExplained'
  BY <1>1 DEF Accounted, Swept, Visiting, Seeking, RefusalsExplained
<1> QED BY <1>8, <1>11, <1>12

(* Finishing keeps it. *)
LEMMA FinishInv == ASSUME IInv, Finish PROVE IInv'
  BY DEF Finish, file, args, IInv, TypeOK, Represents, Accounted, Swept, Visiting, Seeking,
         RefusalsExplained

(* So does doing nothing. *)
LEMMA StutterInv == ASSUME IInv, UNCHANGED vars PROVE IInv'
  BY DEF vars, file, args, IInv, TypeOK, Represents, Accounted, Swept, Visiting, Seeking,
         RefusalsExplained, First, InRange

(* Every step keeps the invariant. *)
LEMMA StepInv == IInv /\ [Next]_vars => IInv'
<1> SUFFICES ASSUME IInv, [Next]_vars PROVE IInv'
  OBVIOUS
<1>1. CASE Remove
  BY <1>1, RemoveFixupsInv, RangeDoneInv, SkipPageInv, ClearPageInv, EnterPageInv,
     VisitPointerInv DEF Remove
<1>2. CASE OffFile
  BY <1>2, OffFileInv
<1>3. CASE \E S \in SUBSET layout.ranges : CopySegments(S)
  BY <1>3, CopySegmentsInv
<1>4. CASE Add
  BY <1>4, AddNowhereInv, AddAloneInv, AddToChainInv, SeekOnInv, RefuseInv, InsertInv DEF Add
<1>5. CASE Finish
  BY <1>5, FinishInv
<1>6. CASE Ended \/ UNCHANGED vars
  BY <1>6, StutterInv DEF Ended
<1> QED BY <1>1, <1>2, <1>3, <1>4, <1>5, <1>6 DEF Next

(* The invariant holds at every moment. *)
LEMMA Invariance == Spec => []IInv
  BY InitInv, StepInv, PTL DEF Spec

-----------------------------------------------------------------------------
(* The kernel's walk.  Walk is defined by recursion; the least closed set   *)
(* that holds c solves the recursion, so a solution exists.                 *)
Closed(S) == \A s \in S : next[s] # 0 /\ s + next[s] \in Cells => s + next[s] \in S
Reach(c) == {d \in Cells : \A S \in SUBSET Cells : c \in S /\ Closed(S) => d \in S}
WalkStep(w) == [c \in Cells |->
    {c} \cup IF next[c] = 0 \/ c + next[c] \notin Cells THEN {} ELSE w[c + next[c]]]

(* What a walk reaches is closed under following links. *)
LEMMA ReachClosed ==
    ASSUME NEW c \in Cells
    PROVE  c \in Reach(c) /\ Closed(Reach(c)) /\ Reach(c) \in SUBSET Cells
<1>1. ASSUME NEW s \in Reach(c), next[s] # 0, s + next[s] \in Cells
      PROVE  s + next[s] \in Reach(c)
  <2>1. ASSUME NEW S \in SUBSET Cells, c \in S, Closed(S) PROVE s + next[s] \in S
    <3>1. s \in S
      BY <2>1 DEF Reach
    <3> QED BY <1>1, <2>1, <3>1 DEF Closed
  <2> QED BY <1>1, <2>1 DEF Reach
<1> QED BY <1>1 DEF Reach, Closed

(* The locations a chain holds solve the walk's equation. *)
LEMMA ReachSolves ==
    ASSUME NEW c \in Cells
    PROVE  Reach(c) = {c} \cup IF next[c] = 0 \/ c + next[c] \notin Cells
                              THEN {} ELSE Reach(c + next[c])
<1>1. CASE next[c] = 0 \/ c + next[c] \notin Cells
  <2>1. Closed({c}) /\ {c} \in SUBSET Cells
    BY <1>1 DEF Closed
  <2>2. Reach(c) \subseteq {c}
    BY <2>1 DEF Reach
  <2> QED BY <1>1, <2>2, ReachClosed
<1>2. CASE ~(next[c] = 0 \/ c + next[c] \notin Cells)
  <2> DEFINE n == c + next[c]
  <2>1. n \in Cells /\ n \in Reach(n) /\ Closed(Reach(n)) /\ Reach(n) \in SUBSET Cells
    BY <1>2, ReachClosed
  <2>2. Closed({c} \cup Reach(n)) /\ {c} \cup Reach(n) \in SUBSET Cells
    BY <2>1 DEF Closed
  <2>3. Reach(c) \subseteq {c} \cup Reach(n)
    <3> HIDE DEF n
    <3> QED BY <2>2 DEF Reach
  <2>4. ASSUME NEW d \in Reach(n) PROVE d \in Reach(c)
    <3>1. ASSUME NEW S \in SUBSET Cells, c \in S, Closed(S) PROVE d \in S
      <4>1. n \in S
        BY <1>2, <3>1 DEF Closed
      <4> HIDE DEF n
      <4> QED BY <2>4, <3>1, <4>1 DEF Reach
    <3>2. d \in Cells
      BY <2>1
    <3> QED BY <3>1, <3>2 DEF Reach
  <2> QED BY <1>2, <2>3, <2>4, ReachClosed
<1> QED BY <1>1, <1>2

(* The walk from a page's start finds exactly its chain. *)
LEMMA WalkSolves ==
    ASSUME NEW c \in Cells
    PROVE  Walk[c] = {c} \cup IF next[c] = 0 \/ c + next[c] \notin Cells
                             THEN {} ELSE Walk[c + next[c]]
<1> DEFINE g == [d \in Cells |-> Reach(d)]
<1>1. g = WalkStep(g)
  <2>1. ASSUME NEW d \in Cells
        PROVE  Reach(d) = {d} \cup IF next[d] = 0 \/ d + next[d] \notin Cells
                                  THEN {} ELSE g[d + next[d]]
    <3>1. CASE next[d] = 0 \/ d + next[d] \notin Cells
      BY <3>1, ReachSolves
    <3>2. CASE ~(next[d] = 0 \/ d + next[d] \notin Cells)
      BY <3>2, ReachSolves
    <3> QED BY <3>1, <3>2
  <2> QED BY <2>1 DEF WalkStep
<1>2. Walk = CHOOSE w : w = WalkStep(w)
  BY DEF Walk, WalkStep
<1>3. Walk = WalkStep(Walk)
  <2> HIDE DEF g
  <2> QED BY <1>1, <1>2
<1>4. Walk[c] = WalkStep(Walk)[c]
  BY <1>3
<1> QED BY <1>4 DEF WalkStep

(* From a member of a chain the kernel finds it and every later member. *)
LEMMA WalkChain ==
    ASSUME NEW F \in SUBSET Cells, NEW h \in Nat, IsChain(F, next, h),
           \A f \in F : next[f] \in Nat
    PROVE  \A f \in F : Walk[f] = {g \in F : f <= g}
<1> DEFINE Bad == {f \in F : Walk[f] # {g \in F : f <= g}}
           Left == {FileSize - f : f \in Bad}
<1>1. SUFFICES ASSUME Bad # {} PROVE FALSE
  OBVIOUS
<1>2. FileSize \in Nat /\ \A f \in F : f \in Nat /\ f < FileSize /\ f \in Cells
  BY SizesAssumption DEF Cells
<1>3. Left \in SUBSET Nat /\ Left # {}
  BY <1>1, <1>2
<1>4. PICK m \in Left : \A d \in Left : m <= d
  <2> HIDE DEF Left
  <2> QED BY <1>3, Least
<1>5. PICK f \in Bad : m = FileSize - f
  BY <1>4
<1>6. ASSUME NEW g \in Bad PROVE g <= f
  <2>1. FileSize - g \in Left
    OBVIOUS
  <2>2. FileSize - f <= FileSize - g
    BY <1>4, <1>5, <2>1
  <2>3. f \in Nat /\ g \in Nat
    BY <1>2
  <2> QED BY <1>2, <2>2, <2>3
<1>7. f \in F /\ f \in Nat /\ f \in Cells /\ next[f] \in Nat
  BY <1>2, <1>5
<1>8. CASE next[f] = 0
  <2>1. Walk[f] = {f}
    <3> HIDE DEF Bad
    <3>1. Walk[f] = {f} \cup IF next[f] = 0 \/ f + next[f] \notin Cells
                             THEN {} ELSE Walk[f + next[f]]
      BY <1>7, WalkSolves
    <3> QED BY <1>8, <3>1
  <2>2. \A g \in F : g <= f
    BY <1>7, <1>8 DEF IsChain
  <2>3. {g \in F : f <= g} = {f}
    <3>1. ASSUME NEW g \in F, f <= g PROVE g = f
      <4>1. g \in Nat /\ g <= f
        BY <1>2, <2>2
      <4> QED BY <1>7, <3>1, <4>1
    <3>2. f \in F /\ f <= f
      BY <1>7
    <3> QED BY <3>1, <3>2
  <2> QED BY <1>5, <2>1, <2>3
<1>9. CASE next[f] # 0
  <2> DEFINE n == f + next[f]
  <2>1. n \in F /\ n \in Cells /\ n \in Nat /\ n > f /\ \A g \in F : ~(f < g /\ g < n)
    BY <1>2, <1>7, <1>9 DEF IsChain
  <2>2. Walk[n] = {g \in F : n <= g}
    <3>1. ~(n <= f)
      BY <1>7, <2>1
    <3>2. n \notin Bad
      BY <1>6, <3>1
    <3> QED BY <2>1, <3>2
  <2>3. Walk[f] = {f} \cup Walk[n]
    <3> HIDE DEF Bad
    <3>1. Walk[f] = {f} \cup IF next[f] = 0 \/ f + next[f] \notin Cells
                             THEN {} ELSE Walk[f + next[f]]
      BY <1>7, WalkSolves
    <3> QED BY <1>9, <2>1, <3>1
  <2>4. {g \in F : f <= g} = {f} \cup {g \in F : n <= g}
    <3> HIDE DEF n, Bad
    <3>1. ASSUME NEW g \in F PROVE f <= g <=> g = f \/ n <= g
      <4>1. g \in Nat /\ ~(f < g /\ g < n)
        BY <1>2, <2>1
      <4> QED BY <1>7, <2>1, <4>1
    <3>2. f \in F
      BY <1>7
    <3> QED BY <3>1, <3>2
  <2> QED BY <1>5, <2>2, <2>3, <2>4
<1> QED BY <1>8, <1>9

(* What the kernel finds at boot is what the chains are meant to hold. *)
LEMMA LoadedIsFixups == IInv => Loaded = fixups
<1> SUFFICES ASSUME IInv PROVE Loaded = fixups
  OBVIOUS
<1> USE DEF IInv
<1>1. ASSUME NEW p \in Pages, start[p] # StartNone
      PROVE  First(p) \in Cells /\ Walk[First(p)] = InPage(fixups, p)
  <2>1. IsChain(InPage(fixups, p), next, First(p))
    BY <1>1 DEF Represents, HoldsChain, First
  <2>2. InPage(fixups, p) \in SUBSET Cells /\ \A f \in InPage(fixups, p) : next[f] \in Nat
    BY TypeFacts DEF InPage
  <2>3. First(p) \in InPage(fixups, p) /\ \A f \in InPage(fixups, p) : First(p) <= f
    BY <2>1 DEF IsChain
  <2>4. First(p) \in Cells /\ First(p) \in Nat
    BY <2>2, <2>3, Constants
  <2>5. Walk[First(p)] = {g \in InPage(fixups, p) : First(p) <= g}
    BY <2>1, <2>2, <2>3, <2>4, WalkChain
  <2> QED BY <2>3, <2>4, <2>5
<1>2. ASSUME NEW p \in Pages, start[p] = StartNone PROVE InPage(fixups, p) = {}
  BY <1>2 DEF Represents, HoldsChain
<1>3. ASSUME NEW f \in fixups PROVE \E p \in Pages : f \in InPage(fixups, p)
  <2>1. f \in layout.fixups \cup layout.kext
    BY DEF Accounted
  <2>2. PICK p \in Pages : f \in InPage(Cells, p)
    BY <2>1, TypeFacts, JobFacts DEF InTheFile
  <2> QED BY <2>2 DEF InPage
<1>4. Loaded \subseteq fixups
  <2>1. ASSUME NEW f \in Loaded PROVE f \in fixups
    <3>1. PICK p \in Pages : start[p] # StartNone /\ First(p) \in Cells /\ f \in Walk[First(p)]
      BY DEF Loaded
    <3> QED BY <1>1, <3>1 DEF InPage
  <2> QED BY <2>1
<1>5. fixups \subseteq Loaded
  <2>1. ASSUME NEW f \in fixups PROVE f \in Loaded
    <3>1. PICK p \in Pages : f \in InPage(fixups, p)
      BY <1>3
    <3>2. start[p] # StartNone /\ First(p) \in Cells /\ f \in Walk[First(p)]
      BY <1>1, <1>2, <3>1
    <3> QED BY <3>2 DEF Loaded
  <2> QED BY <2>1
<1> QED BY <1>4, <1>5

-----------------------------------------------------------------------------
(* The results.                                                             *)

(* Every variable keeps its type: no link outgrows its bit-field and no     *)
(* page_start its 16 bits in remove_fixups or add_fixup.                    *)
THEOREM TypeCorrect == Spec => []TypeOK
  BY Invariance, PTL DEF IInv

(* After every write of remove_fixups and add_fixup the chain of every page *)
(* is whole: it holds the fixups it is meant to hold, in file order.        *)
THEOREM ChainsWhole == Spec => []Represents
  BY Invariance, PTL DEF IInv

(* add_fixup gives up only on a pointer before the first fixup of its page. *)
THEOREM RefusesEarlyOnly == Spec => []RefusalsExplained
  BY Invariance, PTL DEF IInv

(* When the calls of remove_fixups are over, the kernel's walk finds the    *)
(* fixups of the other filesets, all of them, and none of the victim's.     *)
THEOREM VictimIsCleared == Spec => []VictimCleared
<1>1. IInv => VictimCleared
  <2> SUFFICES ASSUME IInv, pc = "remove", ranges = {} PROVE Loaded = Kept(layout)
    BY DEF VictimCleared
  <2>1. \A r \in layout.ranges : fixups \cap CellsOf(r) = {}
    BY DEF IInv, Swept
  <2>2. fixups = Kept(layout)
    BY <2>1 DEF IInv, Accounted, Kept, Victims
  <2> QED BY <2>2, LoadedIsFixups
<1> QED BY <1>1, Invariance, PTL

(* When the kext is linked, the kernel's walk finds the fixups of the other *)
(* filesets and every pointer of the kext, and nothing else.                *)
THEOREM KextIsLinked == Spec => []KextLinked
<1>1. IInv => KextLinked
  BY LoadedIsFixups DEF IInv, Accounted, KextLinked
<1> QED BY <1>1, Invariance, PTL

(* The editor implements FixupSet, the kernel's view of the chains: every   *)
(* write removes fixups of the victim, adds one of the kext, or shows not   *)
(* at all.                                                                  *)
THEOREM EditorImplementsSet == Spec => ImplementsSet
<1>1. Init => Abs!Init
  <2> SUFFICES ASSUME Init PROVE Abs!Init
    OBVIOUS
  <2>1. Loaded = layout.fixups
    BY InitInv, LoadedIsFixups DEF Init
  <2> QED BY <2>1 DEF Init, Abs!Init
<1>2. IInv /\ IInv' /\ [Next]_vars => [Abs!Next]_Abs!vars
  <2> SUFFICES ASSUME IInv, IInv', [Next]_vars PROVE [Abs!Next]_Abs!vars
    OBVIOUS
  <2>1. Loaded = fixups /\ Loaded' = fixups'
    <3>1. Loaded = fixups
      BY LoadedIsFixups
    <3>2. (IInv => Loaded = fixups)'
      BY LoadedIsFixups, PTL
    <3> QED BY <3>1, <3>2
  <2>2. Abs!Victim = Victims(layout)
    BY DEF Abs!Victim, Abs!CellsOf, Victims, CellsOf
  <2> USE DEF file, args, Fail
  <2>3. CASE Remove
    <3>1. pc \in {"remove", "page", "visit"} /\ pc' \in {"remove", "page", "visit"}
      BY <2>3 DEF Remove, RemoveFixups, RangeDone, SkipPage, ClearPage, EnterPage, VisitPointer,
                  FollowChain, IInv, Accounted
    <3>2. layout' = layout /\ fixups' \subseteq fixups
      BY <2>3 DEF Remove, RemoveFixups, RangeDone, SkipPage, ClearPage, EnterPage, VisitPointer,
                  Unlink, Keep
    <3>3. fixups \ fixups' \subseteq Victims(layout)
      BY <3>1, <3>2 DEF IInv, Accounted, Kept
    <3>4. fixups \ fixups' \in SUBSET (fixups \cap Victims(layout))
          /\ fixups' = fixups \ (fixups \ fixups')
      BY <3>2, <3>3
    <3>5. Abs!Drop
      BY <2>1, <2>2, <3>1, <3>2, <3>4 DEF Abs!Drop
    <3> QED BY <3>5 DEF Abs!Next
  <2>4. CASE OffFile \/ Refuse \/ \E l \in layout.kext : AddNowhere(l)
    <3>1. Abs!Fail
      BY <2>1, <2>4 DEF OffFile, Refuse, AddNowhere, Abs!Fail
    <3> QED BY <3>1 DEF Abs!Next
  <2>5. CASE \E S \in SUBSET layout.ranges : CopySegments(S)
    <3>1. pc = "remove" /\ pc' = "add" /\ layout' = layout /\ fixups' = fixups /\ linked' = linked
      BY <2>5 DEF CopySegments
    <3>2. fixups \cap Victims(layout) = {}
      BY <3>1, TypeFacts, JobFacts DEF IInv, Accounted
    <3>3. Abs!StartLink
      BY <2>1, <2>2, <3>1, <3>2 DEF Abs!StartLink
    <3> QED BY <3>3 DEF Abs!Next
  <2>6. CASE Insert \/ \E l \in layout.kext : AddAlone(l)
    <3>1. PICK l \in layout.kext \ linked : /\ pc \in {"add", "seek"} /\ pc' = "add"
                                          /\ layout' = layout /\ fixups' = fixups \cup {l}
      BY <2>6 DEF Insert, AddAlone, IInv, Seeking
    <3>2. l \in layout.kext \ fixups
      BY <3>1, TargetFacts
    <3>3. Abs!Link
      BY <2>1, <3>1, <3>2 DEF Abs!Link
    <3> QED BY <3>3 DEF Abs!Next
  <2>7. CASE Finish
    <3>1. Abs!Finish
      BY <2>1, <2>7 DEF Finish, IInv, Accounted, Abs!Finish
    <3> QED BY <3>1 DEF Abs!Next
  <2>8. CASE SeekOn \/ (\E l \in layout.kext : AddToChain(l)) \/ Ended \/ UNCHANGED vars
    BY <2>1, <2>8 DEF SeekOn, AddToChain, Ended, vars, Abs!vars
  <2> QED BY <2>3, <2>4, <2>5, <2>6, <2>7, <2>8 DEF Next, Add
<1> QED BY <1>1, <1>2, Invariance, PTL DEF Spec, ImplementsSet, Abs!Spec
=============================================================================
