--------------------------- MODULE KextLinkProofs ---------------------------
(* Relocated code computes the addresses it computed in the kext, however   *)
(* far its segments have moved and whatever is linked after it; and each    *)
(* pointer is linked once, by the pass it belongs to, to the right place.   *)
EXTENDS KextLink, TLAPS

AllCodeApart == \A j \in Jobs : CodeApart(j)

Resolved(e) ==
    /\ e.kind = "adrp" => Page(Moved(e.from)) + kc[e.from].val = Page(Moved(e.to))
    /\ e.kind = "off12" => Page(Moved(e.to)) + kc[e.from].val = Moved(e.to)

(* The entries still to be applied are the last ones of the list. *)
Applied == Len(job.entries) - Len(entries)

Typed == /\ job \in Jobs
         /\ DOMAIN kc = Places
         /\ pc \in {"copied", "split"} => kc \in [Places -> Item]
         /\ entries \in Seq(Entry) /\ Len(entries) <= Len(job.entries)

Inv == /\ Typed
       /\ \A k \in 1 .. Len(entries) : entries[k] = job.entries[k + Applied]
       /\ \A k \in 1 .. Applied : Resolved(job.entries[k])
       /\ pc \in {"read", "chain", "bind", "done"} => entries = << >>

-----------------------------------------------------------------------------
(* An address is its page and what ADD or LDR adds to it. *)
LEMMA PageSplits ==
    \A a \in Int : Page(a) \in Int /\ a % PageWords \in Int /\ Page(a) + (a % PageWords) = a
<1> SUFFICES ASSUME NEW a \in Int
             PROVE  Page(a) \in Int /\ a % PageWords \in Int /\ Page(a) + (a % PageWords) = a
  OBVIOUS
<1>1. PageWords \in Nat /\ PageWords > 0
  BY LinkAssumption
<1>2. a \div PageWords \in Int /\ a % PageWords \in Int
  BY <1>1
<1>3. (a \div PageWords) * PageWords \in Int
  BY <1>1, <1>2
<1>4. (a \div PageWords) * PageWords + (a % PageWords) = a
  BY <1>1
<1> QED BY <1>2, <1>3, <1>4 DEF Page

LEMMA MovedIsInt == \A a \in Places : Moved(a) \in Int
BY LinkAssumption DEF Moved

LEMMA InitInv == Init => Inv
<1> SUFFICES ASSUME Init PROVE Inv
  OBVIOUS
<1>1. job.entries \in Seq(Entry) /\ job.image \in [Places -> Item]
  BY LinkAssumption DEF Init, Range
<1> QED BY <1>1 DEF Init, Inv, Typed, Applied

(* The head of the entries is the next one of the list. *)
LEMMA HeadEntry ==
    ASSUME Inv, entries # << >>
    PROVE  /\ Applied + 1 \in DOMAIN job.entries /\ Head(entries) = job.entries[Applied + 1]
           /\ Head(entries) \in Entry /\ job.entries \in Seq(Entry)
           /\ \A k \in 1 .. Applied : k \in DOMAIN job.entries
<1>1. job.entries \in Seq(Entry) /\ entries \in Seq(Entry) /\ Len(entries) <= Len(job.entries)
  BY LinkAssumption DEF Inv, Typed
<1>2. Len(entries) \in Nat \ {0} /\ Len(job.entries) \in Nat
  BY <1>1
<1>3. Applied + 1 \in DOMAIN job.entries /\ \A k \in 1 .. Applied : k \in DOMAIN job.entries
  BY <1>1, <1>2 DEF Applied
<1>4. Head(entries) = entries[1] /\ entries[1] = job.entries[1 + Applied]
  BY <1>1, <1>2 DEF Inv
<1>5. 1 + Applied = Applied + 1
  BY <1>1, <1>2 DEF Applied
<1>6. Head(entries) \in Entry
  BY <1>1
<1> QED BY <1>1, <1>3, <1>4, <1>5, <1>6

(* A step that takes the head off the list and writes at most where it says *)
(* keeps the invariant, if it leaves that entry resolved.                   *)
LEMMA EntryApplied ==
    ASSUME AllCodeApart, Inv, entries # << >>, NEW e, e = Head(entries), entries' = Tail(entries),
           job' = job, pc' = pc, pc = "split",
           kc' \in [Places -> Item],
           \A a \in Places : kc'[a] # kc[a] => Writes(e) /\ a = e.from,
           Resolved(e)'
    PROVE  Inv'
<1>1. /\ Applied + 1 \in DOMAIN job.entries /\ Head(entries) = job.entries[Applied + 1]
      /\ job.entries \in Seq(Entry)
      /\ \A k \in 1 .. Applied : k \in DOMAIN job.entries
  BY HeadEntry
<1>2. entries \in Seq(Entry) /\ Len(entries) \in Nat \ {0} /\ Len(entries) <= Len(job.entries)
  BY DEF Inv, Typed
<1>3. entries' \in Seq(Entry) /\ Len(entries') = Len(entries) - 1
      /\ \A k \in 1 .. Len(entries') : entries'[k] = entries[k + 1]
  BY <1>2
<1>4. Applied' = Applied + 1 /\ Applied \in Nat
  BY <1>1, <1>2, <1>3 DEF Applied
<1>5. ASSUME NEW k \in 1 .. Len(entries')
      PROVE  entries'[k] = job.entries[k + Applied']
  <2>1. k + 1 \in 1 .. Len(entries) /\ (k + 1) + Applied = k + Applied'
    BY <1>2, <1>3, <1>4
  <2>2. entries[k + 1] = job.entries[(k + 1) + Applied]
    BY <2>1 DEF Inv
  <2> QED BY <1>3, <2>1, <2>2
<1>6. ASSUME NEW k \in 1 .. Applied, NEW d, d = job.entries[k]
      PROVE  Resolved(d)'
  <2>1. Resolved(d) /\ d \in Entry /\ k \in DOMAIN job.entries
    BY <1>1, <1>6 DEF Inv
  <2>2. CASE ~IsCode(d)
    BY <2>2 DEF Resolved, IsCode
  <2>3. CASE IsCode(d)
    <3>1. k # Applied + 1
      BY <1>4
    <3>2. ~(Writes(e) /\ e.from = d.from)
      BY <1>1, <1>6, <2>1, <2>3, <3>1 DEF AllCodeApart, CodeApart, Inv, Typed
    <3>3. kc'[d.from] = kc[d.from]
      BY <2>1, <3>2 DEF Entry
    <3> QED BY <2>1, <3>3 DEF Resolved
  <2> QED BY <2>2, <2>3
<1>7. ASSUME NEW k \in 1 .. Applied', NEW d, d = job.entries[k]
      PROVE  Resolved(d)'
  <2>1. k \in 1 .. Applied \/ k = Applied + 1
    BY <1>4
  <2> QED BY <1>1, <1>6, <1>7, <2>1
<1>8. Typed'
  BY <1>1, <1>2, <1>3 DEF Inv, Typed
<1> QED BY <1>5, <1>7, <1>8 DEF Inv, Resolved

LEMMA ApplyAdrpInv == ASSUME AllCodeApart, Inv, ApplyAdrp PROVE Inv'
<1>1. entries # << >> /\ entries' = Tail(entries) /\ UNCHANGED <<job, pc>> /\ pc = "split"
  BY DEF ApplyAdrp, Now, NextEntry
<1>2. PICK e : e = Head(entries)
  OBVIOUS
<1>3. e \in Entry /\ e.kind = "adrp" /\ e.from \in Places /\ e.to \in Places
  BY <1>1, <1>2, HeadEntry DEF ApplyAdrp, Now, Entry
<1>4. kc \in [Places -> Item] /\ kc' = [kc EXCEPT ![e.from] = [kc[e.from] EXCEPT !.val = PageDistance(e)]]
  BY <1>1, <1>2 DEF ApplyAdrp, Store, Inv, Typed
<1>5. /\ PageDistance(e) \in Int
      /\ Page(Moved(e.from)) + PageDistance(e) = Page(Moved(e.to))
  <2>1. Page(Moved(e.from)) \in Int /\ Page(Moved(e.to)) \in Int
    BY <1>3, PageSplits, MovedIsInt
  <2> QED BY <2>1 DEF PageDistance
<1>6. kc' \in [Places -> Item] /\ kc'[e.from].val = PageDistance(e)
  BY <1>3, <1>4, <1>5 DEF Item
<1>7. Resolved(e)'
  BY <1>3, <1>5, <1>6 DEF Resolved
<1>8. \A a \in Places : kc'[a] # kc[a] => Writes(e) /\ a = e.from
  BY <1>3, <1>4 DEF Writes
<1> QED BY <1>1, <1>2, <1>6, <1>7, <1>8, EntryApplied

LEMMA ApplyOff12Inv == ASSUME AllCodeApart, Inv, ApplyOff12 PROVE Inv'
<1>1. entries # << >> /\ entries' = Tail(entries) /\ UNCHANGED <<job, pc>> /\ pc = "split"
  BY DEF ApplyOff12, Now, NextEntry
<1>2. PICK e : e = Head(entries)
  OBVIOUS
<1>3. e \in Entry /\ e.kind = "off12" /\ e.from \in Places /\ e.to \in Places
  BY <1>1, <1>2, HeadEntry DEF ApplyOff12, Now, Entry
<1>4. kc \in [Places -> Item] /\ kc' = [kc EXCEPT ![e.from] = [kc[e.from] EXCEPT !.val = Off12(e)]]
  BY <1>1, <1>2 DEF ApplyOff12, Store, Inv, Typed
<1>5. Off12(e) \in Int /\ Page(Moved(e.to)) + Off12(e) = Moved(e.to)
  BY <1>3, PageSplits, MovedIsInt DEF Off12
<1>6. kc' \in [Places -> Item] /\ kc'[e.from].val = Off12(e)
  BY <1>3, <1>4, <1>5 DEF Item
<1>7. Resolved(e)'
  BY <1>3, <1>5, <1>6 DEF Resolved
<1>8. \A a \in Places : kc'[a] # kc[a] => Writes(e) /\ a = e.from
  BY <1>3, <1>4 DEF Writes
<1> QED BY <1>1, <1>2, <1>6, <1>7, <1>8, EntryApplied

LEMMA ApplyPointerInv ==
    ASSUME AllCodeApart, Inv, ApplyPointer
    PROVE  Inv'
<1>1. entries # << >> /\ entries' = Tail(entries) /\ UNCHANGED <<job, pc>> /\ pc = "split"
  BY DEF ApplyPointer, Now, NextEntry
<1>2. PICK e : e = Head(entries)
  OBVIOUS
<1>3. e \in Entry /\ e.kind = "pointer" /\ e.from \in Places /\ e.to \in Places
  BY <1>1, <1>2, HeadEntry DEF ApplyPointer, Now, Entry
<1>4. /\ kc \in [Places -> Item]
      /\ kc' = [kc EXCEPT ![e.from] = [kc[e.from] EXCEPT !.val = Moved(e.to) - VmBase, !.next = 0]]
  BY <1>1, <1>2 DEF ApplyPointer, Store, Inv, Typed
<1>5. Moved(e.to) - VmBase \in Int
  BY <1>3, MovedIsInt, LinkAssumption
<1>6. kc' \in [Places -> Item]
  BY <1>3, <1>4, <1>5 DEF Item
<1>7. Resolved(e)'
  BY <1>3 DEF Resolved
<1>8. \A a \in Places : kc'[a] # kc[a] => Writes(e) /\ a = e.from
  BY <1>3, <1>4 DEF Writes
<1> QED BY <1>1, <1>2, <1>6, <1>7, <1>8, EntryApplied

LEMMA ApplyBranchInv == ASSUME AllCodeApart, Inv, ApplyBranch PROVE Inv'
<1>1. entries # << >> /\ entries' = Tail(entries) /\ UNCHANGED <<job, pc, kc>> /\ pc = "split"
  BY DEF ApplyBranch, Now, NextEntry
<1>2. PICK e : e = Head(entries)
  OBVIOUS
<1>3. Resolved(e)'
  BY <1>1, <1>2 DEF ApplyBranch, Now, Resolved
<1>4. kc' \in [Places -> Item] /\ \A a \in Places : kc'[a] = kc[a]
  BY <1>1 DEF Inv, Typed
<1> QED BY <1>1, <1>2, <1>3, <1>4, EntryApplied

(* A bound pointer is no instruction's location. *)
LEMMA BindSymbolInv == ASSUME AllCodeApart, Inv, BindSymbol PROVE Inv'
<1>1. /\ UNCHANGED <<job, pc, entries>> /\ pc = "bind" /\ entries = << >>
      /\ job.image[Head(found)].bind
  BY DEF BindSymbol, Binding, v, Inv
<1>2. PICK h, i : h = Head(found) /\ kc' = [kc EXCEPT ![h] = i]
  BY DEF BindSymbol, Store
<1>3. Applied' = Applied
  BY <1>1 DEF Applied
<1>4. ASSUME NEW k \in 1 .. Applied, NEW d, d = job.entries[k]
      PROVE  Resolved(d)'
  <2>1. job.entries \in Seq(Entry) /\ Applied = Len(job.entries)
    BY <1>1, LinkAssumption DEF Inv, Typed, Applied
  <2>2. Resolved(d) /\ d \in Entry /\ k \in DOMAIN job.entries
    BY <1>4, <2>1 DEF Inv
  <2>3. CASE IsCode(d)
    <3>1. d.from # h /\ d.from \in DOMAIN kc
      BY <1>1, <1>2, <1>4, <2>2, <2>3 DEF AllCodeApart, CodeApart, Inv, Typed, Entry
    <3>2. kc'[d.from] = kc[d.from]
      BY <1>2, <3>1
    <3> QED BY <2>2, <3>2 DEF Resolved
  <2>4. CASE ~IsCode(d)
    BY <2>4 DEF Resolved, IsCode
  <2> QED BY <2>3, <2>4
<1>5. Typed'
  BY <1>1, <1>2 DEF Inv, Typed
<1> QED BY <1>1, <1>3, <1>4, <1>5 DEF Inv, Resolved

LEMMA CodeUntouched ==
    ASSUME Inv, UNCHANGED <<job, kc, entries>>,
           pc' \in {"copied", "split"} => pc \in {"copied", "split"},
           pc' \in {"read", "chain", "bind", "done"} =>
             pc \in {"read", "chain", "bind", "done"} \/ entries = << >>
    PROVE  Inv'
<1>1. Applied' = Applied /\ Typed'
  BY DEF Applied, Inv, Typed
<1> QED BY <1>1 DEF Inv, Resolved

LEMMA NextInv ==
    ASSUME AllCodeApart, Inv, [Next]_vars
    PROVE  Inv'
<1>1. CASE Begin \/ SplitDone
  BY <1>1, CodeUntouched DEF Begin, SplitDone
<1>2. CASE SplitFails \/ BindFails \/ AddRefused
  BY <1>2, CodeUntouched DEF SplitFails, BindFails, AddRefused, Fail
<1>3. CASE SkipPage \/ EnterPage \/ ReadPointer \/ ReadAstray \/ ReadDone
  BY <1>3, CodeUntouched DEF SkipPage, EnterPage, ReadPointer, ReadAstray, ReadDone
<1>4. CASE SkipRebase \/ Finish \/ Ended \/ UNCHANGED vars
  BY <1>4, CodeUntouched DEF SkipRebase, Finish, Ended, vars
<1> QED BY <1>1, <1>2, <1>3, <1>4, ApplyAdrpInv, ApplyOff12Inv, ApplyPointerInv, ApplyBranchInv,
        BindSymbolInv DEF Next

(* However far the segments of the kext move: an ADRP and the offset after  *)
(* it, fixed by different entries, meet at the target's new address, and    *)
(* linking pointers afterwards does not disturb them.                       *)
THEOREM CodeIsResolved ==
    ASSUME AllCodeApart
    PROVE  Spec => []CodeResolved
<1>1. Inv /\ [Next]_vars => Inv'
  BY NextInv
<1>2. Inv => CodeResolved
  <2> SUFFICES ASSUME Inv, pc \in {"read", "chain", "bind", "done"}, NEW k \in DOMAIN job.entries
               PROVE  Resolved(job.entries[k])
    BY DEF CodeResolved, Resolved
  <2>1. job.entries \in Seq(Entry) /\ entries = << >>
    BY LinkAssumption DEF Inv, Typed
  <2>2. k \in 1 .. Applied
    BY <2>1 DEF Applied
  <2> QED BY <2>2 DEF Inv
<1> QED BY <1>1, <1>2, InitInv, PTL DEF Spec

-----------------------------------------------------------------------------
(* The pointers. *)
AllSupported == \A j \in Jobs : Supported(j)

ImportPointers == {f \in job.fixups : job.image[f].bind}
RebasePointers == job.fixups \ ImportPointers

(* What PointersResolved asks of one pointer. *)
Right(f) ==
    /\ ~kc[f].bind /\ kc[f].auth = job.image[f].auth
    /\ IF job.image[f].bind
         THEN Leads(f) \in Bound(job.tables, job.json, deps, job.imports[job.image[f].val + 1])
         ELSE Leads(f) = Moved(job.image[f].val)

(* An entry still to be applied will link f. *)
Pending(f) == \E k \in DOMAIN entries : entries[k].kind = "pointer" /\ entries[k].from = f

(* What has been linked is right, what has not is as the kext has it. *)
Linked == /\ linked \subseteq job.fixups
          /\ \A f \in linked : Right(f)
          /\ \A f \in job.fixups \ linked : kc[f] = job.image[f]

(* Of the two passes, the first takes all rebases, the second what          *)
(* read_fixups has found: every pointer up to the cursor.                   *)
Covered ==
    /\ pc = "copied" => linked = {}
    /\ pc \in {"copied", "split"} => \A f \in RebasePointers : f \in linked \/ Pending(f)
    /\ pc \in {"read", "chain", "bind", "done"} => RebasePointers \subseteq linked
    /\ pc \in {"bind", "done"} => /\ Registrable(job.tables, job.json, deps)
                                  /\ ImportPointers \subseteq linked \cup Range(found)
    /\ pc = "done" => found = << >>

Gathered ==
    /\ found \in Seq(job.fixups)
    /\ pc \in {"copied", "split"} => page = 0 /\ found = << >>
    /\ pc = "read" => \/ page = 0 /\ found = << >>
                      \/ page \in 1 .. PageCount /\ job.fixups \subseteq Range(found)
    /\ pc = "chain" => /\ page = 0 /\ PageCount > 0 /\ cur \in job.fixups
                       /\ \A g \in job.fixups : g < cur => g \in Range(found)

PointerInv == Linked /\ Covered /\ Gathered

-----------------------------------------------------------------------------
LEMMA KextFacts ==
    ASSUME AllSupported, job \in Jobs
    PROVE  /\ RebasesListed(job) /\ OneChain(job)
           /\ job.fixups \subseteq Places /\ Places \subseteq Nat
           /\ job.image \in [Places -> Item] /\ job.entries \in Seq(Entry)
           /\ job.start \in [0 .. PageCount - 1 -> Nat]
           /\ \A f \in job.fixups : job.image[f] \in Item /\ job.image[f].next \in Nat
           /\ PageCount \in Nat /\ VmBase \in Int
<1>1. RebasesListed(job) /\ OneChain(job)
  BY DEF AllSupported, Supported
<1>2. /\ job.fixups \subseteq Places /\ Places \subseteq Nat
      /\ job.image \in [Places -> Item] /\ job.entries \in Seq(Entry)
      /\ job.start \in [0 .. PageCount - 1 -> Nat]
      /\ PageCount \in Nat /\ VmBase \in Int
  BY LinkAssumption
<1>3. \A f \in job.fixups : job.image[f] \in Item
  BY <1>2
<1>4. \A i \in Item : i.next \in Nat
  BY DEF Item
<1> QED BY <1>1, <1>2, <1>3, <1>4

LEMMA RightUnwritten ==
    ASSUME job' = job, NEW f, Right(f), kc'[f] = kc[f]
    PROVE  Right(f)'
BY DEF Right, Leads, deps, Moved

(* A step that writes at most at a, which is linked and right afterwards. *)
LEMMA LinkedOne ==
    ASSUME Linked, job' = job, NEW a \in job.fixups, linked' = linked \cup {a},
           \A f \in job.fixups : f # a => kc'[f] = kc[f],
           Right(a)'
    PROVE  Linked'
<1>1. linked' \subseteq job'.fixups
  BY DEF Linked
<1>2. \A f \in linked' : Right(f)'
  BY RightUnwritten DEF Linked
<1>3. \A f \in job'.fixups \ linked' : kc'[f] = job'.image[f]
  BY DEF Linked
<1> QED BY <1>1, <1>2, <1>3 DEF Linked

LEMMA LinkedNone ==
    ASSUME Linked, job' = job, linked' = linked, \A f \in job.fixups : kc'[f] = kc[f]
    PROVE  Linked'
<1>1. \A f \in linked : Right(f)'
  BY RightUnwritten DEF Linked
<1> QED BY <1>1 DEF Linked

LEMMA InitPointerInv == AllSupported /\ Init => PointerInv
<1> SUFFICES ASSUME AllSupported, Init PROVE PointerInv
  OBVIOUS
<1>1. job \in Jobs /\ entries = job.entries
  BY DEF Init
<1>2. Linked
  BY DEF Init, Linked
<1>3. \A f \in RebasePointers : Pending(f)
  BY <1>1, KextFacts DEF RebasesListed, RebasePointers, ImportPointers, Pending
<1>4. Gathered
  BY DEF Init, Gathered
<1> QED BY <1>2, <1>3, <1>4 DEF Init, PointerInv, Covered

(* Of the entries that were pending, the tail of the list misses the head's. *)
LEMMA PendingTail ==
    ASSUME Inv, entries # << >>, entries' = Tail(entries), NEW f, Pending(f),
           ~(Head(entries).kind = "pointer" /\ Head(entries).from = f)
    PROVE  Pending(f)'
<1>1. entries \in Seq(Entry) /\ Len(entries) \in Nat \ {0}
  BY DEF Inv, Typed
<1>2. PICK k \in DOMAIN entries : entries[k].kind = "pointer" /\ entries[k].from = f
  BY DEF Pending
<1>3. Head(entries) = entries[1] /\ k \in 1 .. Len(entries)
  BY <1>1
<1>4. k # 1
  BY <1>2, <1>3
<1>5. k - 1 \in 1 .. Len(entries) - 1 /\ Len(entries') = Len(entries) - 1 /\ (k - 1) + 1 = k
  BY <1>1, <1>3, <1>4
<1>6. k - 1 \in DOMAIN entries' /\ entries'[k - 1] = entries[k]
  BY <1>1, <1>5
<1> QED BY <1>2, <1>6 DEF Pending

(* The split-segment pass: code and branches write no pointer. *)
LEMMA CodeEntryPointerInv ==
    ASSUME AllSupported, Inv, PointerInv, ApplyAdrp \/ ApplyOff12 \/ ApplyBranch
    PROVE  PointerInv'
<1>1. /\ entries # << >> /\ entries' = Tail(entries) /\ pc = "split" /\ job \in Jobs
      /\ UNCHANGED <<job, pc, page, cur, found, linked>>
      /\ Head(entries).kind # "pointer"
  BY DEF ApplyAdrp, ApplyOff12, ApplyBranch, Now, NextEntry, Inv, Typed
<1>2. PICK k \in DOMAIN job.entries : Head(entries) = job.entries[k]
  BY <1>1, HeadEntry
<1>3. \A f \in job.fixups : kc'[f] = kc[f]
  <2>1. CASE ApplyBranch
    BY <2>1 DEF ApplyBranch
  <2>2. CASE ApplyAdrp \/ ApplyOff12
    <3>1. IsCode(Head(entries))
      BY <2>2 DEF ApplyAdrp, ApplyOff12, Now, IsCode
    <3>2. Head(entries).from \notin job.fixups
      BY <1>1, <1>2, <3>1, KextFacts DEF RebasesListed
    <3>3. PICK i : kc' = [kc EXCEPT ![Head(entries).from] = i]
      BY <2>2 DEF ApplyAdrp, ApplyOff12, Store
    <3>4. job.fixups \subseteq DOMAIN kc
      BY <1>1, KextFacts DEF Inv, Typed
    <3> QED BY <3>2, <3>3, <3>4
  <2> QED BY <2>1, <2>2
<1>4. Linked'
  BY <1>1, <1>3, LinkedNone DEF PointerInv
<1>5. Covered'
  BY <1>1, PendingTail DEF PointerInv, Covered, RebasePointers, ImportPointers
<1>6. Gathered'
  BY <1>1 DEF PointerInv, Gathered
<1> QED BY <1>4, <1>5, <1>6 DEF PointerInv

(* A rebase is linked to where its target lies now. *)
LEMMA ApplyPointerPointerInv ==
    ASSUME AllSupported, Inv, PointerInv, ApplyPointer
    PROVE  PointerInv'
<1>1. /\ entries # << >> /\ entries' = Tail(entries) /\ pc = "split" /\ job \in Jobs
      /\ UNCHANGED <<job, pc, page, cur, found>>
  BY DEF ApplyPointer, Now, NextEntry, Inv, Typed
<1>2. PICK e : e = Head(entries)
  OBVIOUS
<1>3. /\ \E k \in DOMAIN job.entries : e = job.entries[k]
      /\ e \in Entry /\ e.kind = "pointer" /\ e.from \in Places /\ e.to \in Places
  BY <1>1, <1>2, HeadEntry DEF ApplyPointer, Now, Entry
<1>4. /\ ~kc[e.from].bind /\ e.from \notin linked /\ linked' = linked \cup {e.from}
      /\ kc' = [kc EXCEPT ![e.from] = [kc[e.from] EXCEPT !.val = Moved(e.to) - VmBase, !.next = 0]]
  BY <1>2 DEF ApplyPointer, Store
<1>5. e.from \in job.fixups /\ (job.image[e.from].bind \/ e.to = job.image[e.from].val)
  BY <1>1, <1>3, KextFacts DEF RebasesListed
<1>6. kc[e.from] = job.image[e.from] /\ job.image[e.from] \in Item /\ e.from \in DOMAIN kc
  BY <1>1, <1>3, <1>4, <1>5, KextFacts DEF PointerInv, Linked, Inv, Typed
<1>7. Right(e.from)'
  <2>1. /\ kc'[e.from].bind = job.image[e.from].bind
        /\ kc'[e.from].auth = job.image[e.from].auth
        /\ kc'[e.from].val = Moved(e.to) - VmBase
    BY <1>4, <1>6 DEF Item
  <2>2. VmBase + (Moved(e.to) - VmBase) = Moved(e.to)
    BY <1>3, MovedIsInt, LinkAssumption
  <2>3. ~job.image[e.from].bind /\ e.to = job.image[e.from].val
    BY <1>4, <1>5, <1>6
  <2> QED BY <1>1, <2>1, <2>2, <2>3 DEF Right, Leads, Moved
<1>8. Linked'
  <2>1. \A f \in job.fixups : f # e.from => kc'[f] = kc[f]
    <3>1. job.fixups \subseteq DOMAIN kc
      BY <1>1, KextFacts DEF Inv, Typed
    <3> QED BY <1>4, <3>1
  <2> QED BY <1>1, <1>4, <1>5, <1>7, <2>1, LinkedOne DEF PointerInv
<1>9. Covered'
  <2>1. ASSUME NEW f \in RebasePointers, f # e.from, f \notin linked
        PROVE  Pending(f)'
    <3>1. Pending(f)
      BY <1>1, <2>1 DEF PointerInv, Covered
    <3> QED BY <1>1, <1>2, <2>1, <3>1, PendingTail
  <2> QED BY <1>1, <1>4, <2>1 DEF PointerInv, Covered, RebasePointers, ImportPointers
<1>10. Gathered'
  BY <1>1 DEF PointerInv, Gathered
<1> QED BY <1>8, <1>9, <1>10 DEF PointerInv

(* Begin and the end of the pass: no entry is left, so no rebase is. *)
LEMMA PassPointerInv ==
    ASSUME PointerInv, Begin \/ SplitDone
    PROVE  PointerInv'
<1>1. UNCHANGED <<job, kc, linked, entries, page, cur, found>>
      /\ \/ pc = "copied" /\ pc' = "split"
         \/ pc = "split" /\ pc' = "read" /\ entries = << >>
  BY DEF Begin, SplitDone
<1>2. Linked'
  BY <1>1, LinkedNone DEF PointerInv
<1>3. \A f : Pending(f)' = Pending(f) /\ (entries = << >> => ~Pending(f))
  BY <1>1 DEF Pending
<1>4. Covered'
  BY <1>1, <1>3 DEF PointerInv, Covered, RebasePointers, ImportPointers
<1>5. Gathered'
  BY <1>1 DEF PointerInv, Gathered
<1> QED BY <1>2, <1>4, <1>5 DEF PointerInv

(* Giving up, or reading what is no pointer. *)
LEMMA GivesUp ==
    ASSUME PointerInv, UNCHANGED <<job, kc, linked, found>>, pc' \in {"failed", "wild"}
    PROVE  PointerInv'
<1>1. Linked'
  BY LinkedNone DEF PointerInv
<1> QED BY <1>1 DEF PointerInv, Covered, Gathered

(* read_fixups. *)
LEMMA ReadPagesPointerInv ==
    ASSUME AllSupported, Inv, PointerInv, SkipPage \/ EnterPage
    PROVE  PointerInv'
<1>1. /\ UNCHANGED <<job, kc, linked, entries, found>> /\ job \in Jobs
      /\ pc = "read" /\ page < PageCount
  BY DEF SkipPage, EnterPage, Inv, Typed
<1>2. /\ RebasesListed(job) /\ OneChain(job) /\ PageCount \in Nat
      /\ job.start \in [0 .. PageCount - 1 -> Nat]
  BY <1>1, KextFacts
<1>3. Linked'
  BY <1>1, LinkedNone DEF PointerInv
<1>4. RebasePointers' = RebasePointers /\ ImportPointers' = ImportPointers
  BY <1>1 DEF RebasePointers, ImportPointers
<1>5. CASE SkipPage
  <2>1. pc' = pc /\ page' = page + 1 /\ job.start[page] = None
    BY <1>5 DEF SkipPage
  <2>2. Covered'
    BY <1>1, <1>4, <2>1 DEF PointerInv, Covered
  <2>3. CASE page = 0 /\ found = << >>
    <3>1. job.fixups = {} /\ 1 \in 1 .. PageCount
      BY <1>1, <1>2, <2>1, <2>3 DEF OneChain
    <3>2. job.fixups \subseteq Range(found) /\ page' = 1
      BY <2>1, <2>3, <3>1
    <3> QED BY <1>1, <1>3, <2>1, <2>2, <3>1, <3>2 DEF PointerInv, Gathered
  <2>4. CASE page \in 1 .. PageCount /\ job.fixups \subseteq Range(found)
    <3>1. page + 1 \in 1 .. PageCount
      BY <1>1, <1>2, <2>4
    <3> QED BY <1>1, <1>3, <2>1, <2>2, <2>4, <3>1 DEF PointerInv, Gathered
  <2> QED BY <1>1, <1>3, <2>2, <2>3, <2>4 DEF PointerInv, Gathered
<1>6. CASE EnterPage
  <2>1. /\ job.start[page] # None /\ pc' \in {"chain", "wild"} /\ page' = page
        /\ cur' = ChainOffset + PageBytes(page) \div 4 + job.start[page]
    BY <1>6 DEF EnterPage
  <2>2. page = 0 /\ found = << >>
    <3>1. ~(page \in 1 .. PageCount)
      <4>1. \A p \in 1 .. PageCount - 1 : job.start[p] = None
        BY <1>2 DEF OneChain
      <4> QED BY <1>1, <1>2, <2>1, <4>1
    <3> QED BY <1>1, <3>1 DEF PointerInv, Gathered
  <2>3. CASE pc' = "wild"
    BY <1>1, <2>3, GivesUp
  <2>4. CASE pc' = "chain"
    <3>1. job.fixups # {} /\ PageCount > 0
      BY <1>1, <1>2, <2>1, <2>2 DEF OneChain
    <3>2. /\ ChainOffset + job.start[0] \in job.fixups
          /\ \A f \in job.fixups : ChainOffset + job.start[0] <= f
      BY <1>2, <3>1 DEF OneChain
    <3>3. cur' = ChainOffset + job.start[0]
      <4>1. PageBytes(0) \div 4 = 0 /\ ChainOffset \in Nat /\ job.start[0] \in Nat
        BY <1>2, <3>1, LinkAssumption DEF PageBytes
      <4> QED BY <2>1, <2>2, <4>1
    <3>4. job.fixups \subseteq Nat
      BY <1>1, KextFacts
    <3>5. \A g \in job.fixups : ~(g < cur')
      BY <3>2, <3>3, <3>4
    <3>6. Gathered'
      BY <1>1, <2>1, <2>2, <2>4, <3>1, <3>2, <3>3, <3>5 DEF PointerInv, Gathered
    <3>7. Covered'
      BY <1>1, <1>4, <2>4 DEF PointerInv, Covered
    <3> QED BY <1>3, <3>6, <3>7 DEF PointerInv
  <2> QED BY <2>1, <2>3, <2>4
<1> QED BY <1>5, <1>6

(* The cursor goes along the chain and passes over none of its pointers. *)
LEMMA ReadPointerPointerInv ==
    ASSUME AllSupported, Inv, PointerInv, ReadPointer
    PROVE  PointerInv'
<1>1. /\ UNCHANGED <<job, kc, linked, entries>> /\ job \in Jobs
      /\ pc = "chain" /\ found' = Append(found, cur)
  BY DEF ReadPointer, Collected, Inv, Typed
<1>2. /\ page = 0 /\ PageCount > 0 /\ cur \in job.fixups /\ found \in Seq(job.fixups)
      /\ \A g \in job.fixups : g < cur => g \in Range(found)
  BY <1>1 DEF PointerInv, Gathered
<1>3. /\ OneChain(job) /\ PageCount \in Nat /\ job.fixups \subseteq Nat /\ job.image[cur].next \in Nat
  BY <1>1, <1>2, KextFacts
<1>4. found' \in Seq(job.fixups) /\ Range(found') = Range(found) \cup {cur}
  <2>1. /\ Len(found') = Len(found) + 1 /\ found'[Len(found) + 1] = cur
        /\ \A k \in 1 .. Len(found) : found'[k] = found[k]
        /\ found' \in Seq(job.fixups) /\ Len(found) \in Nat
    BY <1>1, <1>2
  <2>2. DOMAIN found = 1 .. Len(found) /\ DOMAIN found' = 1 .. Len(found) + 1
    BY <1>2, <2>1
  <2>3. 1 .. Len(found) + 1 = 1 .. Len(found) \cup {Len(found) + 1}
    BY <2>1
  <2> QED BY <2>1, <2>2, <2>3 DEF Range
<1>5. Linked'
  BY <1>1, LinkedNone DEF PointerInv
<1>6. RebasePointers' = RebasePointers
  BY <1>1 DEF RebasePointers, ImportPointers
<1>7. CASE job.image[cur].next = 0
  <2>1. pc' = "read" /\ page' = page + 1
    BY <1>7 DEF ReadPointer
  <2>2. \A g \in job.fixups : g <= cur
    BY <1>2, <1>3, <1>7 DEF OneChain
  <2>3. job.fixups \subseteq Range(found')
    BY <1>2, <1>3, <1>4, <2>2
  <2>4. page' \in 1 .. PageCount
    BY <1>2, <1>3, <2>1
  <2>5. Gathered'
    BY <1>1, <1>4, <2>1, <2>3, <2>4 DEF Gathered
  <2>6. Covered'
    BY <1>1, <1>6, <2>1 DEF PointerInv, Covered
  <2> QED BY <1>5, <2>5, <2>6 DEF PointerInv
<1>8. CASE job.image[cur].next # 0
  <2>1. pc' = pc /\ page' = page /\ cur' = cur + job.image[cur].next
    BY <1>8 DEF ReadPointer
  <2>2. cur' # cur
    BY <1>2, <1>3, <1>8, <2>1
  <2>3. cur' \in job.fixups /\ \A g \in job.fixups : g <= cur \/ cur' <= g
    BY <1>2, <1>3, <2>1, <2>2 DEF OneChain
  <2>4. \A g \in job.fixups : g < cur' => g \in Range(found')
    <3>1. \A g \in job.fixups : g < cur' => g <= cur
      BY <1>3, <2>3
    <3>2. \A g \in job.fixups : g <= cur => g \in Range(found')
      BY <1>2, <1>3, <1>4
    <3> QED BY <3>1, <3>2
  <2>5. Gathered'
    BY <1>1, <1>2, <1>4, <2>1, <2>3, <2>4 DEF Gathered
  <2>6. Covered'
    BY <1>1, <1>6, <2>1 DEF PointerInv, Covered
  <2> QED BY <1>5, <2>5, <2>6 DEF PointerInv
<1> QED BY <1>7, <1>8

LEMMA ReadDonePointerInv ==
    ASSUME AllSupported, Inv, PointerInv, ReadDone
    PROVE  PointerInv'
<1>1. /\ UNCHANGED <<job, kc, linked, entries, page, cur, found>> /\ job \in Jobs
      /\ pc = "read" /\ page = PageCount
      /\ pc' = IF Registrable(job.tables, job.json, deps) THEN "bind" ELSE "failed"
  BY DEF ReadDone, Inv, Typed
<1>2. Linked'
  BY <1>1, LinkedNone DEF PointerInv
<1>3. job.fixups \subseteq Range(found)
  <2>1. OneChain(job) /\ PageCount \in Nat
    BY <1>1, KextFacts
  <2>2. CASE page = 0
    <3>1. job.fixups = {}
      BY <1>1, <2>1, <2>2 DEF OneChain
    <3> QED BY <3>1
  <2>3. CASE page # 0
    BY <1>1, <2>3 DEF PointerInv, Gathered
  <2> QED BY <2>2, <2>3
<1>4. CASE pc' = "failed"
  BY <1>1, <1>4, GivesUp
<1>5. CASE pc' = "bind"
  <2>1. Registrable(job.tables, job.json, deps) /\ deps' = deps
    BY <1>1, <1>5 DEF deps
  <2>2. Covered'
    BY <1>1, <1>3, <1>5, <2>1 DEF PointerInv, Covered, RebasePointers, ImportPointers
  <2>3. Gathered'
    BY <1>1, <1>5 DEF PointerInv, Gathered
  <2> QED BY <1>2, <2>2, <2>3 DEF PointerInv
<1> QED BY <1>1, <1>4, <1>5

(* bind_kext_symbols. *)
LEMMA FoundTail ==
    ASSUME PointerInv, found # << >>, found' = Tail(found)
    PROVE  /\ Head(found) \in job.fixups /\ found' \in Seq(job.fixups)
           /\ Range(found) = Range(found') \cup {Head(found)}
<1>1. found \in Seq(job.fixups) /\ Len(found) \in Nat \ {0}
  BY DEF PointerInv, Gathered
<1>2. /\ found' \in Seq(job.fixups) /\ Len(found') = Len(found) - 1
      /\ \A k \in 1 .. Len(found') : found'[k] = found[k + 1]
      /\ Head(found) = found[1] /\ Head(found) \in job.fixups
  BY <1>1
<1>3. DOMAIN found = 1 .. Len(found) /\ DOMAIN found' = 1 .. Len(found) - 1
  BY <1>1, <1>2
<1>4. \A k \in 1 .. Len(found) : k = 1 \/ (k - 1 \in 1 .. Len(found) - 1 /\ found[k] = found'[k - 1])
  <2> SUFFICES ASSUME NEW k \in 1 .. Len(found), k # 1
               PROVE  k - 1 \in 1 .. Len(found) - 1 /\ found[k] = found'[k - 1]
    OBVIOUS
  <2>1. k - 1 \in 1 .. Len(found) - 1 /\ (k - 1) + 1 = k
    BY <1>1
  <2> QED BY <1>2, <2>1
<1>5. Range(found) \subseteq Range(found') \cup {Head(found)}
  <2> SUFFICES ASSUME NEW k \in 1 .. Len(found)
               PROVE  found[k] = Head(found) \/ \E n \in DOMAIN found' : found[k] = found'[n]
    BY <1>3 DEF Range
  <2> QED BY <1>2, <1>3, <1>4
<1>6. \A k \in 1 .. Len(found) - 1 : k + 1 \in 1 .. Len(found)
  BY <1>1
<1>7. Range(found') \cup {Head(found)} \subseteq Range(found)
  BY <1>1, <1>2, <1>3, <1>6 DEF Range
<1> QED BY <1>2, <1>5, <1>7

LEMMA SkipRebasePointerInv ==
    ASSUME AllSupported, Inv, PointerInv, SkipRebase
    PROVE  PointerInv'
<1>1. /\ UNCHANGED <<job, pc, kc, linked, entries, page, cur>> /\ pc = "bind"
      /\ found # << >> /\ found' = Tail(found) /\ ~job.image[Head(found)].bind
  BY DEF SkipRebase, v
<1>2. Linked'
  BY <1>1, LinkedNone DEF PointerInv
<1>3. found' \in Seq(job.fixups) /\ Range(found) = Range(found') \cup {Head(found)}
  BY <1>1, FoundTail
<1>4. ImportPointers \subseteq linked \cup Range(found')
  BY <1>1, <1>3 DEF PointerInv, Covered, ImportPointers
<1>5. Covered'
  BY <1>1, <1>4 DEF PointerInv, Covered, RebasePointers, ImportPointers, deps
<1>6. Gathered'
  BY <1>1, <1>3 DEF Gathered
<1> QED BY <1>2, <1>5, <1>6 DEF PointerInv

(* An import is linked to its symbol, authenticated as it was. *)
LEMMA BindSymbolPointerInv ==
    ASSUME AllSupported, Inv, PointerInv, BindSymbol
    PROVE  PointerInv'
<1>1. /\ UNCHANGED <<job, pc, entries, page, cur>> /\ job \in Jobs /\ pc = "bind"
      /\ found # << >> /\ found' = Tail(found) /\ linked' = linked \cup {Head(found)}
      /\ job.image[Head(found)].bind /\ Head(found) \notin linked
  BY DEF BindSymbol, Binding, Bindable, v, Inv, Typed
<1>2. PICK h : h = Head(found)
  OBVIOUS
<1>3. /\ h \in job.fixups /\ found' \in Seq(job.fixups) /\ Range(found) = Range(found') \cup {h}
  BY <1>1, <1>2, FoundTail
<1>4. PICK t \in Targets :
        kc' = [kc EXCEPT ![h] = [job.image[h] EXCEPT !.bind = FALSE, !.next = 0, !.addend = 0, !.val = t - VmBase]]
  BY <1>2 DEF BindSymbol, Store, Rebase, v
<1>5. /\ job.image[h] \in Item /\ h \in DOMAIN kc /\ h \in Places /\ VmBase \in Int
      /\ job.fixups \subseteq DOMAIN kc
  BY <1>1, <1>3, KextFacts DEF Inv, Typed
<1>6. /\ t \in Bound(job.tables, job.json, deps, job.imports[job.image[h].val + 1])
      /\ job.image[h].val < Len(job.imports)
  BY <1>2, <1>4 DEF Targets, v
<1>7. t \in Nat
  <2>1. job.imports \in Seq(STRING) /\ job.image[h].val \in Nat
    BY <1>1, <1>2, <1>5, LinkAssumption
  <2>2. job.image[h].val + 1 \in DOMAIN job.imports
    BY <1>6, <2>1
  <2>3. Registrable(job.tables, job.json, Deps(job.libraries))
    BY <1>1 DEF PointerInv, Covered, deps
  <2> QED BY <1>1, <1>6, <2>2, <2>3, LinkAssumption DEF deps
<1>8. Right(h)'
  <2>1. ~kc'[h].bind /\ kc'[h].auth = job.image[h].auth /\ kc'[h].val = t - VmBase
    BY <1>4, <1>5 DEF Item
  <2>2. VmBase + (t - VmBase) = t
    BY <1>5, <1>7
  <2> QED BY <1>1, <1>2, <1>6, <2>1, <2>2 DEF Right, Leads, deps
<1>9. Linked'
  <2>1. \A f \in job.fixups : f # h => kc'[f] = kc[f]
    BY <1>4, <1>5
  <2> QED BY <1>1, <1>2, <1>3, <1>8, <2>1, LinkedOne DEF PointerInv
<1>10. Covered'
  <2>1. ImportPointers \subseteq linked' \cup Range(found')
    BY <1>1, <1>2, <1>3 DEF PointerInv, Covered
  <2> QED BY <1>1, <2>1 DEF PointerInv, Covered, RebasePointers, ImportPointers, deps
<1>11. Gathered'
  BY <1>1, <1>3 DEF Gathered
<1> QED BY <1>9, <1>10, <1>11 DEF PointerInv

LEMMA FinishPointerInv ==
    ASSUME PointerInv, Finish
    PROVE  PointerInv'
<1>1. /\ UNCHANGED <<job, kc, linked, entries, page, cur, found>>
      /\ pc = "bind" /\ found = << >> /\ pc' = "done"
  BY DEF Finish
<1>2. Linked'
  BY <1>1, LinkedNone DEF PointerInv
<1>3. Covered'
  BY <1>1 DEF PointerInv, Covered, RebasePointers, ImportPointers, deps
<1>4. Gathered'
  BY <1>1 DEF PointerInv, Gathered
<1> QED BY <1>2, <1>3, <1>4 DEF PointerInv

LEMMA NextPointerInv ==
    ASSUME AllSupported, Inv, PointerInv, [Next]_vars
    PROVE  PointerInv'
<1>1. CASE SplitFails \/ BindFails \/ AddRefused \/ ReadAstray
  <2>1. UNCHANGED <<job, kc, linked, found>> /\ pc' \in {"failed", "wild"}
    BY <1>1 DEF SplitFails, BindFails, AddRefused, ReadAstray, Fail
  <2> QED BY <2>1, GivesUp
<1>2. CASE Ended \/ UNCHANGED vars
  <2>1. UNCHANGED vars
    BY <1>2 DEF Ended
  <2>2. Linked'
    BY <2>1, LinkedNone DEF PointerInv, vars
  <2>3. Covered'
    BY <2>1 DEF PointerInv, Covered, RebasePointers, ImportPointers, Pending, deps, vars
  <2>4. Gathered'
    BY <2>1 DEF PointerInv, Gathered, vars
  <2> QED BY <2>2, <2>3, <2>4 DEF PointerInv
<1> QED BY <1>1, <1>2, PassPointerInv, CodeEntryPointerInv, ApplyPointerPointerInv,
        ReadPagesPointerInv, ReadPointerPointerInv, ReadDonePointerInv, SkipRebasePointerInv,
        BindSymbolPointerInv, FinishPointerInv DEF Next

LEMMA CodeApartFollows == AllSupported => AllCodeApart
BY DEF AllSupported, AllCodeApart, Supported

(* "Link kext" (kernelcache.cpp:110): when the two passes have ended without *)
(* giving up, every pointer of the kext is linked and no other location is,  *)
(* each leads to where its target has moved or to the symbol it names.       *)
THEOREM PointersAreResolved == AllSupported => (Spec => []PointersResolved)
<1> SUFFICES ASSUME AllSupported PROVE Spec => []PointersResolved
  OBVIOUS
<1>1. AllCodeApart
  BY CodeApartFollows
<1>2. Init => Inv /\ PointerInv
  BY InitInv, InitPointerInv
<1>3. Inv /\ PointerInv /\ [Next]_vars => Inv' /\ PointerInv'
  BY <1>1, NextInv, NextPointerInv
<1>4. Inv /\ PointerInv => PointersResolved
  <2> SUFFICES ASSUME Inv, PointerInv, pc = "done"
               PROVE  linked = job.fixups /\ \A f \in job.fixups : Right(f)
    BY DEF PointersResolved, Right
  <2>1. RebasePointers \subseteq linked /\ ImportPointers \subseteq linked \cup Range(<< >>)
    BY DEF PointerInv, Covered
  <2>2. Range(<< >>) = {}
    BY DEF Range
  <2>3. job.fixups \subseteq linked
    BY <2>1, <2>2 DEF RebasePointers, ImportPointers
  <2> QED BY <2>3 DEF PointerInv, Linked
<1> QED BY <1>2, <1>3, <1>4, PTL DEF Spec

(* The two passes implement the linking half of FixupSet: no pointer is     *)
(* linked twice, none that is not the kext's, and they end only when none   *)
(* is missing.                                                              *)
THEOREM PassesImplementSet == AllSupported => (Spec => LinksKext)
<1> SUFFICES ASSUME AllSupported PROVE Spec => LinksKext
  OBVIOUS
<1>1. AllCodeApart
  BY CodeApartFollows
<1>2. Init => Inv /\ PointerInv
  BY InitInv, InitPointerInv
<1>3. Inv /\ PointerInv /\ [Next]_vars => Inv' /\ PointerInv'
  BY <1>1, NextInv, NextPointerInv
<1>4. Init => Set!Init
  BY DEF Init, Set!Init, Layout, Phase
<1>5. Inv /\ PointerInv /\ [Next]_vars => [Set!Next]_Set!vars
  <2> SUFFICES ASSUME Inv, PointerInv, [Next]_vars PROVE [Set!Next]_Set!vars
    OBVIOUS
  <2>1. job' = job /\ Layout(job)' = Layout(job)
    BY DEF Next, vars, Begin, ApplyAdrp, ApplyOff12, ApplyPointer, ApplyBranch, NextEntry,
           SplitFails, SplitDone, SkipPage, EnterPage, ReadPointer, ReadAstray, ReadDone,
           SkipRebase, BindSymbol, BindFails, AddRefused, Finish, Ended, Fail, Layout
  <2>2. Layout(job).kext = job.fixups /\ job \in Jobs
    BY DEF Layout, Inv, Typed
  <2>3. CASE Begin
    <3>1. linked = {} /\ linked' = linked /\ Phase = "removing" /\ Phase' = "linking"
      BY <2>3 DEF Begin, Phase, PointerInv, Covered
    <3>2. Set!StartLink
      BY <2>1, <3>1 DEF Set!StartLink
    <3> QED BY <3>2 DEF Set!Next
  <2>4. CASE ApplyPointer \/ BindSymbol
    <3>1. PICK f : f \notin linked /\ linked' = linked \cup {f}
      BY <2>4 DEF ApplyPointer, BindSymbol, Bindable
    <3>2. linked' \subseteq job.fixups
      BY <1>1, <2>1, NextPointerInv DEF PointerInv, Linked
    <3>3. pc' = pc /\ pc \in {"split", "bind"}
      BY <2>4 DEF ApplyPointer, BindSymbol, Now, NextEntry, Binding
    <3>4. Phase = "linking" /\ Phase' = "linking"
      BY <3>3 DEF Phase
    <3>5. Set!Link
      BY <2>1, <2>2, <3>1, <3>2, <3>4 DEF Set!Link
    <3> QED BY <3>5 DEF Set!Next
  <2>5. CASE SplitFails \/ BindFails \/ AddRefused \/ ReadAstray
    <3>1. linked' = linked /\ pc \in {"split", "bind", "chain"} /\ pc' \in {"failed", "wild"}
      BY <2>5 DEF SplitFails, BindFails, AddRefused, ReadAstray, Fail, Now, Binding
    <3>2. Phase = "linking" /\ Phase' = "failed"
      BY <3>1 DEF Phase
    <3>3. Set!Fail
      BY <2>1, <3>1, <3>2 DEF Set!Fail
    <3> QED BY <3>3 DEF Set!Next
  <2>6. CASE EnterPage \/ ReadDone
    <3>1. linked' = linked /\ pc = "read" /\ pc' \in {"chain", "wild", "bind", "failed"}
      BY <2>6 DEF EnterPage, ReadDone
    <3>2. Phase = "linking" /\ Phase' \in {"linking", "failed"}
      BY <3>1 DEF Phase
    <3>3. CASE Phase' = "failed"
      BY <2>1, <3>1, <3>2, <3>3 DEF Set!Fail, Set!Next
    <3>4. CASE Phase' = "linking"
      BY <2>1, <3>1, <3>2, <3>4 DEF Set!vars
    <3> QED BY <3>2, <3>3, <3>4
  <2>7. CASE Finish
    <3>1. linked' = linked /\ pc = "bind" /\ pc' = "done" /\ found = << >>
      BY <2>7 DEF Finish
    <3>2. Phase = "linking" /\ Phase' = "done"
      BY <3>1 DEF Phase
    <3>3. job.fixups \subseteq linked
      BY <3>1 DEF PointerInv, Covered, RebasePointers, ImportPointers, Range
    <3>4. Set!Finish
      BY <2>1, <2>2, <3>1, <3>2, <3>3 DEF Set!Finish
    <3> QED BY <3>4 DEF Set!Next
  <2>8. CASE ApplyAdrp \/ ApplyOff12 \/ ApplyBranch \/ SplitDone \/ SkipPage \/ ReadPointer
             \/ SkipRebase \/ Ended \/ UNCHANGED vars
    <3>1. linked' = linked /\ (pc' = pc \/ {pc, pc'} \subseteq {"split", "read", "chain"})
      BY <2>8 DEF ApplyAdrp, ApplyOff12, ApplyBranch, SplitDone, SkipPage, ReadPointer, SkipRebase,
                  Ended, vars, NextEntry
    <3>2. Phase' = Phase
      BY <3>1 DEF Phase
    <3> QED BY <2>1, <3>1, <3>2 DEF Set!vars
  <2> QED BY <2>3, <2>4, <2>5, <2>6, <2>7, <2>8 DEF Next
<1> QED BY <1>2, <1>3, <1>4, <1>5, PTL DEF Spec, LinksKext, Set!Spec
=============================================================================
