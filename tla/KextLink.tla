------------------------------- MODULE KextLink ------------------------------
(* Linking the kext's references once its segments lie in the kernelcache:  *)
(* apply_split_segment_fixups, one split-segment entry per step, then       *)
(* bind_kext_symbols, which collects the kext's own chains (read_fixups)    *)
(* and binds its imports.                                                   *)
(*                                                                          *)
(* A location is named by its address in the kext, in strides of 4 bytes;   *)
(* where it lies in the kernelcache follows from its segment.  add_fixup is *)
(* the step `Link' of FixupSet here: the chains it edits are FixupChain's.  *)
EXTENDS Integers, Symbols

CONSTANTS
    Places,       \* the locations of the kext
    Segment,      \* location -> segment
    Shift,        \* segment -> fileset's vmaddr - kext's vmaddr
    VmBase,       \* vm_base() of the kernelcache
    PageWords,    \* a page as ADRP sees it: 1024 strides
    Align,        \* what an LDR offset counts: 8 bytes, 2 strides
    ChainOffset,  \* the one chained segment of the kext: segment_offset,
    PageCount,    \* and page_count
    None,         \* DYLD_CHAINED_PTR_START_NONE
    Jobs

(* What a location holds: as an instruction (op, val its immediate) or as a *)
(* pointer (val its ordinal or target).                                     *)
Item == [op : {"adrp", "add", "ldr", "word"}, bind : BOOLEAN, auth : BOOLEAN,
         addend : Nat, next : Nat, val : Int]
Entry == [kind : {"adrp", "off12", "pointer", "branch", "other"}, from : Places, to : Places]

ASSUME LinkAssumption ==
    /\ Segment \in [Places -> DOMAIN Shift] /\ Shift \in [DOMAIN Shift -> Int]
    /\ Places \subseteq Nat /\ PageWords \in Nat \ {0} /\ Align \in Nat \ {0}
    /\ VmBase \in Int /\ PageCount \in Nat /\ None \in Nat /\ ChainOffset \in Nat
    /\ \A j \in Jobs : /\ j.image \in [Places -> Item]
                       /\ \A a \in Places : j.image[a].bind => j.image[a].val \in Nat
                       /\ j.start \in [0 .. PageCount - 1 -> Nat]
                       /\ j.entries \in Seq(Entry)
                       /\ j.fixups \subseteq Places
                       /\ j.imports \in Seq(STRING)
                       /\ Registrable(j.tables, j.json, Deps(j.libraries)) =>
                            \A n \in DOMAIN j.imports :
                              Bound(j.tables, j.json, Deps(j.libraries), j.imports[n]) \subseteq Nat

VARIABLES
    job,      \* the kext and its surroundings, fixed at the start
    pc,       \* "copied", "split", "read", "chain", "bind", "done", "failed", "wild"
    kc,       \* what the kernelcache holds at each location of the kext
    linked,   \* the locations add_fixup was called for
    entries,  \* split-segment entries not yet applied
    page,     \* read_fixups: page_idx
    cur,      \* read_fixups: reader.cursor()
    found     \* the pointers read_fixups returned, not yet bound

vars == <<job, pc, kc, linked, entries, page, cur, found>>

Init == /\ job \in Jobs
        /\ pc = "copied"
        /\ kc = job.image
        /\ linked = {}
        /\ entries = job.entries
        /\ page = 0 /\ cur = 0
        /\ found = << >>

Fail == pc' = "failed" /\ UNCHANGED <<job, kc, linked, entries, page, cur, found>>

(* replace_text_segment moves every section with its segment. *)
Moved(a) == a + Shift[Segment[a]]
Page(a) == (a \div PageWords) * PageWords

Begin ==
    /\ pc = "copied"
    /\ pc' = "split"
    /\ UNCHANGED <<job, kc, linked, entries, page, cur, found>>

-----------------------------------------------------------------------------
(* apply_split_segment_fixups. *)
Now(kind) == pc = "split" /\ entries # << >> /\ Head(entries).kind = kind

Store(l, i) == kc' = [kc EXCEPT ![l] = i]
NextEntry == entries' = Tail(entries) /\ UNCHANGED <<job, pc, page, cur, found>>

(* A mutant: the distance between the addresses, not between their pages. *)
PageDistanceFull(e) == Moved(e.to) - Moved(e.from)
PageDistance(e) == Page(Moved(e.to)) - Page(Moved(e.from))

ApplyAdrp ==
    /\ Now("adrp") /\ kc[Head(entries).from].op = "adrp"
    /\ LET e == Head(entries) IN
         Store(e.from, [kc[e.from] EXCEPT !.val = PageDistance(e)])
    /\ NextEntry /\ UNCHANGED linked

(* set_imm of LdrImmediate refuses what its scale does not divide. *)
Off12(e) == Moved(e.to) % PageWords
Takes(op, off) == op = "add" \/ (op = "ldr" /\ off % Align = 0)

ApplyOff12 ==
    /\ Now("off12")
    /\ LET e == Head(entries) IN
         /\ Takes(kc[e.from].op, Off12(e))
         /\ Store(e.from, [kc[e.from] EXCEPT !.val = Off12(e)])
    /\ NextEntry /\ UNCHANGED linked

(* The pointer's own `next' is that of the kext's chains; it is set to 0    *)
(* before add_fixup puts the new one there, which a later step may lengthen.*)
ApplyPointer ==
    /\ Now("pointer")
    /\ LET e == Head(entries) IN
         /\ ~kc[e.from].bind /\ e.from \notin linked
         /\ Store(e.from, [kc[e.from] EXCEPT !.val = Moved(e.to) - VmBase, !.next = 0])
         /\ linked' = linked \cup {e.from}
    /\ NextEntry

(* A branch within its segment needs nothing. *)
ApplyBranch ==
    /\ Now("branch") /\ Segment[Head(entries).from] = Segment[Head(entries).to]
    /\ NextEntry /\ UNCHANGED <<kc, linked>>

(* A verification fails, or kcmod_todo. *)
SplitFails ==
    /\ \/ Now("adrp") /\ kc[Head(entries).from].op # "adrp"
       \/ Now("off12") /\ ~Takes(kc[Head(entries).from].op, Off12(Head(entries)))
       \/ Now("pointer") /\ (kc[Head(entries).from].bind \/ Head(entries).from \in linked)
       \/ Now("branch") /\ Segment[Head(entries).from] # Segment[Head(entries).to]
       \/ Now("other")
    /\ Fail

SplitDone ==
    /\ pc = "split" /\ entries = << >>
    /\ pc' = "read"
    /\ UNCHANGED <<job, kc, linked, entries, page, cur, found>>

-----------------------------------------------------------------------------
(* read_fixups: the offset of a page is page_idx * page_count, in bytes.    *)
PageBytes(p) == p * PageCount

SkipPage ==
    /\ pc = "read" /\ page < PageCount /\ job.start[page] = None
    /\ page' = page + 1
    /\ UNCHANGED <<job, pc, kc, linked, entries, cur, found>>

(* Off the grid of strides it reads pieces of two pointers. *)
EnterPage ==
    /\ pc = "read" /\ page < PageCount /\ job.start[page] # None
    /\ pc' = IF PageBytes(page) % 4 = 0 THEN "chain" ELSE "wild"
    /\ cur' = ChainOffset + PageBytes(page) \div 4 + job.start[page]
    /\ UNCHANGED <<job, kc, linked, entries, page, found>>

(* A mutant: the last pointer of a chain not taken. *)
CollectedButLast == IF job.image[cur].next = 0 THEN found ELSE Append(found, cur)
Collected == Append(found, cur)

ReadPointer ==
    /\ pc = "chain" /\ cur \in Places
    /\ found' = Collected
    /\ IF job.image[cur].next = 0
         THEN pc' = "read" /\ page' = page + 1 /\ cur' = cur
         ELSE pc' = pc /\ page' = page /\ cur' = cur + job.image[cur].next
    /\ UNCHANGED <<job, kc, linked, entries>>

(* Beyond the kext's pointers the file holds something else. *)
ReadAstray ==
    /\ pc = "chain" /\ cur \notin Places
    /\ pc' = "wild"
    /\ UNCHANGED <<job, kc, linked, entries, page, cur, found>>

(* construct_symbol_registry comes before the chains are read; nothing it   *)
(* needs changes in between.                                                *)
deps == Deps(job.libraries)
ReadDone ==
    /\ pc = "read" /\ page = PageCount
    /\ pc' = IF Registrable(job.tables, job.json, deps) THEN "bind" ELSE "failed"
    /\ UNCHANGED <<job, kc, linked, entries, page, cur, found>>

-----------------------------------------------------------------------------
(* bind_kext_symbols, its loop over the pointers.  The kernelcache must     *)
(* still hold what the kext holds there.                                    *)
v == job.image[Head(found)]
Binding == pc = "bind" /\ found # << >> /\ v.bind

SkipRebase ==
    /\ pc = "bind" /\ found # << >> /\ ~v.bind
    /\ found' = Tail(found)
    /\ UNCHANGED <<job, pc, kc, linked, entries, page, cur>>

Targets == IF v.val < Len(job.imports)
             THEN {t \in Bound(job.tables, job.json, deps, job.imports[v.val + 1]) : t >= VmBase}
             ELSE {}
Bindable == /\ kc[Head(found)] = v
            /\ ~v.auth => v.addend = 0
            /\ Head(found) \notin linked

(* A mutant: the pointer built without its authentication. *)
RebasePlain(t) == [v EXCEPT !.bind = FALSE, !.auth = FALSE, !.next = 0, !.addend = 0, !.val = t - VmBase]
Rebase(t) == [v EXCEPT !.bind = FALSE, !.next = 0, !.addend = 0, !.val = t - VmBase]

BindSymbol ==
    /\ Binding /\ Bindable
    /\ \E t \in Targets : Store(Head(found), Rebase(t))
    /\ linked' = linked \cup {Head(found)}
    /\ found' = Tail(found)
    /\ UNCHANGED <<job, pc, entries, page, cur>>

BindFails == Binding /\ (~Bindable \/ Targets = {}) /\ Fail

(* add_fixup may refuse any pointer for its place (FixupChain says when). *)
AddRefused == /\ Now("pointer") \/ Binding
              /\ Fail

Finish ==
    /\ pc = "bind" /\ found = << >>
    /\ pc' = "done"
    /\ UNCHANGED <<job, kc, linked, entries, page, cur, found>>

Ended == pc \in {"done", "failed", "wild"} /\ UNCHANGED vars

Next == \/ Begin
        \/ ApplyAdrp \/ ApplyOff12 \/ ApplyPointer \/ ApplyBranch \/ SplitFails \/ SplitDone
        \/ SkipPage \/ EnterPage \/ ReadPointer \/ ReadAstray \/ ReadDone
        \/ SkipRebase \/ BindSymbol \/ BindFails
        \/ AddRefused \/ Finish \/ Ended

Spec == Init /\ [][Next]_vars

-----------------------------------------------------------------------------
(* Kexts the two passes are meant for. *)
Writes(e) == e.kind \in {"adrp", "off12", "pointer"}
IsCode(e) == e.kind \in {"adrp", "off12"}

(* An instruction has one entry and is not a pointer of an import. *)
CodeApart(j) ==
    \A k \in DOMAIN j.entries : IsCode(j.entries[k]) =>
      /\ ~j.image[j.entries[k].from].bind
      /\ \A n \in DOMAIN j.entries :
           Writes(j.entries[n]) /\ j.entries[n].from = j.entries[k].from => n = k

(* The split-segment entries for pointers are about the kext's pointers,    *)
(* each with the target its location holds, and miss none but the imports.  *)
RebasesListed(j) ==
    /\ \A k \in DOMAIN j.entries : LET e == j.entries[k] IN
         /\ IsCode(e) => e.from \notin j.fixups
         /\ e.kind = "pointer" =>
              e.from \in j.fixups /\ (j.image[e.from].bind \/ e.to = j.image[e.from].val)
    /\ \A f \in j.fixups : ~j.image[f].bind =>
         \E k \in DOMAIN j.entries : j.entries[k].kind = "pointer" /\ j.entries[k].from = f

(* The kext's pointers are one chain in order on its first page: read_fixups *)
(* looks for the others in the wrong place.                                  *)
OneChain(j) ==
    LET first == ChainOffset + j.start[0] IN
    /\ \A p \in 1 .. PageCount - 1 : j.start[p] = None
    /\ IF j.fixups = {} THEN PageCount > 0 => j.start[0] = None
       ELSE /\ PageCount > 0 /\ j.start[0] # None
            /\ first \in j.fixups /\ \A f \in j.fixups : first <= f
    /\ \A f \in j.fixups : LET next == f + j.image[f].next IN
         IF next = f THEN \A g \in j.fixups : g <= f
         ELSE next \in j.fixups /\ \A g \in j.fixups : g <= f \/ next <= g

Supported(j) == CodeApart(j) /\ RebasesListed(j) /\ OneChain(j)

-----------------------------------------------------------------------------
(* Where the kernel finds a pointer leading. *)
Leads(l) == VmBase + kc[l].val

(* "Link kext" (kernelcache.cpp:110): in the finished file every pointer of *)
(* the kext's chains is linked, exactly those, each leads to where its      *)
(* target lies now or to the symbol it names, and it is authenticated as    *)
(* the kext asked.                                                          *)
PointersResolved ==
    pc = "done" =>
      /\ linked = job.fixups
      /\ \A f \in job.fixups :
           /\ ~kc[f].bind /\ kc[f].auth = job.image[f].auth
           /\ IF job.image[f].bind
                THEN Leads(f) \in Bound(job.tables, job.json, deps, job.imports[job.image[f].val + 1])
                ELSE Leads(f) = Moved(job.image[f].val)

(* Relocated code computes the addresses it computed in the kext, each at   *)
(* its new place: ADRP and the offset after it meet.                        *)
CodeResolved ==
    pc \in {"read", "chain", "bind", "done"} =>
      \A k \in DOMAIN job.entries :
        LET e == job.entries[k] IN
          /\ e.kind = "adrp" => Page(Moved(e.from)) + kc[e.from].val = Page(Moved(e.to))
          /\ e.kind = "off12" => Page(Moved(e.to)) + kc[e.from].val = Moved(e.to)

(* What FixupSet sees: no fixups to remove, those of the kext to add. *)
Layout(j) == [fixups |-> {}, ranges |-> {}, kext |-> j.fixups]
Phase == CASE pc = "copied" -> "removing"
           [] pc = "done" -> "done"
           [] pc \in {"failed", "wild"} -> "failed"
           [] OTHER -> "linking"

Set == INSTANCE FixupSet WITH
         Cells <- Places,
         Layouts <- {Layout(j) : j \in Jobs},
         layout <- Layout(job),
         fixups <- linked,
         phase <- Phase

(* The two passes together are the linking half of FixupSet: each pointer   *)
(* of the kext is added once, by one of them, and nothing else is.          *)
LinksKext == Set!Spec
=============================================================================
