# kcmod in TLA+

`kcmod` replaces one fileset (a kernel extension) of a Mach-O kernelcache with a
new kext and redirects kernel functions to functions of that kext. It is a
single-threaded program of about 3000 lines that edits one memory-mapped file in
place: what is hard in it is not scheduling but in-place surgery on linked data
(the chained fixups), relocation of machine code, a long sequence of edits each
of which relies on what the earlier ones left behind, and what remains when one
of them gives up. This directory holds TLA+ models of those parts, TLC
configurations that check them, and TLAPS proofs.

## Inventory

| part of the system | source | state it keeps | operations | hard because |
|---|---|---|---|---|
| chained-fixup editor | `fixup_chain.cpp/.h` | per page a `page_start`, per pointer an 11-bit `next` | `remove_fixups`, `add_fixup`, `read_fixups` | a linked list edited while it is walked; narrow fields; boundary pages |
| kernelcache editor | `kernelcache.cpp` | the mapped kernelcache | the eleven steps of `replace_fileset` | order of the steps, failure half way, identities that change between steps |
| segments of a fileset | `kernelcache.cpp` 70-79, 529-658, `macho.h` | the victim's segments and load commands, a copy of the old commands | `replace_segment`, `replace_text_segment` | header, cleared rest and sections are written over one another and over the commands they depend on; file and memory move by different distances |
| pointers of the kext | `fixup_chain.cpp` 193-234, `kernelcache.cpp` 224-289, 420-515 | chains of the kext, imports, split-segment entries | `read_fixups`, `bind_kext_symbols`, `apply_split_segment_fixups` | each pointer must be linked exactly once by one of two passes |
| function hooks | `hooks.cpp`, `kernelcache.cpp` 117-167, `aarch64.cpp/.h` | machine code of the kernel and of the kext | `read_hooks`, `bind_hooks`, `build_hook_super_fn` | a moved instruction must mean the same in its new place |
| symbols | `symidx.cpp/.h`, `kernelcache.cpp` 169-222 | symbols per name, overrides | `index_binary`, `add_override`, `find_bind_symbol` | ambiguity, precedence, missing dependencies |
| split-segment parser | `split_seg.cpp/.h`, `memio.h` 75-102 | a cursor, two running sums | `SplitSegmentInfoParser::parse`, `read_uleb128` | four nested counts and two sums of differences that restart at different levels; ten bytes hold more than 64 bits |
| prelink info | `kernelcache.cpp` 291-418, `plist.cpp`, `core_foundation.h` | a property list in a fixed-size segment | `remove_prelink_info`, `insert_prelink_info` | size bound, entries found by name |
| run of the tool | `main.cpp`, `temp.cpp/.h` | a temporary copy of the kernelcache | copy in, map, edit, copy out, remove | concurrent runs, a run that dies half way |
| kext on disk | `kext.cpp/.h` | paths, mapped binary | constructor, readers | existence only |
| Mach-O and memory readers | `macho.h`, `memio.h` | a cursor | `read`, `peek`, `seek`, `read_uleb128` | bounds |
| hook macros, example kext, build files | `kext/`, `*.cmake` | none | none | compiled into the kext, not run by the tool |

The parts share one piece of state, the mapped file (`data_`); every part reads
what the earlier ones wrote into it and nothing else connects them.

### How the parts interact

`main` copies the kernelcache to a temporary file, maps it and calls
`KernelCache::replace_fileset`, which calls the other parts one after the other:

    verify segments -> remove_fixups on each data segment of the victim
      -> copy the kext's segments -> new header in __TEXT
      -> apply_split_segment_fixups -> remove_prelink_info
      -> replace_fileset_id -> insert_prelink_info -> set kmod_info
      -> bind_kext_symbols -> bind_hooks

No part returns a result the next one uses; each finds its input in the mapped
file. A step that fails throws; nothing is undone, and since `main` does not
catch, no destructor runs either.

### What makes each part correct

| part | properties |
|---|---|
| chained-fixup editor | after every write each page's chain visits exactly the fixups it should; the victim's fixups are gone before its bytes are overwritten; every pointer of the kext is in the file's chains at the end; the loops end |
| kernelcache editor | filesets other than the victim are never changed; a finished replacement is complete: header, segments, identity, prelink entry and `kmod_info` agree |
| pointers of the kext | each pointer is linked once, by the pass it belongs to, to the right place; relocated code computes the right addresses |
| hooks | the override runs when the function is called; an override that passes on to its super function leaves the kernel's behaviour as it was |
| symbols | a name is resolved in a dependency, never by a guess between two (a property of the lookup itself, which the runs use but do not state) |
| run of the tool | a run edits its own kernelcache; what is in an output is that run's result, all of it when the run has ended and the head of it if the run died copying |
| segments of a fileset | only the victim's segments are written (until the check of line 596, where `__TEXT` has no sections), nothing of the victim stays in them, the new header can be read back and its sections are where it says, in file and in memory; zero-fill memory is zero |
| split-segment parser | it returns what the nested lists denote, refuses only what is cut off or out of range, and no bit of a number is lost |

## Modules

| module | models | composes |
|---|---|---|
| `FixupSet` | abstract: what a replacement does to the set of fixups of the file | |
| `FixupChain` | `remove_fixups`, `add_fixup` driven as `replace_fileset` drives them, one pointer per step | implements `FixupSet` |
| `Instructions` | AArch64 instructions as classes with an offset: where they reach, what they compute, how they are relocated | |
| `Cpu` | abstract: a processor running fixed code | `Instructions` |
| `Symbols` | `SymbolRegistry`: index, overrides, lookup | |
| `Hooks` | `read_hooks`, `bind_hooks`, `build_hook_super_fn`, then the patched kernel running | `Instructions`, `Symbols`; implements `Cpu` |
| `KextLink` | `apply_split_segment_fixups`, `read_fixups`, `bind_kext_symbols` | `Symbols`; implements `FixupSet` |
| `SplitSegment` | `SplitSegmentInfoParser`, `read_uleb128`, a byte per step | its result is the entries `KextLink` starts from |
| `Segments` | `replace_segment`, `replace_text_segment`, down to the cell, a segment, command or section per step | the inside of two steps of `Replacement` |
| `Replacement` | all steps of `replace_fileset`, each of which may give up | |
| `Session` | runs of `main` over one temporary path | |
| `FixupChainProofs`, `HooksProofs`, `SessionProofs`, `ReplacementProofs`, `SegmentsProofs`, `SplitSegmentProofs`, `KextLinkProofs` | theorems | the module each is named after |
| `SegmentsPlaceProofs` | theorems: where the kext's bytes are | `SegmentsProofs` |
| `MC...` | instances for TLC | |

`Replacement` takes the inner steps (chains, references, hooks) as steps that
succeed or fail; the modules above it say what they do when they succeed.
`Segments` is the detail of its segment and header steps.

### State and actions against the code

* **FixupChain.** A file offset counts strides of 4 bytes. Of a pointer only its
  `next` field is kept, in a function from offsets; `start` is the `page_start`
  arrays, with one slot more per segment than it has pages, because
  `find_fixup_segment` accepts that index (`fixup_chain.cpp:83`); what it reads
  there is the constant `Overrun`. `RemoveFixups`, `SkipPage`, `ClearPage`,
  `EnterPage`, `VisitPointer`, `RangeDone` are the two loops of `remove_fixups`;
  `CopySegments` is `kernelcache.cpp:66` on, which overwrites the victim's bytes
  (with the `next` bits the kext has there, `KextNext`); `AddNowhere`,
  `AddAlone`, `AddToChain`, `SeekOn`, `Refuse`, `Insert` are `add_fixup`, its
  failures included. A distance is cut to the bit-field (`Narrow`, `Rest`) where
  the code assigns it. `OffFile` is the reader leaving the file. `fixups` is an
  auxiliary variable: the set the chains are meant to hold; no guard reads it.
* **Hooks.** `mem` is the text of the kernel and of the kext, an instruction per
  word. `ReadSymbol`, `ReadHooks`, `ReadFails` read the kext's hook symbols and
  pair them; `BindHook(n)` patches one function and its super function,
  `BindFails(n)` stops at any point between the writes of one hook (`Patched(n,
  fn, k)` has k words of the super function written); `Call` and `Step` run the
  result. Hooks are bound in the order of their names, as `std::map` lists them.
* **KextLink.** `kc` is the kernelcache's copy of the kext, `job.image` the kext
  itself: `bind_kext_symbols` compares the two. One action per kind of
  split-segment entry, per pointer read and per pointer bound.
* **SplitSegment.** A byte is `Group` bits of a number and a flag, an integer has
  `Width` bits; `acc` and `bit` are the two locals of `read_uleb128`. `left` holds
  the rounds the four nested loops still have to run, `Resume` the loop that goes
  on. Each `Read...` action is the byte that completes the number of that name,
  `ReadMore` any other byte; `TooLong`, `UnknownKind`, `WrongVersion` and
  `EndOfFile` are the four throws, `NoCommand` the null pointer of a kext without
  the load command. What the file should mean is defined on nested lists, not on
  bytes: `ListNumbers` is a list as numbers with names, `Encoding` those numbers
  as bytes, `Entries` the references the list denotes.
* **Segments.** `file` says of each cell whose byte it holds and from where; the
  header of the fileset is `header`, load commands with their place. `Written` is
  what a `SpanWriter` does. `current` is `current_segments`, `w` the writer's
  cursor. `CopySegments` is the three calls of `replace_segment`; `BeginText`,
  `CopyCommand`, `DropCommand`, `FinishCommands`, `FixCommand`, `FinishFixes`,
  `CopySection`, `FinishSections` are `replace_text_segment` in its order, each
  check a failing action beside it. Flags and counts in the Mach-O header are left
  out (no property reads them), and so is the branch for an unexpected command
  that the filter before it never lets through (`kernelcache.cpp:643`).
* **Replacement.** A fileset is its place among the load commands; `id`, `header`,
  `content`, `cleared`, `prelink`, `kmod` say what the file holds of each. The
  step names follow the code's; each has its failing counterparts (`NoVictim`,
  `NoText`, `Oversized`, `NoEntry`, `RemainderTooLong`, `IdTooLong`, `NotWhole`,
  `InfoTooLong`). A prelink dictionary that has become too long is written as an
  empty one before the failure is noticed, as in the code.
* **Session.** The path is a name for a file, as in a file system: a run that has
  opened or mapped a file keeps it when the path comes to name another. Contents
  have two halves, and every copy and edit takes a step for each: `copy_file`
  empties the file (`Open`, `OpenOutput`) and fills it piece by piece (`Fill`,
  `WriteOutput`), so a run may die with a cut-off copy in either place. `Die`
  stands for every way a process ends without running destructors.

## Runs

`pass` runs find no violation; `violation` runs show that the code does not do
what a comment, an assertion or the documentation says.

| run | what it shows |
|---|---|
| `fixup_chain` | on every supported job: chains whole after each write, victim cleared, kext linked, `FixupSet` implemented, loops end; 34,512 states |
| `fixup_rough` | the loops end on unsupported jobs too |
| `hooks` | with overrides that pass on, the patched kernel implements the original one, and a call of a hooked function runs its override; every way the hook tables are refused |
| `kext_link` | each pointer linked exactly once and rightly, or the step refuses; code relocated rightly |
| `split_segment` | lists of up to two members on each of four levels, padded numbers, a file cut off at every byte, and arbitrary bytes: results, refusals, exact numbers; 9,021 states |
| `segments` | 4,737 pairs of a kext and a victim, each segment present, absent, fitting or not, sections with and without relocations and zero-fill, load commands that run over the victim's `__TEXT` and over the end of the file: cell by cell, what is in the file at every step; 28,110 states |
| `replacement` | the steps in their order, giving up anywhere: other filesets unchanged, a finished one complete |
| `session` | runs that die anywhere, also between two pieces of a copy, and are started again, one at a time: isolated edits; an output is its run's result or, if the run died copying it, the head of it; 33,103 states |

### What the violation runs found

| run | source | what happens |
|---|---|---|
| `fixup_trailing` | `fixup_chain.cpp:145` | the last fixup of a page, with `next` 0, cannot be unlinked: its predecessor (or `page_start`) keeps leading to it |
| `hooks_pad` | `kernelcache.cpp:162` | a function starting with `BTI`: the super function is built for the address of the pad, not of the patched word, and branches back to the patch |
| `kext_pages` | `fixup_chain.cpp:201` | `read_fixups` multiplies by `page_count` in place of `page_size`: only the first page is found |
| `session_overlap` | `temp.cpp:32` | `mkstemp` fills in a temporary string; all runs share the path ending in `XXXXXXXXXX`, and one can end with an output another has emptied under it |

The passing runs and the proofs exclude these by name: `Anchored` jobs, no landing
pad at the start of a hooked function (in `BeginsPlainly`), pointers on the first
page (`OneChain`), runs that do not overlap. More conditions are not a run of their
own, but are needed. For the first four the properties have been seen to fail
without them, so nothing is claimed of the code in these cases:

* `Compact`: `add_fixup` checks a distance against 0xFFFF (`fixup_chain.cpp:181`)
  and stores it in a field of 11 bits, so a pointer half a page or more from its
  neighbour is linked to the wrong place (against `KextLinked`); `remove_fixups`
  adds two fields in 11 bits (`fixup_chain.cpp:146`), so where the fixups
  between two that are that far apart are removed, the second is lost (against
  `VictimCleared`).
* `SegmentsApart`: `find_fixup_segment` tests `page_idx > page_count`
  (`fixup_chain.cpp:83`), so a page right behind a segment passes for one of its
  own; where another segment begins there, `remove_fixups` walks from the 16 bits
  behind `page_start` and the real chain stays (against `VictimCleared`).
  `fixup_rough` meets that slot (`MCOverrun`) to check that the loops end there too.
* `BeginsPlainly`: `decode<BranchCond>` compares the eight bits 31..24 with the
  seven-bit pattern 0b0101010 (`aarch64.h:201`): `B.cond` is never recognised and
  is copied unrelocated, and `mov wd, wm`, which has that pattern in those bits,
  is taken for one and has its operands overwritten (against `HooksInvisible`).
* `NamesDiffer`: after `replace_fileset_id` the victim is looked up by the kext's
  name (`kernelcache.cpp:101`), and `read_filesets` keeps the first fileset of a
  name. If a fileset before the victim has the kext's name, its `kmod_info` and its
  addresses are used instead (against `Replaced`).
* `FitsInMemory`: `replace_segment` compares a kext's segment with the victim's
  `filesize` only (`kernelcache.cpp:536`), and the new command keeps the victim's
  `vmsize` (`kernelcache.cpp:620`); zero-fill data beyond it would lie in another
  fileset's memory.
* `ZeroFillBehind`: `read_used_segment_size` (`macho.h:137`) takes the offset of a
  zero-fill section, 0, for a place in the file. A large one makes the segment
  look larger than it is: it is refused, or what lies behind it in the kext's file
  is copied where the kernel expects zeros.
* `HeaderApart`: in the kext's file the sections of `__TEXT` that have contents lie
  behind the load commands, as linkers lay them out. Sections are what keeps the
  new header within the victim: they were found to fit before, and they are behind
  it. A `__TEXT` *without* sections is not excluded: the check at
  `kernelcache.cpp:558` then compares a used size of 0, the loop at 570-588 writes
  the load commands wherever they end, and only line 596 compares. `Overrun` is what
  they have reached behind the victim's `__TEXT`, and `OnlyVictimWritten` allows it
  until that check and in a run the check (or the end of the file) has stopped.
* `SectionsCopied`: a segment the victim has none of, or that is not one of those
  replaced (`__LINKEDIT`), keeps no bytes in the kernelcache, so it must have no
  sections; linkers give it none.
* `PassesOn`, `HooksApart`: an override that does more than go on
  to its super function changes the kernel because it is meant to. `bind_hooks`
  looks for `brk` where it puts a super function (`kernelcache.cpp:163`), but a
  function is patched and an address called whatever lies there: that no two hooks
  overlap, and that no other code runs into one, is left to the compiler, which
  lays out each function of the kext by itself.
* `RebasesListed`, `CodeApart`: the split-segment pass links what its entries list
  and never looks at the kext's chains, so every rebase must be listed, with the
  target the chain gives it, and no entry may be about something else. Linkers
  write both from one table; nothing in the code checks it.

### Bounds, and why they are enough

* Pages have 8 strides and a `next` field below 4: as in the format (4096 strides
  and 2048), a field spans half a page, so that both near and far neighbours
  occur. Two segments of two pages and one page, with an extra slot behind each,
  give every relation of a victim segment to a page: inside it, across a
  boundary, a whole page, two segments on one page, pages without chains. Up to
  five fixups on a page give heads, inner and last ones on either side.
* `MCFixupRough` has one segment and leaves the supported jobs.
* Two functions in the kernel, one of which may have both names, and two
  overrides with their super functions reach every relocated class, in range and,
  for conditional branches, out of range; the third word of a super function is needed only by far
  conditional branches, which occur.
* The kext has a text and a data segment that move by different distances, which
  relative code must notice, and up to three pointers of four kinds.
* Groups of 2 bits and integers of 5 stand for LEB128's 7 and 64: in both, the last
  group of a number fills only a part of the bits left. Lists have 0, 1 or 2
  members on each level, so that each running sum restarts and runs on; differences
  wrap; a padded number, a number and a kind one too large, a file cut at each byte.
* A kernelcache of 52 cells holds a victim of four segments with other filesets'
  bytes between and behind them, each segment at its own distance in file and in
  memory; a `__TEXT` of 7, 12, 17 or 20 cells ends before, within or behind the
  load commands and the sections. In one more kernelcache the victim's `__TEXT` is
  the end of the file, which load commands that are too long run over.
* Three filesets put the victim between two others; the kext may lack or add each
  kind of segment, fit or not fit.
* Three runs with six starts: each can die once with anything left behind. Two
  halves are the fewest of which a file can hold one and lack the other.
  `Starts` is the only counter bounded in a guard.

### Fairness

`FixupChain!FairSpec` and `Hooks!FairSpec` add `WF_vars(Next)`: the tool is a single
thread that takes its next step until it ends, and a processor goes on
executing. `Terminates` and `OverridesRun` use it; `HooksInvisible` is a safety
property checked under the same specification. `KextLink`, `SplitSegment`,
`Segments`, `Replacement` and `Session` state no fairness and no liveness. Deadlock is checked in every run: a job that
has ended stutters through an action of its own (`Ended`, `Failed`, `Rest`).

## Proofs

| theorem | says | assumes |
|---|---|---|
| `TypeCorrect`, `ChainsWhole`, `VictimIsCleared`, `KextIsLinked`, `RefusesEarlyOnly` | the five invariants of `FixupChain` | `SegmentsApart`, `Supported` jobs |
| `EditorImplementsSet` | `FixupChain` implements `FixupSet` | the same |
| `SuperFnFaithful` | a super function has the replaced instruction's effect and continues where it did | the instruction is decoded for what it is |
| `PatchedKernelIsOriginal` | `HooksInvisible`: the patched kernel implements the original one | `AllSupported` of `Hooks`: overrides pass on (`PassesOn`), hooks are apart (`HooksApart`), hooked functions begin plainly (`BeginsPlainly`) |
| `HooksTypeCorrect` | `TypeOK` of `Hooks` | the same |
| `EditsAreIsolated`, `DeliveriesAreResults` | the two invariants of `Session` | `~MayOverlap` |
| `OthersAreUntouched` | no other fileset is changed (`Replacement`) | `NamesDiffer` |
| `ReplacementIsComplete` | `Replaced`: a finished replacement is whole | `NamesDiffer`, `Consistent` (names not shared, an entry in the prelink list for each fileset), the expected segments are those of `kernelcache.cpp` |
| `OnlyTheVictimIsWritten`, `NothingOfTheVictimIsLeft` | `OnlyVictimWritten`, `NothingLeft` of `Segments` | `AllSupported` |
| `HeaderIsInPlace`, `SectionsAreInPlace`, `ZeroFillHasZeros` | `HeaderInPlace`, `SectionsInPlace`, `ZeroFillIsZero` of `Segments` | `AllSupported` |
| `CodeIsResolved` | `CodeResolved` of `KextLink` | `CodeApart`: an instruction has one entry and is no import's pointer |
| `PointersAreResolved` | `PointersResolved` of `KextLink` | `AllSupported`: `CodeApart`, `RebasesListed`, `OneChain` |
| `PassesImplementSet` | the two passes implement the linking half of `FixupSet` | the same |
| `NumbersAreExact` | `NumbersExact` of `SplitSegment`: `read_uleb128` loses no bits | none |
| `ListsAreParsed`, `RefusalsAreJustified` | `ListsParsed`, `RefusalsJustified` of `SplitSegment` | the file begins at `dataoff` like the encoding of the list that is spoken of |
| `ResultIsBounded` | `ResultBounded` of `SplitSegment` | none |

They hold for any layout, number of pages, page size, field width, number and size
of segments, load commands and sections, kernel code, number of hooks and of names of a function,
number of filesets, entries, pointers, runs and starts, lists of any length on
each level, numbers of any size and padding, and bytes and integers of any number
of bits. The conditions are those the runs' jobs satisfy: `MCSegments`
keeps the supported ones of its jobs, `MCKextLink` and `MCHooks` assert that their
regular jobs are supported.

**Chains.** The invariant is `IInv`: `TypeOK`, `Represents` (every page's chain is
in order and holds exactly `fixups`), and what is true between two steps:
`Accounted` (`fixups` is the original set less the part of the victim already
swept, plus `linked`), `Swept` (pages behind the cursor hold nothing of the
segment), `Visiting` (in `remove_fixups` the cursor stands on a fixup, or just
unlinked one, and `prev` is the last one kept), `Seeking` (in `add_fixup` the
cursor stands on a fixup before the target) and `RefusalsExplained`. `Represents`
alone is not inductive: unlinking writes the predecessor's field, so the proof
must know that `prev` is the chain predecessor, and that the sum of two fields
still fits (`Compact`). The lemmas at the head of the module
(`ChainInsert`, `ChainSplice`, `ChainBehead`) say what one insertion or removal does to an ordered chain whatever the
pages are. What the kernel will find, `Walk`, is recursive; the proof replaces
it by the least set closed under `next` (`Reach`) and shows that a chain in
order reaches exactly its fixups. `pc = "wild"`, the state after following a
garbage pointer, is unreachable under the assumptions.

**Hooks.** What moves is one instruction, and `SuperFnFaithful` says that its new
place makes no difference; the refinement needs to know in addition that this is
all that moved. `HooksInv` says what each word is while the functions are patched
one after the other: `TablesRead` ties `super` and `override` to the symbols of the
kext, so that the words of a hook (its area) are known from the tables, and
`Hooked` says that a word no finished hook patches is as it was, that a hooked
function branches to an override of one of its names (`LeadsOver`), and that the
super function holds the relocated instruction (`Holds`). That last part is not
inductive if a function has two names: the second hook finds the first one's
branch in place of the instruction and relocates that, so its super function
`LeadsOver` to the first override, which is as good. `Located` says where the
patched kernel can be: outside the hooks, on the way from an override to its super
function, or at one of the two words behind that if the relocated instruction goes
there. One lemma per place (`FromElsewhere`, `AlongOverride`, `FromSuper`,
`BehindSuper`) shows that a step from there leads to such a place again and is, by
`Home`, a step of `Cpu` or a stutter.

**Sessions.** `Typed /\ Alone /\ Owned /\ Copied /\ OnlyResultsDelivered`: at most one
run is under way (`Alone`), and from the moment it has opened its file the path names
it and its contents, half by half, are a function of where the run is (`Expected`),
whatever was there before (`Owned`). `Copied` says that the output is the head
of the result while it is copied. `OnlyResultsDelivered` alone is not inductive: that
what is copied is the result is known from `Owned`.

**Replacement.** `Typed /\ (pc \in Before => id = job.ids) /\ OthersUntouched`:
names have not changed until `ReplaceFilesetId`, so a lookup before it finds
the victim, and after it, if names differ, the renamed victim. For `Replaced`,
`Progress` adds what each step that is past (`Past`) has left behind, and the
length of the prelink list between the removal and the insertion; the other
filesets' entries come from the first invariant.

**Segments.** `Inv` says which segments are clear of the victim's bytes by now
(`Passed`, `Clear`) and, while the load commands are copied, that the writer is
never further into the victim's `__TEXT` than the reader is into the kext's
(`WriterBehind`). That is what keeps the writes inside: the code looks at the
room only after the loop (`kernelcache.cpp:596`), but what the reader has passed
ends before the first section, and the sections were found to fit before. Where
`__TEXT` has no sections nothing keeps them there; what has been written behind the
victim is then in `Overrun`, which only grows while the loop runs (`OverrunKept`), and
`FinishCommands`, which needs the writer to be within the victim, is not taken from
such a state.

What *was* written, and that nothing was written over it since, is `PlaceInv`.
`SegmentsFilled`: a segment that was passed holds the kext's bytes and zeros behind
them, which nothing disturbs because the victim's segments are apart. `HeaderKnown`
counts: the n-th command of the kext that is kept is command `Place(n)` of the new
header, that is, it has as many kept ones before it; the commands copied are
`Taken`, their bytes lie where the chain of their sizes puts them and before the
writer. A later command is written at the writer, the remainder from the writer on
and the sections behind every command (`HeaderApart`), so none is overwritten. A
header that has overrun the victim may have overwritten anything, so the invariant is
`Overran \/ PlaceInv`: a run that overran never ends well, which is when the
properties speak.
`CurrentKnown` is what the pass over the header relies on: `current` still says what
the old header said, so that `Placed` names the victim's addresses although the old
header is gone. `TextCopied` adds the sections, in the order they are copied. That
sections agree in file and memory follows from `Placed`, in which both distances
appear, and from the kext's own agreement. `HeaderInPlace` alone is not inductive:
it speaks of the end, when the old header can no longer be read.

**Code and pointers of the kext.** `entries` is always a tail of the list, and each entry already
taken is resolved. A later entry or a bound pointer cannot undo it because it
writes elsewhere (`CodeApart`).

For pointers the invariant is `Linked /\ Covered /\ Gathered`. `Linked`: what is
linked is a pointer of the kext and leads where it should, and what is not linked
still has the kext's bytes, which is what `bind_kext_symbols` compares before it
binds. `Covered` says where each unlinked pointer still waits: a rebase among the
entries to come (it is `Pending`), and after the first pass nowhere; an import
among those `found`. `Gathered` is the walk of `read_fixups`: every pointer before
the cursor has been found, so that at the end of the chain (`OneChain`) all have.
Then `PassesImplementSet` follows step by step: each pass links a pointer of the
kext not linked before, and `Covered` at the end says that none is missing.

**Split-segment lists.** What the file means is defined by recursive functions:
powers of two, sums, joined sequences, values of groups. The library's theorems on
recursion and induction take an operator as parameter, so `SplitSegmentProofs` has
its own with sets and functions in their place: `Induction` (if a number were
missing from a set closed under successor, so would a least one,
`WFMin`), and from it `Recursion` and `BoundedRecursion` (a function given by its
first value and a step exists), which turn each definition into its equation.

`NumberInv` is `read_uleb128`: there is a k such that the last k bytes are the
number so far, `bit` is k groups and `acc` their exact value, less than
2^`bit` and than 2^`Width`. The code's test, shifting a slice up and
down again, succeeds exactly if no bit is lost (`SliceFits`), which is
`NumbersExact`.

`ListInv` is the list. It cannot be said on the parser's variables alone, since
they do not know the list; it says that there *are* remaining deltas, kinds,
offsets and sections (`Place`) such that the loops have as many rounds left as
these have members, that the result so far and the entries of what remains
are the entries of the whole, and that a number among those ahead is unreadable if
and only if one of the list is; and that the bytes ahead are the encoding of
what remains, of whose first number k groups are in `acc` (`Bytes`). One lemma per
action moves one number from what remains to what is read (`SectionsArrives` to
`DeltaArrives`), on lemmas that take a list member off the front of the numbers
(`DeltaMove`, `KindMove`, ...) and of the entries (`DeltaEntriesMove`, ...). The
running sums are the delicate part: an entry's offset is defined as a sum from the
start of its list, the parser has the last sum, so the entries of a remainder are
defined from any start value (`SumTo(start, ...)`) and `SumToStep` shows that
the last sum is the start of the rest, all modulo 2^`Width`. When nothing remains
the result is the whole (`ListsParsed`); a refusal is a byte that is missing
(`CutOff`), a number too long for an integer (`RefusedNumber`) or a kind out of
range, each of which makes the list not well formed (`RefusalsJustified`).

## Only model-checked

* `Terminates` and `OverridesRun` are liveness.

## Not modelled

* `find_fixup` (`fixup_chain.cpp:94-119`): nothing calls it.
* `SpanReader`'s wrap-around at 2^64 (`memio.h:104`), which only a section size
  beyond the file reaches; of `macho.h`, the readers no modelled step calls.
* A page with `START_NONE` that `remove_fixups` does not wholly cover, which is
  walked from 0xFFFF bytes on (`fixup_chain.cpp:134`): the walk is the state
  "wild", what the bytes there hold is not modelled.
* How often an override runs when its function loops to its first instruction, and
  the empty file `mkstemp` leaves behind: no text says what should happen.
* Bit positions in instruction words and pointers, except where two decoders
  disagree on a word; the 12-bit `next` of `DYLD_CHAINED_PTR_64_KERNEL_CACHE`.
* `ADRP` reaching further than 4 GiB; pointers at adjacent 4-byte strides, which
  would overlap (a pointer has 8 bytes).
* Property-list XML, Core Foundation's reference counts, logging, the command
  line, `kext.cpp` (two existence checks), the macros, the example kext and the
  build files.
* Overrides other than those that pass on to their super function: what the
  author of a kext writes into them is not this program's.

## Plan

1. Done: `FixupSet`, `FixupChain`; `Instructions`, `Symbols`, `Cpu`, `Hooks`;
   `Session`; `KextLink`; `SplitSegment`; `Replacement`; `Segments`; their proofs.
2. The bit-fields of instructions and of both pointer formats, with their widths
   and sign extension; `FixupChain` with the 12-bit format.
3. `Replacement` inside `Session`, so that a step that gives up is the run that
   dies, and the file left behind is the one the next run meets; `Segments` shown
   to implement the segment steps of `Replacement`.
4. Proofs: every safety property of a passing run is a theorem by now; what 2 and 3
   add is to be proved as it is modelled, first that `Segments` implements the steps
   of `Replacement`.
