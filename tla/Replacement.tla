---------------------------- MODULE Replacement -----------------------------
(* KernelCache::replace_fileset as a whole: the steps in their order, what  *)
(* each reads of what the earlier ones wrote, and where each may give up.   *)
(* Chains, references of the kext and hooks have modules of their own       *)
(* (FixupChain, KextLink, Hooks); here those steps succeed or fail.         *)
(*                                                                          *)
(* A fileset is its place in the kernelcache, and stands for the addresses  *)
(* of its segments, which a new header takes over from the old one.  A      *)
(* missing fileset or segment is a null pointer, which ends the run as an   *)
(* exception does.                                                          *)
EXTENDS Naturals, SequencesExt

CONSTANTS
    Places,     \* the filesets, 1 .. n in the order of their load commands
    Ids,        \* names of filesets
    Expected,   \* k_expected_segments
    Jobs        \* [ids, room, prelink, prelinkRoom, idRoom, victim, kext]

ASSUME PlacesAssumption == IsFiniteSet(Places) /\ Places = 1 .. Cardinality(Places)

Entries == [id : Ids, text : Places, data : Places, size : Nat]

(* room: place -> segment -> filesize; kext.used: segment -> used size. *)
ASSUME JobsAssumption ==
    \A j \in Jobs :
      /\ j.ids \in [Places -> Ids] /\ j.prelink \in Seq(Entries)
      /\ j.victim \in Ids /\ j.kext.id \in Ids /\ j.kext.info \in Nat
      /\ DOMAIN j.room = Places
      /\ \A f \in Places : \A s \in DOMAIN j.room[f] : j.room[f][s] \in Nat
      /\ \A s \in DOMAIN j.kext.used : j.kext.used[s] \in Nat
      /\ j.prelinkRoom \in Nat /\ j.idRoom \in Nat /\ j.kext.length \in Nat

VARIABLES
    job,       \* the kernelcache and the command line, fixed at the start
    pc,        \* the step to come, "done" or "failed"
    id,        \* entry_id of each LC_FILESET_ENTRY
    header,    \* the filesets whose header holds the kext's load commands
    content,   \* the segments that hold the kext's bytes
    cleared,   \* the segments no chain leads into any more
    prelink,   \* _PrelinkInfoDictionary: [id, text, data, size]
    kmod       \* the kmod_info of a fileset: "own", "none" (the kext's) or "set"

vars == <<job, pc, id, header, content, cleared, prelink, kmod>>

Init == /\ job \in Jobs
        /\ pc = "verify"
        /\ id = job.ids
        /\ header = {} /\ content = {} /\ cleared = {}
        /\ prelink = job.prelink
        /\ kmod = [f \in Places |-> "own"]

(* read_filesets keeps the first fileset of a name: at most one place. *)
FirstOf(ids, name) == {f \in Places : ids[f] = name /\ \A g \in 1 .. f - 1 : ids[g] # name}
ReadFileset(name) == FirstOf(id, name)

(* read_fs_segments: what the header names. *)
Has == DOMAIN job.kext.used
Segments(f) == IF f \in header THEN Has ELSE DOMAIN job.room[f]

Go(from, to) == pc = from /\ pc' = to
Throw(from) == Go(from, "failed") /\ UNCHANGED <<job, id, header, content, cleared, prelink, kmod>>

-----------------------------------------------------------------------------
VerifySegments ==
    /\ Go("verify", "unlink") /\ Has \subseteq Expected
    /\ UNCHANGED <<job, id, header, content, cleared, prelink, kmod>>

UnexpectedSegment == Throw("verify") /\ ~(Has \subseteq Expected)

(* remove_fixups over the victim's segments, some of which the kext may not *)
(* have.  A mutant: over those the kext has.                                *)
UnlinkedOfKext(f) == {<<f, s>> : s \in Has \cap {"__DATA_CONST", "__DATA"}}
Unlinked(f) == {<<f, s>> : s \in Segments(f) \cap {"__DATA_CONST", "__DATA"}}

RemoveFixups ==
    /\ Go("unlink", "__TEXT_EXEC")
    /\ \E f \in ReadFileset(job.victim) : cleared' = cleared \cup Unlinked(f)
    /\ UNCHANGED <<job, id, header, content, prelink, kmod>>

NoVictim == Throw("unlink") /\ ReadFileset(job.victim) = {}

(* replace_segment, for each segment in turn.  The kext's own kmod_info     *)
(* comes with its __DATA.                                                   *)
Fits(f, s) == s \in Segments(f) /\ job.kext.used[s] <= job.room[f][s]

ReplaceSegment(s, after) ==
    /\ Go(s, after) /\ s \in Has
    /\ \E f \in ReadFileset(job.victim) :
         /\ Fits(f, s)
         /\ content' = content \cup {<<f, s>>}
         /\ kmod' = IF s = "__DATA" THEN [kmod EXCEPT ![f] = "none"] ELSE kmod
    /\ UNCHANGED <<job, id, header, cleared, prelink>>

KextHasNot(s, after) ==
    /\ Go(s, after) /\ s \notin Has
    /\ UNCHANGED <<job, id, header, content, cleared, prelink, kmod>>

Oversized(s) == Throw(s) /\ s \in Has /\ ~\E f \in ReadFileset(job.victim) : Fits(f, s)

CopySegments ==
    \/ ReplaceSegment("__TEXT_EXEC", "__DATA_CONST") \/ KextHasNot("__TEXT_EXEC", "__DATA_CONST")
    \/ ReplaceSegment("__DATA_CONST", "__DATA") \/ KextHasNot("__DATA_CONST", "__DATA")
    \/ ReplaceSegment("__DATA", "__TEXT") \/ KextHasNot("__DATA", "__TEXT")

(* replace_text_segment: the load commands, then the sections. *)
ReplaceTextSegment ==
    /\ Go("__TEXT", "split") /\ "__TEXT" \in Has
    /\ \E f \in ReadFileset(job.victim) :
         /\ Fits(f, "__TEXT")
         /\ content' = content \cup {<<f, "__TEXT">>}
         /\ header' = header \cup {f}
    /\ UNCHANGED <<job, id, cleared, prelink, kmod>>

NoText == Throw("__TEXT") /\ "__TEXT" \notin Has

ApplySplitSegmentFixups ==
    \/ /\ Go("split", "forget")
       /\ UNCHANGED <<job, id, header, content, cleared, prelink, kmod>>
    \/ Throw("split")

-----------------------------------------------------------------------------
(* The entry of a fileset is the first one with its id. *)
EntriesOf(name) == {i \in DOMAIN prelink : prelink[i].id = name /\ \A k \in 1 .. i - 1 : prelink[k].id # name}

(* write_prelink_info zeroes the segment first; then SpanWriter throws when *)
(* the list has outgrown it.                                                *)
Size(entries) == FoldLeft(LAMBDA n, e : n + e.size, 0, entries)
Written(entries) == Size(entries) <= job.prelinkRoom /\ prelink' = entries
Wiped(from, entries) ==
    /\ Go(from, "failed") /\ Size(entries) > job.prelinkRoom /\ prelink' = << >>
    /\ UNCHANGED <<job, id, header, content, cleared, kmod>>

(* A mutant: the entry behind it is removed. *)
WithoutNext(i) == RemoveAt(prelink, IF i = Len(prelink) THEN i ELSE i + 1)
Without(i) == RemoveAt(prelink, i)

RemovePrelinkInfo ==
    /\ Go("forget", "rename")
    /\ \E i \in EntriesOf(job.victim) : Written(Without(i))
    /\ UNCHANGED <<job, id, header, content, cleared, kmod>>

NoEntry == Throw("forget") /\ EntriesOf(job.victim) = {}
RemainderTooLong == \E i \in EntriesOf(job.victim) : Wiped("forget", Without(i))

ReplaceFilesetId ==
    /\ Go("rename", "insert") /\ job.kext.length <= job.idRoom
    /\ \E f \in ReadFileset(job.victim) : id' = [id EXCEPT ![f] = job.kext.id]
    /\ UNCHANGED <<job, header, content, cleared, prelink, kmod>>

IdTooLong == Throw("rename") /\ job.kext.length > job.idRoom

Entry(f) == [id |-> job.kext.id, text |-> f, data |-> f, size |-> job.kext.info]
Whole(f) == {"__TEXT", "__DATA"} \subseteq Segments(f)

(* From here on the fileset is found under the kext's id. *)
InsertPrelinkInfo ==
    /\ Go("insert", "kmod")
    /\ \E f \in ReadFileset(job.kext.id) : Whole(f) /\ Written(Append(prelink, Entry(f)))
    /\ UNCHANGED <<job, id, header, content, cleared, kmod>>

NotWhole == Throw("insert") /\ ~\E f \in ReadFileset(job.kext.id) : Whole(f)
InfoTooLong == \E f \in ReadFileset(job.kext.id) : Whole(f) /\ Wiped("insert", Append(prelink, Entry(f)))

SetKmodInfo ==
    /\ Go("kmod", "bind")
    /\ \E f \in ReadFileset(job.kext.id) : kmod' = [kmod EXCEPT ![f] = "set"]
    /\ UNCHANGED <<job, id, header, content, cleared, prelink>>

(* The kernelcache must hold the kext's pointers where they are looked for. *)
BindKextSymbols ==
    \/ /\ Go("bind", "hooks")
       /\ job.kext.binds => ReadFileset(job.kext.id) \subseteq header
       /\ UNCHANGED <<job, id, header, content, cleared, prelink, kmod>>
    \/ Throw("bind")

BindHooks ==
    \/ /\ Go("hooks", "done")
       /\ UNCHANGED <<job, id, header, content, cleared, prelink, kmod>>
    \/ Throw("hooks")

Ended == pc \in {"done", "failed"} /\ UNCHANGED vars

Next == \/ VerifySegments \/ UnexpectedSegment \/ RemoveFixups \/ NoVictim
        \/ CopySegments \/ ReplaceTextSegment \/ NoText
        \/ \E s \in {"__TEXT_EXEC", "__DATA_CONST", "__DATA", "__TEXT"} : Oversized(s)
        \/ ApplySplitSegmentFixups
        \/ RemovePrelinkInfo \/ NoEntry \/ RemainderTooLong \/ ReplaceFilesetId \/ IdTooLong
        \/ InsertPrelinkInfo \/ NotWhole \/ InfoTooLong \/ SetKmodInfo \/ BindKextSymbols \/ BindHooks \/ Ended

Spec == Init /\ [][Next]_vars

-----------------------------------------------------------------------------
VictimPlace == FirstOf(job.ids, job.victim)
Untouched(f) ==
    /\ id[f] = job.ids[f] /\ f \notin header /\ kmod[f] = "own"
    /\ \A s \in Expected : <<f, s>> \notin content \cup cleared
OthersEntriesKept ==
    \A i \in DOMAIN job.prelink : job.prelink[i].id # job.victim => job.prelink[i] \in Range(prelink)

(* A kext whose name no other fileset has. *)
Unambiguous(j) == \A f \in Places : j.ids[f] = j.kext.id => f \in FirstOf(j.ids, j.victim)
NamesDiffer == \A j \in Jobs : Unambiguous(j)

(* At every moment, also where a step gave up, what is not the victim's is  *)
(* as it was: the header, segments, identity and kmod_info of every other   *)
(* fileset and, until a step fails, its prelink entry.                      *)
OthersUntouched == (\A f \in Places \ VictimPlace : Untouched(f)) /\ (pc # "failed" => OthersEntriesKept)

(* README.md:22: the tool must "replace an exisiting fileset inside the     *)
(* kernelcache with the new kext".  When it is done, the victim's place     *)
(* carries the kext's name, header and segments, no chain of the victim's   *)
(* leads into it, its kmod_info is set, and each fileset has one prelink    *)
(* entry, which names that fileset's addresses.                             *)
Replaced ==
    pc = "done" =>
      \A v \in VictimPlace :
        /\ id = [job.ids EXCEPT ![v] = job.kext.id]
        /\ header = {v}
        /\ \A s \in Has \ {"__LINKEDIT"} : <<v, s>> \in content
        /\ \A s \in {"__DATA_CONST", "__DATA"} : s \in DOMAIN job.room[v] => <<v, s>> \in cleared
        /\ kmod[v] = "set"
        /\ Len(prelink) = Len(job.prelink)
        /\ \A f \in Places : \E i \in DOMAIN prelink :
             prelink[i].id = id[f] /\ prelink[i].text = f /\ prelink[i].data = f
=============================================================================
