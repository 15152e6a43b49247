-------------------------- MODULE ReplacementProofs -------------------------
(* Replacing one fileset never touches another one, at whatever step it     *)
(* stops, and when it does not stop the replacement is complete.            *)
EXTENDS Replacement, TLAPS

(* The steps before the victim is renamed, at which its name still finds it. *)
Before == {"verify", "unlink", "__TEXT_EXEC", "__DATA_CONST", "__DATA", "__TEXT", "split",
           "forget", "rename"}

Typed ==
    /\ job \in Jobs
    /\ id \in [Places -> Ids]
    /\ kmod \in [Places -> {"own", "none", "set"}]
    /\ prelink \in Seq(Entries)

Inv == /\ Typed
       /\ pc \in Before => id = job.ids
       /\ OthersUntouched

(* Two lists behind each other are as long as both. *)
LEMMA ConcatLength ==
    ASSUME NEW S, NEW a \in Seq(S), NEW b \in Seq(S)
    PROVE  Len(a \o b) = Len(a) + Len(b)
OBVIOUS

(* Taking one entry out of a list keeps every other one. *)
LEMMA RemoveKeeps ==
    ASSUME NEW S, NEW q \in Seq(S), NEW i \in 1 .. Len(q)
    PROVE  /\ RemoveAt(q, i) \in Seq(S)
           /\ \A k \in 1 .. Len(q) : k # i => q[k] \in Range(RemoveAt(q, i))
           /\ Len(RemoveAt(q, i)) = Len(q) - 1
<1> DEFINE a == SubSeq(q, 1, i - 1)  b == SubSeq(q, i + 1, Len(q))
<1>1. /\ a \in Seq(S) /\ Len(a) = i - 1
      /\ \A k \in 1 .. i - 1 : a[k] = q[k]
  OBVIOUS
<1>2. /\ b \in Seq(S) /\ Len(b) = Len(q) - i
      /\ \A k \in 1 .. Len(q) - i : b[k] = q[i + k]
  OBVIOUS
<1> HIDE DEF a, b
<1>3. a \o b \in Seq(S) /\ Len(a \o b) = Len(q) - 1 /\ DOMAIN (a \o b) = 1 .. Len(q) - 1
  <2>1. a \o b \in Seq(S)
    BY <1>1, <1>2
  <2>2. Len(a \o b) = Len(a) + Len(b)
    BY <1>1, <1>2, ConcatLength
  <2>3. Len(a) + Len(b) = Len(q) - 1
    BY <1>1, <1>2
  <2>4. DOMAIN (a \o b) = 1 .. Len(a \o b)
    BY <2>1
  <2> QED BY <2>1, <2>2, <2>3, <2>4
<1>4. ASSUME NEW k \in 1 .. Len(q), k # i
      PROVE  \E m \in DOMAIN (a \o b) : (a \o b)[m] = q[k]
  <2>1. CASE k < i
    <3>1. k \in 1 .. Len(a) /\ a[k] = q[k] /\ k \in 1 .. Len(q) - 1
      BY <2>1, <1>1
    <3>2. (a \o b)[k] = a[k]
      BY <3>1, <1>1, <1>2
    <3> QED BY <3>1, <3>2, <1>3
  <2>2. CASE k > i
    <3>1. k - i \in 1 .. Len(b) /\ b[k - i] = q[k]
      <4>1. k - i \in 1 .. Len(q) - i /\ i + (k - i) = k
        BY <2>2
      <4> QED BY <4>1, <1>2
    <3>2. (a \o b)[Len(a) + (k - i)] = b[k - i]
      BY <3>1, <1>1, <1>2
    <3>3. Len(a) + (k - i) \in 1 .. Len(q) - 1
      BY <2>2, <1>1
    <3> QED BY <3>1, <3>2, <3>3, <1>3
  <2> QED BY <1>4, <2>1, <2>2
<1>5. RemoveAt(q, i) = a \o b
  BY DEF RemoveAt, a, b
<1> QED BY <1>3, <1>4, <1>5 DEF Range

(* Adding an entry keeps all there are. *)
LEMMA AppendKeeps ==
    ASSUME NEW S, NEW q \in Seq(S), NEW e \in S
    PROVE  Append(q, e) \in Seq(S) /\ Range(q) \subseteq Range(Append(q, e))
BY DEF Range

(* Until it is renamed, the victim is found where it was at the start. *)
LEMMA VictimFound ==
    ASSUME id = job.ids
    PROVE  ReadFileset(job.victim) = VictimPlace
BY DEF ReadFileset, VictimPlace

(* At the start nothing is changed. *)
LEMMA InitInv == Init => Inv
<1> SUFFICES ASSUME Init PROVE Inv
  OBVIOUS
<1>1. Typed
  BY JobsAssumption DEF Init, Typed
<1>2. OthersUntouched
  BY DEF Init, OthersUntouched, Untouched, OthersEntriesKept, Range
<1> QED BY <1>1, <1>2 DEF Init, Inv

(* A step that writes nothing but its place in the sequence. *)
LEMMA NothingWritten ==
    ASSUME Inv, UNCHANGED <<job, id, header, content, cleared, prelink, kmod>>,
           pc' \in Before => pc \in Before, pc = "failed" => pc' = "failed"
    PROVE  Inv'
BY DEF Inv, Typed, OthersUntouched, Untouched, OthersEntriesKept, VictimPlace, FirstOf

(* A step of before the renaming that writes the victim's place only. *)
LEMMA VictimWritten ==
    ASSUME Inv, pc \in Before, NEW f \in ReadFileset(job.victim),
           UNCHANGED <<job, id, prelink>>,
           header' \in {header, header \cup {f}},
           NEW C, content' \in {content, content \cup ({f} \X C)},
           NEW D, cleared' \in {cleared, cleared \cup ({f} \X D)},
           kmod' \in {kmod, [kmod EXCEPT ![f] = "none"]}
    PROVE  Inv'
<1>1. f \in VictimPlace /\ f \in Places /\ VictimPlace' = VictimPlace
  BY VictimFound DEF Inv, VictimPlace, FirstOf
<1>2. Typed'
  BY <1>1 DEF Inv, Typed
<1>3. ASSUME NEW g \in Places \ VictimPlace PROVE Untouched(g)'
  <2>1. g # f /\ Untouched(g)
    BY <1>1, <1>3 DEF Inv, OthersUntouched
  <2>2. id[g]' = job.ids[g]' /\ (g \notin header)' /\ (kmod[g] = "own")'
    BY <2>1, <1>1 DEF Untouched, Inv, Typed
  <2>3. \A s \in Expected : <<g, s>> \notin (content \cup cleared)'
    BY <2>1 DEF Untouched
  <2> QED BY <2>2, <2>3 DEF Untouched
<1>4. OthersEntriesKept'
  BY DEF Inv, OthersUntouched, OthersEntriesKept, Before
<1> QED BY <1>1, <1>2, <1>3, <1>4 DEF Inv, OthersUntouched

(* The prelink list loses the victim's entry or gets one more. *)
LEMMA PrelinkWritten ==
    ASSUME Inv, UNCHANGED <<job, id, header, content, cleared, kmod>>,
           pc' \in Before => pc \in Before, pc # "failed",
           \/ \E i \in EntriesOf(job.victim) : prelink' = Without(i)
           \/ \E e \in Entries : prelink' = Append(prelink, e)
    PROVE  Inv'
<1>1. prelink' \in Seq(Entries) /\ OthersEntriesKept'
  <2>1. ASSUME NEW i \in EntriesOf(job.victim), prelink' = Without(i)
        PROVE  prelink' \in Seq(Entries) /\ OthersEntriesKept'
    <3>1. prelink \in Seq(Entries) /\ i \in 1 .. Len(prelink) /\ prelink[i].id = job.victim
      BY <2>1 DEF Inv, Typed, EntriesOf
    <3>2. prelink' \in Seq(Entries)
      BY <2>1, <3>1, RemoveKeeps DEF Without
    <3>3. \A k \in 1 .. Len(prelink) : k # i => prelink[k] \in Range(prelink')
      BY <2>1, <3>1, RemoveKeeps DEF Without
    <3>4. ASSUME NEW m \in DOMAIN job.prelink, job.prelink[m].id # job.victim
          PROVE  job.prelink[m] \in Range(prelink')
      <4>1. job.prelink[m] \in Range(prelink)
        BY <3>4 DEF Inv, OthersUntouched, OthersEntriesKept
      <4>2. PICK k \in 1 .. Len(prelink) : prelink[k] = job.prelink[m]
        BY <4>1, <3>1 DEF Range
      <4> QED BY <4>2, <3>1, <3>3, <3>4
    <3> QED BY <3>2, <3>4 DEF OthersEntriesKept
  <2>2. ASSUME NEW e \in Entries, prelink' = Append(prelink, e)
        PROVE  prelink' \in Seq(Entries) /\ OthersEntriesKept'
    <3>1. prelink' \in Seq(Entries) /\ Range(prelink) \subseteq Range(prelink')
      BY <2>2, AppendKeeps DEF Inv, Typed
    <3> QED BY <3>1 DEF Inv, OthersUntouched, OthersEntriesKept
  <2> QED BY <2>1, <2>2
<1>2. ASSUME NEW f \in Places \ VictimPlace PROVE Untouched(f)'
  BY <1>2 DEF Inv, OthersUntouched, Untouched
<1>3. VictimPlace' = VictimPlace
  BY DEF VictimPlace, FirstOf
<1> QED BY <1>1, <1>2, <1>3 DEF Inv, Typed, OthersUntouched

(* The list is wiped by a step that fails. *)
LEMMA PrelinkWiped ==
    ASSUME Inv, UNCHANGED <<job, id, header, content, cleared, kmod>>,
           pc' = "failed", prelink' = << >>
    PROVE  Inv'
<1>1. prelink' \in Seq(Entries)
  OBVIOUS
<1>2. VictimPlace' = VictimPlace
  BY DEF VictimPlace, FirstOf
<1>3. \A f \in Places \ VictimPlace : Untouched(f)'
  BY DEF Inv, OthersUntouched, Untouched
<1> QED BY <1>1, <1>2, <1>3 DEF Inv, Typed, OthersUntouched, Before

(* Every step keeps the invariant. *)
LEMMA NextInv ==
    ASSUME NamesDiffer, Inv, [Next]_vars
    PROVE  Inv'
<1>1. ASSUME VerifySegments \/ UnexpectedSegment \/ NoVictim \/ NoText PROVE Inv'
  BY <1>1, NothingWritten DEF VerifySegments, UnexpectedSegment, NoVictim, NoText, Go, Throw, Before
<1>2. ASSUME NEW s, Oversized(s) PROVE Inv'
  BY <1>2, NothingWritten DEF Oversized, Go, Throw, Before
<1>3. ASSUME ApplySplitSegmentFixups \/ NoEntry \/ IdTooLong \/ NotWhole PROVE Inv'
  BY <1>3, NothingWritten DEF ApplySplitSegmentFixups, NoEntry, IdTooLong, NotWhole, Go, Throw, Before
<1>4. ASSUME BindKextSymbols \/ BindHooks PROVE Inv'
  BY <1>4, NothingWritten DEF BindKextSymbols, BindHooks, Go, Throw, Before
<1>5. CASE Ended \/ UNCHANGED vars
  BY <1>5, NothingWritten DEF Ended, vars
<1>6. ASSUME RemoveFixups PROVE Inv'
  <2>1. PICK f \in ReadFileset(job.victim) : cleared' = cleared \cup Unlinked(f)
    BY <1>6 DEF RemoveFixups
  <2>2. Unlinked(f) = {f} \X (Segments(f) \cap {"__DATA_CONST", "__DATA"})
    BY DEF Unlinked
  <2> DEFINE D == Segments(f) \cap {"__DATA_CONST", "__DATA"}
  <2>3. /\ pc \in Before /\ UNCHANGED <<job, id, prelink>>
        /\ header' \in {header, header \cup {f}}
        /\ content' \in {content, content \cup ({f} \X {})}
        /\ cleared' \in {cleared, cleared \cup ({f} \X D)}
        /\ kmod' \in {kmod, [kmod EXCEPT ![f] = "none"]}
    BY <1>6, <2>1, <2>2 DEF RemoveFixups, Go, Before
  <2> HIDE DEF D
  <2> QED BY <2>3, VictimWritten
<1>7. ASSUME NEW s, NEW t, s \in Before, ReplaceSegment(s, t) PROVE Inv'
  <2>1. PICK f \in ReadFileset(job.victim) :
           /\ content' = content \cup {<<f, s>>}
           /\ kmod' = IF s = "__DATA" THEN [kmod EXCEPT ![f] = "none"] ELSE kmod
    BY <1>7 DEF ReplaceSegment
  <2>2. {<<f, s>>} = {f} \X {s}
    OBVIOUS
  <2> DEFINE C == {s}
  <2>3. /\ pc \in Before /\ UNCHANGED <<job, id, prelink>>
        /\ header' \in {header, header \cup {f}}
        /\ content' \in {content, content \cup ({f} \X C)}
        /\ cleared' \in {cleared, cleared \cup ({f} \X {})}
        /\ kmod' \in {kmod, [kmod EXCEPT ![f] = "none"]}
    BY <1>7, <2>1, <2>2 DEF ReplaceSegment, Go
  <2> HIDE DEF C
  <2> QED BY <2>3, VictimWritten
<1>8. ASSUME NEW s, NEW t, s \in Before, KextHasNot(s, t) PROVE Inv'
  BY <1>8, NothingWritten DEF KextHasNot, Go, Before
<1>9. ASSUME CopySegments PROVE Inv'
  BY <1>9, <1>7, <1>8 DEF CopySegments, Before
<1>10. ASSUME ReplaceTextSegment PROVE Inv'
  <2>1. PICK f \in ReadFileset(job.victim) :
           content' = content \cup {<<f, "__TEXT">>} /\ header' = header \cup {f}
    BY <1>10 DEF ReplaceTextSegment
  <2>2. {<<f, "__TEXT">>} = {f} \X {"__TEXT"}
    OBVIOUS
  <2> DEFINE C == {"__TEXT"}
  <2>3. /\ pc \in Before /\ UNCHANGED <<job, id, prelink>>
        /\ header' \in {header, header \cup {f}}
        /\ content' \in {content, content \cup ({f} \X C)}
        /\ cleared' \in {cleared, cleared \cup ({f} \X {})}
        /\ kmod' \in {kmod, [kmod EXCEPT ![f] = "none"]}
    BY <1>10, <2>1, <2>2 DEF ReplaceTextSegment, Go, Before
  <2> HIDE DEF C
  <2> QED BY <2>3, VictimWritten
<1>11. ASSUME RemovePrelinkInfo PROVE Inv'
  BY <1>11, PrelinkWritten DEF RemovePrelinkInfo, Written, Go, Before
<1>12. ASSUME InsertPrelinkInfo PROVE Inv'
  <2>1. PICK f \in ReadFileset(job.kext.id) : prelink' = Append(prelink, Entry(f))
    BY <1>12 DEF InsertPrelinkInfo, Written
  <2>2. Entry(f) \in Entries
    BY <2>1, JobsAssumption DEF Entry, Entries, ReadFileset, FirstOf, Inv, Typed
  <2> QED BY <1>12, <2>1, <2>2, PrelinkWritten DEF InsertPrelinkInfo, Go, Before
<1>13. ASSUME RemainderTooLong \/ InfoTooLong PROVE Inv'
  BY <1>13, PrelinkWiped DEF RemainderTooLong, InfoTooLong, Wiped, Go
<1>14. ASSUME ReplaceFilesetId PROVE Inv'
  <2>1. PICK f \in ReadFileset(job.victim) : id' = [id EXCEPT ![f] = job.kext.id]
    BY <1>14 DEF ReplaceFilesetId
  <2>2. f \in VictimPlace /\ f \in Places /\ VictimPlace' = VictimPlace
    BY <1>14, VictimFound DEF ReplaceFilesetId, Go, Before, Inv, VictimPlace, FirstOf
  <2>3. Typed'
    BY <1>14, <2>1, <2>2, JobsAssumption DEF ReplaceFilesetId, Inv, Typed
  <2>4. \A g \in Places \ VictimPlace : Untouched(g)'
    BY <1>14, <2>1, <2>2 DEF ReplaceFilesetId, Inv, Typed, OthersUntouched, Untouched
  <2>5. pc' \notin Before /\ OthersEntriesKept'
    BY <1>14 DEF ReplaceFilesetId, Go, Before, Inv, OthersUntouched, OthersEntriesKept
  <2> QED BY <2>2, <2>3, <2>4, <2>5 DEF Inv, OthersUntouched
<1>15. ASSUME SetKmodInfo PROVE Inv'
  <2>1. PICK f \in ReadFileset(job.kext.id) : kmod' = [kmod EXCEPT ![f] = "set"]
    BY <1>15 DEF SetKmodInfo
  <2>2. f \in Places /\ id[f] = job.kext.id /\ VictimPlace' = VictimPlace
    BY <1>15, <2>1 DEF SetKmodInfo, ReadFileset, VictimPlace, FirstOf
  <2>6. f \in VictimPlace
    BY <2>2, NamesDiffer DEF NamesDiffer, Unambiguous, Inv, Typed, OthersUntouched, Untouched, VictimPlace
  <2>3. Typed'
    BY <1>15, <2>1, <2>2 DEF SetKmodInfo, Inv, Typed
  <2>4. \A g \in Places \ VictimPlace : Untouched(g)'
    BY <1>15, <2>1, <2>2, <2>6 DEF SetKmodInfo, Inv, Typed, OthersUntouched, Untouched
  <2>5. pc' \notin Before /\ OthersEntriesKept'
    BY <1>15 DEF SetKmodInfo, Go, Before, Inv, OthersUntouched, OthersEntriesKept
  <2> QED BY <2>2, <2>3, <2>4, <2>5 DEF Inv, OthersUntouched
<1> QED
  BY <1>1, <1>2, <1>3, <1>4, <1>5, <1>6, <1>9, <1>10, <1>11, <1>12, <1>13, <1>14, <1>15 DEF Next

(* Whatever the kernelcache and the kext, and wherever the replacement      *)
(* stops: no other fileset is changed.                                      *)
THEOREM OthersAreUntouched == ASSUME NamesDiffer PROVE Spec => []OthersUntouched
<1>1. Inv => OthersUntouched
  BY DEF Inv
<1>2. Inv /\ [Next]_vars => Inv'
  BY NextInv
<1> QED BY <1>1, <1>2, InitInv, PTL DEF Spec

-----------------------------------------------------------------------------
(* The steps in their order; a replacement that failed has no place in it.  *)
Rank(step) ==
    CASE step = "unlink" -> 1 [] step = "__TEXT_EXEC" -> 2 [] step = "__DATA_CONST" -> 3
      [] step = "__DATA" -> 4 [] step = "__TEXT" -> 5 [] step = "split" -> 6
      [] step = "forget" -> 7 [] step = "rename" -> 8 [] step = "insert" -> 9
      [] step = "kmod" -> 10 [] step = "bind" -> 11 [] step = "hooks" -> 12
      [] step = "done" -> 13 [] OTHER -> 0
Past(step) == Rank(pc) > Rank(step)

Copied == {"__TEXT", "__TEXT_EXEC", "__DATA_CONST", "__DATA"}

(* No two filesets have the victim's name, and each fileset has an entry in *)
(* the prelink list that names its addresses.                               *)
Consistent ==
    \A j \in Jobs : \A f \in Places :
      /\ \A g \in Places : j.ids[f] = j.victim /\ j.ids[g] = j.victim => f = g
      /\ \E i \in DOMAIN j.prelink :
           j.prelink[i].id = j.ids[f] /\ j.prelink[i].text = f /\ j.prelink[i].data = f

(* What the steps that are past have left in the victim's place. *)
HeaderKept(v) == pc # "failed" => header = IF Past("__TEXT") THEN {v} ELSE {}
LengthKept == pc # "failed" =>
    Len(prelink) = IF Past("forget") /\ ~Past("insert") THEN Len(job.prelink) - 1 ELSE Len(job.prelink)
SegmentsPast(v) ==
    /\ Past("unlink") =>
         \A s \in {"__DATA_CONST", "__DATA"} : s \in DOMAIN job.room[v] => <<v, s>> \in cleared
    /\ \A s \in Copied : Past(s) /\ s \in Has => <<v, s>> \in content
NamesPast(v) ==
    /\ Past("rename") => id = [job.ids EXCEPT ![v] = job.kext.id]
    /\ Past("insert") => \E i \in DOMAIN prelink :
         prelink[i].id = job.kext.id /\ prelink[i].text = v /\ prelink[i].data = v
    /\ Past("kmod") => kmod[v] = "set"

Progress ==
    /\ Past("verify") => Has \subseteq Expected
    /\ LengthKept
    /\ \A v \in VictimPlace : HeaderKept(v) /\ SegmentsPast(v) /\ NamesPast(v)

LEMMA InitProgress == Init => Progress
BY DEF Init, Progress, Past, Rank, HeaderKept, LengthKept, SegmentsPast, NamesPast, Copied

(* Nothing is asked of a replacement that has failed. *)
LEMMA FailedProgress == pc' = "failed" => Progress'
BY DEF Progress, Past, Rank, HeaderKept, LengthKept, SegmentsPast, NamesPast, Copied

(* What a step does not write stays, and must not be due after it. *)
Due(step) == Past(step)' => Past(step)

LEMMA NamesStay ==
    ASSUME NEW v, NamesPast(v), UNCHANGED <<job, id, prelink, kmod>>,
           Due("rename"), Due("insert"), Due("kmod")
    PROVE  NamesPast(v)'
BY DEF NamesPast, Due

LEMMA SegmentsStay ==
    ASSUME NEW v, SegmentsPast(v), UNCHANGED <<job, cleared>>, content \subseteq content',
           Due("unlink"), \A s \in Copied : s \in Has => Due(s) \/ <<v, s>> \in content'
    PROVE  SegmentsPast(v)'
BY DEF SegmentsPast, Due, Has

LEMMA HeaderStays ==
    ASSUME NEW v, HeaderKept(v), header' = header, pc # "failed", Past("__TEXT")' = Past("__TEXT")
    PROVE  HeaderKept(v)'
BY DEF HeaderKept

LEMMA LengthStays ==
    ASSUME LengthKept, UNCHANGED <<job, prelink>>, pc # "failed",
           Past("forget")' = Past("forget"), Past("insert")' = Past("insert")
    PROVE  LengthKept'
BY DEF LengthKept

LEMMA PlacesStay == job' = job => VictimPlace' = VictimPlace /\ Has' = Has
BY DEF VictimPlace, FirstOf, Has

(* The first place of the victim's name is the only one. *)
LEMMA OneVictim ==
    ASSUME Consistent, Inv, NEW f \in VictimPlace
    PROVE  VictimPlace = {f}
BY DEF Consistent, Inv, Typed, VictimPlace, FirstOf

(* A step of Progress that neither copies, names nor counts anything. *)
LEMMA UnwrittenProgress ==
    ASSUME Progress, UNCHANGED <<job, id, header, content, cleared, prelink, kmod>>,
           \/ pc = "verify" /\ pc' = "unlink" /\ Has \subseteq Expected
           \/ pc = "__TEXT_EXEC" /\ pc' = "__DATA_CONST" /\ "__TEXT_EXEC" \notin Has
           \/ pc = "__DATA_CONST" /\ pc' = "__DATA" /\ "__DATA_CONST" \notin Has
           \/ pc = "__DATA" /\ pc' = "__TEXT" /\ "__DATA" \notin Has
           \/ pc = "split" /\ pc' = "forget"
           \/ pc = "bind" /\ pc' = "hooks"
           \/ pc = "hooks" /\ pc' = "done"
           \/ pc # "failed" /\ pc' = pc
    PROVE  Progress'
<1>1. /\ pc # "failed" /\ pc' # "failed"
      /\ Past("__TEXT")' = Past("__TEXT") /\ Past("forget")' = Past("forget")
      /\ Past("insert")' = Past("insert")
      /\ Due("unlink") /\ Due("rename") /\ Due("insert") /\ Due("kmod")
      /\ \A s \in Copied : s \in Has => Due(s)
      /\ Past("verify")' => Past("verify") \/ Has \subseteq Expected
  <2>1. CASE pc # "failed" /\ pc' = pc
    BY <2>1 DEF Past, Due
  <2>2. CASE pc = "verify" /\ pc' = "unlink" /\ Has \subseteq Expected
    BY <2>2 DEF Past, Rank, Due, Copied
  <2>3. CASE pc = "__TEXT_EXEC" /\ pc' = "__DATA_CONST" /\ "__TEXT_EXEC" \notin Has
    BY <2>3 DEF Past, Rank, Due, Copied
  <2>4. CASE pc = "__DATA_CONST" /\ pc' = "__DATA" /\ "__DATA_CONST" \notin Has
    BY <2>4 DEF Past, Rank, Due, Copied
  <2>5. CASE pc = "__DATA" /\ pc' = "__TEXT" /\ "__DATA" \notin Has
    BY <2>5 DEF Past, Rank, Due, Copied
  <2>6. CASE pc = "split" /\ pc' = "forget"
    BY <2>6 DEF Past, Rank, Due, Copied
  <2>7. CASE pc = "bind" /\ pc' = "hooks"
    BY <2>7 DEF Past, Rank, Due, Copied
  <2>8. CASE pc = "hooks" /\ pc' = "done"
    BY <2>8 DEF Past, Rank, Due, Copied
  <2> QED BY <2>1, <2>2, <2>3, <2>4, <2>5, <2>6, <2>7, <2>8
<1> QED BY <1>1, NamesStay, SegmentsStay, HeaderStays, LengthStays, PlacesStay DEF Progress

LEMMA NextProgress ==
    ASSUME NamesDiffer, Consistent, Inv, Progress, [Next]_vars
    PROVE  Progress'
<1>1. ASSUME UnexpectedSegment \/ NoVictim \/ NoText \/ NoEntry \/ IdTooLong \/ NotWhole
             \/ RemainderTooLong \/ InfoTooLong \/ (\E s \in Copied : Oversized(s))
      PROVE  Progress'
  BY <1>1, FailedProgress DEF UnexpectedSegment, NoVictim, NoText, NoEntry, IdTooLong, NotWhole,
     RemainderTooLong, InfoTooLong, Oversized, Wiped, Throw, Go
<1>3. CASE Ended \/ UNCHANGED vars
  BY <1>3, UnwrittenProgress, FailedProgress DEF Ended, vars
<1>4. CASE VerifySegments
  BY <1>4, UnwrittenProgress DEF VerifySegments, Go
<1>5. CASE ApplySplitSegmentFixups \/ BindKextSymbols \/ BindHooks
  BY <1>5, UnwrittenProgress, FailedProgress DEF ApplySplitSegmentFixups, BindKextSymbols, BindHooks,
     Throw, Go
<1>6. CASE RemoveFixups
  <2>1. PICK f \in ReadFileset(job.victim) : cleared' = cleared \cup Unlinked(f)
    BY <1>6 DEF RemoveFixups
  <2>2. f \in VictimPlace
    BY <1>6, <2>1, VictimFound DEF RemoveFixups, Before, Inv, Go
  <2>3. VictimPlace = {f}
    BY <2>2, OneVictim
  <2>4. pc = "unlink" /\ pc' = "__TEXT_EXEC" /\ UNCHANGED <<job, id, header, content, prelink, kmod>>
    BY <1>6 DEF RemoveFixups, Go
  <2>5. /\ ~Past("__TEXT") /\ Past("__TEXT")' = Past("__TEXT") /\ Past("forget")' = Past("forget")
        /\ Past("insert")' = Past("insert") /\ Past("verify")
        /\ Due("rename") /\ Due("insert") /\ Due("kmod") /\ \A s \in Copied : ~Past(s)'
    BY <2>4 DEF Past, Rank, Due, Copied
  <2>6. HeaderKept(f) /\ header = {}
    BY <2>2, <2>4, <2>5 DEF Progress, HeaderKept
  <2>7. \A s \in {"__DATA_CONST", "__DATA"} : s \in DOMAIN job.room[f] => <<f, s>> \in cleared'
    BY <2>1, <2>6 DEF Unlinked, Segments
  <2>8. SegmentsPast(f)'
    BY <2>4, <2>5, <2>7 DEF SegmentsPast
  <2> QED BY <2>2, <2>3, <2>4, <2>5, <2>6, <2>8, NamesStay, HeaderStays, LengthStays, PlacesStay DEF Progress
<1>7. ASSUME NEW s \in Copied \ {"__TEXT"}, NEW t, ReplaceSegment(s, t), Rank(t) = Rank(s) + 1
      PROVE  Progress'
  <2>1. PICK f \in ReadFileset(job.victim) :
           /\ content' = content \cup {<<f, s>>}
           /\ kmod' = IF s = "__DATA" THEN [kmod EXCEPT ![f] = "none"] ELSE kmod
    BY <1>7 DEF ReplaceSegment
  <2>2. pc = s /\ pc' = t /\ UNCHANGED <<job, id, header, cleared, prelink>>
    BY <1>7 DEF ReplaceSegment, Go
  <2>3. f \in VictimPlace /\ VictimPlace = {f}
    BY <2>1, <2>2, VictimFound, OneVictim DEF Before, Inv, Copied
  <2>4. pc' # "failed" /\ pc # "failed" /\ t \in {"__DATA_CONST", "__DATA", "__TEXT"}
    BY <1>7, <2>2 DEF Rank, Copied
  <2>5. /\ Past("__TEXT")' = Past("__TEXT") /\ Past("forget")' = Past("forget")
        /\ Past("insert")' = Past("insert") /\ Past("verify") /\ Due("unlink")
        /\ ~Past("rename")' /\ ~Past("insert")' /\ ~Past("kmod")'
        /\ \A q \in Copied : Due(q) \/ q = s
    BY <1>7, <2>2, <2>4 DEF Past, Rank, Due, Copied
  <2>6. NamesPast(f)'
    BY <2>5 DEF NamesPast
  <2>7. SegmentsPast(f)'
    BY <2>1, <2>2, <2>3, <2>5, SegmentsStay DEF Progress
  <2> QED BY <2>2, <2>3, <2>4, <2>5, <2>6, <2>7, HeaderStays, LengthStays, PlacesStay DEF Progress
<1>8. ASSUME CopySegments PROVE Progress'
  <2>1. Rank("__DATA_CONST") = Rank("__TEXT_EXEC") + 1 /\ Rank("__DATA") = Rank("__DATA_CONST") + 1
        /\ Rank("__TEXT") = Rank("__DATA") + 1
    BY DEF Rank
  <2>2. CASE \/ KextHasNot("__TEXT_EXEC", "__DATA_CONST") \/ KextHasNot("__DATA_CONST", "__DATA")
             \/ KextHasNot("__DATA", "__TEXT")
    BY <2>2, UnwrittenProgress DEF KextHasNot, Go
  <2>3. CASE ReplaceSegment("__TEXT_EXEC", "__DATA_CONST")
    BY <1>7, <2>1, <2>3 DEF Copied
  <2>4. CASE ReplaceSegment("__DATA_CONST", "__DATA")
    BY <1>7, <2>1, <2>4 DEF Copied
  <2>5. CASE ReplaceSegment("__DATA", "__TEXT")
    BY <1>7, <2>1, <2>5 DEF Copied
  <2> QED BY <1>8, <2>2, <2>3, <2>4, <2>5 DEF CopySegments
<1>9. CASE ReplaceTextSegment
  <2>1. PICK f \in ReadFileset(job.victim) :
           content' = content \cup {<<f, "__TEXT">>} /\ header' = header \cup {f}
    BY <1>9 DEF ReplaceTextSegment
  <2>2. pc = "__TEXT" /\ pc' = "split" /\ UNCHANGED <<job, id, cleared, prelink, kmod>>
    BY <1>9 DEF ReplaceTextSegment, Go
  <2>3. f \in VictimPlace /\ VictimPlace = {f}
    BY <2>1, <2>2, VictimFound, OneVictim DEF Before, Inv
  <2>4. /\ ~Past("__TEXT") /\ Past("__TEXT")' /\ Past("forget")' = Past("forget")
        /\ Past("insert")' = Past("insert") /\ Past("verify")
        /\ Due("unlink") /\ Due("rename") /\ Due("insert") /\ Due("kmod")
        /\ \A q \in Copied : Due(q) \/ q = "__TEXT"
    BY <2>2 DEF Past, Rank, Due, Copied
  <2>5. HeaderKept(f)'
    BY <2>1, <2>2, <2>3, <2>4 DEF Progress, HeaderKept
  <2>6. SegmentsPast(f)'
    BY <2>1, <2>2, <2>3, <2>4, SegmentsStay DEF Progress
  <2> QED BY <2>2, <2>3, <2>4, <2>5, <2>6, NamesStay, LengthStays, PlacesStay DEF Progress
<1>10. CASE RemovePrelinkInfo
  <2>1. PICK i \in EntriesOf(job.victim) : prelink' = Without(i)
    BY <1>10 DEF RemovePrelinkInfo, Written
  <2>2. pc = "forget" /\ pc' = "rename" /\ UNCHANGED <<job, id, header, content, cleared, kmod>>
    BY <1>10 DEF RemovePrelinkInfo, Go
  <2>3. prelink \in Seq(Entries) /\ i \in 1 .. Len(prelink)
    BY <2>1 DEF EntriesOf, Inv, Typed
  <2>4. Len(prelink') = Len(prelink) - 1
    BY <2>1, <2>3, RemoveKeeps DEF Without
  <2>5. /\ Past("__TEXT")' = Past("__TEXT") /\ ~Past("forget") /\ Past("forget")'
        /\ ~Past("insert")' /\ Past("verify") /\ Due("unlink")
        /\ ~Past("rename")' /\ ~Past("kmod")' /\ \A q \in Copied : Due(q)
    BY <2>2 DEF Past, Rank, Due, Copied
  <2>6. LengthKept'
    BY <2>2, <2>4, <2>5 DEF Progress, LengthKept
  <2>7. \A v : NamesPast(v)'
    BY <2>5 DEF NamesPast
  <2> QED BY <2>2, <2>5, <2>6, <2>7, SegmentsStay, HeaderStays, PlacesStay DEF Progress
<1>11. CASE ReplaceFilesetId
  <2>1. PICK f \in ReadFileset(job.victim) : id' = [id EXCEPT ![f] = job.kext.id]
    BY <1>11 DEF ReplaceFilesetId
  <2>2. pc = "rename" /\ pc' = "insert" /\ UNCHANGED <<job, header, content, cleared, prelink, kmod>>
    BY <1>11 DEF ReplaceFilesetId, Go
  <2>3. f \in VictimPlace /\ VictimPlace = {f} /\ id = job.ids
    BY <2>1, <2>2, VictimFound, OneVictim DEF Before, Inv
  <2>4. /\ Past("__TEXT")' = Past("__TEXT") /\ Past("forget")' = Past("forget")
        /\ Past("insert")' = Past("insert") /\ Past("verify") /\ Due("unlink")
        /\ ~Past("insert")' /\ ~Past("kmod")' /\ \A q \in Copied : Due(q)
    BY <2>2 DEF Past, Rank, Due, Copied
  <2>5. NamesPast(f)'
    BY <2>1, <2>2, <2>3, <2>4 DEF NamesPast
  <2> QED BY <2>2, <2>3, <2>4, <2>5, SegmentsStay, HeaderStays, LengthStays, PlacesStay DEF Progress
<1>12. ASSUME NEW f \in ReadFileset(job.kext.id), pc \in {"insert", "kmod"}
       PROVE  f \in VictimPlace /\ VictimPlace = {f}
  <2>1. f \in Places /\ id[f] = job.kext.id /\ job \in Jobs
    BY DEF ReadFileset, FirstOf, Inv, Typed
  <2>2. f \in VictimPlace
    BY <2>1 DEF NamesDiffer, Unambiguous, Inv, OthersUntouched, Untouched, VictimPlace
  <2> QED BY <2>2, OneVictim
<1>13. CASE InsertPrelinkInfo
  <2>1. PICK f \in ReadFileset(job.kext.id) : prelink' = Append(prelink, Entry(f))
    BY <1>13 DEF InsertPrelinkInfo, Written
  <2>2. pc = "insert" /\ pc' = "kmod" /\ UNCHANGED <<job, id, header, content, cleared, kmod>>
    BY <1>13 DEF InsertPrelinkInfo, Go
  <2>3. f \in VictimPlace /\ VictimPlace = {f}
    BY <1>12, <2>1, <2>2
  <2>4. prelink \in Seq(Entries) /\ job.prelink \in Seq(Entries)
    BY JobsAssumption DEF Inv, Typed
  <2>5. /\ Past("__TEXT")' = Past("__TEXT") /\ Past("forget") /\ Past("forget")'
        /\ ~Past("insert") /\ Past("insert")' /\ Past("verify") /\ Due("unlink")
        /\ Past("rename") /\ ~Past("kmod")' /\ \A q \in Copied : Due(q)
    BY <2>2 DEF Past, Rank, Due, Copied
  <2>6. LengthKept'
    <3>1. Len(prelink) = Len(job.prelink) - 1
      BY <2>2, <2>5 DEF Progress, LengthKept
    <3>2. Len(prelink') = Len(prelink) + 1
      BY <2>1, <2>4
    <3> QED BY <2>2, <2>4, <2>5, <3>1, <3>2 DEF LengthKept
  <2>7. NamesPast(f)'
    <3>1. prelink'[Len(prelink) + 1] = Entry(f) /\ Len(prelink) + 1 \in DOMAIN prelink'
      BY <2>1, <2>4
    <3>2. id' = [job.ids EXCEPT ![f] = job.kext.id]
      BY <2>2, <2>3, <2>5 DEF Progress, NamesPast
    <3> QED BY <2>2, <2>5, <3>1, <3>2 DEF NamesPast, Entry
  <2> QED BY <2>2, <2>3, <2>5, <2>6, <2>7, SegmentsStay, HeaderStays, PlacesStay DEF Progress
<1>14. CASE SetKmodInfo
  <2>1. PICK f \in ReadFileset(job.kext.id) : kmod' = [kmod EXCEPT ![f] = "set"]
    BY <1>14 DEF SetKmodInfo
  <2>2. pc = "kmod" /\ pc' = "bind" /\ UNCHANGED <<job, id, header, content, cleared, prelink>>
    BY <1>14 DEF SetKmodInfo, Go
  <2>3. f \in VictimPlace /\ VictimPlace = {f}
    BY <1>12, <2>1, <2>2
  <2>4. /\ Past("__TEXT")' = Past("__TEXT") /\ Past("forget")' = Past("forget")
        /\ Past("insert")' = Past("insert") /\ Past("verify") /\ Due("unlink")
        /\ Past("rename") /\ Past("insert") /\ \A q \in Copied : Due(q)
    BY <2>2 DEF Past, Rank, Due, Copied
  <2>5. kmod'[f] = "set"
    BY <2>1, <2>3 DEF Inv, Typed, VictimPlace, FirstOf
  <2>6. NamesPast(f)'
    BY <2>2, <2>3, <2>4, <2>5 DEF Progress, NamesPast
  <2> QED BY <2>2, <2>3, <2>4, <2>6, SegmentsStay, HeaderStays, LengthStays, PlacesStay DEF Progress
<1> QED BY <1>1, <1>3, <1>4, <1>5, <1>6, <1>8, <1>9, <1>10, <1>11, <1>13, <1>14 DEF Next, Copied

(* Whatever the kernelcache and the kext, a replacement that ends without   *)
(* giving up is complete: names, header, segments, kmod_info and prelink    *)
(* entries agree.                                                           *)
THEOREM ReplacementIsComplete ==
    ASSUME NamesDiffer, Consistent, Expected \subseteq Copied \cup {"__LINKEDIT"}
    PROVE  Spec => []Replaced
<1>1. Inv /\ Progress /\ [Next]_vars => Inv' /\ Progress'
  BY NextInv, NextProgress
<1>2. Inv /\ Progress => Replaced
  <2> SUFFICES ASSUME Inv, Progress, pc = "done", NEW v \in VictimPlace
               PROVE  /\ id = [job.ids EXCEPT ![v] = job.kext.id]
                      /\ header = {v}
                      /\ \A s \in Has \ {"__LINKEDIT"} : <<v, s>> \in content
                      /\ \A s \in {"__DATA_CONST", "__DATA"} :
                           s \in DOMAIN job.room[v] => <<v, s>> \in cleared
                      /\ kmod[v] = "set"
                      /\ Len(prelink) = Len(job.prelink)
                      /\ \A f \in Places : \E i \in DOMAIN prelink :
                           prelink[i].id = id[f] /\ prelink[i].text = f /\ prelink[i].data = f
    BY DEF Replaced
  <2>1. /\ Past("verify") /\ Past("unlink") /\ \A s \in Copied : Past(s)
        /\ Past("__TEXT") /\ Past("forget") /\ Past("rename") /\ Past("insert") /\ Past("kmod")
    BY DEF Past, Rank, Copied
  <2>2. VictimPlace = {v} /\ job \in Jobs
    BY OneVictim DEF Inv, Typed
  <2>3. /\ id = [job.ids EXCEPT ![v] = job.kext.id] /\ kmod[v] = "set"
        /\ \E i \in DOMAIN prelink :
             prelink[i].id = job.kext.id /\ prelink[i].text = v /\ prelink[i].data = v
    BY <2>1 DEF Progress, NamesPast
  <2>4. ASSUME NEW f \in Places \ {v}
        PROVE  \E i \in DOMAIN prelink :
                 prelink[i].id = id[f] /\ prelink[i].text = f /\ prelink[i].data = f
    <3>1. PICK k \in DOMAIN job.prelink :
             job.prelink[k].id = job.ids[f] /\ job.prelink[k].text = f /\ job.prelink[k].data = f
      BY <2>2, <2>4 DEF Consistent
    <3>2. job.ids[f] # job.victim
      BY <2>2, <2>4 DEF Consistent, VictimPlace, FirstOf
    <3>3. job.prelink[k] \in Range(prelink)
      BY <3>1, <3>2 DEF Inv, OthersUntouched, OthersEntriesKept
    <3>4. id[f] = job.ids[f]
      BY <2>2, <2>4 DEF Inv, OthersUntouched, Untouched
    <3> QED BY <3>1, <3>3, <3>4 DEF Range
  <2>5. v \in Places /\ id[v] = job.kext.id
    BY <2>3 DEF VictimPlace, FirstOf, Inv, Typed
  <2>6. header = {v} /\ Len(prelink) = Len(job.prelink)
    BY <2>1 DEF Progress, HeaderKept, LengthKept
  <2>7. /\ \A s \in Has \ {"__LINKEDIT"} : <<v, s>> \in content
        /\ \A s \in {"__DATA_CONST", "__DATA"} : s \in DOMAIN job.room[v] => <<v, s>> \in cleared
    BY <2>1 DEF Progress, SegmentsPast
  <2> QED BY <2>3, <2>4, <2>5, <2>6, <2>7
<1> QED BY <1>1, <1>2, InitInv, InitProgress, PTL DEF Spec
=============================================================================
