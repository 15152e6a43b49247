---------------------------- MODULE SessionProofs ---------------------------
(* Runs that do not overlap do not disturb each other, however many there   *)
(* are and wherever the earlier ones died.                                  *)
EXTENDS Session, TLAPS

Locations == {"idle", "copy", "fill", "filling", "map", "edit", "editing", "deliver",
              "write", "writing", "remove", "done"}

Typed ==
    /\ pc \in [Runs -> Locations]
    /\ path \in Files \cup {NoFile}
    /\ file \in [Runs -> Files \cup {NoFile}]
    /\ disk \in [Files -> Contents]
    /\ output \in [Runs -> Contents]

Alone == \A q, r \in Runs : Underway(q) /\ Underway(r) => q = r

(* The run under way has the file at the path, with what it put there, and  *)
(* has copied to its output as much as it should have.                      *)
Holding == {"fill", "filling", "map", "edit", "editing", "deliver", "write", "writing", "remove"}
Expected(r, c) ==
    /\ pc[r] = "filling" => c[1] = Input(r)[1]
    /\ pc[r] \in {"map", "edit"} => c = Input(r)
    /\ pc[r] = "editing" => c[1] = Complete(r)[1] /\ c[2] = Input(r)[2]
    /\ pc[r] \in {"deliver", "write", "writing"} => c = Complete(r)
Owned == \A r \in Runs : pc[r] \in Holding =>
            path \in Files /\ file[r] = path /\ Expected(r, disk[path])
Copied == \A r \in Runs : /\ pc[r] = "write" => output[r] = Empty
                          /\ pc[r] = "writing" => output[r] = Cut(Complete(r))

Inv == Typed /\ Alone /\ Owned /\ Copied /\ OnlyResultsDelivered

(* The contents the runs write are contents. *)
LEMMA ContentsFacts ==
    /\ Empty \in Contents /\ Nothing \in Half
    /\ \A r \in Runs : Input(r) \in Contents /\ Complete(r) \in Contents
<1>1. Empty \in Contents /\ Nothing \in Half
  BY DEF Empty, Contents, Nothing, Half
<1>2. ASSUME NEW r \in Runs
      PROVE  Input(r) \in Contents /\ Complete(r) \in Contents
  BY DEF Input, Complete, Contents, Half
<1> QED BY <1>1, <1>2

(* Two files are alike if their halves are. *)
LEMMA SameHalves ==
    ASSUME NEW c \in Contents, NEW d \in Contents, c[1] = d[1], c[2] = d[2]
    PROVE  c = d
BY DEF Contents, Halves

(* A write to one half of a file leaves a file. *)
Put(f, x, h, v) == [f EXCEPT ![x][h] = v]
LEMMA HalfWritten ==
    ASSUME NEW S, NEW f \in [S -> Contents], NEW x \in S, NEW h \in Halves, NEW v \in Half
    PROVE  /\ Put(f, x, h, v) \in [S -> Contents]
           /\ \A y \in S : y # x => Put(f, x, h, v)[y] = f[y]
           /\ Put(f, x, h, v)[x] \in Contents /\ Put(f, x, h, v)[x][h] = v
           /\ \A k \in Halves : k # h => Put(f, x, h, v)[x][k] = f[x][k]
<1> DEFINE c == [f[x] EXCEPT ![h] = v]
           g == Put(f, x, h, v)
<1>1. f[x] \in Contents
  OBVIOUS
<1>2. c \in Contents /\ c[h] = v /\ \A k \in Halves : k # h => c[k] = f[x][k]
  BY <1>1 DEF Contents
<1>3. g = [f EXCEPT ![x] = c]
  BY DEF Put
<1> HIDE DEF c, g
<1>4. g \in [S -> Contents] /\ g[x] = c /\ \A y \in S : y # x => g[y] = f[y]
  BY <1>2, <1>3
<1> QED BY <1>2, <1>4 DEF g

(* An edit changes no half but the one it is made to. *)
LEMMA EditFacts ==
    ASSUME NEW r \in Runs
    PROVE  /\ [Input(r)[1] EXCEPT !.edits = @ \cup {r}] = Complete(r)[1]
           /\ [Input(r)[2] EXCEPT !.edits = @ \cup {r}] = Complete(r)[2]
BY DEF Input, Complete, Halves

(* At the start nothing is under way and no output is written. *)
LEMMA InitInv == Init => Inv
<1> SUFFICES ASSUME Init PROVE Inv
  OBVIOUS
<1>1. Typed
  BY ContentsFacts DEF Init, Typed, Locations
<1>2. Alone /\ Owned /\ Copied
  BY DEF Init, Alone, Owned, Copied, Underway, Holding
<1>3. OnlyResultsDelivered
  BY DEF Init, OnlyResultsDelivered
<1> QED BY <1>1, <1>2, <1>3 DEF Inv

(* Whoever takes a step other than its first is the one under way. *)
LEMMA OthersRest ==
    ASSUME Inv, NEW r \in Runs, Underway(r)
    PROVE  \A q \in Runs : q # r => pc[q] \in {"idle", "done"}
BY DEF Inv, Alone, Underway

(* A run starts only when no other is under way. *)
LEMMA MakeTempInv ==
    ASSUME ~MayOverlap, Inv, NEW r \in Runs, MakeTemp(r)
    PROVE  Inv'
<1> USE DEF MakeTemp, Goto, Inv
<1>1. Typed'
  BY DEF Typed, Locations
<1>2. Alone'
  BY DEF Alone, Underway, Typed
<1>3. Owned'
  BY DEF Owned, Typed, Holding, Expected
<1>4. Copied'
  BY DEF Copied, Typed
<1>5. OnlyResultsDelivered'
  BY DEF OnlyResultsDelivered, Typed
<1> QED BY <1>1, <1>2, <1>3, <1>4, <1>5

(* What copying in needs is that nobody else holds the file. *)
LEMMA OpenInv ==
    ASSUME Inv, NEW r \in Runs, Open(r)
    PROVE  Inv'
<1> USE DEF Open, Goto, Inv
<1>0. Underway(r)
  BY DEF Underway
<1>1. Typed'
  BY ContentsFacts DEF Typed, Locations
<1>2. Alone'
  BY <1>0, OthersRest DEF Alone, Underway, Typed
<1>3. Owned'
  BY <1>0, OthersRest DEF Owned, Typed, Holding, Expected
<1>4. Copied'
  BY DEF Copied, Typed
<1>5. OnlyResultsDelivered'
  BY DEF OnlyResultsDelivered, Typed
<1> QED BY <1>1, <1>2, <1>3, <1>4, <1>5

(* The file has one half of the input after the other. *)
LEMMA FillInv ==
    ASSUME Inv, NEW r \in Runs, FillTemp(r)
    PROVE  Inv'
<1> USE DEF Goto, Inv
<1>0. Underway(r) /\ path \in Files /\ file[r] = path /\ disk \in [Files -> Contents]
      /\ (pc[r] = "filling" => disk[path][1] = Input(r)[1])
  BY DEF Underway, Owned, Holding, Expected, FillTemp, Fill, Typed
<1>a. PICK h \in Halves, to \in {"filling", "map"} :
        /\ pc' = [pc EXCEPT ![r] = to] /\ disk' = [disk EXCEPT ![path][h] = Input(r)[h]]
        /\ UNCHANGED <<path, file, output, strays>>
        /\ \/ h = 1 /\ to = "filling"
           \/ h = 2 /\ to = "map" /\ pc[r] = "filling"
  BY <1>0 DEF FillTemp, Fill, Halves
<1> USE <1>a
<1>b. Input(r)[h] \in Half /\ Input(r) \in Contents
  BY ContentsFacts DEF Contents
<1>c. /\ disk' \in [Files -> Contents] /\ disk'[path][h] = Input(r)[h]
      /\ \A k \in Halves : k # h => disk'[path][k] = disk[path][k]
  <2>1. disk' = Put(disk, path, h, Input(r)[h])
    BY <1>a DEF Put
  <2>2. disk \in [Files -> Contents] /\ path \in Files /\ h \in Halves /\ Input(r)[h] \in Half
    BY <1>0, <1>b
  <2> HIDE <1>a DEF Inv
  <2> QED BY <2>1, <2>2, HalfWritten
<1>d. /\ disk'[path] \in Contents /\ disk'[path][1] = Input(r)[1]
      /\ to = "map" => disk'[path] = Input(r)
  <2>1. disk'[path] \in Contents /\ 1 \in Halves /\ 2 \in Halves
    BY <1>0, <1>c DEF Halves
  <2>2. disk'[path][1] = Input(r)[1] /\ (to = "map" => disk'[path][2] = Input(r)[2])
    BY <1>0, <1>c, <2>1
  <2> QED BY <1>b, <2>1, <2>2, SameHalves
<1>1. Typed'
  BY <1>0, <1>c DEF Typed, Locations
<1>2. Alone'
  BY <1>0, OthersRest DEF Alone, Underway, Typed
<1>3. Owned'
  BY <1>0, <1>d, OthersRest DEF Owned, Typed, Holding, Expected
<1>4. Copied'
  BY DEF Copied, Typed
<1>5. OnlyResultsDelivered'
  BY DEF OnlyResultsDelivered, Typed
<1> QED BY <1>1, <1>2, <1>3, <1>4, <1>5

(* The run maps the file it filled. *)
LEMMA MapInv ==
    ASSUME Inv, NEW r \in Runs, Map(r)
    PROVE  Inv'
<1> USE DEF Map, Goto, Inv
<1>0. Underway(r)
  BY DEF Underway
<1>1. Typed'
  BY DEF Typed, Locations
<1>2. Alone'
  BY <1>0, OthersRest DEF Alone, Underway, Typed
<1>3. Owned'
  BY <1>0, OthersRest DEF Owned, Typed, Holding, Expected
<1>4. Copied'
  BY DEF Copied, Typed
<1>5. OnlyResultsDelivered'
  BY DEF OnlyResultsDelivered, Typed
<1> QED BY <1>1, <1>2, <1>3, <1>4, <1>5

(* The run's edits, to one half after the other, are the only ones the file *)
(* has.                                                                     *)
LEMMA EditInv ==
    ASSUME Inv, NEW r \in Runs, EditTemp(r)
    PROVE  Inv'
<1> USE DEF Goto, Inv
<1>0. Underway(r) /\ path \in Files /\ file[r] = path /\ disk \in [Files -> Contents]
      /\ (pc[r] = "edit" => disk[path] = Input(r))
      /\ (pc[r] = "editing" => disk[path][1] = Complete(r)[1] /\ disk[path][2] = Input(r)[2])
  BY DEF Underway, Owned, Holding, Expected, EditTemp, Edit, Typed
<1>a. PICK h \in Halves, to \in {"editing", "deliver"} :
        /\ pc' = [pc EXCEPT ![r] = to] /\ disk' = [disk EXCEPT ![path][h].edits = @ \cup {r}]
        /\ UNCHANGED <<path, file, output, strays>>
        /\ \/ h = 1 /\ to = "editing" /\ pc[r] = "edit"
           \/ h = 2 /\ to = "deliver" /\ pc[r] = "editing"
  BY <1>0 DEF EditTemp, Edit, Halves
<1> USE <1>a
<1>b. Complete(r)[h] \in Half /\ Complete(r) \in Contents /\ Input(r) \in Contents
  BY ContentsFacts DEF Contents
<1>e. disk[path][h] = Input(r)[h] /\ [disk[path][h] EXCEPT !.edits = @ \cup {r}] = Complete(r)[h]
  BY <1>0, EditFacts
<1>f. disk' = [disk EXCEPT ![path][h] = Complete(r)[h]]
  <2>1. disk' = [disk EXCEPT ![path][h] = [disk[path][h] EXCEPT !.edits = @ \cup {r}]]
    <3> HIDE DEF Inv
    <3> QED BY <1>0
  <2> QED BY <1>e, <2>1
<1>c. /\ disk' \in [Files -> Contents] /\ disk'[path][h] = Complete(r)[h]
      /\ \A k \in Halves : k # h => disk'[path][k] = disk[path][k]
  <2>1. disk' = Put(disk, path, h, Complete(r)[h])
    BY <1>f DEF Put
  <2>2. disk \in [Files -> Contents] /\ path \in Files /\ h \in Halves /\ Complete(r)[h] \in Half
    BY <1>0, <1>b
  <2> HIDE <1>a DEF Inv
  <2> QED BY <2>1, <2>2, HalfWritten
<1>d. /\ disk'[path] \in Contents /\ disk'[path][1] = Complete(r)[1]
      /\ to = "editing" => disk'[path][2] = Input(r)[2]
      /\ to = "deliver" => disk'[path] = Complete(r)
  <2>1. disk'[path] \in Contents /\ 1 \in Halves /\ 2 \in Halves
    BY <1>0, <1>c DEF Halves
  <2>2. /\ disk'[path][1] = Complete(r)[1]
        /\ to = "editing" => disk'[path][2] = Input(r)[2]
        /\ to = "deliver" => disk'[path][2] = Complete(r)[2]
    <3>1. CASE h = 1 /\ to = "editing" /\ pc[r] = "edit"
      BY <1>0, <1>c, <2>1, <3>1
    <3>2. CASE h = 2 /\ to = "deliver" /\ pc[r] = "editing"
      BY <1>0, <1>c, <2>1, <3>2
    <3> QED BY <1>a, <3>1, <3>2
  <2> QED BY <1>b, <2>1, <2>2, SameHalves
<1>1. Typed'
  BY <1>0, <1>c DEF Typed, Locations
<1>2. Alone'
  BY <1>0, OthersRest DEF Alone, Underway, Typed
<1>3. Owned'
  BY <1>0, <1>d, OthersRest DEF Owned, Typed, Holding, Expected
<1>4. Copied'
  BY DEF Copied, Typed
<1>5. OnlyResultsDelivered'
  BY DEF OnlyResultsDelivered, Typed
<1> QED BY <1>1, <1>2, <1>3, <1>4, <1>5

(* An output is emptied before it is filled. *)
LEMMA OpenOutputInv ==
    ASSUME Inv, NEW r \in Runs, OpenOutput(r)
    PROVE  Inv'
<1> USE DEF OpenOutput, Goto, Inv
<1>0. Underway(r)
  BY DEF Underway
<1>1. Typed'
  BY ContentsFacts DEF Typed, Locations
<1>2. Alone'
  BY <1>0, OthersRest DEF Alone, Underway, Typed
<1>3. Owned'
  BY <1>0, OthersRest DEF Owned, Typed, Holding, Expected
<1>4. Copied'
  BY <1>0, OthersRest DEF Copied, Typed
<1>5. OnlyResultsDelivered'
  BY DEF OnlyResultsDelivered, Typed
<1> QED BY <1>1, <1>2, <1>3, <1>4, <1>5

(* What is written is what the run edited. *)
LEMMA WriteOutputInv ==
    ASSUME Inv, NEW r \in Runs, FillOutput(r)
    PROVE  Inv'
<1> USE DEF Goto, Inv
<1>0. /\ Underway(r) /\ path \in Files /\ file[r] = path /\ disk[path] = Complete(r)
      /\ output \in [Runs -> Contents]
      /\ (pc[r] = "write" => output[r] = Empty)
      /\ (pc[r] = "writing" => output[r] = Cut(Complete(r)))
  BY DEF Underway, Owned, Holding, Expected, FillOutput, WriteOutput, Typed, Copied
<1>a. PICK h \in Halves, to \in {"writing", "remove"} :
        /\ pc' = [pc EXCEPT ![r] = to] /\ output' = [output EXCEPT ![r][h] = Complete(r)[h]]
        /\ UNCHANGED <<path, file, disk, strays>>
        /\ \/ h = 1 /\ to = "writing" /\ pc[r] = "write"
           \/ h = 2 /\ to = "remove" /\ pc[r] = "writing"
  BY <1>0 DEF FillOutput, WriteOutput, Halves
<1> USE <1>a
<1>b. Complete(r)[h] \in Half /\ Complete(r) \in Contents /\ Cut(Complete(r)) \in Contents
  BY ContentsFacts DEF Contents, Cut
<1>c. /\ output' \in [Runs -> Contents] /\ output'[r] \in Contents /\ output'[r][h] = Complete(r)[h]
      /\ \A k \in Halves : k # h => output'[r][k] = output[r][k]
      /\ \A q \in Runs : q # r => output'[q] = output[q]
  <2>1. output' = Put(output, r, h, Complete(r)[h])
    BY <1>a, <1>0 DEF Put
  <2>2. output \in [Runs -> Contents] /\ r \in Runs /\ h \in Halves /\ Complete(r)[h] \in Half
    BY <1>0, <1>b
  <2> HIDE <1>a DEF Inv
  <2> QED BY <2>1, <2>2, HalfWritten
<1>d. /\ to = "writing" => output'[r] = Cut(Complete(r))
      /\ to = "remove" => output'[r] = Complete(r)
  <2>1. /\ Empty[2] = Nothing /\ Cut(Complete(r))[1] = Complete(r)[1] /\ Cut(Complete(r))[2] = Nothing
    BY <1>b DEF Empty, Cut, Halves, Contents
  <2>2. 1 \in Halves /\ 2 \in Halves
    BY DEF Halves
  <2>3. CASE h = 1 /\ to = "writing" /\ pc[r] = "write"
    <3>1. output'[r][1] = Cut(Complete(r))[1] /\ output'[r][2] = Cut(Complete(r))[2]
      BY <1>0, <1>c, <2>1, <2>2, <2>3
    <3> QED BY <1>b, <1>c, <2>3, <3>1, SameHalves
  <2>4. CASE h = 2 /\ to = "remove" /\ pc[r] = "writing"
    <3>1. output'[r][1] = Complete(r)[1] /\ output'[r][2] = Complete(r)[2]
      BY <1>0, <1>c, <2>1, <2>2, <2>4
    <3> QED BY <1>b, <1>c, <2>4, <3>1, SameHalves
  <2> QED BY <1>a, <2>3, <2>4
<1>1. Typed'
  BY <1>0, <1>c DEF Typed, Locations
<1>2. Alone'
  BY <1>0, OthersRest DEF Alone, Underway, Typed
<1>3. Owned'
  BY <1>0, OthersRest DEF Owned, Typed, Holding, Expected
<1>4. Copied'
  BY <1>0, <1>c, <1>d, OthersRest DEF Copied, Typed
<1>5. OnlyResultsDelivered'
  BY <1>0, <1>c, <1>d, OthersRest DEF OnlyResultsDelivered, Typed
<1> QED BY <1>1, <1>2, <1>3, <1>4, <1>5

(* Nobody else holds the file that is removed. *)
LEMMA RemoveInv ==
    ASSUME Inv, NEW r \in Runs, Remove(r)
    PROVE  Inv'
<1> USE DEF Remove, Goto, Inv
<1>0. Underway(r)
  BY DEF Underway
<1>1. Typed'
  BY DEF Typed, Locations
<1>2. Alone'
  BY <1>0, OthersRest DEF Alone, Underway, Typed
<1>3. Owned'
  BY <1>0, OthersRest DEF Owned, Typed, Holding, Expected
<1>4. Copied'
  BY DEF Copied, Typed
<1>5. OnlyResultsDelivered'
  BY DEF OnlyResultsDelivered, Typed
<1> QED BY <1>1, <1>2, <1>3, <1>4, <1>5

(* A run may die anywhere: what its output holds is the result or its head. *)
LEMMA DieInv ==
    ASSUME Inv, NEW r \in Runs, Die(r)
    PROVE  Inv'
<1> USE DEF Die, Goto, Inv
<1>1. Typed'
  BY DEF Typed, Locations
<1>2. Alone'
  BY DEF Alone, Underway, Typed
<1>3. Owned'
  BY DEF Owned, Typed, Holding, Expected
<1>4. Copied'
  BY DEF Copied, Typed
<1>5. OnlyResultsDelivered'
  BY DEF OnlyResultsDelivered, Typed
<1> QED BY <1>1, <1>2, <1>3, <1>4, <1>5

(* Runs that do not overlap keep the invariant. *)
LEMMA Invariance == ASSUME ~MayOverlap PROVE Spec => []Inv
<1>1. Init => Inv
  BY InitInv
<1>2. Inv /\ [Next]_vars => Inv'
  <2> SUFFICES ASSUME Inv, [Next]_vars PROVE Inv'
    OBVIOUS
  <2>1. CASE UNCHANGED vars
    BY <2>1 DEF vars, Inv, Typed, Alone, Owned, Copied, OnlyResultsDelivered, Underway, Expected
  <2>2. CASE Rest
    BY <2>2 DEF Rest, vars, Inv, Typed, Alone, Owned, Copied, OnlyResultsDelivered, Underway, Expected
  <2>3. ASSUME NEW r \in Runs,
               MakeTemp(r) \/ Open(r) \/ FillTemp(r) \/ Map(r) \/ EditTemp(r)
               \/ OpenOutput(r) \/ FillOutput(r) \/ Remove(r) \/ Die(r)
        PROVE  Inv'
    BY <2>3, MakeTempInv, OpenInv, FillInv, MapInv, EditInv,
       OpenOutputInv, WriteOutputInv, RemoveInv, DieInv
  <2> QED BY <2>1, <2>2, <2>3 DEF Next
<1> QED BY <1>1, <1>2, PTL DEF Spec

(* A run that begins to edit has its own kernelcache before it, whatever    *)
(* runs that died before left behind, as long as runs do not overlap.       *)
THEOREM EditsAreIsolated == ASSUME ~MayOverlap PROVE Spec => []EditsOwnCopy
<1>1. Inv => EditsOwnCopy
  BY DEF Inv, Owned, EditsOwnCopy, Holding, Expected
<1> QED BY <1>1, Invariance, PTL

(* Whatever is found in an output is this run's result, or its head if the  *)
(* run died while copying it; nothing unfinished and nothing of another run *)
(* is ever there, as long as runs do not overlap.                           *)
THEOREM DeliveriesAreResults == ASSUME ~MayOverlap PROVE Spec => []OnlyResultsDelivered
<1>1. Inv => OnlyResultsDelivered
  BY DEF Inv
<1> QED BY <1>1, Invariance, PTL
=============================================================================
