------------------------------- MODULE Session ------------------------------
(* Runs of `kcmod replace' on one machine (main.cpp, temp.cpp): each copies *)
(* its kernelcache to a temporary file, maps and edits the copy, copies it  *)
(* to its output and removes it.  mkstemp's name is written into a string   *)
(* that is thrown away, so that every run uses the same path, whose last    *)
(* letters stay X, and leaves the file mkstemp made behind.                 *)
EXTENDS Naturals

CONSTANTS
    Runs,        \* the command lines, each with its input, kext and output
    NoRun,
    Files,       \* the files of the temporary directory, in or out of use
    NoFile,
    MayOverlap,  \* whether two runs may be under way at once
    Starts       \* bound on the number of times a run is started

ASSUME SessionAssumption ==
    /\ NoRun \notin Runs /\ NoFile \notin Files
    /\ MayOverlap \in BOOLEAN /\ Starts \in Nat

VARIABLES
    pc,      \* run -> where it is
    path,    \* the file the common path names, or NoFile
    file,    \* run -> the file it writes, maps or reads, or NoFile
    disk,    \* file -> what is in it
    output,  \* run -> what is in its output
    strays   \* files mkstemp created

vars == <<pc, path, file, disk, output, strays>>

(* A file is written and edited in two halves.  Of a half we know the run   *)
(* whose kernelcache it is from and the runs that edited it; Nothing is     *)
(* behind the end of the file, or zeros that were never written.            *)
Halves == {1, 2}
Half == [base : Runs \cup {NoRun}, edits : SUBSET Runs]
Contents == [Halves -> Half]
Nothing == [base |-> NoRun, edits |-> {}]
Empty == [h \in Halves |-> Nothing]
Input(r) == [h \in Halves |-> [base |-> r, edits |-> {}]]
Complete(r) == [h \in Halves |-> [base |-> r, edits |-> {r}]]
Cut(c) == [c EXCEPT ![2] = Nothing]

Init == /\ pc = [r \in Runs |-> "idle"]
        /\ path = NoFile
        /\ file = [r \in Runs |-> NoFile]
        /\ disk = [f \in Files |-> Empty]
        /\ output = [r \in Runs |-> Empty]
        /\ strays = 0

Underway(r) == pc[r] \notin {"idle", "done"}
Goto(r, l) == pc' = [pc EXCEPT ![r] = l]

(* TemporaryFile(): mkstemp. *)
MakeTemp(r) ==
    /\ pc[r] = "idle" /\ strays < Starts
    /\ MayOverlap \/ ~\E q \in Runs : Underway(q)
    /\ Goto(r, "copy")
    /\ strays' = strays + 1
    /\ UNCHANGED <<path, file, disk, output>>

(* copy_file opens the path, makes or empties the file, and fills it piece  *)
(* by piece.                                                                *)
Unused(f) == f # path /\ \A r \in Runs : file[r] # f

(* A mutant: copy_file with skip_existing. *)
OpenKept(r) ==
    /\ pc[r] = "copy"
    /\ \E f \in Files :
         /\ IF path = NoFile THEN Unused(f) ELSE f = path
         /\ path' = f
         /\ file' = [file EXCEPT ![r] = f]
         /\ disk' = IF path = NoFile THEN [disk EXCEPT ![f] = Empty] ELSE disk
    /\ Goto(r, IF path = NoFile THEN "fill" ELSE "map")
    /\ UNCHANGED <<output, strays>>

Open(r) ==
    /\ pc[r] = "copy"
    /\ \E f \in Files :
         /\ IF path = NoFile THEN Unused(f) ELSE f = path
         /\ path' = f
         /\ file' = [file EXCEPT ![r] = f]
         /\ disk' = [disk EXCEPT ![f] = Empty]
    /\ Goto(r, "fill")
    /\ UNCHANGED <<output, strays>>

Fill(r, from, h, to) ==
    /\ pc[r] = from
    /\ disk' = [disk EXCEPT ![file[r]][h] = Input(r)[h]]
    /\ Goto(r, to)
    /\ UNCHANGED <<path, file, output, strays>>

(* mmap_sink maps what the path names by then.  It throws if that is        *)
(* nothing or empty, and replace_fileset if a part is missing: the chained  *)
(* fixups, which it reads first, are at the end (Die).                      *)
Map(r) ==
    /\ pc[r] = "map" /\ path # NoFile
    /\ \A h \in Halves : disk[path][h] # Nothing
    /\ file' = [file EXCEPT ![r] = path]
    /\ Goto(r, "edit")
    /\ UNCHANGED <<path, disk, output, strays>>

(* replace_fileset; a mapping whose file was emptied faults (Die). *)
Edit(r, from, h, to) ==
    /\ pc[r] = from /\ disk[file[r]][h] # Nothing
    /\ disk' = [disk EXCEPT ![file[r]][h].edits = @ \cup {r}]
    /\ Goto(r, to)
    /\ UNCHANGED <<path, file, output, strays>>

(* copy_file to the output: the path is opened, the output emptied, then    *)
(* written piece by piece, as far as there is something to copy.  A signal, *)
(* a full disk or an error between two pieces leaves it cut short (Die).    *)
(* A mutant: the copy made while the edits are under way. *)
OpenOutputEarly(r) ==
    /\ pc[r] = "editing" /\ path # NoFile
    /\ file' = [file EXCEPT ![r] = path]
    /\ output' = [output EXCEPT ![r] = Empty]
    /\ Goto(r, "write")
    /\ UNCHANGED <<path, disk, strays>>

OpenOutput(r) ==
    /\ pc[r] = "deliver" /\ path # NoFile
    /\ file' = [file EXCEPT ![r] = path]
    /\ output' = [output EXCEPT ![r] = Empty]
    /\ Goto(r, "write")
    /\ UNCHANGED <<path, disk, strays>>

WriteOutput(r, from, h, to) ==
    /\ pc[r] = from
    /\ output' = [output EXCEPT ![r][h] = disk[file[r]][h]]
    /\ Goto(r, to)
    /\ UNCHANGED <<path, file, disk, strays>>

(* ~TemporaryFile: whatever the path names is removed. *)
Remove(r) ==
    /\ pc[r] = "remove"
    /\ path' = NoFile
    /\ file' = [file EXCEPT ![r] = NoFile]
    /\ Goto(r, "done")
    /\ UNCHANGED <<disk, output, strays>>

(* A verification that fails, any other uncaught exception, a fault or a    *)
(* signal ends the process at once: no destructor runs.  The user may start *)
(* the run again.                                                           *)
Die(r) ==
    /\ Underway(r)
    /\ Goto(r, "idle")
    /\ file' = [file EXCEPT ![r] = NoFile]
    /\ UNCHANGED <<path, disk, output, strays>>

Rest == /\ \A r \in Runs : ~Underway(r)
        /\ strays = Starts \/ \A r \in Runs : pc[r] = "done"
        /\ UNCHANGED vars

FillTemp(r) == Fill(r, "fill", 1, "filling") \/ Fill(r, "filling", 2, "map")
EditTemp(r) == Edit(r, "edit", 1, "editing") \/ Edit(r, "editing", 2, "deliver")
FillOutput(r) == WriteOutput(r, "write", 1, "writing") \/ WriteOutput(r, "writing", 2, "remove")

Next == \/ \E r \in Runs : \/ MakeTemp(r) \/ Open(r) \/ FillTemp(r) \/ Map(r)
                           \/ EditTemp(r) \/ OpenOutput(r) \/ FillOutput(r)
                           \/ Remove(r) \/ Die(r)
        \/ Rest

Spec == Init /\ [][Next]_vars

-----------------------------------------------------------------------------
(* A run that begins to edit has its own kernelcache before it, untouched,  *)
(* whatever earlier runs that died left at the common path.                 *)
EditsOwnCopy == \A r \in Runs : pc[r] = "edit" => disk[file[r]] = Input(r)

(* "-o --output <output>  Output kernelcache" (main.cpp:44): an output is    *)
(* this run's kernelcache with all of its edits and no others, or as much   *)
(* of it as was copied when the run died during the copy.  It never has an  *)
(* unfinished edit or anything of another run, and when the run has ended   *)
(* it is complete.                                                          *)
OnlyResultsDelivered ==
    \A r \in Runs :
      /\ output[r] \in {Empty, Cut(Complete(r)), Complete(r)}
      /\ pc[r] \in {"remove", "done"} => output[r] = Complete(r)
=============================================================================
