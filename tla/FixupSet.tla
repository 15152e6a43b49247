------------------------------ MODULE FixupSet ------------------------------
(* What replacing a fileset promises about the chained fixups of a          *)
(* kernelcache, with no chains in it: the set of file locations the kernel  *)
(* will slide and authenticate when it boots.  Everything inside the        *)
(* victim fileset's data segments goes, everything outside stays, and every *)
(* pointer of the new kext is added.                                        *)
EXTENDS Naturals

CONSTANTS
    Cells,     \* the file locations a fixup may have
    Layouts    \* the jobs: records with the fields fixups, ranges and kext

VARIABLES
    layout,    \* the job at hand, fixed at the start
    fixups,    \* the locations the kernel finds
    phase      \* "removing", "linking", "done" or "failed"

vars == <<layout, fixups, phase>>

CellsOf(r) == {c \in Cells : r.lo <= c /\ c < r.hi}
Victim == UNION {CellsOf(r) : r \in layout.ranges}

Init == /\ layout \in Layouts
        /\ fixups = layout.fixups
        /\ phase = "removing"

(* Some fixups of the victim disappear. *)
Drop == /\ phase = "removing"
        /\ \E D \in SUBSET (fixups \cap Victim) : fixups' = fixups \ D
        /\ UNCHANGED <<layout, phase>>

(* The kext's bytes replace the victim's: no fixup may be left under them. *)
StartLink == /\ phase = "removing"
             /\ fixups \cap Victim = {}
             /\ phase' = "linking"
             /\ UNCHANGED <<layout, fixups>>

Link == /\ phase = "linking"
        /\ \E c \in layout.kext \ fixups : fixups' = fixups \cup {c}
        /\ UNCHANGED <<layout, phase>>

Finish == /\ phase = "linking"
          /\ layout.kext \subseteq fixups
          /\ phase' = "done"
          /\ UNCHANGED <<layout, fixups>>

Fail == /\ phase \in {"removing", "linking"}
        /\ phase' = "failed"
        /\ UNCHANGED <<layout, fixups>>

Next == Drop \/ StartLink \/ Link \/ Finish \/ Fail

Spec == Init /\ [][Next]_vars
=============================================================================
