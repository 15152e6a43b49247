-------------------------- MODULE MCFixupTrailing ---------------------------
(* Victim segments that end in the middle of a page whose last fixup is     *)
(* theirs: jobs that are not Anchored, everything else as in MCFixupChain.  *)
EXTENDS FixupChain, TLC

MCSeg == {1}
MCSegOffset == 1 :> 0
MCPageCount == 1 :> 2
MCPageSize == 8
MCNextLimit == 4
MCFileSize == 24
MCOverrun == 1 :> 0
MCKextNext == [c \in 0 .. MCFileSize - 1 |-> c % MCNextLimit]

Range(a, b) == [lo |-> a, hi |-> b]
Jobs == UNION {[fixups : SUBSET {1, 3, 6, 8, 11}, ranges : {{R}}, kext : {{}, {R.lo + 1}}] :
                 R \in {Range(2, 7), Range(5, 14)}}
MCLayouts == {l \in Jobs :
    /\ InTheFile(l) /\ Compact(l)
    /\ \A r \in l.ranges, p \in Pages :
         \E f \in InPage(l.fixups, p) : ~(r.lo <= f /\ f < r.hi)}
=============================================================================
