---------------------------- MODULE MCFixupChain ----------------------------
(* The editor on jobs it is meant for.  Segment 1 has two pages and segment *)
(* 2 one, of 8 strides each, with links of less than 4 strides (the real    *)
(* proportion: half a page); behind each segment lies the page that         *)
(* find_fixup_segment counts too many, and the last page is no segment's.   *)
EXTENDS FixupChainProofs, TLC

MCSeg == {1, 2}
MCSegOffset == 1 :> 0 @@ 2 :> 24
MCPageCount == 1 :> 2 @@ 2 :> 1
MCPageSize == 8
MCNextLimit == 4
MCFileSize == 48
MCOverrun == 1 :> 0 @@ 2 :> 3
MCKextNext == [c \in 0 .. MCFileSize - 1 |-> c % MCNextLimit]

Range(a, b) == [lo |-> a, hi |-> b]

(* Data segments of the victim: the middle of a page, the end of one page   *)
(* and the start of the next, whole pages, two segments, one of them on     *)
(* pages without chains or sharing a page with the other.                   *)
MCRanges == {{Range(2, 6)}, {Range(4, 12)}, {Range(0, 16)}, {Range(3, 16)},
             {Range(0, 2), Range(4, 13)}, {Range(0, 8), Range(25, 29)},
             {Range(10, 12), Range(40, 48)}}

MCImages == {a \cup b \cup c : a \in SUBSET {0, 3, 5, 7},
                               b \in {{}, {8, 11}, {15}, {9, 10, 11, 12}, {9, 10, 12, 14}},
                               c \in {{}, {24, 27, 30}}}

MCKexts(R) == SUBSET ({2, 5, 10, 11, 28} \cap UNION {r.lo .. r.hi - 1 : r \in R})

Jobs == UNION {[fixups : MCImages, ranges : {R}, kext : MCKexts(R)] : R \in MCRanges}
MCLayouts == {l \in Jobs : Supported(l)}
=============================================================================
