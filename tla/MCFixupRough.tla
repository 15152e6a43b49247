---------------------------- MODULE MCFixupRough ----------------------------
(* The editor on jobs it is not meant for: victim segments that cut a page  *)
(* anywhere, pointers on pages of no segment, one of the two bytes behind   *)
(* page_start taken for a page's chain, whose walk leaves the file.         *)
EXTENDS FixupChain, TLC

MCSeg == {1}
MCSegOffset == 1 :> 0
MCPageCount == 1 :> 2
MCPageSize == 8
MCNextLimit == 4
MCFileSize == 28
MCOverrun == 1 :> 14
MCKextNext == [c \in 0 .. MCFileSize - 1 |-> 3]

Range(a, b) == [lo |-> a, hi |-> b]
MCRanges == {{Range(5, 7)}, {Range(5, 14)}, {Range(14, 28)}, {Range(3, 16), Range(16, 20)}}
MCImages == SUBSET {1, 4, 5, 6, 9, 12, 15}
MCKexts(R) == SUBSET ({5, 11, 13, 18, 26} \cap UNION {r.lo .. r.hi - 1 : r \in R})

MCLayouts == UNION {[fixups : MCImages, ranges : {R}, kext : MCKexts(R)] : R \in MCRanges}
=============================================================================
