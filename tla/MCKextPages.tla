---------------------------- MODULE MCKextPages -----------------------------
(* As MCKextLink, with pages of 2 strides, four of them, each of which may  *)
(* hold a pointer to a kernel symbol.                                       *)
EXTENDS MCKextLink

MCPageCount4 == 4
PageStart(p) == 8 + 2 * p
OnPages(F) ==
    [Job("add", 12, F, [f \in F |-> Bind1], << >>, << >>) EXCEPT
        !.image = [Image("add", F, [f \in F |-> Bind1]) EXCEPT ![9].next = 0, ![11].next = 0, ![14].next = 0],
        !.start = [p \in 0 .. 3 |-> LET own == F \cap {PageStart(p), PageStart(p) + 1}
                                    IN IF own = {} THEN MCNone ELSE Min(own) - PageStart(p)]]
MCPagesJobs == {OnPages(F) : F \in SUBSET {9, 11, 14}}
=============================================================================
