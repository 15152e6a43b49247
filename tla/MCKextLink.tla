----------------------------- MODULE MCKextLink -----------------------------
(* A kext with code at 0 .. 3 and data at 8 .. 15, which move by different  *)
(* distances; the data page holds up to three pointers, a second page none. *)
EXTENDS KextLink, TLC, SequencesExt

MCPlaces == 0 .. 3 \cup 8 .. 15
MCSegment == [a \in MCPlaces |-> IF a < 4 THEN "text" ELSE "data"]
MCShift == "text" :> 36 @@ "data" :> 50
MCVmBase == 32
MCPageWords == 8
MCAlign == 2
MCChainOffset == 8
MCPageCount == 2
MCNone == 65535
MCKernel == "kernel"
MCKpi == {"kpi"}

Plain(op, val) == [op |-> op, bind |-> FALSE, auth |-> FALSE, addend |-> 0, next |-> 0, val |-> val]
Kinds == {[bind |-> FALSE, auth |-> FALSE, val |-> 2], [bind |-> FALSE, auth |-> TRUE, val |-> 12],
          [bind |-> TRUE, auth |-> FALSE, val |-> 0], [bind |-> TRUE, auth |-> TRUE, val |-> 1]}

NextOf(F, f) == LET after == {g \in F : g > f} IN IF after = {} THEN 0 ELSE Min(after) - f
Pointer(F, k, f) == [op |-> "word", bind |-> k[f].bind, auth |-> k[f].auth, addend |-> 0,
                     next |-> NextOf(F, f), val |-> k[f].val]
Image(op, F, k) ==
    [a \in MCPlaces |-> IF a \in F THEN Pointer(F, k, a)
                        ELSE Plain(IF a = 0 THEN "adrp" ELSE IF a = 1 THEN op ELSE "word", 0)]

E(kind, from, to) == [kind |-> kind, from |-> from, to |-> to]
Code(to) == <<E("adrp", 0, to), E("off12", 1, to), E("branch", 2, 3)>>
Rebases(F, k) == LET R == SetToSeq({f \in F : ~k[f].bind})
                 IN [n \in 1 .. Len(R) |-> E("pointer", R[n], k[R[n]].val)]

Names == <<"a", "b">>
Tables == "kernel" :> <<[name |-> "a", undef |-> FALSE, vmaddr |-> 40],
                        [name |-> "b", undef |-> TRUE, vmaddr |-> 0]>>
          @@ "other" :> <<[name |-> "b", undef |-> FALSE, vmaddr |-> 44],
                          [name |-> "low", undef |-> FALSE, vmaddr |-> 4]>>
NoJson == [x \in {} |-> 0]

Job(op, to, F, k, first, last) ==
    [image |-> Image(op, F, k),
     start |-> 0 :> (IF F = {} THEN MCNone ELSE Min(F) - 8) @@ 1 :> MCNone,
     entries |-> first \o Rebases(F, k) \o last,
     imports |-> Names, tables |-> Tables, json |-> NoJson, libraries |-> {"kpi", "other"}, fixups |-> F]

Regular == UNION {{Job(op, to, F, k, Code(to), << >>) : k \in [F -> Kinds], op \in {"add", "ldr"}, to \in {12, 13}}
                    : F \in SUBSET {9, 11, 14}}

All(k) == [f \in {9, 11} |-> k]
Rebase1 == CHOOSE k \in Kinds : ~k.bind
Bind1 == CHOOSE k \in Kinds : k.bind /\ ~k.auth
Variant(k, last) == Job("add", 12, {9, 11}, All(k), << >>, last)

(* What the two passes refuse. *)
Irregular ==
    {Variant(Rebase1, <<E(kind, 2, 2)>>) : kind \in {"other", "adrp", "off12"}}
    \cup {Variant(Rebase1, <<E("branch", 2, 12)>>),
          Variant(Rebase1, <<E("pointer", 9, 12)>>),
          Variant(Bind1, <<E("pointer", 11, 12)>>),
          [Variant(Bind1, << >>) EXCEPT !.image[11].addend = 1],
          [Variant(Bind1, << >>) EXCEPT !.image[11].next = 5],
          [Variant(Bind1, << >>) EXCEPT !.image[9].val = 7],
          [Variant(Bind1, << >>) EXCEPT !.imports = <<"low">>],
          [Variant(Bind1, << >>) EXCEPT !.imports = <<"gone">>],
          [Variant(Bind1, << >>) EXCEPT !.libraries = {"gone"}],
          [Variant(Bind1, << >>) EXCEPT !.json = "kernel" :> ("a" :> 48)]}

(* The kexts the theorems are about. *)
ASSUME RegularIsSupported == PageCount = MCPageCount => \A j \in Regular : Supported(j)

MCJobs == Regular \cup Irregular
=============================================================================
