------------------------------- MODULE MCHooks ------------------------------
(* Two kernel functions at 0 and 4, a kext with two overrides at 8 and 16,  *)
(* each passing on to its super function.  The kext was linked for 100.     *)
EXTENDS Hooks, TLC

MCWords == 0 .. 23
MCNames == {1, 2, 3}
MCKernel == "kernel"
MCKpi == {"kpi"}
MCPageWords == 8
MCKextText == 100
MCFilesetText == 8

(* tbz does not reach the kext, adr only reaches its first super function. *)
MCReach == [adr |-> 12, adrp |-> 64, b |-> 64, cbz |-> 32, tbz |-> 6,
            bcond |-> 32, ldr |-> 32, movw |-> 32]

I(op, off) == [op |-> op, off |-> off]

(* The first function: first, a plain instruction, third, ret. *)
Kext(pad, a) ==
    IF pad THEN <<I("bti", 0), I("b", 1), I("bti", 0)>> \o [k \in 1 .. 5 |-> I("brk", 1)]
    ELSE <<I("b", 1)>> \o [k \in 1 .. 7 |-> I("brk", 1)]

Code(f, pad) ==
    LET image == f \o <<I("cbz", -1), I("ret", 0)>> \o [k \in 1 .. 2 |-> I("ret", 0)]
                 \o Kext(pad, 8) \o Kext(~pad, 16)
    IN  [a \in MCWords |-> image[a + 1]]

Sym(kind, name, at) == [kind |-> kind, name |-> name, sect |-> TRUE, text |-> TRUE,
                        vmaddr |-> MCKextText - MCFilesetText + at]
Hook1(pad) == <<Sym("super", 1, IF pad THEN 10 ELSE 9), Sym("override", 1, 8)>>
Hook2(pad) == <<Sym("override", 2, 16), Sym("super", 2, IF pad THEN 17 ELSE 18)>>
Noise == <<[Sym("super", 1, 0) EXCEPT !.sect = FALSE], Sym("other", 1, 3)>>

Defines(n, a) == [name |-> n, undef |-> FALSE, vmaddr |-> a]
Refers(n) == [name |-> n, undef |-> TRUE, vmaddr |-> 0]

(* Function 2 is function 1 by another name when there is an alias. *)
Tables(alias) ==
    "kernel" :> <<Defines(1, 0), Refers(2)>>
    @@ "other" :> <<Refers(1), Defines(2, IF alias THEN 0 ELSE 4), Defines(3, 4)>>

Job(f, pad, symbols, tbl, libs, json) ==
    [code |-> Code(f, pad), entries |-> {0, 4}, symbols |-> symbols,
     tables |-> tbl, libraries |-> libs, json |-> json]

Firsts == {I("plain", 7), I("adr", 2), I("adrp", 8), I("ldr", 5), I("b", 2), I("ret", 0),
           I("cbz", 3), I("cbz", 0), I("tbz", 2), I("b", 4)}
Function(i, j) == <<i, I("plain", 1), j, I("ret", 0)>>
Functions == {Function(i, j) : i \in Firsts, j \in {I("plain", 2), I("cbz", -2)}}

NoJson == [x \in {} |-> 0]
Both == {"kpi", "other"}

KextSymbols(pad) == Noise \o Hook2(pad) \o Hook1(pad)
Jobs(F, A) == UNION {{Job(f, pad, KextSymbols(pad), Tables(alias), Both, NoJson) :
                        f \in F, alias \in A} : pad \in BOOLEAN}
Regular == Jobs(Functions, BOOLEAN)

Plain == Function(I("plain", 7), I("plain", 2))
Variant(symbols, tbl, libs, json) == Job(Plain, FALSE, symbols, tbl, libs, json)
(* Names looked up in the json file or nowhere, dependencies that are not   *)
(* there, and symbol tables read_hooks refuses.                             *)
Irregular ==
    {Variant(Hook1(FALSE), Tables(FALSE), {"kpi"}, "kernel" :> (1 :> 4)),
     Variant(Hook1(FALSE), Tables(FALSE), {"kpi"}, "other" :> (1 :> 4)),
     Variant(Hook1(FALSE), Tables(FALSE), Both, "kernel" :> (1 :> 4) @@ "other" :> (1 :> 0)),
     Variant(Hook1(FALSE), Tables(FALSE), {"kpi", "gone"}, NoJson),
     Variant(Hook2(FALSE), Tables(FALSE), {"kpi"}, NoJson),
     Variant(Hook1(FALSE), "kernel" :> <<Defines(1, 0), Defines(1, 4)>>, {"kpi"}, NoJson),
     Variant(Hook1(FALSE), "kernel" :> <<Defines(1, 40)>>, {"kpi"}, NoJson),
     Variant(Hook1(FALSE) \o Hook1(FALSE), Tables(FALSE), Both, NoJson),
     Variant(Tail(Hook1(FALSE)), Tables(FALSE), Both, NoJson),
     Variant(Hook1(FALSE) \o <<Sym("bad", 1, 0)>>, Tables(FALSE), Both, NoJson),
     Variant(<<Sym("super", 1, 15), Sym("override", 1, 8)>>, Tables(FALSE), Both, NoJson)}

MCPrograms == Regular \cup Irregular

ASSUME RegularIsSupported == \A p \in Regular : Supported(p)
=============================================================================
