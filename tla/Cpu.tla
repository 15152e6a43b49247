-------------------------------- MODULE Cpu ---------------------------------
(* The kernel as it was: one thread that calls its functions again and      *)
(* again.  What a caller can tell is where control is and what the last     *)
(* instruction did.                                                         *)
EXTENDS Instructions

VARIABLES
    code,      \* the instruction at each address
    entries,   \* the functions that are called
    ip,        \* the program counter
    effect     \* what the last instruction did

vars == <<code, entries, ip, effect>>

Init == ip = Outside /\ effect = NoEffect

Call == /\ ip = Outside
        /\ ip' \in entries
        /\ effect' = NoEffect
        /\ UNCHANGED <<code, entries>>

Step == /\ ip # Outside
        /\ ip' \in After(code[ip], ip)
        /\ effect' = Effect(code[ip], ip, effect)
        /\ UNCHANGED <<code, entries>>

Next == Call \/ Step

Spec == Init /\ [][Next]_vars
=============================================================================
