---------------------------- MODULE Instructions ----------------------------
(* The machine instructions kcmod looks at, and what one of them does.      *)
(* An address counts words of 4 bytes.  Of an instruction only the operand  *)
(* that the program counter is added to is kept, in words; for the others   *)
(* `off' stands for all of their operands.                                  *)
EXTENDS Integers

CONSTANTS
    PageWords,   \* a page as ADRP sees it: 4096 bytes, 1024 words
    Reach        \* k_max_imm of each class of aarch64.h, in words

ASSUME PageAssumption == PageWords \in Nat \ {0}

Conditional == {"cbz", "tbz", "bcond"}
Relative == {"adr", "adrp", "b", "ldr"} \cup Conditional
(* "movw" is ORR (shifted register) of 32 bits with a destination below w16. *)
Ops == Relative \cup {"movw", "plain", "bti", "ret", "brk"}
Instr == [op : Ops, off : Int]

(* Where the program counter is when it is nowhere: before a call.           *)
Outside == -1
NoEffect == <<"none", 0>>

Page(a) == (a \div PageWords) * PageWords

(* What the operand of i is added to. *)
From(i, a) == IF i.op = "adrp" THEN Page(a) ELSE a

(* Where instruction i at address a may continue.  A brk traps. *)
After(i, a) ==
    (IF i.op \in {"b"} \cup Conditional THEN {a + i.off} ELSE {})
    \cup (IF i.op \in {"b", "ret", "brk"} THEN {} ELSE {a + 1})
    \cup (IF i.op = "ret" THEN {Outside} ELSE {})

(* What it computes or loads; branches and landing pads do neither. *)
Effect(i, a, last) ==
    IF i.op \in {"plain", "movw"} THEN <<i.op, i.off>>
    ELSE IF i.op \in {"adr", "adrp", "ldr"} THEN <<i.op, From(i, a) + i.off>>
    ELSE last

Reaches(op, off) == -Reach[op] < off /\ off < Reach[op]
Branch(off) == [op |-> "b", off |-> off]
=============================================================================
