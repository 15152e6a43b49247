------------------------------- MODULE Hooks --------------------------------
(* Overriding kernel functions: KCModHookReader pairs the kext's override   *)
(* and super functions by name, KernelCache::bind_hooks patches each        *)
(* function and fills its super function, and then the kernel runs the      *)
(* code they left.  Addresses count words.                                  *)
EXTENDS Instructions, Symbols

CONSTANTS
    Words,         \* the addresses of the kernelcache
    Names,         \* the names of functions
    KextText,      \* vmaddr of __TEXT_EXEC in the kext
    FilesetText,   \* vmaddr of __TEXT_EXEC in the fileset it replaces
    Programs       \* the jobs

(* A job: the kernelcache's `code' with the kext's copied in, the kernel    *)
(* functions called (`entries'), the kext's symbol table, and the tables,   *)
(* libraries and json that names are looked up in.                          *)
ASSUME ProgramsAssumption ==
    /\ Words \subseteq Nat /\ Names \subseteq Nat
    /\ KextText \in Nat /\ FilesetText \in Nat
    /\ \A p \in Programs :
                        /\ p.code \in [Words -> Instr]
                        /\ p.entries \subseteq Words
                        /\ p.symbols \in
                             Seq([kind : {"super", "override", "other", "bad"}, name : Names,
                                  sect : BOOLEAN, text : BOOLEAN, vmaddr : Nat])

VARIABLES
    program,   \* the job, fixed at the start
    mem,       \* the instructions in the kernelcache
    pc,        \* "read", "bind", "run" or "failed"
    unread,    \* symbols of the kext read_hooks is still to look at
    super,     \* hooks: name -> fn_super
    override,  \* hooks: name -> fn_override
    left,      \* names bind_hooks is still to handle, in the map's order
    ip,        \* the program counter of the running kernel
    effect     \* what its last instruction did

tables == <<unread, super, override>>
cpu == <<ip, effect>>
vars == <<program, mem, pc, tables, left, cpu>>

Init == /\ program \in Programs
        /\ mem = program.code
        /\ pc = "read"
        /\ unread = program.symbols
        /\ super = << >> /\ override = << >>
        /\ left = {}
        /\ ip = Outside /\ effect = NoEffect

-----------------------------------------------------------------------------
(* KCModHookReader::read_hooks.  A symbol's `kind' is what its name starts  *)
(* with: "super", "override", "other" (no hook prefix) or "bad" (the hook   *)
(* prefix and nothing usable behind it); `sect' says N_TYPE is N_SECT.      *)
Ignored(s) == ~s.sect \/ s.kind = "other"
Duplicate(s) == \/ s.kind = "super" /\ s.name \in DOMAIN super
                \/ s.kind = "override" /\ s.name \in DOMAIN override

With(f, s) == [n \in DOMAIN f \cup {s.name} |-> IF n = s.name THEN s ELSE f[n]]

ReadSymbol ==
    /\ pc = "read" /\ unread # << >>
    /\ LET s == Head(unread) IN
         /\ Ignored(s) \/ (s.kind # "bad" /\ ~Duplicate(s))
         /\ super' = IF ~Ignored(s) /\ s.kind = "super" THEN With(super, s) ELSE super
         /\ override' = IF ~Ignored(s) /\ s.kind = "override"
                          THEN With(override, s) ELSE override
    /\ unread' = Tail(unread)
    /\ UNCHANGED <<program, mem, pc, left, cpu>>

(* A mutant: a hook without the other function let through. *)
PairedOrNot == \A n \in DOMAIN super : super[n].text
(* Every name needs both functions, both in __TEXT_EXEC,__text. *)
Paired == /\ DOMAIN super = DOMAIN override
          /\ \A n \in DOMAIN super : super[n].text /\ override[n].text

(* construct_symbol_registry comes first in the code; it reads nothing that *)
(* read_hooks writes.                                                       *)
deps == Deps(program.libraries)

ReadHooks ==
    /\ pc = "read" /\ unread = << >>
    /\ Paired /\ Registrable(program.tables, program.json, deps)
    /\ pc' = "bind"
    /\ left' = DOMAIN super \cup DOMAIN override
    /\ UNCHANGED <<program, mem, tables, cpu>>

ReadFails ==
    /\ pc = "read"
    /\ IF unread = << >>
         THEN ~(Paired /\ Registrable(program.tables, program.json, deps))
         ELSE ~Ignored(Head(unread)) /\ (Head(unread).kind = "bad" \/ Duplicate(Head(unread)))
    /\ pc' = "failed"
    /\ UNCHANGED <<program, mem, tables, left, cpu>>

-----------------------------------------------------------------------------
(* build_hook_super_fn.  decode<BranchCond> compares the eight bits of a    *)
(* B.cond with 0x2A instead of 0x54: it never matches one, and it matches   *)
(* "movw" instructions, whose operands it then overwrites.                  *)
Decoded == {"adrp", "adr", "b", "cbz", "tbz", "ldr", "movw"}
FarForm == {"cbz", "tbz", "movw"}

(* A mutant: ADRP moved like ADR. *)
NewOffsetInPage(i, fn, sup) == i.off + fn - sup
NewOffset(i, fn, sup) == i.off + From(i, fn) - From(i, sup)

(* << >> stands for an exception. *)
SuperFn(i, fn, sup) ==
    LET off == NewOffset(i, fn, sup)
        tramp == Branch(fn - sup)
    IN  CASE ~Reaches("b", fn - sup) -> << >>
          [] i.op \notin Decoded -> <<i, tramp>>
          [] i.op \in Decoded /\ Reaches(i.op, off) -> <<[i EXCEPT !.off = off], tramp>>
          [] i.op \in FarForm /\ ~Reaches(i.op, off) /\ Reaches("b", off - 2) ->
               <<[i EXCEPT !.off = 2], tramp, Branch(off - 2)>>
          [] OTHER -> << >>

AfterPad(m, a) == IF m[a].op = "bti" THEN a + 1 ELSE a
Moved(a) == a - KextText + FilesetText

(* A mutant: the patch branches to the super function. *)
HookOffsetToSuper(n, fn) == Moved(super[n].vmaddr) - AfterPad(mem, fn)
HookOffset(n, fn) == Moved(override[n].vmaddr) - AfterPad(mem, fn)
SuperAt(n) == AfterPad(mem, Moved(super[n].vmaddr))
Body(n, fn) == SuperFn(mem[AfterPad(mem, fn)], fn, SuperAt(n))

(* The kernelcache with fn patched and k words of its super function filled. *)
Patched(n, fn, k) ==
    [a \in Words |->
        IF a = AfterPad(mem, fn) THEN Branch(HookOffset(n, fn))
        ELSE IF a - SuperAt(n) \in 0 .. k - 1 THEN Body(n, fn)[a - SuperAt(n) + 1]
        ELSE mem[a]]

Turn(n) == pc = "bind" /\ n \in left /\ \A o \in left : n <= o
Address(n) == Bound(program.tables, program.json, deps, n)
Blank(n, k) == \A j \in 0 .. k - 1 : mem[SuperAt(n) + j].op = "brk"

BindHook(n) ==
    /\ Turn(n)
    /\ \E fn \in Address(n) \cap Words :
         /\ Reaches("b", HookOffset(n, fn))
         /\ Body(n, fn) # << >> /\ Blank(n, Len(Body(n, fn)))
         /\ mem' = Patched(n, fn, Len(Body(n, fn)))
    /\ left' = left \ {n}
    /\ UNCHANGED <<program, pc, tables, cpu>>

(* The symbol is missing, ambiguous or outside every segment, the override  *)
(* too far away, the instruction not movable, or the super function not     *)
(* made of brk instructions; what is written by then stays.                 *)
BindFails(n) ==
    /\ Turn(n)
    /\ \/ Address(n) \cap Words = {} /\ mem' = mem
       \/ \E fn \in Address(n) \cap Words :
            \/ ~Reaches("b", HookOffset(n, fn)) /\ mem' = mem
            \/ /\ Reaches("b", HookOffset(n, fn))
               /\ \E k \in 0 .. Len(Body(n, fn)) :
                    /\ Blank(n, k)
                    /\ Body(n, fn) = << >> \/ (k < Len(Body(n, fn)) /\ ~Blank(n, k + 1))
                    /\ mem' = Patched(n, fn, k)
    /\ pc' = "failed"
    /\ UNCHANGED <<program, tables, left, cpu>>

Boot ==
    /\ pc = "bind" /\ left = {}
    /\ pc' = "run"
    /\ UNCHANGED <<program, mem, tables, left, cpu>>

-----------------------------------------------------------------------------
(* The patched kernel. *)
Call ==
    /\ pc = "run" /\ ip = Outside
    /\ ip' \in program.entries
    /\ effect' = NoEffect
    /\ UNCHANGED <<program, mem, pc, tables, left>>

Step ==
    /\ pc = "run" /\ ip # Outside
    /\ ip' \in After(mem[ip], ip)
    /\ effect' = Effect(mem[ip], ip, effect)
    /\ UNCHANGED <<program, mem, pc, tables, left>>

Failed == pc = "failed" /\ UNCHANGED vars

Next == \/ ReadSymbol \/ ReadHooks \/ ReadFails
        \/ \E n \in left : BindHook(n) \/ BindFails(n)
        \/ Boot
        \/ Call \/ Step
        \/ Failed

Spec == Init /\ [][Next]_vars
(* The tool runs to its end and a processor goes on executing. *)
FairSpec == Spec /\ WF_vars(Next)

-----------------------------------------------------------------------------
(* The kernels and kexts that hooks are made for.  A hook is the symbols of *)
(* a super function and its override; its area reaches from the override to *)
(* the third word of the super function.                                    *)
HooksOf(p) ==
    {h \in Range(p.symbols) \X Range(p.symbols) :
        /\ h[1].kind = "super" /\ h[2].kind = "override"
        /\ h[1].sect /\ h[2].sect /\ h[1].name = h[2].name}
OverrideOf(h) == Moved(h[2].vmaddr)
SuperOf(p, h) == AfterPad(p.code, Moved(h[1].vmaddr))
Area(p, h) == OverrideOf(h) .. SuperOf(p, h) + 2
Elsewhere(p) == Words \ UNION {Area(p, h) : h \in HooksOf(p)}

(* The override does nothing but go on to the super function behind it. *)
PassesOn(p, h) ==
    /\ Area(p, h) \subseteq Words /\ OverrideOf(h) <= Moved(h[1].vmaddr)
    /\ \A a \in OverrideOf(h) .. SuperOf(p, h) - 1 :
         /\ p.code[a].op \in Conditional \cup {"b", "bti"}
         /\ After(p.code[a], a) \subseteq OverrideOf(h) .. SuperOf(p, h)

(* The hooks share no words, and no other code runs into one. *)
HooksApart(p) ==
    /\ \A g, h \in HooksOf(p) : g[1].name # h[1].name => Area(p, g) \cap Area(p, h) = {}
    /\ p.entries \subseteq Elsewhere(p)
    /\ \A a \in Elsewhere(p) : After(p.code[a], a) \subseteq Elsewhere(p) \cup {Outside}

(* A hooked function begins with no landing pad, and with no instruction    *)
(* that decode<BranchCond> takes for another.                               *)
BeginsPlainly(p, fn) ==
    fn \in Elsewhere(p) /\ p.code[fn].op \notin {"bti", "movw", "bcond"}

Supported(p) ==
    LET libs == Deps(p.libraries) IN
    /\ HooksApart(p)
    /\ \A h \in HooksOf(p) :
         /\ PassesOn(p, h)
         /\ Registrable(p.tables, p.json, libs) =>
              \A fn \in Words \cap Bound(p.tables, p.json, libs, h[1].name) : BeginsPlainly(p, fn)

-----------------------------------------------------------------------------
(* Every variable keeps its type. *)
TypeOK ==
    /\ program \in Programs
    /\ mem \in [Words -> Instr]
    /\ pc \in {"read", "bind", "run", "failed"}
    /\ Range(unread) \subseteq Range(program.symbols)
    /\ DOMAIN super \subseteq Names /\ Range(super) \subseteq Range(program.symbols)
    /\ DOMAIN override \subseteq Names /\ Range(override) \subseteq Range(program.symbols)
    /\ left \subseteq DOMAIN super
    /\ ip \in Words \cup {Outside}
    /\ effect \in {"none", "plain", "movw", "adr", "adrp", "ldr"} \X Int

(* Where the original kernel is while the patched one is at a: an override  *)
(* and the first word of its super function stand for the overridden        *)
(* instruction, the second word for the instruction behind it, the third    *)
(* for the target of a conditional branch too far away.                     *)
Pad(n) == AfterPad(program.code, CHOOSE fn \in Address(n) : TRUE)
Origins(a) ==
    UNION {LET sup == AfterPad(program.code, Moved(super[n].vmaddr)) IN
             {Pad(n) : x \in {a} \cap (Moved(override[n].vmaddr) .. sup)}
             \cup {Pad(n) + 1 : x \in {a} \cap {sup + 1}}
             \cup {Pad(n) + program.code[Pad(n)].off : x \in {a} \cap {sup + 2}}
           : n \in DOMAIN super}
Home(a) == IF Origins(a) = {} THEN a ELSE CHOOSE b \in Origins(a) : TRUE

Original == INSTANCE Cpu WITH
              code <- program.code,
              entries <- program.entries,
              ip <- IF pc = "run" THEN Home(ip) ELSE Outside

(* "relocated original first instruction [...] and an unconditional branch  *)
(* instruction for setting the program counter to second instruction"       *)
(* (README.md:73): with overrides that do nothing but call their super      *)
(* function, no caller can tell the patched kernel from the original.       *)
HooksInvisible == Original!Spec

(* "the program counter will jump to __kcmod_hook_override_sample_fn"       *)
(* (README.md:47): a kernel function that is entered runs every override    *)
(* hooked to it.                                                            *)
OverridesRun ==
    \A n \in Names :
        (pc = "run" /\ n \in DOMAIN override /\ ip \in Address(n))
            ~> (n \in DOMAIN override /\ ip = Moved(override[n].vmaddr))
=============================================================================
