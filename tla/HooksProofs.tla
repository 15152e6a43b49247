----------------------------- MODULE HooksProofs ----------------------------
(* What build_hook_super_fn makes of an instruction, for every instruction, *)
(* every function and every super function; and what bind_hooks makes of a  *)
(* kernel: one that behaves as it did before it was patched.                *)
EXTENDS Hooks, TLAPS

(* Where the original function is when its super function is at x. *)
There(i, fn, sup, x) ==
    IF x = sup + 1 THEN fn + 1
    ELSE IF x = sup + 2 THEN fn + i.off
    ELSE x

(* The target of a branch does not lie in the super function itself, which  *)
(* held nothing but brk instructions before.                                *)
Outward(i, fn, sup) ==
    i.op \in {"b"} \cup Conditional => fn + i.off # sup + 1 /\ fn + i.off # sup + 2

(* The words `body' at sup do what instruction i does at fn, and no more:   *)
(* the first has its effect and continues where it does, the second and the *)
(* third, if that is reached, go on to where it continues.                  *)
Faithful(body, i, fn, sup, last) ==
    /\ Effect(body[1], sup, last) = Effect(i, fn, last)
    /\ {There(i, fn, sup, x) : x \in After(body[1], sup)} = After(i, fn)
    /\ After(body[2], sup + 1) = {fn + 1}
    /\ Effect(body[2], sup + 1, last) = last
    /\ Len(body) = 3 => /\ After(body[3], sup + 2) = {fn + i.off}
                       /\ Effect(body[3], sup + 2, last) = last
    /\ sup + 2 \in After(body[1], sup) => Len(body) = 3

(* A page is an address. *)
LEMMA PageIsInt == \A a \in Int : Page(a) \in Int
BY PageAssumption DEF Page

(* The three words a super function can be given, case by case: the         *)
(* instruction as it is, moved near, or moved far behind a short branch.    *)
LEMMA Forms ==
    ASSUME NEW i \in Instr, NEW fn \in Nat, NEW sup \in Nat,
           SuperFn(i, fn, sup) # << >>
    PROVE  \/ /\ i.op \notin Decoded
              /\ SuperFn(i, fn, sup) = <<i, Branch(fn - sup)>>
           \/ /\ i.op \in Decoded
              /\ SuperFn(i, fn, sup) =
                   <<[i EXCEPT !.off = NewOffset(i, fn, sup)], Branch(fn - sup)>>
           \/ /\ i.op \in FarForm
              /\ SuperFn(i, fn, sup) =
                   <<[i EXCEPT !.off = 2], Branch(fn - sup),
                     Branch(NewOffset(i, fn, sup) - 2)>>
<1> DEFINE reach == Reaches("b", fn - sup)
           near == Reaches(i.op, NewOffset(i, fn, sup))
           far == Reaches("b", NewOffset(i, fn, sup) - 2)
<1>1. CASE ~reach
  BY <1>1 DEF SuperFn
<1>2. CASE reach /\ i.op \notin Decoded
  BY <1>2 DEF SuperFn
<1>3. CASE reach /\ i.op \in Decoded /\ near
  BY <1>3 DEF SuperFn
<1>4. CASE reach /\ i.op \in FarForm /\ ~near /\ far
  BY <1>4 DEF SuperFn, FarForm, Decoded
<1>5. CASE reach /\ i.op \in Decoded /\ ~near /\ ~(i.op \in FarForm /\ far)
  BY <1>5 DEF SuperFn
<1> QED BY <1>1, <1>2, <1>3, <1>4, <1>5

(* "relocated original first instruction of sample_fn and an unconditional  *)
(* branch instruction for setting the program counter to second             *)
(* instruction" (README.md:73): whatever the first instruction, of the      *)
(* kinds that are decoded for what they are, its copy in the super function *)
(* has the effect it had and continues where it did, and the word behind it *)
(* continues at the second instruction of the function.                     *)
THEOREM SuperFnFaithful ==
    ASSUME NEW i \in Instr, NEW fn \in Nat, NEW sup \in Nat, NEW last,
           i.op \notin {"movw", "bcond"},
           SuperFn(i, fn, sup) # << >>,
           Outward(i, fn, sup)
    PROVE  Faithful(SuperFn(i, fn, sup), i, fn, sup, last)
<1> DEFINE body == SuperFn(i, fn, sup)
           off == NewOffset(i, fn, sup)
<1>1. i.op \in Ops /\ i.off \in Int /\ i = [op |-> i.op, off |-> i.off]
  BY DEF Instr
<1>2. Page(fn) \in Int /\ Page(sup) \in Int
  BY PageIsInt
<1>3. off \in Int
  BY <1>1, <1>2 DEF NewOffset, From
<1>4. \A d \in Int, a \in Int :
        After(Branch(d), a) = {a + d} /\ Effect(Branch(d), a, last) = last
  BY DEF After, Effect, Branch, Conditional
<1>5. CASE i.op \notin Decoded /\ body = <<i, Branch(fn - sup)>>
  <2>1. i.op \in {"plain", "bti", "ret", "brk"}
    BY <1>1, <1>5 DEF Ops, Relative, Conditional, Decoded
  <2>2. Effect(i, sup, last) = Effect(i, fn, last)
    BY <2>1 DEF Effect
  <2>3. {There(i, fn, sup, x) : x \in After(i, sup)} = After(i, fn)
    BY <2>1 DEF After, There, Conditional, Outside
  <2>4. sup + 2 \notin After(i, sup)
    BY <2>1 DEF After, Conditional, Outside
  <2> QED BY <1>4, <1>5, <2>2, <2>3, <2>4 DEF Faithful
<1>6. CASE i.op \in Decoded /\ body = <<[i EXCEPT !.off = off], Branch(fn - sup)>>
  <2> DEFINE j == [i EXCEPT !.off = off]
  <2>1. j.op = i.op /\ j.off = off
    BY <1>1
  <2>2. i.op \in {"adrp", "adr", "b", "cbz", "tbz", "ldr"}
    BY <1>6 DEF Decoded
  <2> HIDE DEF j
  <2>3. Effect(j, sup, last) = Effect(i, fn, last)
    BY <1>1, <1>2, <2>1, <2>2 DEF Effect, NewOffset, From
  <2>4. CASE i.op \in {"adrp", "adr", "ldr"}
    <3>1. After(j, sup) = {sup + 1} /\ After(i, fn) = {fn + 1}
      BY <2>1, <2>4 DEF After, Conditional
    <3>2. sup + 2 \notin After(j, sup)
      BY <3>1
    <3> QED BY <3>1, <3>2, <1>4, <1>6, <2>3 DEF There, j, Faithful
  <2>5. CASE i.op = "b"
    <3>1. After(j, sup) = {fn + i.off} /\ After(i, fn) = {fn + i.off}
      BY <1>1, <2>1, <2>5 DEF After, NewOffset, From, Conditional
    <3>2. There(i, fn, sup, fn + i.off) = fn + i.off
      BY <1>1, <2>5 DEF There, Outward
    <3>3. sup + 2 \notin After(j, sup)
      BY <3>1, <2>5 DEF Outward
    <3> QED BY <3>1, <3>2, <3>3, <1>4, <1>6, <2>3 DEF j, Faithful
  <2>6. CASE i.op \in {"cbz", "tbz"}
    <3>1. After(j, sup) = {sup + 1, fn + i.off} /\ After(i, fn) = {fn + 1, fn + i.off}
      BY <1>1, <2>1, <2>6 DEF After, NewOffset, From, Conditional
    <3>2. There(i, fn, sup, fn + i.off) = fn + i.off /\ There(i, fn, sup, sup + 1) = fn + 1
      BY <1>1, <2>6 DEF There, Outward, Conditional
    <3>3. sup + 2 \notin After(j, sup)
      BY <3>1, <2>6 DEF Outward, Conditional
    <3> QED BY <3>1, <3>2, <3>3, <1>4, <1>6, <2>3 DEF j, Faithful
  <2> QED BY <2>2, <2>4, <2>5, <2>6
<1>7. CASE /\ i.op \in FarForm
           /\ body = <<[i EXCEPT !.off = 2], Branch(fn - sup), Branch(off - 2)>>
  <2> DEFINE j == [i EXCEPT !.off = 2]
  <2>1. j.op = i.op /\ j.off = 2
    BY <1>1
  <2>2. i.op \in {"cbz", "tbz"}
    BY <1>7 DEF FarForm
  <2> HIDE DEF j
  <2>3. Effect(j, sup, last) = Effect(i, fn, last)
    BY <2>1, <2>2 DEF Effect
  <2>4. After(j, sup) = {sup + 1, sup + 2} /\ After(i, fn) = {fn + 1, fn + i.off}
    BY <1>1, <2>1, <2>2 DEF After, Conditional
  <2>5. There(i, fn, sup, sup + 1) = fn + 1 /\ There(i, fn, sup, sup + 2) = fn + i.off
    BY DEF There
  <2>6. After(Branch(off - 2), sup + 2) = {fn + i.off}
    <3>1. off = i.off + fn - sup
      BY <1>1, <2>2 DEF NewOffset, From
    <3>2. After(Branch(off - 2), sup + 2) = {(sup + 2) + (off - 2)}
      BY <1>3, <1>4
    <3> QED BY <1>1, <3>1, <3>2
  <2>7. /\ After(Branch(fn - sup), sup + 1) = {fn + 1}
        /\ Effect(Branch(fn - sup), sup + 1, last) = last
        /\ Effect(Branch(off - 2), sup + 2, last) = last
    BY <1>3, <1>4
  <2>8. {There(i, fn, sup, x) : x \in After(j, sup)} = After(i, fn)
    BY <2>4, <2>5
  <2>9. body[1] = j /\ body[2] = Branch(fn - sup) /\ body[3] = Branch(off - 2) /\ Len(body) = 3
    BY <1>7 DEF j
  <2> QED BY <2>3, <2>6, <2>7, <2>8, <2>9 DEF Faithful
<1> QED BY <1>5, <1>6, <1>7, Forms

-----------------------------------------------------------------------------
(* The tool and the kernel it leaves.  The invariant names the words of a   *)
(* hook, and says who leads where once its function is patched.             *)
AllSupported == \A p \in Programs : Supported(p)

Over(n) == Moved(override[n].vmaddr)
Sup(n) == AfterPad(program.code, Moved(super[n].vmaddr))
Fn(n) == CHOOSE fn \in Address(n) : TRUE
Old(n) == program.code[Fn(n)]
Done == DOMAIN super \ left

Symbol == [kind : {"super", "override", "other", "bad"}, name : Names,
           sect : BOOLEAN, text : BOOLEAN, vmaddr : Nat]
SymbolOf(s, kind, n) ==
    s \in Range(program.symbols) /\ s \in Symbol /\ s.kind = kind /\ s.name = n /\ s.sect

(* read_hooks files each symbol under its kind and name. *)
TablesRead ==
    /\ DOMAIN super \subseteq Names /\ DOMAIN override \subseteq Names
    /\ \A n \in DOMAIN super : SymbolOf(super[n], "super", n)
    /\ \A n \in DOMAIN override : SymbolOf(override[n], "override", n)
    /\ unread \in Seq(Symbol) /\ Range(unread) \subseteq Range(program.symbols)
    /\ left \subseteq DOMAIN super
    /\ pc \in {"bind", "run"} =>
         DOMAIN super = DOMAIN override /\ Registrable(program.tables, program.json, deps)

(* The word at a branches to an override of the function n is a name of. *)
LeadsOver(n, a) == \E m \in Done : Fn(m) = Fn(n) /\ mem[a] = Branch(Over(m) - a)

(* The super function of n holds the function's instruction, relocated. *)
Holds(n) ==
    LET body == SuperFn(Old(n), Fn(n), Sup(n)) IN
    body # << >> /\ \A k \in 1 .. Len(body) : mem[Sup(n) + k - 1] = body[k]

Patches(n) == {Fn(n), Sup(n), Sup(n) + 1, Sup(n) + 2}

(* With two names for one function, the second hook finds the branch of the *)
(* first, and its super function leads to the first override.               *)
Hooked ==
    /\ \A n \in Done : /\ Address(n) = {Fn(n)} /\ Fn(n) \in Words
                       /\ LeadsOver(n, Fn(n))
                       /\ Holds(n) \/ LeadsOver(n, Sup(n))
    /\ \A a \in Words : (\A n \in Done : a \notin Patches(n)) => mem[a] = program.code[a]

(* Where the patched kernel can be: outside the hooks, on the way from an   *)
(* override to the relocated instruction, or where that one goes on.        *)
In(n, a) ==
    \/ a \in Over(n) .. Sup(n)
    \/ Holds(n) /\ a \in {Sup(n) + 1, Sup(n) + 2} /\ a \in After(mem[Sup(n)], Sup(n))

OnTheWay(a) == a \in Elsewhere(program) \cup {Outside} \/ \E n \in Done : In(n, a)

Located ==
    IF pc = "run" THEN left = {} /\ OnTheWay(ip) ELSE ip = Outside /\ effect = NoEffect

HooksInv ==
    /\ TypeOK /\ TablesRead /\ Located
    /\ pc = "read" => mem = program.code
    /\ pc \in {"bind", "run"} => Hooked

-----------------------------------------------------------------------------
(* What the super function can be filled with. *)
LEMMA FewWords ==
    ASSUME NEW S, NEW x \in S, NEW y \in S, NEW z \in S, NEW b,
           b = << >> \/ b = <<x, y>> \/ b = <<x, y, z>>
    PROVE  b \in Seq(S) /\ Len(b) \in 0 .. 3
<1>1. CASE b = << >>
  BY <1>1
<1>2. CASE b = <<x, y>>
  BY <1>2
<1>3. CASE b = <<x, y, z>>
  BY <1>3
<1> QED BY <1>1, <1>2, <1>3

(* A super function has at most three words. *)
LEMMA BodyTyped ==
    ASSUME NEW i \in Instr, NEW fn \in Nat, NEW sup \in Nat
    PROVE  /\ SuperFn(i, fn, sup) \in Seq(Instr)
           /\ Len(SuperFn(i, fn, sup)) \in 0 .. 3
<1> DEFINE body == SuperFn(i, fn, sup)
           off == NewOffset(i, fn, sup)
<1>1. off \in Int /\ fn - sup \in Int /\ off - 2 \in Int
  BY PageIsInt DEF NewOffset, From, Instr
<1> DEFINE j == Branch(fn - sup)
           k == [i EXCEPT !.off = off]
           l == [i EXCEPT !.off = 2]
           m == Branch(off - 2)
<1>2. j \in Instr /\ m \in Instr
  BY <1>1 DEF Branch, Instr, Ops, Relative
<1>3. k \in Instr /\ l \in Instr
  BY <1>1 DEF Instr
<1>4. \/ body = << >>
      \/ body = <<i, j>> \/ body = <<k, j>> \/ body = <<l, j, m>>
  BY Forms
<1> HIDE DEF body, j, k, l, m
<1>5. body \in Seq(Instr) /\ Len(body) \in 0 .. 3
  BY <1>2, <1>3, <1>4, FewWords
<1> QED BY <1>5 DEF body

(* A name has one address: the json files of two filesets do not share one, *)
(* and a symbol is looked for in all of them.                               *)
LEMMA OneAddress ==
    ASSUME Registrable(program.tables, program.json, deps), NEW n, NEW fn \in Address(n)
    PROVE  Address(n) = {fn} /\ Fn(n) = fn
<1>1. \A x, y \in Overrides(program.json, deps, n) : x = y
  BY DEF Registrable, Overrides
<1>2. \A x, y \in Address(n) : x = y
  BY <1>1 DEF Address, Bound
<1> QED BY <1>2 DEF Fn

(* A hook that read_hooks has paired is one of the program's. *)
LEMMA HookFacts ==
    ASSUME AllSupported, TypeOK, TablesRead, pc \in {"bind", "run"}, NEW n \in DOMAIN super
    PROVE  /\ Over(n) \in Nat /\ Sup(n) \in Nat /\ Over(n) <= Sup(n)
           /\ Moved(super[n].vmaddr) \in Over(n) .. Sup(n)
           /\ \A a \in Over(n) .. Sup(n) + 2 : a \in Words /\ a \notin Elsewhere(program)
           /\ \A a \in Over(n) .. Sup(n) - 1 :
                /\ program.code[a].op \in Conditional \cup {"b", "bti"}
                /\ After(program.code[a], a) \subseteq Over(n) .. Sup(n)
           /\ \A fn \in Address(n) \cap Words : BeginsPlainly(program, fn)
<1> DEFINE h == <<super[n], override[n]>>
<1>1. n \in DOMAIN override /\ Registrable(program.tables, program.json, deps)
  BY DEF TablesRead
<1>2. h \in HooksOf(program) /\ h[1] = super[n] /\ h[2] = override[n] /\ h[1].name = n
  BY <1>1 DEF TablesRead, SymbolOf, HooksOf
<1>3. super[n].vmaddr \in Nat /\ override[n].vmaddr \in Nat
  BY <1>1 DEF TablesRead, SymbolOf, Symbol
<1>4. OverrideOf(h) = Over(n) /\ SuperOf(program, h) = Sup(n)
  BY <1>2 DEF OverrideOf, SuperOf, Over, Sup
<1>5. Supported(program) /\ program \in Programs
  BY DEF TypeOK, AllSupported
<1> HIDE DEF h
<1>6. PassesOn(program, h) /\ \A fn \in Address(n) \cap Words : BeginsPlainly(program, fn)
  BY <1>1, <1>2, <1>5 DEF Supported, Address, deps
<1>7. /\ Over(n) \in Int /\ Moved(super[n].vmaddr) \in Int
      /\ Sup(n) \in {Moved(super[n].vmaddr), Moved(super[n].vmaddr) + 1}
  BY <1>3, ProgramsAssumption DEF Over, Sup, Moved, AfterPad
<1>8. Over(n) <= Moved(super[n].vmaddr) /\ Over(n) .. Sup(n) + 2 \subseteq Words
  BY <1>2, <1>4, <1>6 DEF PassesOn, Area, OverrideOf
<1>9. Over(n) \in Over(n) .. Sup(n) + 2 /\ Over(n) <= Sup(n) /\ Moved(super[n].vmaddr) <= Sup(n)
  BY <1>7, <1>8
<1>10. Over(n) \in Nat /\ Sup(n) \in Nat
  BY <1>7, <1>8, <1>9, ProgramsAssumption
<1>11. \A a \in Over(n) .. Sup(n) + 2 : a \notin Elsewhere(program)
  BY <1>2, <1>4 DEF Elsewhere, Area
<1>12. \A a \in Over(n) .. Sup(n) - 1 :
         /\ program.code[a].op \in Conditional \cup {"b", "bti"}
         /\ After(program.code[a], a) \subseteq Over(n) .. Sup(n)
  BY <1>4, <1>6 DEF PassesOn
<1> QED BY <1>6, <1>7, <1>8, <1>9, <1>10, <1>11, <1>12

(* Two hooks share no word. *)
LEMMA HooksDisjoint ==
    ASSUME AllSupported, TypeOK, TablesRead, pc \in {"bind", "run"},
           NEW n \in DOMAIN super, NEW m \in DOMAIN super, n # m,
           NEW a \in Over(n) .. Sup(n) + 2
    PROVE  a \notin Over(m) .. Sup(m) + 2
<1> DEFINE g == <<super[n], override[n]>>
           h == <<super[m], override[m]>>
<1>1. /\ g \in HooksOf(program) /\ g[1] = super[n] /\ g[2] = override[n] /\ g[1].name = n
      /\ h \in HooksOf(program) /\ h[1] = super[m] /\ h[2] = override[m] /\ h[1].name = m
  BY DEF TablesRead, SymbolOf, HooksOf
<1>2. /\ Area(program, g) = Over(n) .. Sup(n) + 2
      /\ Area(program, h) = Over(m) .. Sup(m) + 2
  BY <1>1 DEF Area, OverrideOf, SuperOf, Over, Sup
<1> HIDE DEF g, h
<1>3. Area(program, g) \cap Area(program, h) = {}
  BY <1>1 DEF TypeOK, AllSupported, Supported, HooksApart
<1> QED BY <1>2, <1>3

-----------------------------------------------------------------------------
(* What is at a word of a hook, and at a word outside the hooks. *)
LEMMA HookWords ==
    ASSUME AllSupported, TypeOK, TablesRead, Hooked, pc \in {"bind", "run"},
           NEW n \in DOMAIN super, NEW a \in Over(n) .. Sup(n) + 2
    PROVE  /\ \A m \in Done : a # Fn(m) /\ (m # n => a \notin Patches(m))
           /\ n \notin Done \/ a < Sup(n) => mem[a] = program.code[a]
<1>1. a \in Words /\ a \notin Elsewhere(program) /\ Sup(n) \in Nat /\ a \in Int
  BY HookFacts
<1>2. ASSUME NEW m \in Done
      PROVE  a # Fn(m)
  <2>1. m \in DOMAIN super /\ Fn(m) \in Address(m) \cap Words
    BY DEF Done, Hooked
  <2>2. Fn(m) \in Elsewhere(program)
    BY <2>1, HookFacts DEF BeginsPlainly
  <2> QED BY <1>1, <2>2
<1>3. ASSUME NEW m \in Done, m # n
      PROVE  a \notin Patches(m)
  <2>1. m \in DOMAIN super
    BY DEF Done
  <2>2. a \notin Over(m) .. Sup(m) + 2
    BY <1>3, <2>1, HooksDisjoint
  <2>3. {Sup(m), Sup(m) + 1, Sup(m) + 2} \subseteq Over(m) .. Sup(m) + 2
    BY <2>1, HookFacts
  <2> QED BY <1>2, <2>2, <2>3 DEF Patches
<1>4. ASSUME n \notin Done \/ a < Sup(n)
      PROVE  mem[a] = program.code[a]
  <2>1. \A m \in Done : a \notin Patches(m)
    BY <1>1, <1>2, <1>3, <1>4 DEF Patches
  <2> QED BY <1>1, <2>1 DEF Hooked
<1> QED BY <1>2, <1>3, <1>4

(* Outside the hooks, a word is a branch to an override or as it was. *)
LEMMA OtherWords ==
    ASSUME AllSupported, TypeOK, TablesRead, Hooked, pc \in {"bind", "run"},
           NEW a \in Elsewhere(program)
    PROVE  \/ \E m \in Done : Fn(m) = a /\ mem[a] = Branch(Over(m) - a)
           \/ (\A m \in Done : Fn(m) # a) /\ mem[a] = program.code[a]
<1>1. a \in Words
  BY DEF Elsewhere
<1>2. CASE \E m \in Done : Fn(m) = a
  BY <1>2 DEF Hooked, LeadsOver
<1>3. CASE \A m \in Done : Fn(m) # a
  <2>1. ASSUME NEW m \in Done
        PROVE  a \notin Patches(m)
    <3>1. m \in DOMAIN super
      BY DEF Done
    <3>2. \A b \in Over(m) .. Sup(m) + 2 : b # a
      BY <3>1, HookFacts
    <3>3. {Sup(m), Sup(m) + 1, Sup(m) + 2} \subseteq Over(m) .. Sup(m) + 2
      BY <3>1, HookFacts
    <3> QED BY <1>3, <3>2, <3>3 DEF Patches
  <2> QED BY <1>1, <1>3, <2>1 DEF Hooked
<1> QED BY <1>2, <1>3

(* bind_hooks: where it writes, and what. *)
LEMMA BindFacts ==
    ASSUME AllSupported, HooksInv, pc = "bind", NEW n \in left, NEW fn \in Address(n) \cap Words
    PROVE  /\ n \in DOMAIN super /\ fn \in Nat /\ fn \in Elsewhere(program)
           /\ Fn(n) = fn /\ Address(n) = {fn}
           /\ AfterPad(mem, fn) = fn /\ SuperAt(n) = Sup(n)
<1>1. TypeOK /\ TablesRead /\ Hooked /\ n \in DOMAIN super /\ n \notin Done
  BY DEF HooksInv, Done, TablesRead
<1>2. Fn(n) = fn /\ Address(n) = {fn}
  BY <1>1, OneAddress DEF TablesRead
<1>3. fn \in Elsewhere(program) /\ program.code[fn].op # "bti"
  BY <1>1, HookFacts DEF BeginsPlainly
<1>4. mem[fn].op # "bti"
  <2>1. \A d : Branch(d).op # "bti"
    BY DEF Branch
  <2> QED BY <1>1, <1>3, <2>1, OtherWords
<1>5. Moved(super[n].vmaddr) \in Over(n) .. Sup(n) + 2
  BY <1>1, HookFacts
<1>6. mem[Moved(super[n].vmaddr)] = program.code[Moved(super[n].vmaddr)]
  BY <1>1, <1>5, HookWords
<1> QED BY <1>1, <1>2, <1>3, <1>4, <1>6, ProgramsAssumption DEF AfterPad, SuperAt, Sup

(* Without a landing pad bind_hooks copies the function's first word. *)
LEMMA BodyFacts ==
    ASSUME AllSupported, HooksInv, pc = "bind", NEW n \in left, NEW fn \in Address(n) \cap Words
    PROVE  /\ Body(n, fn) = SuperFn(mem[fn], fn, Sup(n))
           /\ Body(n, fn) \in Seq(Instr) /\ Len(Body(n, fn)) \in 0 .. 3
<1>1. /\ n \in DOMAIN super /\ fn \in Nat
      /\ AfterPad(mem, fn) = fn /\ SuperAt(n) = Sup(n)
  BY BindFacts
<1>2. Sup(n) \in Nat
  BY <1>1, HookFacts DEF HooksInv
<1>3. mem[fn] \in Instr
  BY DEF HooksInv, TypeOK
<1>4. Body(n, fn) = SuperFn(mem[fn], fn, Sup(n))
  BY <1>1 DEF Body
<1> QED BY <1>1, <1>2, <1>3, <1>4, BodyTyped

(* What bind_hooks has written after k words of the super function. *)
LEMMA PatchedWords ==
    ASSUME AllSupported, HooksInv, pc = "bind", NEW n \in left, NEW fn \in Address(n) \cap Words,
           NEW k \in 0 .. Len(Body(n, fn))
    PROVE  /\ Patched(n, fn, k) \in [Words -> Instr]
           /\ Patched(n, fn, k)[fn] = Branch(Over(n) - fn)
           /\ \A a \in Words \ {fn} :
                Patched(n, fn, k)[a] = IF a \in Sup(n) .. Sup(n) + k - 1
                                         THEN Body(n, fn)[a - Sup(n) + 1] ELSE mem[a]
<1>1. /\ n \in DOMAIN super /\ fn \in Nat /\ Fn(n) = fn
      /\ AfterPad(mem, fn) = fn /\ SuperAt(n) = Sup(n)
  BY BindFacts
<1>2. Sup(n) \in Nat /\ Over(n) \in Nat
  BY <1>1, HookFacts DEF HooksInv
<1>3. mem \in [Words -> Instr]
  BY DEF HooksInv, TypeOK
<1>4. Body(n, fn) \in Seq(Instr) /\ Len(Body(n, fn)) \in 0 .. 3
  BY BodyFacts
<1>5. k \in Nat /\ k <= Len(Body(n, fn))
  BY <1>4
<1>6. HookOffset(n, fn) = Over(n) - fn
  BY <1>1 DEF HookOffset, Over
<1>7. Branch(Over(n) - fn) \in Instr
  BY <1>1, <1>2 DEF Branch, Instr, Ops, Relative
<1>8. \A a \in Words : a \in Int /\ (a - Sup(n) \in 0 .. k - 1 <=> a \in Sup(n) .. Sup(n) + k - 1)
  BY <1>2, <1>5, ProgramsAssumption
<1>9. ASSUME NEW a \in Words, a - Sup(n) \in 0 .. k - 1
      PROVE  Body(n, fn)[a - Sup(n) + 1] \in Instr
  <2>1. a - Sup(n) + 1 \in 1 .. Len(Body(n, fn))
    BY <1>2, <1>4, <1>5, <1>8, <1>9
  <2> QED BY <1>4, <2>1
<1>10. Patched(n, fn, k) =
         [a \in Words |->
            IF a = fn THEN Branch(Over(n) - fn)
            ELSE IF a - Sup(n) \in 0 .. k - 1 THEN Body(n, fn)[a - Sup(n) + 1]
            ELSE mem[a]]
  BY <1>1, <1>6 DEF Patched
<1>11. Patched(n, fn, k) \in [Words -> Instr]
  BY <1>3, <1>7, <1>9, <1>10
<1> QED BY <1>8, <1>10, <1>11

-----------------------------------------------------------------------------
(* Neither a hook's addresses nor what was written move with time. *)
LEMMA AddressesStay ==
    ASSUME UNCHANGED <<program, super, override>>, NEW n
    PROVE  /\ Over(n)' = Over(n) /\ Sup(n)' = Sup(n) /\ Address(n)' = Address(n)
           /\ Fn(n)' = Fn(n) /\ Old(n)' = Old(n) /\ Patches(n)' = Patches(n)
<1>1. Over(n)' = Over(n) /\ Sup(n)' = Sup(n)
  BY DEF Over, Sup
<1>2. Address(n)' = Address(n)
  BY DEF Address, deps
<1>3. Fn(n)' = Fn(n)
  BY <1>2 DEF Fn
<1> QED BY <1>1, <1>2, <1>3 DEF Old, Patches

(* Who leads where depends on the tables, and on the words of the hook. *)
LEMMA HoldsStays ==
    ASSUME UNCHANGED <<program, super, override>>, NEW n,
           \A k \in 1 .. Len(SuperFn(Old(n), Fn(n), Sup(n))) : mem'[Sup(n) + k - 1] = mem[Sup(n) + k - 1],
           Holds(n)
    PROVE  Holds(n)'
BY AddressesStay DEF Holds

LEMMA HookedStays ==
    ASSUME UNCHANGED <<program, mem, super, override, left>>, Hooked
    PROVE  Hooked'
<1>1. Done' = Done
  BY DEF Done
<1>2. ASSUME NEW n, NEW a, LeadsOver(n, a)
      PROVE  LeadsOver(n, a)'
  BY <1>1, <1>2, AddressesStay DEF LeadsOver
<1>3. ASSUME NEW n \in Done
      PROVE  /\ Address(n)' = {Fn(n)'} /\ Fn(n)' \in Words
             /\ LeadsOver(n, Fn(n))'
             /\ Holds(n)' \/ LeadsOver(n, Sup(n))'
  <2>1. LeadsOver(n, Fn(n))'
    <3>1. PICK f : f = Fn(n) /\ LeadsOver(n, f)
      BY DEF Hooked
    <3>2. LeadsOver(n, f)' /\ Fn(n)' = f
      BY <1>2, <3>1, AddressesStay
    <3> QED BY <3>2 DEF LeadsOver
  <2>2. ASSUME LeadsOver(n, Sup(n))
        PROVE  LeadsOver(n, Sup(n))'
    <3>1. PICK f : f = Sup(n) /\ LeadsOver(n, f)
      BY <2>2
    <3>2. LeadsOver(n, f)' /\ Sup(n)' = f
      BY <1>2, <3>1, AddressesStay
    <3> QED BY <3>2 DEF LeadsOver
  <2> QED BY <2>1, <2>2, AddressesStay, HoldsStays DEF Hooked
<1> QED BY <1>1, <1>3, AddressesStay DEF Hooked

-----------------------------------------------------------------------------
(* The steps of the tool. *)
LEMMA InitInv == Init => HooksInv
<1> SUFFICES ASSUME Init PROVE HooksInv
  OBVIOUS
<1>1. DOMAIN super = {} /\ DOMAIN override = {} /\ Range(super) = {} /\ Range(override) = {}
  BY DEF Init, Range
<1>2. TypeOK
  BY <1>1, ProgramsAssumption DEF Init, TypeOK, Outside, NoEffect
<1>3. TablesRead
  BY <1>1, ProgramsAssumption DEF Init, TablesRead, Symbol
<1> QED BY <1>2, <1>3 DEF Init, HooksInv, Located

(* One step of each kind keeps the invariant. *)
LEMMA ReadSymbolInv == ASSUME HooksInv, ReadSymbol PROVE HooksInv'
<1>1. /\ pc = "read" /\ unread # << >> /\ unread' = Tail(unread)
      /\ UNCHANGED <<program, mem, pc, left, cpu>>
  BY DEF ReadSymbol
<1>2. PICK s : s = Head(unread)
  OBVIOUS
<1>3. s \in Symbol /\ s \in Range(program.symbols)
  <2>1. s = unread[1] /\ 1 \in DOMAIN unread
    BY <1>1, <1>2 DEF HooksInv, TablesRead
  <2> QED BY <2>1 DEF HooksInv, TablesRead, Range
<1>4. unread' \in Seq(Symbol) /\ Range(unread') \subseteq Range(program.symbols)
  <2>1. unread \in Seq(Symbol) /\ Len(unread) \in Nat \ {0}
    BY <1>1 DEF HooksInv, TablesRead
  <2>2. unread' \in Seq(Symbol) /\ DOMAIN unread' = 1 .. Len(unread) - 1
    BY <1>1, <2>1
  <2>3. \A k \in 1 .. Len(unread) - 1 : unread'[k] = unread[k + 1] /\ k + 1 \in DOMAIN unread
    BY <1>1, <2>1
  <2> QED BY <2>2, <2>3 DEF HooksInv, TablesRead, Range
<1>5. /\ super' = IF ~Ignored(s) /\ s.kind = "super" THEN With(super, s) ELSE super
      /\ override' = IF ~Ignored(s) /\ s.kind = "override" THEN With(override, s) ELSE override
  BY <1>2 DEF ReadSymbol
<1>6. \A f : /\ DOMAIN With(f, s) = DOMAIN f \cup {s.name}
             /\ \A n \in DOMAIN With(f, s) : With(f, s)[n] = IF n = s.name THEN s ELSE f[n]
  BY DEF With
<1>7. s.name \in Names /\ (~Ignored(s) => s.sect)
  BY <1>3 DEF Symbol, Ignored
<1>8. /\ DOMAIN super \subseteq DOMAIN super' /\ DOMAIN super' \subseteq Names
      /\ \A n \in DOMAIN super' : SymbolOf(super'[n], "super", n)
  <2>1. CASE super' = super
    BY <2>1 DEF HooksInv, TablesRead
  <2>2. CASE super' = With(super, s) /\ s.kind = "super" /\ ~Ignored(s)
    <3>1. SymbolOf(s, "super", s.name)
      BY <1>3, <1>7, <2>2 DEF SymbolOf
    <3>2. /\ DOMAIN super' = DOMAIN super \cup {s.name}
          /\ \A n \in DOMAIN super' : super'[n] = IF n = s.name THEN s ELSE super[n]
      BY <1>6, <2>2
    <3>3. ASSUME NEW n \in DOMAIN super'
          PROVE  SymbolOf(super'[n], "super", n)
      <4>1. CASE n = s.name
        BY <3>1, <3>2, <4>1
      <4>2. CASE n # s.name
        BY <3>2, <4>2 DEF HooksInv, TablesRead
      <4> QED BY <4>1, <4>2
    <3> QED BY <1>7, <3>2, <3>3 DEF HooksInv, TablesRead
  <2> QED BY <1>5, <2>1, <2>2
<1>9. DOMAIN override' \subseteq Names /\ \A n \in DOMAIN override' : SymbolOf(override'[n], "override", n)
  <2>1. CASE override' = override
    BY <2>1 DEF HooksInv, TablesRead
  <2>2. CASE override' = With(override, s) /\ s.kind = "override" /\ ~Ignored(s)
    <3>1. SymbolOf(s, "override", s.name)
      BY <1>3, <1>7, <2>2 DEF SymbolOf
    <3>2. /\ DOMAIN override' = DOMAIN override \cup {s.name}
          /\ \A n \in DOMAIN override' : override'[n] = IF n = s.name THEN s ELSE override[n]
      BY <1>6, <2>2
    <3>3. ASSUME NEW n \in DOMAIN override'
          PROVE  SymbolOf(override'[n], "override", n)
      <4>1. CASE n = s.name
        BY <3>1, <3>2, <4>1
      <4>2. CASE n # s.name
        BY <3>2, <4>2 DEF HooksInv, TablesRead
      <4> QED BY <4>1, <4>2
    <3> QED BY <1>7, <3>2, <3>3 DEF HooksInv, TablesRead
  <2> QED BY <1>5, <2>1, <2>2
<1>10. TablesRead'
  <2>1. left' \subseteq DOMAIN super'
    BY <1>1, <1>8 DEF HooksInv, TablesRead
  <2> QED BY <1>1, <1>4, <1>8, <1>9, <2>1 DEF TablesRead, SymbolOf
<1>11. TypeOK'
  <2>1. Range(super') \subseteq Range(program.symbols) /\ Range(override') \subseteq Range(program.symbols)
    BY <1>8, <1>9 DEF Range, SymbolOf
  <2> QED BY <1>1, <1>4, <1>8, <1>9, <2>1 DEF HooksInv, TablesRead, TypeOK, cpu
<1> QED BY <1>1, <1>10, <1>11 DEF HooksInv, Located, cpu

LEMMA ReadHooksInv == ASSUME HooksInv, ReadHooks PROVE HooksInv'
<1>1. /\ pc = "read" /\ pc' = "bind" /\ Paired /\ Registrable(program.tables, program.json, deps)
      /\ left' = DOMAIN super \cup DOMAIN override /\ UNCHANGED <<program, mem, tables, cpu>>
  BY DEF ReadHooks
<1>2. left' = DOMAIN super
  BY <1>1 DEF Paired
<1>3. TypeOK'
  BY <1>1, <1>2 DEF HooksInv, TypeOK, tables, cpu
<1>4. TablesRead'
  BY <1>1, <1>2 DEF HooksInv, TablesRead, SymbolOf, Paired, tables, deps
<1>5. Done' = {}
  BY <1>1, <1>2 DEF Done, tables
<1>6. Hooked'
  BY <1>1, <1>5 DEF Hooked, HooksInv
<1> QED BY <1>1, <1>3, <1>4, <1>6 DEF HooksInv, Located, cpu

(* Where it stops, what was written stays a program. *)
LEMMA GivesUpInv ==
    ASSUME HooksInv, pc \in {"read", "bind"}, pc' = "failed", mem' \in [Words -> Instr],
           UNCHANGED <<program, tables, left, cpu>>
    PROVE  HooksInv'
<1>1. TypeOK'
  BY DEF HooksInv, TypeOK, tables, cpu
<1>2. TablesRead'
  BY DEF HooksInv, TablesRead, SymbolOf, tables
<1> QED BY <1>1, <1>2 DEF HooksInv, Located, cpu

LEMMA BindFailsInv ==
    ASSUME AllSupported, HooksInv, NEW n \in left, BindFails(n)
    PROVE  HooksInv'
<1>1. /\ pc = "bind" /\ pc' = "failed" /\ UNCHANGED <<program, tables, left, cpu>>
      /\ mem \in [Words -> Instr]
  BY DEF BindFails, Turn, HooksInv, TypeOK
<1>2. \/ mem' = mem
      \/ \E fn \in Address(n) \cap Words : \E k \in 0 .. Len(Body(n, fn)) : mem' = Patched(n, fn, k)
  BY DEF BindFails
<1>3. mem' \in [Words -> Instr]
  BY <1>1, <1>2, PatchedWords
<1> QED BY <1>1, <1>3, GivesUpInv

LEMMA BootInv == ASSUME HooksInv, Boot PROVE HooksInv'
<1>1. pc = "bind" /\ pc' = "run" /\ left = {} /\ UNCHANGED <<program, mem, tables, left, cpu>>
  BY DEF Boot
<1>2. TypeOK'
  BY <1>1 DEF HooksInv, TypeOK, tables, cpu
<1>3. TablesRead'
  BY <1>1 DEF HooksInv, TablesRead, SymbolOf, tables, deps
<1>4. Hooked'
  BY <1>1, HookedStays DEF HooksInv, tables
<1>5. Located'
  BY <1>1 DEF HooksInv, Located, OnTheWay, cpu
<1> QED BY <1>1, <1>2, <1>3, <1>4, <1>5 DEF HooksInv

(* The branch of an earlier hook is moved to the super function of the next. *)
LEMMA BranchMoved ==
    ASSUME NEW o \in Nat, NEW fn \in Nat, NEW sup \in Nat, SuperFn(Branch(o - fn), fn, sup) # << >>
    PROVE  SuperFn(Branch(o - fn), fn, sup)[1] = Branch(o - sup)
<1> DEFINE i == Branch(o - fn)
<1>1. i \in Instr /\ i.op = "b" /\ i.off = o - fn
  BY DEF Branch, Instr, Ops, Relative
<1>2. i.op \in Decoded /\ i.op \notin FarForm
  BY <1>1 DEF Decoded, FarForm
<1>3. NewOffset(i, fn, sup) = o - sup
  BY <1>1 DEF NewOffset, From
<1>4. [i EXCEPT !.off = o - sup] = Branch(o - sup)
  BY DEF Branch
<1> HIDE DEF i
<1>5. SuperFn(i, fn, sup) = <<[i EXCEPT !.off = NewOffset(i, fn, sup)], Branch(fn - sup)>>
  <2>1. SuperFn(i, fn, sup) # << >>
    BY DEF i
  <2> QED BY <1>1, <1>2, <2>1, Forms
<1>6. SuperFn(i, fn, sup)[1] = Branch(o - sup)
  BY <1>3, <1>4, <1>5
<1> QED BY <1>6 DEF i

(* A super function's words. *)
LEMMA ThreeWords ==
    ASSUME NEW o \in Nat, NEW s \in Nat, o <= s, NEW l \in 0 .. 3
    PROVE  /\ \A k \in 1 .. l : /\ s + k - 1 \in o .. s + 2 /\ s + k - 1 \in s .. s + l - 1
                                /\ (s + k - 1) - s + 1 = k
           /\ \A a \in Int : a \in s .. s + l - 1 => a \in {s, s + 1, s + 2}
OBVIOUS

(* A hook is bound.  The others keep their words: it writes its own super   *)
(* function and a word in no hook.                                          *)
LEMMA BindHookInv ==
    ASSUME AllSupported, HooksInv, NEW n \in left, BindHook(n)
    PROVE  HooksInv'
<1>1. pc = "bind" /\ left' = left \ {n} /\ UNCHANGED <<program, pc, unread, super, override, ip, effect>>
  BY DEF BindHook, Turn, tables, cpu
<1>2. PICK fn \in Address(n) \cap Words :
        Body(n, fn) # << >> /\ mem' = Patched(n, fn, Len(Body(n, fn)))
  BY DEF BindHook
<1>3. /\ n \in DOMAIN super /\ fn \in Nat /\ fn \in Elsewhere(program) /\ fn \in Words
      /\ Fn(n) = fn /\ Address(n) = {fn}
  BY <1>1, <1>2, BindFacts
<1>4. PICK body \in Seq(Instr) :
        /\ body = Body(n, fn) /\ Len(body) \in 0 .. 3 /\ body # << >>
        /\ body = SuperFn(mem[fn], fn, Sup(n))
  BY <1>1, <1>2, BodyFacts
<1>5. /\ mem' \in [Words -> Instr] /\ mem'[fn] = Branch(Over(n) - fn)
      /\ \A a \in Words \ {fn} :
           mem'[a] = IF a \in Sup(n) .. Sup(n) + Len(body) - 1 THEN body[a - Sup(n) + 1] ELSE mem[a]
  <2>1. PICK k \in 0 .. Len(Body(n, fn)) : k = Len(body)
    BY <1>4
  <2>2. mem' = Patched(n, fn, k)
    BY <1>2, <1>4, <2>1
  <2>3. /\ mem' \in [Words -> Instr] /\ mem'[fn] = Branch(Over(n) - fn)
        /\ \A a \in Words \ {fn} :
             mem'[a] = IF a \in Sup(n) .. Sup(n) + k - 1 THEN Body(n, fn)[a - Sup(n) + 1] ELSE mem[a]
    BY <1>1, <2>2, PatchedWords
  <2> QED BY <1>4, <2>1, <2>3
<1>6. TypeOK /\ TablesRead /\ Hooked /\ Located /\ n \notin Done /\ Done' = Done \cup {n}
  BY <1>1, <1>3 DEF HooksInv, Done
<1>7. /\ Over(n) \in Nat /\ Sup(n) \in Nat /\ Over(n) <= Sup(n)
      /\ \A a \in Over(n) .. Sup(n) + 2 : a \in Words /\ a # fn
  BY <1>1, <1>3, <1>6, HookFacts
<1>8. \A a \in Words : a \in Int /\ (a # fn /\ a \notin Over(n) .. Sup(n) + 2 => mem'[a] = mem[a])
  <2>1. PICK l \in 0 .. 3 : l = Len(body)
    BY <1>4
  <2> SUFFICES ASSUME NEW a \in Words, a # fn, a \notin Over(n) .. Sup(n) + 2
               PROVE  mem'[a] = mem[a]
    BY ProgramsAssumption
  <2>2. a \in Int
    BY ProgramsAssumption
  <2>3. a \notin Sup(n) .. Sup(n) + l - 1
    BY <1>7, <2>2
  <2> QED BY <1>5, <2>1, <2>3
<1>9. ASSUME NEW k \in 1 .. Len(body)
      PROVE  mem'[Sup(n) + k - 1] = body[k]
  <2>1. PICK l \in 0 .. 3 : l = Len(body)
    BY <1>4
  <2>2. Over(n) \in Nat /\ Sup(n) \in Nat /\ Over(n) <= Sup(n) /\ k \in 1 .. l
    BY <1>7, <2>1
  <2>3. /\ Sup(n) + k - 1 \in Over(n) .. Sup(n) + 2
        /\ Sup(n) + k - 1 \in Sup(n) .. Sup(n) + l - 1
        /\ (Sup(n) + k - 1) - Sup(n) + 1 = k
    BY <2>2, ThreeWords
  <2> QED BY <1>5, <1>7, <2>1, <2>3
<1>10. \A m \in DOMAIN super : \A b : mem'[b] = mem[b] /\ LeadsOver(m, b) => LeadsOver(m, b)'
  BY <1>1, <1>6, AddressesStay DEF LeadsOver
<1>11. ASSUME NEW m \in Done
       PROVE  /\ Address(m)' = {Fn(m)'} /\ Fn(m)' \in Words
              /\ LeadsOver(m, Fn(m))'
              /\ Holds(m)' \/ LeadsOver(m, Sup(m))'
  <2>1. m \in DOMAIN super /\ m # n /\ Fn(m) \in Words /\ Address(m) = {Fn(m)}
    BY <1>6 DEF Done, Hooked
  <2>2. Fn(m) \in Elsewhere(program)
    BY <1>1, <1>6, <2>1, HookFacts DEF BeginsPlainly
  <2>3. \A a \in Over(m) .. Sup(m) + 2 : mem'[a] = mem[a]
    BY <1>1, <1>3, <1>6, <1>8, <2>1, HookFacts, HooksDisjoint
  <2>4. Sup(m) \in Nat /\ Over(m) \in Nat /\ Over(m) <= Sup(m)
    BY <1>1, <1>6, <2>1, HookFacts
  <2>5. LeadsOver(m, Fn(m))'
    <3>1. CASE Fn(m) = fn
      BY <1>1, <1>3, <1>5, <1>6, <3>1, AddressesStay DEF LeadsOver
    <3>2. CASE Fn(m) # fn
      <4>1. mem'[Fn(m)] = mem[Fn(m)]
        BY <1>1, <1>3, <1>6, <1>8, <2>1, <2>2, <3>2, HookFacts
      <4>2. PICK q \in Done : Fn(q) = Fn(m) /\ mem[Fn(m)] = Branch(Over(q) - Fn(m))
        BY <1>6 DEF Hooked, LeadsOver
      <4> QED BY <1>1, <1>6, <4>1, <4>2, AddressesStay DEF LeadsOver
    <3> QED BY <3>1, <3>2
  <2>6. ASSUME LeadsOver(m, Sup(m))
        PROVE  LeadsOver(m, Sup(m))'
    <3>1. mem'[Sup(m)] = mem[Sup(m)]
      BY <2>3, <2>4
    <3>2. PICK q \in Done : Fn(q) = Fn(m) /\ mem[Sup(m)] = Branch(Over(q) - Sup(m))
      BY <2>6 DEF LeadsOver
    <3> QED BY <1>1, <1>6, <3>1, <3>2, AddressesStay DEF LeadsOver
  <2>7. ASSUME Holds(m)
        PROVE  Holds(m)'
    <3>1. Old(m) \in Instr /\ Fn(m) \in Nat
      BY <1>6, <2>1, ProgramsAssumption DEF Old, TypeOK
    <3>2. Len(SuperFn(Old(m), Fn(m), Sup(m))) \in 0 .. 3
      BY <2>4, <3>1, BodyTyped
    <3>3. \A k \in 1 .. Len(SuperFn(Old(m), Fn(m), Sup(m))) : Sup(m) + k - 1 \in Over(m) .. Sup(m) + 2
      BY <2>4, <3>2, ThreeWords
    <3> QED BY <1>1, <2>3, <2>7, <3>3, HoldsStays
  <2>8. Holds(m) \/ LeadsOver(m, Sup(m))
    BY <1>6 DEF Hooked
  <2> QED BY <1>1, <2>1, <2>5, <2>6, <2>7, <2>8, AddressesStay
<1>12. /\ Address(n)' = {Fn(n)'} /\ Fn(n)' \in Words
       /\ LeadsOver(n, Fn(n))'
       /\ Holds(n)' \/ LeadsOver(n, Sup(n))'
  <2>1. LeadsOver(n, Fn(n))'
    BY <1>1, <1>3, <1>5, <1>6, AddressesStay DEF LeadsOver
  <2>2. CASE mem[fn] = program.code[fn]
    <3>1. body = SuperFn(Old(n), Fn(n), Sup(n))
      BY <1>3, <1>4, <2>2 DEF Old
    <3>2. Holds(n)'
      BY <1>1, <1>4, <1>9, <3>1, AddressesStay DEF Holds
    <3> QED BY <1>1, <1>3, <2>1, <3>2, AddressesStay
  <2>3. CASE \E m \in Done : Fn(m) = fn /\ mem[fn] = Branch(Over(m) - fn)
    <3>1. PICK m \in Done : Fn(m) = fn /\ mem[fn] = Branch(Over(m) - fn)
      BY <2>3
    <3>2. Over(m) \in Nat
      BY <1>1, <1>6, HookFacts DEF Done
    <3>3. body[1] = Branch(Over(m) - Sup(n))
      BY <1>3, <1>4, <1>7, <3>1, <3>2, BranchMoved
    <3>4. Len(body) # 0 /\ Sup(n) + 1 - 1 = Sup(n)
      BY <1>4, <1>7
    <3>5. mem'[Sup(n)] = Branch(Over(m) - Sup(n))
      BY <1>4, <1>9, <3>3, <3>4
    <3>6. LeadsOver(n, Sup(n))'
      BY <1>1, <1>3, <1>6, <3>1, <3>5, AddressesStay DEF LeadsOver
    <3> QED BY <1>1, <1>3, <2>1, <3>6, AddressesStay
  <2> QED BY <1>1, <1>3, <1>6, <2>2, <2>3, OtherWords
<1>13. ASSUME NEW a \in Words, \A m \in Done' : a \notin Patches(m)'
       PROVE  mem'[a] = program.code[a]
  <2>1. \A m \in Done \cup {n} : a \notin Patches(m)
    BY <1>1, <1>6, <1>13, AddressesStay
  <2>2. a # fn /\ a \notin {Sup(n), Sup(n) + 1, Sup(n) + 2}
    BY <1>3, <2>1 DEF Patches
  <2>3. a \notin Sup(n) .. Sup(n) + Len(body) - 1
    BY <1>4, <1>7, <1>8, <2>2, ThreeWords
  <2>4. mem'[a] = mem[a]
    BY <1>5, <2>2, <2>3
  <2> QED BY <1>6, <2>1, <2>4 DEF Hooked
<1>14. Hooked'
  BY <1>1, <1>6, <1>11, <1>12, <1>13 DEF Hooked
<1>15. TypeOK' /\ TablesRead'
  BY <1>1, <1>5, <1>6 DEF TypeOK, TablesRead, SymbolOf, deps
<1> QED BY <1>1, <1>6, <1>14, <1>15 DEF HooksInv, Located

-----------------------------------------------------------------------------
(* Where the original kernel is. *)
Running ==
    /\ AllSupported /\ TypeOK /\ TablesRead /\ Hooked
    /\ pc \in {"bind", "run"} /\ left = {}

(* The kernel as it was never runs into a hook. *)
LEMMA ElsewhereStays ==
    ASSUME Running, NEW a \in Elsewhere(program), NEW x \in After(program.code[a], a)
    PROVE  x \in Elsewhere(program) \cup {Outside}
BY DEF Running, TypeOK, AllSupported, Supported, HooksApart

(* A hooked function lies outside the hooks and begins plainly. *)
LEMMA FnFacts ==
    ASSUME Running, NEW n \in DOMAIN super
    PROVE  /\ Fn(n) \in Nat /\ Fn(n) \in Elsewhere(program)
           /\ Old(n) \in Instr /\ Old(n).op \notin {"bti", "movw", "bcond"}
           /\ Pad(n) = Fn(n)
<1>1. n \in Done /\ Fn(n) \in Words /\ Fn(n) \in Address(n)
  BY DEF Running, Done, Hooked
<1>2. BeginsPlainly(program, Fn(n))
  BY <1>1, HookFacts DEF Running
<1>3. Old(n) \in Instr /\ Fn(n) \in Nat
  BY <1>1, ProgramsAssumption DEF Old, Running, TypeOK
<1>4. Pad(n) = Fn(n)
  BY <1>2 DEF Pad, AfterPad, Fn, BeginsPlainly
<1> QED BY <1>2, <1>3, <1>4 DEF BeginsPlainly, Old

(* The mapping, spelled out. *)
LEMMA OriginsAre ==
    ASSUME Running, NEW a, NEW b
    PROVE  b \in Origins(a) <=>
             \E n \in DOMAIN super :
               \/ a \in Over(n) .. Sup(n) /\ b = Fn(n)
               \/ a = Sup(n) + 1 /\ b = Fn(n) + 1
               \/ a = Sup(n) + 2 /\ b = Fn(n) + Old(n).off
<1>1. \A n \in DOMAIN super : Pad(n) = Fn(n)
  BY FnFacts
<1> DEFINE Of(n) == {Pad(n) : x \in {a} \cap (Over(n) .. Sup(n))}
                    \cup {Pad(n) + 1 : x \in {a} \cap {Sup(n) + 1}}
                    \cup {Pad(n) + program.code[Pad(n)].off : x \in {a} \cap {Sup(n) + 2}}
<1>2. Origins(a) = UNION {Of(n) : n \in DOMAIN super}
  BY DEF Origins, Over, Sup
<1>3. ASSUME NEW n
      PROVE  b \in Of(n) <=> \/ a \in Over(n) .. Sup(n) /\ b = Pad(n)
                             \/ a = Sup(n) + 1 /\ b = Pad(n) + 1
                             \/ a = Sup(n) + 2 /\ b = Pad(n) + program.code[Pad(n)].off
  OBVIOUS
<1> HIDE DEF Of
<1>4. b \in Origins(a) <=> \E n \in DOMAIN super : b \in Of(n)
  BY <1>2
<1> QED BY <1>1, <1>3, <1>4 DEF Old

(* Each word of a hook has one home, other words are at home. *)
LEMMA HomeInHook ==
    ASSUME Running, NEW n \in DOMAIN super
    PROVE  /\ \A a \in Over(n) .. Sup(n) : Home(a) = Fn(n)
           /\ Home(Sup(n) + 1) = Fn(n) + 1
           /\ Home(Sup(n) + 2) = Fn(n) + Old(n).off
<1>1. Over(n) \in Nat /\ Sup(n) \in Nat /\ Over(n) <= Sup(n)
  BY HookFacts DEF Running
<1>2. ASSUME NEW a \in Over(n) .. Sup(n) + 2, NEW b,
             \/ a \in Over(n) .. Sup(n) /\ b = Fn(n)
             \/ a = Sup(n) + 1 /\ b = Fn(n) + 1
             \/ a = Sup(n) + 2 /\ b = Fn(n) + Old(n).off
      PROVE  Home(a) = b
  <2>1. b \in Origins(a)
    BY <1>2, OriginsAre
  <2>2. ASSUME NEW m \in DOMAIN super, m # n
        PROVE  a \notin Over(m) .. Sup(m) /\ a # Sup(m) + 1 /\ a # Sup(m) + 2
    <3>1. a \notin Over(m) .. Sup(m) + 2
      BY <2>2, HooksDisjoint DEF Running
    <3>2. Over(m) \in Nat /\ Sup(m) \in Nat /\ Over(m) <= Sup(m)
      BY HookFacts DEF Running
    <3> QED BY <3>1, <3>2
  <2>3. \A c : c \in Origins(a) => c = b
    BY <1>1, <1>2, <2>2, OriginsAre
  <2> QED BY <2>1, <2>3 DEF Home
<1>3. Sup(n) + 1 \in Over(n) .. Sup(n) + 2 /\ Sup(n) + 2 \in Over(n) .. Sup(n) + 2
      /\ \A a \in Over(n) .. Sup(n) : a \in Over(n) .. Sup(n) + 2
  BY <1>1
<1> QED BY <1>2, <1>3

LEMMA HomeElsewhere ==
    ASSUME Running, NEW a \in Elsewhere(program) \cup {Outside}
    PROVE  Home(a) = a
<1>1. ASSUME NEW n \in DOMAIN super
      PROVE  a \notin Over(n) .. Sup(n) /\ a # Sup(n) + 1 /\ a # Sup(n) + 2
  <2>1. Over(n) \in Nat /\ Sup(n) \in Nat /\ Over(n) <= Sup(n)
    BY HookFacts DEF Running
  <2>2. a \notin Over(n) .. Sup(n) + 2
    BY <2>1, HookFacts DEF Running, Outside
  <2> QED BY <2>1, <2>2
<1>2. Origins(a) = {}
  BY <1>1, OriginsAre
<1> QED BY <1>2 DEF Home

-----------------------------------------------------------------------------
(* A step of the patched kernel: it stays on the ways described, and is a   *)
(* step of the original or none.                                            *)
Matches(a, x) ==
    \/ /\ Home(a) \in Words
       /\ Home(x) \in After(program.code[Home(a)], Home(a))
       /\ \A last : Effect(mem[a], a, last) = Effect(program.code[Home(a)], Home(a), last)
    \/ /\ Home(x) = Home(a)
       /\ \A last : Effect(mem[a], a, last) = last

(* A branch leads to its target and computes nothing. *)
LEMMA BranchSteps ==
    ASSUME NEW a \in Int, NEW o \in Int
    PROVE  After(Branch(o - a), a) = {o} /\ \A last : Effect(Branch(o - a), a, last) = last
<1>1. After(Branch(o - a), a) = {a + (o - a)}
  BY DEF After, Branch, Conditional
<1>2. \A last : Effect(Branch(o - a), a, last) = last
  BY DEF Effect, Branch
<1> QED BY <1>1, <1>2

(* From a hooked function, or from a super function that leads to the       *)
(* override of another name, to the start of an override.                   *)
LEMMA ToOverride ==
    ASSUME Running, NEW a \in Int, NEW m \in DOMAIN super, mem[a] = Branch(Over(m) - a),
           Home(a) = Fn(m), NEW x \in After(mem[a], a)
    PROVE  OnTheWay(x) /\ Matches(a, x)
<1>1. Over(m) \in Nat /\ Sup(m) \in Nat /\ Over(m) <= Sup(m) /\ m \in Done
  BY HookFacts DEF Running, Done
<1>2. x = Over(m) /\ \A last : Effect(mem[a], a, last) = last
  BY <1>1, BranchSteps
<1>3. x \in Over(m) .. Sup(m)
  BY <1>1, <1>2
<1>4. Home(x) = Fn(m)
  BY <1>3, HomeInHook
<1> QED BY <1>1, <1>2, <1>3, <1>4 DEF OnTheWay, In, Matches

(* A step from a word outside the hooks, patched or not. *)
LEMMA FromElsewhere ==
    ASSUME Running, NEW a \in Elsewhere(program), NEW x \in After(mem[a], a)
    PROVE  OnTheWay(x) /\ Matches(a, x)
<1>1. Home(a) = a /\ a \in Words /\ a \in Int
  BY HomeElsewhere, ProgramsAssumption DEF Elsewhere
<1>2. CASE mem[a] = program.code[a]
  <2>1. x \in Elsewhere(program) \cup {Outside}
    BY <1>2, ElsewhereStays
  <2>2. Home(x) = x
    BY <2>1, HomeElsewhere
  <2> QED BY <1>1, <1>2, <2>1, <2>2 DEF OnTheWay, Matches
<1>3. CASE \E m \in Done : Fn(m) = a /\ mem[a] = Branch(Over(m) - a)
  BY <1>1, <1>3, ToOverride DEF Done
<1> QED BY <1>2, <1>3, OtherWords DEF Running

(* A step on the way from an override to its super function: a stutter. *)
LEMMA AlongOverride ==
    ASSUME Running, NEW n \in DOMAIN super, NEW a \in Over(n) .. Sup(n) - 1,
           NEW x \in After(mem[a], a)
    PROVE  OnTheWay(x) /\ Matches(a, x)
<1>1. Over(n) \in Nat /\ Sup(n) \in Nat /\ n \in Done
  BY HookFacts DEF Running, Done
<1>2. a \in Over(n) .. Sup(n) /\ a \in Over(n) .. Sup(n) + 2 /\ a < Sup(n)
  BY <1>1
<1>3. mem[a] = program.code[a]
  BY <1>2, HookWords DEF Running
<1>4. x \in Over(n) .. Sup(n) /\ mem[a].op \in Conditional \cup {"b", "bti"}
  BY <1>3, HookFacts DEF Running
<1>5. Home(a) = Fn(n) /\ Home(x) = Fn(n)
  BY <1>2, <1>4, HomeInHook
<1>6. \A last : Effect(mem[a], a, last) = last
  BY <1>4 DEF Effect, Conditional
<1> QED BY <1>1, <1>4, <1>5, <1>6 DEF OnTheWay, In, Matches

(* The words of a super function that holds the relocated instruction.      *)
LEMMA HeldWords ==
    ASSUME Running, NEW n \in DOMAIN super, Holds(n), NEW last
    PROVE  LET i == Old(n) IN
           /\ Effect(mem[Sup(n)], Sup(n), last) = Effect(i, Fn(n), last)
           /\ {There(i, Fn(n), Sup(n), x) : x \in After(mem[Sup(n)], Sup(n))} = After(i, Fn(n))
           /\ After(mem[Sup(n) + 1], Sup(n) + 1) = {Fn(n) + 1}
           /\ Effect(mem[Sup(n) + 1], Sup(n) + 1, last) = last
           /\ Sup(n) + 2 \in After(mem[Sup(n)], Sup(n)) =>
                /\ After(mem[Sup(n) + 2], Sup(n) + 2) = {Fn(n) + i.off}
                /\ Effect(mem[Sup(n) + 2], Sup(n) + 2, last) = last
<1>1. /\ Fn(n) \in Nat /\ Fn(n) \in Elsewhere(program) /\ Old(n) \in Instr
      /\ Old(n).op \notin {"movw", "bcond"}
  BY FnFacts
<1>2. /\ Over(n) \in Nat /\ Sup(n) \in Nat /\ Over(n) <= Sup(n)
      /\ \A a \in Over(n) .. Sup(n) + 2 : a \notin Elsewhere(program)
  BY HookFacts DEF Running
<1>3. Outward(Old(n), Fn(n), Sup(n))
  <2> SUFFICES ASSUME Old(n).op \in {"b"} \cup Conditional
               PROVE  Fn(n) + Old(n).off # Sup(n) + 1 /\ Fn(n) + Old(n).off # Sup(n) + 2
    BY DEF Outward
  <2>1. Fn(n) + Old(n).off \in After(Old(n), Fn(n))
    BY DEF After
  <2>2. Fn(n) + Old(n).off \in Elsewhere(program) \cup {Outside}
    BY <1>1, <2>1, ElsewhereStays DEF Old
  <2>3. Sup(n) + 1 \in Over(n) .. Sup(n) + 2 /\ Sup(n) + 2 \in Over(n) .. Sup(n) + 2
    BY <1>2
  <2> QED BY <1>2, <2>2, <2>3 DEF Outside
<1>4. PICK body : body = SuperFn(Old(n), Fn(n), Sup(n))
  OBVIOUS
<1>5. body # << >> /\ \A k \in 1 .. Len(body) : mem[Sup(n) + k - 1] = body[k]
  BY <1>4 DEF Holds
<1>6. Len(body) \in {2, 3}
  <2>1. \A u, v, w : Len(<<u, v>>) = 2 /\ Len(<<u, v, w>>) = 3
    OBVIOUS
  <2>2. (\E u, v : body = <<u, v>>) \/ (\E u, v, w : body = <<u, v, w>>)
    BY <1>1, <1>2, <1>4, <1>5, Forms
  <2> QED BY <2>1, <2>2
<1>7. /\ mem[Sup(n)] = body[1] /\ mem[Sup(n) + 1] = body[2]
      /\ Len(body) = 3 => mem[Sup(n) + 2] = body[3]
  <2>1. 1 \in 1 .. Len(body) /\ 2 \in 1 .. Len(body) /\ (Len(body) = 3 => 3 \in 1 .. Len(body))
    BY <1>6
  <2>2. Sup(n) + 1 - 1 = Sup(n) /\ Sup(n) + 2 - 1 = Sup(n) + 1 /\ Sup(n) + 3 - 1 = Sup(n) + 2
    BY <1>2
  <2> QED BY <1>5, <2>1, <2>2
<1>8. Faithful(body, Old(n), Fn(n), Sup(n), last)
  BY <1>1, <1>2, <1>3, <1>4, <1>5, SuperFnFaithful
<1> QED BY <1>7, <1>8 DEF Faithful

(* A step of the relocated instruction: the step of the original one. *)
LEMMA FromSuper ==
    ASSUME Running, NEW n \in DOMAIN super, Holds(n), NEW x \in After(mem[Sup(n)], Sup(n))
    PROVE  OnTheWay(x) /\ Matches(Sup(n), x)
<1>1. /\ Over(n) \in Nat /\ Sup(n) \in Nat /\ Over(n) <= Sup(n) /\ n \in Done
      /\ Fn(n) \in Elsewhere(program) /\ Fn(n) \in Words
  BY HookFacts, FnFacts DEF Running, Done, Elsewhere
<1>2. PICK y : y = There(Old(n), Fn(n), Sup(n), x)
  OBVIOUS
<1>3. y \in After(Old(n), Fn(n))
  BY <1>2, HeldWords
<1>4. y \in Elsewhere(program) \cup {Outside}
  BY <1>1, <1>3, ElsewhereStays DEF Old
<1>5. Home(x) = y
  <2>1. CASE x = Sup(n) + 1 \/ x = Sup(n) + 2
    BY <1>1, <1>2, <2>1, HomeInHook DEF There
  <2>2. CASE x # Sup(n) + 1 /\ x # Sup(n) + 2
    BY <1>2, <1>4, <2>2, HomeElsewhere DEF There
  <2> QED BY <2>1, <2>2
<1>6. OnTheWay(x)
  <2>1. CASE x = Sup(n) + 1 \/ x = Sup(n) + 2
    BY <1>1, <2>1 DEF OnTheWay, In
  <2>2. CASE x # Sup(n) + 1 /\ x # Sup(n) + 2
    BY <1>2, <1>4, <2>2 DEF OnTheWay, There
  <2> QED BY <2>1, <2>2
<1>7. Home(Sup(n)) = Fn(n)
  <2>1. Sup(n) \in Over(n) .. Sup(n)
    BY <1>1
  <2> QED BY <2>1, HomeInHook
<1>8. \A last : Effect(mem[Sup(n)], Sup(n), last) = Effect(Old(n), Fn(n), last)
  BY HeldWords
<1> QED BY <1>1, <1>3, <1>5, <1>6, <1>7, <1>8 DEF Matches, Old

(* Behind the relocated instruction. *)
LEMMA BehindSuper ==
    ASSUME Running, NEW n \in DOMAIN super, Holds(n), NEW a \in {Sup(n) + 1, Sup(n) + 2},
           a \in After(mem[Sup(n)], Sup(n)), NEW x \in After(mem[a], a)
    PROVE  OnTheWay(x) /\ Matches(a, x)
<1>1. Sup(n) \in Nat /\ Fn(n) \in Elsewhere(program)
  BY HookFacts, FnFacts DEF Running
<1>2. PICK y : y = There(Old(n), Fn(n), Sup(n), a)
  OBVIOUS
<1>3. y \in After(Old(n), Fn(n))
  BY <1>2, HeldWords
<1>4. y \in Elsewhere(program) \cup {Outside}
  BY <1>1, <1>3, ElsewhereStays DEF Old
<1>5. Home(a) = y
  BY <1>1, <1>2, HomeInHook DEF There
<1>6. x = y /\ \A last : Effect(mem[a], a, last) = last
  <2>1. CASE a = Sup(n) + 1
    <3>1. y = Fn(n) + 1
      BY <1>2, <2>1 DEF There
    <3> QED BY <2>1, <3>1, HeldWords
  <2>2. CASE a = Sup(n) + 2
    <3>1. y = Fn(n) + Old(n).off
      BY <1>1, <1>2, <2>2 DEF There
    <3> QED BY <2>2, <3>1, HeldWords
  <2> QED BY <2>1, <2>2
<1>7. Home(x) = y
  BY <1>4, <1>6, HomeElsewhere
<1> QED BY <1>4, <1>5, <1>6, <1>7 DEF OnTheWay, Matches

(* Every step of the patched kernel. *)
LEMMA Moves ==
    ASSUME Running, NEW a, a # Outside, OnTheWay(a), NEW x \in After(mem[a], a)
    PROVE  OnTheWay(x) /\ Matches(a, x)
<1>1. CASE a \in Elsewhere(program)
  BY <1>1, FromElsewhere
<1>2. ASSUME NEW n \in Done, In(n, a)
      PROVE  OnTheWay(x) /\ Matches(a, x)
  <2>1. n \in DOMAIN super /\ Over(n) \in Nat /\ Sup(n) \in Nat /\ Over(n) <= Sup(n)
    BY HookFacts DEF Running, Done
  <2>2. CASE a \in Over(n) .. Sup(n) - 1
    BY <2>1, <2>2, AlongOverride
  <2>3. CASE a = Sup(n) /\ Holds(n)
    BY <2>1, <2>3, FromSuper
  <2>4. CASE a = Sup(n) /\ LeadsOver(n, Sup(n))
    <3>1. PICK m \in Done : Fn(m) = Fn(n) /\ mem[a] = Branch(Over(m) - a)
      BY <2>4 DEF LeadsOver
    <3>2. Home(a) = Fn(m)
      <4>1. a \in Over(n) .. Sup(n)
        BY <2>1, <2>4
      <4> QED BY <2>1, <3>1, <4>1, HomeInHook
    <3>3. m \in DOMAIN super /\ a \in Int
      BY <2>1, <2>4 DEF Done
    <3> QED BY <3>1, <3>2, <3>3, ToOverride
  <2>5. CASE Holds(n) /\ a \in {Sup(n) + 1, Sup(n) + 2} /\ a \in After(mem[Sup(n)], Sup(n))
    BY <2>1, <2>5, BehindSuper
  <2>6. Holds(n) \/ LeadsOver(n, Sup(n))
    BY DEF Running, Hooked
  <2>7. a \in Over(n) .. Sup(n) => a \in Over(n) .. Sup(n) - 1 \/ a = Sup(n)
    BY <2>1
  <2> QED BY <1>2, <2>2, <2>3, <2>4, <2>5, <2>6, <2>7 DEF In
<1> QED BY <1>1, <1>2 DEF OnTheWay

-----------------------------------------------------------------------------
(* The invariant holds while the kernel runs. *)
LEMMA EffectTyped ==
    ASSUME NEW i \in Instr, NEW a \in Int,
           NEW last \in {"none", "plain", "movw", "adr", "adrp", "ldr"} \X Int
    PROVE  Effect(i, a, last) \in {"none", "plain", "movw", "adr", "adrp", "ldr"} \X Int
<1>1. i.off \in Int /\ From(i, a) \in Int
  BY PageIsInt DEF Instr, From
<1> QED BY <1>1 DEF Effect

LEMMA OnTheWayTyped == ASSUME Running, NEW a, OnTheWay(a) PROVE a \in Words \cup {Outside}
<1>1. ASSUME NEW n \in Done, In(n, a)
      PROVE  a \in Words
  <2>1. n \in DOMAIN super /\ Over(n) \in Nat /\ Sup(n) \in Nat /\ Over(n) <= Sup(n)
    BY HookFacts DEF Running, Done
  <2>2. a \in Over(n) .. Sup(n) + 2
    BY <1>1, <2>1 DEF In
  <2> QED BY <2>1, <2>2, HookFacts DEF Running
<1> QED BY <1>1 DEF OnTheWay, Elsewhere

(* Once the kernel runs, the way and the homes stay what they are. *)
LEMMA WaysStay ==
    ASSUME UNCHANGED <<program, mem, super, override, left>>, NEW a, OnTheWay(a)
    PROVE  OnTheWay(a)'
<1>1. Done' = Done
  BY DEF Done
<1>2. ASSUME NEW n, In(n, a)
      PROVE  In(n, a)'
  <2>1. CASE a \in Over(n) .. Sup(n)
    BY <2>1, AddressesStay DEF In
  <2>2. CASE Holds(n) /\ a \in {Sup(n) + 1, Sup(n) + 2} /\ a \in After(mem[Sup(n)], Sup(n))
    <3>1. Holds(n)'
      BY <2>2, HoldsStays
    <3> QED BY <2>2, <3>1, AddressesStay DEF In
  <2> QED BY <1>2, <2>1, <2>2 DEF In
<1> QED BY <1>1, <1>2 DEF OnTheWay

LEMMA HomeStays ==
    ASSUME UNCHANGED <<program, super, override>>, NEW a, ip' = a
    PROVE  Home(ip)' = Home(a)
<1>1. Origins(ip)' = Origins(a)
  BY DEF Origins, Pad, Address, deps
<1> QED BY <1>1 DEF Home

LEMMA RunInv ==
    ASSUME AllSupported, HooksInv, Call \/ Step
    PROVE  HooksInv'
<1>1. pc = "run" /\ UNCHANGED <<program, mem, pc, unread, super, override, left>>
  BY DEF Call, Step, tables
<1>2. Running /\ OnTheWay(ip)
  BY <1>1 DEF HooksInv, Running, Located
<1>3. PICK x : x = ip'
  OBVIOUS
<1>4. OnTheWay(x) /\ effect' \in {"none", "plain", "movw", "adr", "adrp", "ldr"} \X Int
  <2>1. CASE Call
    <3>1. x \in Elsewhere(program)
      BY <1>2, <1>3, <2>1 DEF Call, Running, TypeOK, AllSupported, Supported, HooksApart
    <3> QED BY <2>1, <3>1 DEF Call, OnTheWay, NoEffect
  <2>2. CASE Step
    <3>1. ip # Outside /\ x \in After(mem[ip], ip) /\ effect' = Effect(mem[ip], ip, effect)
      BY <1>3, <2>2 DEF Step
    <3>2. OnTheWay(x)
      BY <1>2, <3>1, Moves
    <3>3. ip \in Words /\ ip \in Int /\ mem[ip] \in Instr
      <4>1. ip \in Words
        BY <1>2, <3>1, OnTheWayTyped
      <4>2. Words \subseteq Nat /\ mem \in [Words -> Instr]
        BY <1>2, ProgramsAssumption DEF Running, TypeOK
      <4> QED BY <4>1, <4>2
    <3> QED BY <1>2, <3>1, <3>2, <3>3, EffectTyped DEF Running, TypeOK
  <2> QED BY <2>1, <2>2
<1>5. TypeOK'
  BY <1>1, <1>2, <1>3, <1>4, OnTheWayTyped DEF Running, TypeOK
<1>6. TablesRead'
  BY <1>1 DEF HooksInv, TablesRead, SymbolOf, deps
<1>7. Hooked'
  BY <1>1, <1>2, HookedStays DEF Running
<1>8. Located'
  <2>1. OnTheWay(x)'
    BY <1>1, <1>4, WaysStay
  <2>2. OnTheWay(ip)'
    BY <1>3, <2>1 DEF OnTheWay, In
  <2> QED BY <1>1, <1>2, <2>2 DEF Located, Running
<1> QED BY <1>1, <1>5, <1>6, <1>7, <1>8 DEF HooksInv

LEMMA NextHooksInv == ASSUME AllSupported, HooksInv, [Next]_vars PROVE HooksInv'
<1>1. CASE ReadFails
  BY <1>1, GivesUpInv DEF ReadFails, HooksInv, TypeOK
<1>2. CASE \E n \in left : BindHook(n) \/ BindFails(n)
  BY <1>2, BindHookInv, BindFailsInv
<1>3. CASE UNCHANGED vars
  <2>1. UNCHANGED <<program, mem, pc, unread, super, override, left, ip, effect>>
    BY <1>3 DEF vars, tables, cpu
  <2>2. TypeOK' /\ TablesRead'
    BY <2>1 DEF HooksInv, TypeOK, TablesRead, SymbolOf, deps
  <2>3. Hooked => Hooked'
    BY <2>1, HookedStays
  <2>4. PICK x : x = ip
    OBVIOUS
  <2>5. OnTheWay(x) => OnTheWay(x)'
    BY <2>1, WaysStay
  <2>6. Located'
    BY <2>1, <2>4, <2>5 DEF HooksInv, Located, OnTheWay, In
  <2> QED BY <2>1, <2>2, <2>3, <2>6 DEF HooksInv
<1>4. CASE Failed
  BY <1>3, <1>4 DEF Failed
<1> QED BY <1>1, <1>2, <1>3, <1>4, ReadSymbolInv, ReadHooksInv, BootInv, RunInv DEF Next

(* The invariant holds in every reachable state. *)
LEMMA HooksInvariance == AllSupported => (Spec => []HooksInv)
<1> SUFFICES ASSUME AllSupported PROVE Spec => []HooksInv
  OBVIOUS
<1>1. HooksInv /\ [Next]_vars => HooksInv'
  BY NextHooksInv
<1> QED BY <1>1, InitInv, PTL DEF Spec

(* For every supported kernel and kext: what bind_hooks leaves are machine  *)
(* words, also where it stops half way, and control never gets out of them. *)
THEOREM HooksTypeCorrect == AllSupported => (Spec => []TypeOK)
BY HooksInvariance, PTL DEF HooksInv

-----------------------------------------------------------------------------
(* The refinement. *)
LEMMA SameMachine ==
    /\ Original!Outside = Outside /\ Original!NoEffect = NoEffect
    /\ \A i, a : Original!After(i, a) = After(i, a)
    /\ \A i, a, last : Original!Effect(i, a, last) = Effect(i, a, last)
<1>1. Original!Outside = Outside /\ Original!NoEffect = NoEffect /\ Original!Conditional = Conditional
  BY DEF Original!Outside, Outside, Original!NoEffect, NoEffect, Original!Conditional, Conditional
<1>2. \A i, a : Original!From(i, a) = From(i, a)
  BY DEF Original!From, From, Original!Page, Page
<1>3. \A i, a : Original!After(i, a) = After(i, a)
  BY <1>1 DEF Original!After, After
<1>4. \A i, a, last : Original!Effect(i, a, last) = Effect(i, a, last)
  BY <1>2 DEF Original!Effect, Effect
<1> QED BY <1>1, <1>3, <1>4

(* Every step is a step of the original kernel or a stutter. *)
LEMMA StepIsHidden ==
    ASSUME AllSupported, HooksInv, [Next]_vars
    PROVE  [Original!Next]_(Original!vars)
<1>1. CASE Call
  <2>1. Running /\ pc = "run" /\ pc' = pc /\ UNCHANGED <<program, super, override>>
    BY <1>1 DEF HooksInv, Running, Located, Call, tables
  <2>2. PICK x : x = ip' /\ x \in program.entries
    BY <1>1 DEF Call
  <2>3. x \in Elsewhere(program)
    BY <2>1, <2>2 DEF Running, TypeOK, AllSupported, Supported, HooksApart
  <2>4. Home(ip) = Outside /\ Home(ip)' = x
    <3>1. ip = Outside
      BY <1>1 DEF Call
    <3>2. Home(Outside) = Outside /\ Home(x) = x
      BY <2>1, <2>3, HomeElsewhere
    <3> QED BY <2>1, <2>2, <3>1, <3>2, HomeStays
  <2>5. Original!Call
    BY <1>1, <2>1, <2>2, <2>4, SameMachine DEF Original!Call, Call
  <2> QED BY <2>5 DEF Original!Next
<1>2. CASE Step
  <2>1. Running /\ OnTheWay(ip) /\ pc = "run" /\ pc' = pc /\ UNCHANGED <<program, super, override>>
    BY <1>2 DEF HooksInv, Running, Located, Step, tables
  <2>2. PICK x : x = ip' /\ x \in After(mem[ip], ip)
    BY <1>2 DEF Step
  <2>3. ip # Outside /\ effect' = Effect(mem[ip], ip, effect)
    BY <1>2 DEF Step
  <2>4. Matches(ip, x) /\ Home(ip)' = Home(x)
    BY <2>1, <2>2, <2>3, Moves, HomeStays
  <2>5. CASE /\ Home(x) = Home(ip)
             /\ \A last : Effect(mem[ip], ip, last) = last
    BY <2>1, <2>3, <2>4, <2>5 DEF Original!vars
  <2>6. CASE /\ Home(ip) \in Words /\ Home(x) \in After(program.code[Home(ip)], Home(ip))
             /\ \A last : Effect(mem[ip], ip, last) =
                             Effect(program.code[Home(ip)], Home(ip), last)
    <3>1. Home(ip) # Outside
      BY <2>6, ProgramsAssumption DEF Outside
    <3>2. Original!Step
      BY <2>1, <2>3, <2>4, <2>6, <3>1, SameMachine DEF Original!Step
    <3> QED BY <3>2 DEF Original!Next
  <2> QED BY <2>4, <2>5, <2>6 DEF Matches
<1>3. CASE Boot
  <2>1. /\ pc # "run" /\ pc' = "run" /\ ip = Outside /\ ip' = ip
        /\ UNCHANGED <<program, mem, super, override, left, effect>>
    BY <1>3 DEF Boot, HooksInv, Located, tables, cpu
  <2>2. Running
    BY <1>3, <2>1 DEF Boot, HooksInv, Running
  <2>3. Home(Outside) = Outside
    BY <2>2, HomeElsewhere
  <2>4. Home(ip)' = Outside
    BY <2>1, <2>3, HomeStays
  <2> QED BY <2>1, <2>4 DEF Original!vars
<1>4. CASE ReadSymbol \/ ReadHooks \/ ReadFails \/ Failed \/ \E n \in left : BindHook(n) \/ BindFails(n)
  <2>1. pc # "run" /\ pc' # "run" /\ UNCHANGED <<program, effect>>
    BY <1>4 DEF ReadSymbol, ReadHooks, ReadFails, Failed, BindHook, BindFails, Turn, vars, cpu
  <2> QED BY <2>1 DEF Original!vars
<1>5. CASE UNCHANGED vars
  <2>1. UNCHANGED <<program, super, override, pc, effect, ip>>
    BY <1>5 DEF vars, tables, cpu
  <2>2. Home(ip)' = Home(ip)
    <3>1. PICK x : x = ip
      OBVIOUS
    <3> QED BY <2>1, <3>1, HomeStays
  <2> QED BY <2>1, <2>2 DEF Original!vars
<1> QED BY <1>1, <1>2, <1>3, <1>4, <1>5 DEF Next

(* "relocated original first instruction [...]" (README.md:73): with        *)
(* overrides that do nothing but pass on to their super functions, however  *)
(* many hooks and names of one function there are, and wherever the kernel  *)
(* is called, each step of the patched kernel is a step of the original one *)
(* or does not show.                                                        *)
THEOREM PatchedKernelIsOriginal == AllSupported => (Spec => HooksInvisible)
<1> SUFFICES ASSUME AllSupported PROVE Spec => HooksInvisible
  OBVIOUS
<1>1. Init => Original!Init
  BY SameMachine DEF Init, Original!Init
<1>2. HooksInv /\ [Next]_vars => [Original!Next]_(Original!vars)
  BY StepIsHidden
<1>3. Spec => []HooksInv
  BY HooksInvariance
<1> QED BY <1>1, <1>2, <1>3, PTL DEF Spec, HooksInvisible, Original!Spec
=============================================================================
