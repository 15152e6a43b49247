------------------------------ MODULE Symbols -------------------------------
(* SymbolRegistry (symidx.cpp) as construct_symbol_registry fills it: the   *)
(* symbol tables of the filesets a kext depends on, and the addresses a     *)
(* json file gives for names of those filesets.                             *)
EXTENDS Naturals, Sequences, FiniteSets, Functions

CONSTANTS
    Kernel,   \* "com.apple.kernel"
    Kpi       \* the bundle ids that start with "com.apple.kpi."

(* read_kext_deps: the keys of OSBundleLibraries. *)
Deps(libraries) == {IF l \in Kpi THEN Kernel ELSE l : l \in libraries}

(* tables: fileset -> sequence of [name, undef, vmaddr]; *)
(* json: fileset -> name -> vmaddr.                      *)
Overriding(json, deps) == deps \cap DOMAIN json

(* A dependency that is not in the kernelcache, or a name two filesets of   *)
(* the json override, throws before any symbol is looked up.                *)
Registrable(tables, json, deps) ==
    /\ deps \subseteq DOMAIN tables
    /\ \A f, g \in Overriding(json, deps) :
         f # g => DOMAIN json[f] \cap DOMAIN json[g] = {}

Overrides(json, deps, name) ==
    {json[f][name] : f \in {f \in Overriding(json, deps) : name \in DOMAIN json[f]}}

Defined(tables, deps, name) ==
    {s \in UNION {{f} \X DOMAIN tables[f] : f \in deps} :
        /\ tables[s[1]][s[2]].name = name
        /\ ~tables[s[1]][s[2]].undef}

(* find_bind_symbol: {} when it throws, otherwise the set of its result. *)
Bound(tables, json, deps, name) ==
    IF Overrides(json, deps, name) # {} THEN Overrides(json, deps, name)
    ELSE {tables[s[1]][s[2]].vmaddr :
             s \in {s \in Defined(tables, deps, name) :
                       Defined(tables, deps, name) = {s}}}
=============================================================================
