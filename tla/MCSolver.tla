------------------------------ MODULE MCSolver ------------------------------
(***************************************************************************)
(* Worlds for Solver: what is installed, what is defined, and requests.    *)
(***************************************************************************)
EXTENDS Solver

V(n) == <<[number |-> n, text |-> n]>>

MCName == {"app", "lib", "tool", "gcc", "llvm", "plain", "m32", "cxx", "code-generation"}

(* The alphabetical order of the names.                                    *)
MCRank ==
    LET order == <<"app", "code-generation", "cxx", "gcc", "lib", "llvm", "m32", "plain", "tool">>
    IN  [n \in MCName |-> CHOOSE i \in DOMAIN order : order[i] = n]

Installed(h, n, v, A, D, t) ==
    [name |-> n, aliases |-> A, hash |-> h, versions |-> {V(v)}, time |-> t, depends |-> D]

Pattern(n) == [name |-> n, op |-> "=", version |-> <<>>, hash |-> "none"]
PatternV(n, o, v) == [name |-> n, op |-> o, version |-> V(v), hash |-> "none"]
ByHash(p) == [name |-> p.name, op |-> "=", version |-> V(1), hash |-> p.hash]

Section(o, v, D) == [op |-> o, version |-> v, install |-> D]

(* A definition with versions 1 and 2 and one section, or one for each.    *)
Defn(S) == [versions |-> {V(1), V(2)}, sections |-> S]
OneSection(DD) == {Defn(<<Section("=", <<>>, D)>>) : D \in DD}
TwoSections(DD) ==
    {Defn(<<Section("<", V(2), D[1]), Section(">=", V(2), D[2])>>) : D \in DD \X DD}

(* The functions that define some of the packages of F.                    *)
Defining(F) == UNION {{f \in [N -> UNION {F[n] : n \in N}] : \A n \in N : f[n] \in F[n]} :
                        N \in SUBSET DOMAIN F}

World(I, F, R, E) == [installed |-> I, defs |-> F, request |-> R, employed |-> E]

-----------------------------------------------------------------------------
(* An application, two versions of a library, and a tool; tool and lib may *)
(* depend on each other's versions.                                        *)
Tool == Installed("t1", "tool", 1, {}, <<>>, 1)
Lib1 == Installed("l1", "lib", 1, {}, <<>>, 2)
Lib2 == Installed("l2", "lib", 2, {}, <<ByHash(Tool)>>, 3)
App1 == Installed("a1", "app", 1, {}, <<ByHash(Lib1)>>, 4)

AppNeeds ==
    {<<>>, <<Pattern("lib")>>, <<PatternV("lib", "=", 1)>>,
     <<PatternV("lib", ">=", 2), Pattern("tool")>>}

VersionWorlds ==
    {World(I, F, R, E) :
        I \in SUBSET {Tool, Lib1, Lib2, App1},
        F \in Defining([n \in {"app", "lib"} |->
                          IF n = "app" THEN OneSection(AppNeeds) \cup TwoSections(AppNeeds)
                          ELSE OneSection({<<>>, <<Pattern("tool")>>, <<Pattern("app")>>})]),
        R \in {<<Pattern("app")>>, <<PatternV("app", "=", 1), PatternV("lib", ">=", 2)>>,
               <<Pattern("lib"), Pattern("app")>>, <<PatternV("lib", "!=", 1), Pattern("tool")>>},
        E \in {<<>>, <<Lib2>>}}

(* Two compilers of which one may be used at a time, and two generators.   *)
Gcc == Installed("g1", "gcc", 1, {"cxx"}, <<>>, 1)
Llvm == Installed("c1", "llvm", 1, {"cxx"}, <<>>, 2)
App2 == Installed("a2", "app", 2, {}, <<ByHash(Gcc)>>, 3)
Plain == Installed("p1", "plain", 1, {"code-generation"}, <<>>, 4)
M32 == Installed("m1", "m32", 1, {"code-generation"}, <<>>, 5)

CompilerWorlds ==
    {World(I, F, R, E) :
        I \in SUBSET {Gcc, Llvm, App2, Plain, M32},
        F \in Defining([n \in {"app", "gcc"} |->
                          IF n = "gcc" THEN OneSection({<<>>})
                          ELSE OneSection({<<Pattern("cxx")>>, <<Pattern("cxx"), Pattern("m32")>>})]),
        R \in {<<Pattern("app")>>, <<Pattern("gcc"), Pattern("app"), Pattern("llvm")>>,
               <<Pattern("cxx")>>, <<Pattern("m32"), PatternV("app", "-", 2)>>},
        E \in {<<>>, <<Gcc>>, <<Gcc, Llvm>>}}

MCWorlds ==
    {w \in VersionWorlds \cup CompilerWorlds : ToSet(w.employed) \subseteq w.installed}

(* The worlds of the proofs.                                               *)
ASSUME WorldsAreWellFormed == Worlds = MCWorlds => WellFormed

(* A definition whose second section overlaps the first, as in             *)
(* lib/packages/cmake.yaml.                                                *)
OverlapWorlds ==
    {World({Tool, Lib1}, [n \in {"app"} |->
               Defn(<<Section(">=", V(1), <<Pattern("lib")>>), Section(">=", V(2), D)>>)], R, <<>>) :
        D \in {<<>>, <<Pattern("tool")>>, <<Pattern("lib"), Pattern("tool")>>},
        R \in {<<Pattern("app")>>, <<PatternV("app", "=", 1)>>}}
=============================================================================
