----------------------------- MODULE MCSession ------------------------------
(***************************************************************************)
(* Two system compilers with a secondary name in common; a library and an  *)
(* application that is built with a tool; a collection of compilers that   *)
(* installs its compilers as parasites.                                    *)
(***************************************************************************)
EXTENDS Session

MCName == {"spock", "code-generation", "default-generation", "c++-compiler",
           "gnu-c++", "llvm-c++", "lib", "app", "cmake", "new-compilers", "compiler-collection",
           "new-c++", "new-c"}

Rec(n, A, D) == [name |-> n, aliases |-> A, deps |-> D]

MCInitial ==
    <<Rec("spock", {}, {}),
      Rec("default-generation", {"code-generation"}, {1}),
      Rec("gnu-c++", {"c++-compiler"}, {1, 2}),
      Rec("llvm-c++", {"c++-compiler"}, {1, 2})>>

Def(I, B, A, P) == [install |-> I, build |-> B, aliases |-> A, parasites |-> P]

New == <<[name |-> "new-c++", aliases |-> {"c++-compiler"}],
         [name |-> "new-c", aliases |-> {}]>>

MCDefs ==
    [n \in {"lib", "app", "cmake", "new-compilers"} |->
        CASE n = "lib" -> Def({"c++-compiler"}, {}, {}, <<>>)
          [] n = "app" -> Def({"lib", "c++-compiler"}, {"cmake"}, {}, <<>>)
          [] n = "cmake" -> Def({}, {"c++-compiler"}, {}, <<>>)
          [] n = "new-compilers" -> Def({}, {}, {"compiler-collection"}, New)]

MCRequests ==
    {{"app"}, {"cmake"}, {"lib", "llvm-c++"}, {"new-c++", "lib"}, {"new-c"}}

(* The first instance is one that the theorems are about.                  *)
ASSUME InstanceIsWellFormed ==
    Defs = MCDefs => WellFormed /\ UsableAtFirst /\ ParasitesFit

(* Two builds of one library, which exclude each other by a secondary name.*)
ExclusiveDefs ==
    [n \in {"lib", "app"} |-> Def({"c++-compiler"}, {}, {"cmake"}, <<>>)]

ExclusiveRequests == {{"lib"}, {"app"}, {"app", "lib"}}
=============================================================================
