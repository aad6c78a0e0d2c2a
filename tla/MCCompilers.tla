----------------------------- MODULE MCCompilers -----------------------------
(***************************************************************************)
(* A command that may lead to either of two files, and the second file     *)
(* under its own name; two versions of a compiler, one of them in two      *)
(* builds with the same version number.                                    *)
(***************************************************************************)
EXTENDS Compilers

CONSTANTS none

Switches(std, generation) == [std |-> std, generation |-> generation]

MCAttempt == <<Switches(none, "default"), Switches(none, "m32"), Switches("c++17", "default")>>

Gcc(version, output, default, accepts) ==
    [version |-> version, output |-> output, default |-> default, accepts |-> accepts]

Old == Gcc("7", "7", "c++14", {MCAttempt[1], MCAttempt[3]})
New == Gcc("8", "8", "c++17", {MCAttempt[1], MCAttempt[2], MCAttempt[3]})
Patched == Gcc("8", "8 patched", "c++17", {MCAttempt[1], MCAttempt[3]})

MCBuild == {Old, New, Patched}

MCCommand == <<"g++", "g++-8">>
MCFile == {"g++-7", "g++-8"}
MCLinks == [c \in {"g++", "g++-8"} |-> IF c = "g++" THEN MCFile ELSE {"g++-8"}]
MCContents == [f \in MCFile |-> IF f = "g++-7" THEN {Old} ELSE {New, Patched, none}]
=============================================================================
