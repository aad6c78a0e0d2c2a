--------------------------- MODULE MCPackageStore ---------------------------
(***************************************************************************)
(* Small instances of PackageStore: one package beside Spock's own, or two,*)
(* one needing the other, or three, one of them a tool to build another.   *)
(***************************************************************************)
EXTENDS PackageStore, TLC

CONSTANTS p1, p2,   \* process slots
          lib, mid, app,
          h0, h1, h2, h3

(* app needs lib *)
ChainDeps == lib :> {} @@ app :> {lib}
NoDeps == [k \in Pkg |-> {}]
(* mid is only needed to build app *)
ChainWithTool == lib :> {} @@ mid :> {} @@ app :> {lib}
ToolForApp == lib :> {} @@ mid :> {} @@ app :> {mid}

AllCommands == [p \in Proc |-> Command]
ShellsOnly == [p \in Proc |-> {"shell"}]
ShellsAndRm == [p \in Proc |-> {"shell", "rm"}]

(* The hash of an installed Spock is not like the others. *)
HashSymmetry == Permutations(Hash \ SelfAtFirst)

(* Nor does it matter which slot is which, where they run the same commands. *)
Symmetry == HashSymmetry \cup Permutations(Proc)

RmBesideAny == p1 :> {"shell", "rm"} @@ p2 :> {"rm"}
=============================================================================
