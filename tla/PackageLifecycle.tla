-------------------------- MODULE PackageLifecycle --------------------------
(***************************************************************************)
(* What the package store promises about one installation hash, whatever   *)
(* processes share the store: a hash is reserved once, published at most   *)
(* once, is an installed package for one uninterrupted stretch of time,    *)
(* and never comes back.  PackageStore is shown to implement it.           *)
(***************************************************************************)
CONSTANT Hash       \* the installation hashes

VARIABLE phase      \* phase[h] is how far the life of h has got

Phase == {"free", "building", "installed", "retired", "gone"}

PhaseOK == phase \in [Hash -> Phase]

(* Some packages may be installed at first.                                *)
Init == phase \in [Hash -> {"free", "installed"}]

(* Hash h goes from one phase to another, and no other hash moves.         *)
Move(h, from, to) ==
    /\ phase[h] = from
    /\ phase' = [phase EXCEPT ![h] = to]

Reserve(h) == Move(h, "free", "building")      \* the prefix directory is made
Publish(h) == Move(h, "building", "installed") \* the configuration is complete
Abandon(h) == Move(h, "building", "gone")      \* a failed build is cleaned up
Retire(h)  == Move(h, "installed", "retired")  \* the configuration is removed
Reclaim(h) == Move(h, "retired", "gone")       \* the prefix directory is removed

Next == \E h \in Hash : \/ Reserve(h)
                        \/ Publish(h)
                        \/ Abandon(h)
                        \/ Retire(h)
                        \/ Reclaim(h)

Spec == Init /\ [][Next]_phase
=============================================================================
