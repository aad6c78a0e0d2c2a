------------------------------- MODULE Solver -------------------------------
(***************************************************************************)
(* The solver finds a set of packages that go together and that satisfy a  *)
(* list of patterns.  It keeps a list of alternatives for each pattern and *)
(* descends through these lists, one level for each, choosing a package    *)
(* that agrees with the constraints collected so far.  The dependencies of *)
(* the chosen package are appended as further lists, which are cut off     *)
(* again when the search backtracks.                                       *)
(*                                                                         *)
(* A package is installed, or it is a ghost: versions of a definition that *)
(* have the same dependencies and could be installed.  The user chooses    *)
(* one of the versions of a ghost after the search.                        *)
(***************************************************************************)
EXTENDS Versions, FiniteSets, SequencesExt

CONSTANTS
    Worlds,         \* the situations in which the solver may be called
    Name,           \* names of packages
    Rank,           \* Rank[n]: the place of name n in alphabetical order
    NoHash,         \* the hash of a ghost
    CodeGeneration, \* the secondary name of packages that choose a code generator
    MaxSolutions    \* how many solutions to look for

ASSUME SolverConstantsOK ==
    /\ Rank \in [Name -> Nat]
    /\ MaxSolutions \in Nat \ {0}

(* The employed packages are different packages that are installed.        *)
ASSUME WorldsOK ==
    \A w \in Worlds :
        /\ \A p \in w.installed : p.hash # NoHash
        /\ w.employed \in Seq(w.installed)
        /\ \A i, j \in DOMAIN w.employed : i # j => w.employed[i].hash # w.employed[j].hash

VARIABLES
    world,      \* definitions, installed and employed packages, and the request
    pc,         \* "start", "search", "done" or "aborted"
    plists,     \* the lists of alternatives
    frames,     \* one for each level: its constraints, the index it tries next,
                \* and the number of lists there were when it was entered
    solutions   \* the sets of packages found

vars == <<world, pc, plists, frames, solutions>>

-----------------------------------------------------------------------------
(* Definitions: a definition lists versions, and sections that say what    *)
(* the versions they match depend on.                                      *)

InSection(s, v) == Compare(v, s.op, s.version)

(* DefinedPackage::versionsByDependency: the first section that matches    *)
(* takes a version.                                                        *)
GhostVersions(d) ==
    {V \in {{v \in d.versions : /\ InSection(d.sections[i], v)
                                /\ \A j \in 1 .. (i - 1) : ~ InSection(d.sections[j], v)}
              : i \in DOMAIN d.sections} : V # {}}

(* readVersionedNode: the last section that matches is read.               *)
SectionFor(d, v) ==
    d.sections[CHOOSE i \in DOMAIN d.sections :
                  /\ InSection(d.sections[i], v)
                  /\ \A j \in DOMAIN d.sections : InSection(d.sections[j], v) => j <= i]

(* The ghost of a definition has no secondary names, whatever the          *)
(* definition says.  (Those of parasites have: see Session.)               *)
Ghost(n, V) ==
    [name |-> n, aliases |-> {}, hash |-> NoHash, versions |-> V, time |-> 0, depends |-> <<>>]

IsInstalled(p) == p.hash # NoHash

AllPackages ==
    world.installed \cup
    UNION {{Ghost(n, V) : V \in GhostVersions(world.defs[n])} : n \in DOMAIN world.defs}

(* The patterns of what p depends on; a ghost goes by its greatest version.*)
DependencyPatterns(p) ==
    IF IsInstalled(p) THEN p.depends
    ELSE SectionFor(world.defs[p.name], Greatest(p.versions)).install

-----------------------------------------------------------------------------
(* Packages and patterns *)

Names(p) == {p.name} \cup p.aliases

NamesInCommon(a, b) == Names(a) \cap Names(b)

Excludes(a, b) ==
    IF a.name # b.name THEN NamesInCommon(a, b) # {}
    ELSE IF IsInstalled(a) /\ IsInstalled(b) THEN a.hash # b.hash
    ELSE a.versions \cap b.versions = {}

Identical(a, b) ==
    IF IsInstalled(a) THEN a.hash = b.hash
    ELSE a.name = b.name /\ a.versions = b.versions

Matching(pat, p) == {v \in p.versions : Compare(v, pat.op, pat.version)}

(* Directory::find: by hash if the pattern has one, or else by name.       *)
FindPackages(pat) ==
    IF pat.hash # NoHash THEN {p \in AllPackages : p.hash = pat.hash}
    ELSE {p \in AllPackages : pat.name \in Names(p) /\ Matching(pat, p) # {}}

(* An edge of Context::dependencyLattice.                                  *)
DependsOn(a, b) ==
    \E pat \in ToSet(DependencyPatterns(a)) :
        pat.name \in Names(b) /\ pat.hash \in {NoHash, b.hash} /\ Matching(pat, b) # {}

IsCyclic(S) == \E T \in (SUBSET S) \ {{}} : \A a \in T : \E b \in T : DependsOn(a, b)

(* Installed packages come first, then names in alphabetical order, newer  *)
(* versions, and newer installations.                                      *)
Before(a, b) ==
    IF IsInstalled(a) # IsInstalled(b) THEN IsInstalled(a)
    ELSE IF a.name # b.name THEN Rank[a.name] < Rank[b.name]
    ELSE IF Greatest(a.versions) # Greatest(b.versions)
         THEN Less(Greatest(b.versions), Greatest(a.versions))
    ELSE b.time < a.time

(* A ghost is narrowed to the versions that match.                         *)
Narrowed(p, pat) ==
    IF IsInstalled(p) THEN p ELSE Ghost(p.name, Matching(pat, p))

-----------------------------------------------------------------------------
(* Constraints: a list of packages with different names, in which a new    *)
(* package takes the place of one it is a tighter version of.              *)

(* Where C has a package named as x is, if it has one.                     *)
Position(C, x) == {i \in DOMAIN C : C[i].name = x.name}

Agree(c, x) ==
    IF IsInstalled(c) /\ IsInstalled(x) THEN c.hash = x.hash
    ELSE c.versions \cap x.versions # {}

(* Mutant: a constraint that is there already is kept as it is.            *)
TightenedNot(c, x) == c

Tightened(c, x) ==
    IF IsInstalled(c) THEN c
    ELSE IF IsInstalled(x) THEN x
    ELSE Ghost(c.name, c.versions \cap x.versions)

(* y has no name in common with the packages at J.                         *)
Apart(C, J, y) == \A j \in J : NamesInCommon(C[j], y) = {}

(* Mutant: what follows the package replaced is not validated again.       *)
FitsUnrevalidated(C, x) ==
    IF Position(C, x) = {} THEN Apart(C, DOMAIN C, x)
    ELSE \A i \in Position(C, x) : Apart(C, 1 .. (i - 1), x) /\ Agree(C[i], x)

(* Solver::appendConstraint does not fail.  The packages that follow the   *)
(* one replaced are validated again.                                       *)
Fits(C, x) ==
    IF Position(C, x) = {} THEN Apart(C, DOMAIN C, x)
    ELSE \A i \in Position(C, x) :
            /\ Apart(C, 1 .. (i - 1), x)
            /\ Agree(C[i], x)
            /\ Apart(C, (i + 1) .. Len(C), Tightened(C[i], x))

(* What it returns then...                                                 *)
Constrain(C, x) ==
    IF Position(C, x) = {} THEN Append(C, x)
    ELSE [i \in DOMAIN C |-> IF C[i].name = x.name THEN Tightened(C[i], x) ELSE C[i]]

(* Mutant: only a new name calls for dependencies.                         *)
NeedDepsIfNew(C, x) == Position(C, x) = {}

(* ... and whether the dependencies of x have to be added.                 *)
NeedDeps(C, x) ==
    \A i \in Position(C, x) : IsInstalled(x) /\ ~ IsInstalled(C[i])

-----------------------------------------------------------------------------
(* Lists of alternatives *)

First(T) == CHOOSE p \in T : \A q \in T : ~ Before(q, p)

(* PackageLists::sort.                                                     *)
Sorted(T) ==
    LET left[n \in 0 .. Cardinality(T)] == IF n = 0 THEN T ELSE left[n - 1] \ {First(left[n - 1])}
    IN  [i \in 1 .. Cardinality(T) |-> First(left[i - 1])]

(* Solver::extendLists: the packages a pattern matches that the            *)
(* constraints do not exclude.                                             *)
Matches(C, pat) ==
    {p \in {Narrowed(q, pat) : q \in FindPackages(pat)} :
        \A i \in DOMAIN C : ~ Excludes(C[i], p)}

Alternatives(C, pat) == Sorted(Matches(C, pat))

SameList(K, L) == Len(K) = Len(L) /\ \A i \in DOMAIN K : Identical(K[i], L[i])

(* A list is not added twice, nor one whose only package is a constraint.  *)
IsRedundant(C, lists, L) ==
    \/ Len(L) = 1 /\ \E i \in DOMAIN C : Identical(L[1], C[i])
    \/ L # <<>> /\ \E i \in DOMAIN lists : SameList(L, lists[i])

AddList(C, lists, L) == IF IsRedundant(C, lists, L) THEN lists ELSE Append(lists, L)

IsAnyListEmpty(lists) == \E i \in DOMAIN lists : lists[i] = <<>>

(* Solver::extendLists: an empty list ends it.                             *)
ExtendLists(C, lists, pats) ==
    LET K[n \in 0 .. Len(pats)] ==
            IF n = 0 THEN lists
            ELSE IF Len(K[n - 1]) > Len(lists) /\ Last(K[n - 1]) = <<>> THEN K[n - 1]
            ELSE AddList(C, K[n - 1], Alternatives(C, pats[n]))
    IN  K[Len(pats)]

-----------------------------------------------------------------------------
(* The search *)

Init ==
    /\ world \in Worlds
    /\ pc = "start"
    /\ plists = <<>> /\ frames = <<>> /\ solutions = <<>>

Enter(C, lists) == [constraints |-> C, next |-> 1, size |-> Len(lists)]

(* Any code generator that is installed has one chosen, and first of all.  *)
Generators ==
    LET P == [name |-> CodeGeneration, op |-> "=", version |-> <<>>, hash |-> NoHash]
    IN  IF \E p \in FindPackages(P) : IsInstalled(p) THEN <<P>> ELSE <<>>

(* Solver::solve for a request: the employed packages are the constraints. *)
Begin ==
    /\ pc = "start"
    /\ LET C == world.employed
           L == ExtendLists(C, ExtendLists(C, <<>>, Generators), world.request)
       IN  IF \E i, j \in DOMAIN C : i # j /\ Excludes(C[i], C[j])
           THEN pc' = "done" /\ UNCHANGED <<plists, frames>>
           ELSE /\ plists' = L
                /\ IF IsAnyListEmpty(L)
                   THEN pc' = "done" /\ UNCHANGED frames
                   ELSE pc' = "search" /\ frames' = <<Enter(C, L)>>
    /\ UNCHANGED <<world, solutions>>

Top == Last(frames)
Level == Len(frames)

(* The level on top of the stack goes on with the next package of its list.*)
Advance(F) == [F EXCEPT ![Len(F)].next = @ + 1]

(* Mutant: the caller leaves the lists that its package added.             *)
ReturnUncut ==
    IF Level = 1
    THEN pc' = "done" /\ UNCHANGED <<plists, frames>>
    ELSE /\ frames' = Advance(Front(frames))
         /\ UNCHANGED <<pc, plists>>

(* The call returns: the caller cuts off the lists that its package added. *)
Return ==
    IF Level = 1
    THEN pc' = "done" /\ UNCHANGED <<plists, frames>>
    ELSE /\ frames' = Advance(Front(frames))
         /\ plists' = SubSeq(plists, 1, frames[Level - 1].size)
         /\ UNCHANGED pc

(* Past the last list the constraints are a solution.                      *)
AtEnd == pc = "search" /\ Level > Len(plists)

Found ==
    /\ AtEnd /\ ~ IsCyclic(ToSet(Top.constraints))
    /\ solutions' = Append(solutions, ToSet(Top.constraints))
    /\ IF Len(solutions') >= MaxSolutions
       THEN pc' = "done" /\ UNCHANGED <<plists, frames>>
       ELSE Return
    /\ UNCHANGED world

(* Context::dependencyLattice, which sorts a solution, asserts that no     *)
(* packages depend on each other in a circle; as definitions may.          *)
AssertionFails ==
    /\ AtEnd /\ IsCyclic(ToSet(Top.constraints))
    /\ pc' = "aborted"
    /\ UNCHANGED <<world, plists, frames, solutions>>

Candidate == plists[Level][Top.next]

HasCandidate == pc = "search" /\ Level <= Len(plists) /\ Top.next <= Len(plists[Level])

(* The lists with the dependencies of the candidate.                       *)
Extended ==
    LET C == Constrain(Top.constraints, Candidate)
    IN  IF NeedDeps(Top.constraints, Candidate)
        THEN ExtendLists(C, plists, DependencyPatterns(Candidate))
        ELSE plists

(* The candidate conflicts with the constraints, or a dependency has no    *)
(* package that does not.                                                  *)
Reject ==
    /\ HasCandidate
    /\ Fits(Top.constraints, Candidate) => IsAnyListEmpty(Extended)
    /\ frames' = Advance(frames)
    /\ UNCHANGED <<world, pc, plists, solutions>>

Accept ==
    /\ HasCandidate
    /\ Fits(Top.constraints, Candidate) /\ ~ IsAnyListEmpty(Extended)
    /\ plists' = Extended
    /\ frames' = Append(frames, Enter(Constrain(Top.constraints, Candidate), Extended))
    /\ UNCHANGED <<world, pc, solutions>>

Exhaust ==
    /\ pc = "search" /\ Level <= Len(plists) /\ Top.next > Len(plists[Level])
    /\ Return
    /\ UNCHANGED <<world, solutions>>

Next == Begin \/ Found \/ AssertionFails \/ Reject \/ Accept \/ Exhaust

Spec == Init /\ [][Next]_vars

-----------------------------------------------------------------------------
(* What may be said of the worlds that the program makes of its files.     *)

IsList(s) == s \in Seq(ToSet(s))

VersionsNamed(w, n) ==
    (UNION {p.versions : p \in {q \in w.installed : q.name = n}}) \cup
    (IF n \in DOMAIN w.defs THEN w.defs[n].versions ELSE {})

(* Versions compare part by part, as numbers or as texts, which need not   *)
(* be an order.                                                            *)
VersionsOrdered(w) ==
    \A n \in Name : \A u, v \in VersionsNamed(w, n) :
        /\ Less(u, v) => ~ Less(v, u)
        /\ u # v => Less(u, v) \/ Less(v, u)
        /\ \A x \in VersionsNamed(w, n) : Less(u, v) /\ Less(v, x) => Less(u, x)

InstalledPackages(w) ==
    /\ IsFiniteSet(w.installed)
    /\ \A p \in w.installed :
          /\ p.name \in Name /\ p.time \in Nat /\ IsList(p.depends)
          /\ \E v \in p.versions :
                p = [name |-> p.name, aliases |-> p.aliases, hash |-> p.hash,
                     versions |-> {v}, time |-> p.time, depends |-> p.depends]
          /\ \A q \in w.installed : p.hash = q.hash => p = q

(* No version is in two sections of its definition.                        *)
Definitions(w) ==
    /\ DOMAIN w.defs \subseteq Name /\ IsFiniteSet(DOMAIN w.defs)
    /\ \A n \in DOMAIN w.defs :
          LET d == w.defs[n]
          IN  /\ IsFiniteSet(d.versions) /\ IsList(d.sections)
              /\ \A i \in DOMAIN d.sections : IsList(d.sections[i].install)
              /\ \A v \in d.versions : \A i, j \in DOMAIN d.sections :
                    InSection(d.sections[i], v) /\ InSection(d.sections[j], v) => i = j

WellFormed ==
    \A w \in Worlds : InstalledPackages(w) /\ Definitions(w) /\ VersionsOrdered(w) /\ IsList(w.request)

-----------------------------------------------------------------------------
(* A package as a list of alternatives or a constraint may hold it.        *)
IsCandidate(p) ==
    \/ p \in world.installed
    \/ \E g \in AllPackages : /\ ~ IsInstalled(g) /\ p = Ghost(g.name, p.versions)
                              /\ p.versions # {} /\ p.versions \subseteq g.versions

(* Types, and the assertions of Solver::solve: a level is entered for each *)
(* list up to the one it works on, and finds the lists cut to its size.    *)
SolverTypeOK ==
    /\ pc \in {"start", "search", "done", "aborted"}
    /\ \A i \in DOMAIN plists : \A p \in ToSet(plists[i]) : IsCandidate(p)
    /\ \A k \in DOMAIN frames : \A p \in ToSet(frames[k].constraints) : IsCandidate(p)
    /\ Len(solutions) <= MaxSolutions
    /\ pc = "search" =>
          /\ Level \in 1 .. (Len(plists) + 1)
          /\ Top.size = Len(plists)
          /\ \A k \in 1 .. (Level - 1) : frames[k].next \in DOMAIN plists[k]

Compatible(C) == \A i, j \in DOMAIN C : i # j => Names(C[i]) \cap Names(C[j]) = {}

(* No level works with two packages of which one rules the other out: the  *)
(* constraints of a level have no name, primary or secondary, in common.   *)
(* Solver.C:392-413 replaces a ghost, which has no secondary names, with   *)
(* an installed package, which may have some.                              *)
ConstraintsCompatible ==
    \A k \in DOMAIN frames : Compatible(frames[k].constraints)

-----------------------------------------------------------------------------
(* What a solution is, apart from any search for it: a set of installed    *)
(* packages and of single versions that could be installed.                *)

Concrete ==
    world.installed \cup
    UNION {{Ghost(g.name, {v}) : v \in g.versions} :
             g \in {p \in AllPackages : ~ IsInstalled(p)}}

Meets(S, pat) ==
    \E p \in S : IF pat.hash # NoHash THEN p.hash = pat.hash
                 ELSE pat.name \in Names(p) /\ Matching(pat, p) # {}

(* The employed packages are in use already, with or without dependencies. *)
IsSolution(S) ==
    /\ ToSet(world.employed) \subseteq S
    /\ \A a \in S : \A b \in S \ {a} : Names(a) \cap Names(b) = {}
    /\ \A pat \in ToSet(Generators \o world.request) : Meets(S, pat)
    /\ \A p \in S \ ToSet(world.employed) :
          \A pat \in ToSet(DependencyPatterns(p)) : Meets(S, pat)

(* The sets that spock-shell may end up with: the user is asked for the    *)
(* version of each ghost (spock-shell.C:154-181).                          *)
Outcomes(S) ==
    {{[p EXCEPT !.versions = {f[p]}] : p \in S} :
        f \in {g \in [S -> UNION {p.versions : p \in S}] : \A p \in S : g[p] \in p.versions}}

(* A solution holds whatever versions of its ghosts the user picks: the    *)
(* employed packages are kept, every pattern and every dependency is met,  *)
(* and no name is used twice.                                              *)
AnyChoiceIsValid ==
    \A k \in DOMAIN solutions : \A S \in Outcomes(solutions[k]) : IsSolution(S)

(* The search misses nothing: unless it stopped because it had found       *)
(* enough, every set of packages that would do contains a choice that one  *)
(* of its solutions leaves.  In particular, "no solutions found"           *)
(* (spock-shell.C:246) means that there are none.                          *)
NoSolutionMissed ==
    pc = "done" /\ Len(solutions) < MaxSolutions =>
        \A S \in {T \in SUBSET Concrete : IsSolution(T)} :
            \E k \in DOMAIN solutions : \E T \in Outcomes(solutions[k]) : T \subseteq S

(* "Spock will scan the YAML objects in this list and use the *last* group *)
(* of settings that match the version being installed"                     *)
(* (doc/example-package.yaml:11-13): a solution has what the last section  *)
(* that matches asks for, for each version of a ghost.                     *)
LastSectionApplies ==
    \A k \in DOMAIN solutions :
        \A p \in {q \in solutions[k] : ~ IsInstalled(q)} : \A v \in p.versions :
            \A pat \in ToSet(SectionFor(world.defs[p.name], v).install) :
                Meets(solutions[k], pat)
=============================================================================
