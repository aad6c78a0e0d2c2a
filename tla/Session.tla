------------------------------ MODULE Session ------------------------------
(***************************************************************************)
(* A terminal session of nested spock-shells.  Each command constructs a   *)
(* Context from the environment of the shell it runs in, solves a request, *)
(* sorts the solution by dependency, installs what is missing, and spawns  *)
(* a shell whose environment employs the solution.  The Context is a stack *)
(* of environments; what is built runs in those on top of it.              *)
(*                                                                         *)
(* One command runs at a time (PackageStore has the races), each package   *)
(* name stands for one version, and the prefix directory of a package      *)
(* stands for all that it adds to search paths.                            *)
(***************************************************************************)
EXTENDS Naturals, Sequences, FiniteSets, SequencesExt

CONSTANTS
    Name,             \* names of packages, primary and secondary
    Spock,            \* the package that stands for Spock itself
    CodeGeneration,   \* the secondary name of all code generators
    Defs,             \* Defs[n]: the definition file of package n
    Initial,          \* the packages that are installed at first
    Requests,         \* what a user may ask for: sets of names
    MaxShells,        \* bounds the nesting of shells
    MaxStore          \* bounds the number of packages installed

Parasite == [name : Name, aliases : SUBSET Name]

Definition ==
    [install : SUBSET Name, build : SUBSET Name, aliases : SUBSET Name,
     parasites : Seq(Parasite)]

(* An installed package is known by its hash, its place in the store.      *)
Record(S) == [name : Name, aliases : SUBSET Name, deps : SUBSET S]

ASSUME ConstantsOK ==
    /\ Spock \in Name /\ CodeGeneration \in Name
    /\ DOMAIN Defs \subseteq Name \ {Spock}
    /\ \A n \in DOMAIN Defs : Defs[n] \in Definition
    /\ Initial \in Seq(Record(Nat))
    /\ Initial # <<>> /\ Initial[1] = [name |-> Spock, aliases |-> {}, deps |-> {}]
    /\ \A h \in DOMAIN Initial : Initial[h] \in Record(1 .. (h - 1))
    /\ Requests \subseteq SUBSET Name
    /\ MaxShells \in Nat /\ MaxStore \in Nat

VARIABLES
    store,      \* the installed packages; all are known to a new Context
    shells,     \* the login shell and the shells nested in it
    (* The command that runs in the innermost shell *)
    pc,         \* what it does next, "prompt" if there is none
    request,    \* the names it was asked for
    envs,       \* Context::envStack_
    left, heads, order,  \* the sort: vertices left, heads, vertices removed
    soln,       \* the sorted solution, dependencies first
    at, inUse,  \* the loop of main(): next index of soln, packages so far
    iDeps       \* the solution of the install dependencies

sorting == <<left, heads, order>>
looping == <<soln, at, inUse>>
vars == <<store, shells, pc, request, envs, sorting, looping, iDeps>>

-----------------------------------------------------------------------------
(* Packages *)

SpockItself == 1        \* its hash
NoHash == 0

ParasitesOf(n) == ToSet(Defs[n].parasites)
Hosts(n) == {k \in DOMAIN Defs : \E p \in ParasitesOf(k) : p.name = n}
IsParasite(n) == n \notin DOMAIN Defs

Ghost(n) == [name |-> n, hash |-> NoHash]
Installed(h) == [name |-> store[h].name, hash |-> h]
IsInstalled(p) == p.hash # NoHash

GhostName == DOMAIN Defs \cup {m \in Name : Hosts(m) # {}}
Ghosts == {Ghost(n) : n \in GhostName}
Employable(H) == {Installed(h) : h \in H}
Packages == Employable(DOMAIN store) \cup Ghosts

NamesOf(h) == {store[h].name} \cup store[h].aliases

(* A ghost has secondary names only if it stands for a parasite.           *)
GhostNames(n) ==
    {n} \cup UNION {UNION {p.aliases : p \in {q \in ParasitesOf(k) : q.name = n}} : k \in Hosts(n)}

Generators == {h \in DOMAIN store : CodeGeneration \in NamesOf(h)}

Names(p) == IF IsInstalled(p) THEN NamesOf(p.hash) ELSE GhostNames(p.name)

(* What a package that is to be installed depends on, by name.             *)
Needs(n) ==
    IF IsParasite(n) THEN Hosts(n)
    ELSE IF Defs[n].install = {} THEN {Spock} ELSE Defs[n].install

(* A pattern of p's dependencies matches q.                                *)
DependsOn(p, q) ==
    IF IsInstalled(p) THEN q.hash \in store[p.hash].deps
                      ELSE Names(q) \cap Needs(p.name) # {}

-----------------------------------------------------------------------------
(* The solver, as far as a session depends on it (Solver has the search) *)

Apart(S) == \A p, q \in S : p # q => Names(p) \cap Names(q) = {}

Provided(S, W) == \A n \in W : \E p \in S : n \in Names(p)

DependenciesMet(p, S) ==
    IF IsInstalled(p) THEN \A h \in store[p.hash].deps : Installed(h) \in S
                      ELSE Provided(S, Needs(p.name))

(* A code generator is part of a solution if one is installed.             *)
Wanted(W) ==
    IF Generators # {} THEN W \cup {CodeGeneration} ELSE W

IsSolution(S, E, W) ==
    /\ E \subseteq S
    /\ Apart(S)
    /\ Provided(S, Wanted(W))
    /\ \A p \in S \ E : DependenciesMet(p, S)

(* What the search for W comes across.                                     *)
Relevant(W) ==
    LET Found[i \in Nat] ==
            IF i = 0 THEN {p \in Packages : Names(p) \cap Wanted(W) # {}}
            ELSE LET F == Found[i - 1]
                 IN  F \cup {q \in Packages : \E p \in F : DependsOn(p, q)}
    IN  Found[Cardinality(Packages)]

(* Nothing in a solution but the employed packages, those that W names,    *)
(* and what they need.                                                     *)
Covers(E, W) ==
    LET New == {p \in Packages \cap Relevant(W) :
                   p \notin E /\ \A e \in E : Names(p) \cap Names(e) = {}}
        Sol == {S \in {E \cup T : T \in SUBSET New} : IsSolution(S, E, W)}
    IN  {S \in Sol : \A T \in Sol : T \subseteq S => T = S}

(* The search tries an installed package before a ghost of the same name,  *)
(* so that it never settles for a ghost in whose place installed packages  *)
(* would do.  Which solution it finds first is left open.                  *)
Solutions(E, W) ==
    LET C == Covers(E, W)
    IN  {S \in C : ~ \E T \in C, g \in S :
                       /\ ~ IsInstalled(g)
                       /\ S \ {g} \subseteq T /\ g \notin T
                       /\ \A p \in T \ S : IsInstalled(p)}

-----------------------------------------------------------------------------
(* Environments *)

NoEnv == [employed |-> {}, path |-> <<>>]

(* Mutant: search paths are appended to, in the order of employment.       *)
EmployAtEnd(env, q) ==
    LET Path[i \in 0 .. Len(q)] ==
            IF i = 0 THEN env.path
            ELSE IF q[i] \in env.employed \cup {q[j] : j \in 1 .. (i - 1)} THEN Path[i - 1]
            ELSE Append(Path[i - 1], q[i])
    IN  [employed |-> env.employed \cup ToSet(q), path |-> Path[Len(q)]]

(* Context::insertEmployed, for each package of q in turn: one that is not *)
(* employed yet is prepended to the search paths and appended to           *)
(* $SPOCK_EMPLOYED.                                                        *)
Employ(env, q) ==
    LET Path[i \in 0 .. Len(q)] ==
            IF i = 0 THEN env.path
            ELSE IF q[i] \in env.employed \cup {q[j] : j \in 1 .. (i - 1)} THEN Path[i - 1]
            ELSE <<q[i]>> \o Path[i - 1]
    IN  [employed |-> env.employed \cup ToSet(q), path |-> Path[Len(q)]]

Here == Last(shells)
Base == envs[1]
Top == Last(envs)

-----------------------------------------------------------------------------
Init ==
    /\ store = Initial
    /\ shells = <<[env |-> NoEnv, request |-> {}]>>
    /\ pc = "prompt" /\ request = {} /\ envs = <<>>
    /\ left = {} /\ heads = <<>> /\ order = <<>>
    /\ soln = <<>> /\ at = 0 /\ inUse = <<>> /\ iDeps = {}

(* The command is over; nothing of its Context is left.                    *)
Exit ==
    /\ pc' = "prompt" /\ request' = {} /\ envs' = <<>>
    /\ left' = {} /\ heads' = <<>> /\ order' = <<>>
    /\ soln' = <<>> /\ at' = 0 /\ inUse' = <<>> /\ iDeps' = {}

(* Mutant: $SPOCK_EMPLOYED is not read.                                    *)
StartAfresh ==
    /\ pc = "prompt" /\ Len(shells) <= MaxShells
    /\ request' \in Requests
    /\ envs' = <<Employ(NoEnv, <<SpockItself>>)>>
    /\ pc' = "solve"
    /\ UNCHANGED <<store, shells, sorting, looping, iDeps>>

(* A user runs spock-shell: the Context takes up the employed packages of  *)
(* the environment it is run in, and employs Spock itself.                 *)
Start ==
    /\ pc = "prompt" /\ Len(shells) <= MaxShells
    /\ request' \in Requests
    /\ envs' = <<Employ(Here.env, <<SpockItself>>)>>
    /\ pc' = "solve"
    /\ UNCHANGED <<store, shells, sorting, looping, iDeps>>

(* The user leaves the innermost shell.                                    *)
LeaveShell ==
    /\ pc = "prompt" /\ Len(shells) > 1
    /\ shells' = Front(shells)
    /\ UNCHANGED <<store, pc, request, envs, sorting, looping, iDeps>>

NoSolution ==
    /\ pc = "solve" /\ Solutions(Employable(Base.employed), request) = {}
    /\ Exit
    /\ UNCHANGED <<store, shells>>

(* A solution, and Context::sortByDependencyLattice begins with those that *)
(* no other depends on, in any order.                                      *)
Solve ==
    /\ pc = "solve"
    /\ \E S \in Solutions(Employable(Base.employed), request) :
          /\ left' = S
          /\ heads' \in SetToSeqs({p \in S : \A q \in S : ~ DependsOn(q, p)})
    /\ pc' = "sort"
    /\ UNCHANGED <<store, shells, request, envs, order, looping, iDeps>>

(* Mutant: the edges of the removed vertex still count.                    *)
RemoveHeadTooLate ==
    /\ pc = "sort" /\ heads # <<>>
    /\ LET p == Head(heads)
           freed == {q \in left : DependsOn(p, q) /\ \A r \in left : ~ DependsOn(r, q)}
       IN  /\ left' = left \ {p}
           /\ order' = Append(order, p)
           /\ \E s \in SetToSeqs(freed) : heads' = s \o Tail(heads)
    /\ UNCHANGED <<store, shells, pc, request, envs, looping, iDeps>>

(* The first head is removed; packages on which no other depended come to  *)
(* the front of the list.                                                  *)
RemoveHead ==
    /\ pc = "sort" /\ heads # <<>>
    /\ LET p == Head(heads)
           freed == {q \in left : DependsOn(p, q) /\ \A r \in left \ {p} : ~ DependsOn(r, q)}
       IN  /\ left' = left \ {p}
           /\ order' = Append(order, p)
           /\ \E s \in SetToSeqs(freed) : heads' = s \o Tail(heads)
    /\ UNCHANGED <<store, shells, pc, request, envs, looping, iDeps>>

Hashes(s) == [i \in DOMAIN s |-> s[i].hash]

(* The solution in use, and the subshell spawned.                          *)
Spawn(s) ==
    /\ shells' = Append(shells, [env |-> Employ(Base, s), request |-> request])
    /\ Exit

(* Nothing is missing.                                                     *)
UseInstalled ==
    /\ pc = "sort" /\ heads = <<>>
    /\ \A i \in DOMAIN order : IsInstalled(order[i])
    /\ Spawn(Hashes(Reverse(order)))
    /\ UNCHANGED store

(* Mutant: the vertices are taken in the order of their removal.           *)
BeginLoopUnreversed ==
    /\ pc = "sort" /\ heads = <<>>
    /\ \E i \in DOMAIN order : ~ IsInstalled(order[i])
    /\ soln' = order
    /\ at' = 1 /\ left' = {} /\ order' = <<>>
    /\ pc' = "loop"
    /\ UNCHANGED <<store, shells, request, envs, heads, inUse, iDeps>>

BeginLoop ==
    /\ pc = "sort" /\ heads = <<>>
    /\ \E i \in DOMAIN order : ~ IsInstalled(order[i])
    /\ soln' = Reverse(order)
    /\ at' = 1 /\ left' = {} /\ order' = <<>>
    /\ pc' = "loop"
    /\ UNCHANGED <<store, shells, request, envs, heads, inUse, iDeps>>

-----------------------------------------------------------------------------
(* The loop over the solution *)

Missing == pc = "loop" /\ at <= Len(soln) /\ ~ IsInstalled(soln[at])

TakeInstalled ==
    /\ pc = "loop" /\ at <= Len(soln) /\ IsInstalled(soln[at])
    /\ inUse' = Append(inUse, soln[at].hash)
    /\ at' = at + 1
    /\ UNCHANGED <<store, shells, pc, request, envs, sorting, soln, iDeps>>

(* The command ends: the user declines, the download fails, dependencies   *)
(* cannot be satisfied, or the ghost stands for a parasite, which is not   *)
(* implemented.                                                            *)
GiveUp == Missing /\ Exit /\ UNCHANGED <<store, shells>>

InUse == Employ(Base, inUse)

InstallSolutions == Solutions(Employable(InUse.employed), Defs[soln[at].name].install)

BuildSolutions ==
    Solutions(Employable(InUse.employed),
              Defs[soln[at].name].install \cup Defs[soln[at].name].build)

HasGhost(S) == \E p \in S : ~ IsInstalled(p)

HashesOf(S) == {p.hash : p \in S}

(* Mutant: the packages installed so far are not employed.                 *)
BeginInstallUnemployed ==
    /\ Missing /\ ~ IsParasite(soln[at].name)
    /\ Len(store) + 1 + Len(Defs[soln[at].name].parasites) <= MaxStore
    /\ \E I \in Solutions(Employable(Base.employed), Defs[soln[at].name].install) :
       \E B \in Solutions(Employable(Base.employed),
                          Defs[soln[at].name].install \cup Defs[soln[at].name].build) :
          /\ ~ HasGhost(I) /\ ~ HasGhost(B)
          /\ iDeps' = I
          /\ \E q \in SetToSeqs(HashesOf(B)) :
                envs' = <<Base, Base, Employ(Base, q)>>
    /\ pc' = "build"
    /\ UNCHANGED <<store, shells, request, sorting, looping>>

(* Mutant: the install dependencies are employed for the build.            *)
BeginInstallWithoutTools ==
    /\ Missing /\ ~ IsParasite(soln[at].name)
    /\ Len(store) + 1 + Len(Defs[soln[at].name].parasites) <= MaxStore
    /\ \E I \in InstallSolutions, B \in BuildSolutions :
          /\ ~ HasGhost(B)
          /\ iDeps' = I
          /\ \E q \in SetToSeqs(HashesOf(I) \ InUse.employed) :
                envs' = <<InUse, InUse, Employ(InUse, q)>>
    /\ pc' = "build"
    /\ UNCHANGED <<store, shells, request, sorting, looping>>

(* DefinedPackage::install up to its script.  What is in use is employed;  *)
(* above it, an environment for the package and one for its build, with    *)
(* the build dependencies in the order of their solution.                  *)
BeginInstall ==
    /\ Missing /\ ~ IsParasite(soln[at].name)
    /\ Len(store) + 1 + Len(Defs[soln[at].name].parasites) <= MaxStore
    /\ \E I \in InstallSolutions, B \in BuildSolutions :
          /\ ~ HasGhost(B)
          /\ iDeps' = I
          /\ \E q \in SetToSeqs(HashesOf(B) \ InUse.employed) :
                envs' = <<InUse, InUse, Employ(InUse, q)>>
    /\ pc' = "build"
    /\ UNCHANGED <<store, shells, request, sorting, looping>>

(* A ghost among the build dependencies: insertEmployed() asserts that     *)
(* there is none.                                                          *)
AbortBuild ==
    /\ Missing /\ ~ IsParasite(soln[at].name)
    /\ \E B \in BuildSolutions : HasGhost(B)
    /\ Exit
    /\ UNCHANGED <<store, shells>>

BuildFails == pc = "build" /\ Exit /\ UNCHANGED <<store, shells>>

NewHash == Len(store) + 1

(* The dependencies that the new package records: what matches one of its  *)
(* patterns, not all that its solution brought into scope.                 *)
RecordedDeps(n) ==
    {SpockItself} \cup {p.hash : p \in {q \in iDeps : Names(q) \cap Needs(n) # {}}}

(* Mutant: the environment of the build is not popped.                     *)
PublishUnpopped ==
    /\ pc = "build"
    /\ LET n == soln[at].name
       IN  store' = Append(store, [name |-> n, aliases |-> Defs[n].aliases,
                                   deps |-> RecordedDeps(n)])
    /\ \E q \in SetToSeqs(HashesOf(iDeps) \ Top.employed) :
          envs' = Append(envs, Employ(Top, Append(q, NewHash)))
    /\ pc' = "post"
    /\ UNCHANGED <<shells, request, sorting, looping, iDeps>>

(* The package is published and registered.  The environment of the build  *)
(* gives way to one of the package and its install dependencies.           *)
Publish ==
    /\ pc = "build"
    /\ LET n == soln[at].name
       IN  store' = Append(store, [name |-> n, aliases |-> Defs[n].aliases,
                                   deps |-> RecordedDeps(n)])
    /\ \E q \in SetToSeqs(HashesOf(iDeps) \ Base.employed) :
          envs' = <<envs[1], envs[2], Employ(envs[2], Append(q, NewHash))>>
    /\ pc' = "post"
    /\ UNCHANGED <<shells, request, sorting, looping, iDeps>>

Host == Len(store)

(* The parasites that the post-install script of the host has installed,   *)
(* each depending on Spock, its host and the one code generator there is.  *)
ParasiteRecords(s) ==
    [i \in DOMAIN s |-> [name |-> s[i].name, aliases |-> s[i].aliases,
                         deps |-> {SpockItself, Host} \cup Generators]]

(* Subsequences of the parasites a definition announces: the script skips  *)
(* those that the new compiler does not support, which is only logged.     *)
Installable(n) ==
    LET all == Defs[n].parasites
        Increasing(k) == {f \in [1 .. k -> DOMAIN all] : \A i, j \in 1 .. k : i < j => f[i] < f[j]}
    IN  UNION {{[i \in 1 .. k |-> all[f[i]]] : f \in Increasing(k)} : k \in 0 .. Len(all)}

(* Mutant: the host replaces the ghosts of its parasites.                  *)
ReplacedByHost(s) ==
    [j \in DOMAIN soln |->
        IF j > at /\ ~ IsInstalled(soln[j]) /\ \E i \in DOMAIN s : s[i].name = soln[j].name
        THEN [name |-> soln[j].name, hash |-> Host]
        ELSE soln[j]]

(* The first parasite of its name replaces a ghost further on.             *)
Replaced(s) ==
    [j \in DOMAIN soln |->
        IF j > at /\ ~ IsInstalled(soln[j]) /\ \E i \in DOMAIN s : s[i].name = soln[j].name
        THEN [name |-> soln[j].name,
              hash |-> Host + SelectInSeq(s, LAMBDA p : p.name = soln[j].name)]
        ELSE soln[j]]

(* The post-install script ends, and with it install(); the environments   *)
(* it pushed are popped.                                                   *)
PostInstall ==
    /\ pc = "post"
    /\ \E s \in Installable(soln[at].name) :
          /\ store' = store \o ParasiteRecords(s)
          /\ soln' = Replaced(s)
    /\ envs' = <<Base>>
    /\ inUse' = Append(inUse, Host)
    /\ at' = at + 1 /\ iDeps' = {}
    /\ pc' = "loop"
    /\ UNCHANGED <<shells, request, sorting>>

(* It fails: package and parasites stay installed, the command ends.       *)
PostInstallFails ==
    /\ pc = "post"
    /\ \E s \in Installable(soln[at].name) : store' = store \o ParasiteRecords(s)
    /\ Exit
    /\ UNCHANGED shells

EndLoop ==
    /\ pc = "loop" /\ at > Len(soln)
    /\ Spawn(inUse)
    /\ UNCHANGED store

Next ==
    \/ Start \/ LeaveShell \/ NoSolution \/ Solve \/ RemoveHead \/ UseInstalled
    \/ BeginLoop \/ TakeInstalled \/ GiveUp \/ BeginInstall \/ AbortBuild
    \/ BuildFails \/ Publish \/ PostInstall \/ PostInstallFails \/ EndLoop

Spec == Init /\ [][Next]_vars

-----------------------------------------------------------------------------
(* What the theorems of Session_proofs and SessionScope_proofs assume of   *)
(* the definitions and of what is installed at first.                      *)

InitialNames(h) == {Initial[h].name} \cup Initial[h].aliases

(* A secondary name of a definition is a name of nothing else.             *)
PrivateAliases ==
    \A n \in DOMAIN Defs : \A a \in Defs[n].aliases :
        /\ \A m \in GhostName \ {n} : a \notin GhostNames(m)
        /\ \A m \in DOMAIN Defs \ {n} : a \notin Defs[m].aliases
        /\ \A h \in DOMAIN Initial : a \in InitialNames(h) => Initial[h].name = n

(* A parasite has one host, no definition, and the secondary names by      *)
(* which its host announces it.                                            *)
OneHost ==
    \A m \in Name :
        /\ Hosts(m) # {} => m \notin DOMAIN Defs
        /\ \A j, k \in Hosts(m) : \A p \in ParasitesOf(j), q \in ParasitesOf(k) :
              p.name = m /\ q.name = m => j = k /\ p = q

(* At most one code generator is installed, and no definition yields one.  *)
OneGenerator ==
    /\ \A g, h \in DOMAIN Initial :
          CodeGeneration \in InitialNames(g) \cap InitialNames(h) => g = h
    /\ \A n \in GhostName : CodeGeneration \notin GhostNames(n)
    /\ \A n \in DOMAIN Defs : CodeGeneration \notin Defs[n].aliases

(* Definitions do not depend on each other in a circle.                    *)
NoCycle ==
    \A N \in (SUBSET GhostName) \ {{}} :
        \E n \in N : \A m \in N : GhostNames(n) \cap Needs(m) = {}

WellFormed ==
    IsFiniteSet(Name) /\ PrivateAliases /\ OneHost /\ OneGenerator /\ NoCycle

(* Packages installed at first that lack nothing, and of which none        *)
(* excludes another.                                                       *)
SelfContained(C) ==
    /\ C \subseteq DOMAIN Initial /\ SpockItself \in C
    /\ \A h \in C : Initial[h].deps \subseteq C
    /\ \A g, h \in C : g # h => InitialNames(g) \cap InitialNames(h) = {}

(* Each package that is installed at first can be used.                    *)
UsableAtFirst ==
    \A h \in DOMAIN Initial : \E C \in SUBSET DOMAIN Initial : SelfContained(C) /\ h \in C

(* Packages with parasites need nothing but Spock, as gnu-compilers and    *)
(* llvm-compilers do (lib/packages), and a parasite shares no name with    *)
(* its host, with Spock, or with what a code generator needs.              *)
ParasitesFit ==
    /\ \A n \in DOMAIN Defs : \A p \in ParasitesOf(n) :
          Defs[n].install = {} /\ n \notin p.aliases
    /\ \E C \in SUBSET DOMAIN Initial :
          /\ SelfContained(C)
          /\ \A h \in DOMAIN Initial : CodeGeneration \in InitialNames(h) => h \in C
          /\ \A h \in C, m \in Name : Hosts(m) # {} => GhostNames(m) \cap InitialNames(h) = {}

-----------------------------------------------------------------------------
Hash == DOMAIN store

Env == [employed : SUBSET Hash, path : Seq(Hash)]

SessionTypeOK ==
    /\ \A h \in Hash : store[h] \in Record(Hash)
    /\ shells # <<>> /\ \A i \in DOMAIN shells : shells[i].env \in Env
    /\ pc \in {"prompt", "solve", "sort", "loop", "build", "post"}
    /\ Len(envs) = CASE pc = "prompt" -> 0 [] pc \in {"build", "post"} -> 3 [] OTHER -> 1
    /\ \A i \in DOMAIN envs : envs[i] \in Env
    /\ left \subseteq Packages /\ ToSet(order) \subseteq Packages /\ ToSet(heads) \subseteq left
    /\ ToSet(soln) \subseteq Packages /\ at \in 0 .. (Len(soln) + 1)
    /\ ToSet(inUse) \subseteq Hash /\ iDeps \subseteq Packages

Closed(H) == \A h \in H : store[h].deps \subseteq H

Consistent(H) == Apart(Employable(H)) /\ Closed(H)

(* H and all that its packages depend on.                                  *)
Closure(H) == {h \in Hash : \A S \in SUBSET Hash : H \subseteq S /\ Closed(S) => h \in S}

ProvidesAll(H, W) == \A n \in W : \E h \in H : n \in NamesOf(h)

(* No shell employs two packages that have a name in common, primary or    *)
(* secondary, or lacks what one of its packages was installed with, no     *)
(* matter which of them were installed on the way (spock-shell.C:288-324). *)
ShellsConsistent == \A i \in DOMAIN shells : Consistent(shells[i].env.employed)

(* A shell provides what was asked for, and all that the shell around it   *)
(* provided.                                                               *)
RequestMet ==
    \A i \in DOMAIN shells \ {1} :
        /\ shells[i - 1].env.employed \subseteq shells[i].env.employed
        /\ ProvidesAll(shells[i].env.employed, shells[i].request)

(* Nothing leaks into an environment: a shell adds to the one around it    *)
(* only what was asked for, Spock, a code generator and what these depend  *)
(* on, and a post-install script runs with what is in use and the closure  *)
(* of its package.  In particular neither sees a package that only a build *)
(* needed (DefinedPackage.C:683-690).                                      *)
NothingLeaks ==
    /\ \A i \in DOMAIN shells \ {1} :
          LET E == shells[i].env.employed
              asked == {h \in E : NamesOf(h) \cap shells[i].request # {}}
          IN  E \subseteq Closure(shells[i - 1].env.employed \cup asked
                                  \cup Generators \cup {SpockItself})
    /\ pc = "post" => Top.employed \subseteq Closure(Base.employed \cup Generators \cup {Host})

(* In the search paths of a shell a package comes before those it depends  *)
(* on, so that what it installed takes precedence over them.  (A parasite  *)
(* depends on a code generator that its ghost did not know of when the     *)
(* solution was sorted; but a code generator adds no search paths.)        *)
PathOrder ==
    \A i \in DOMAIN shells :
        LET path == shells[i].env.path
        IN  \A j, k \in DOMAIN path :
                path[k] \in store[path[j]].deps \ Generators => j < k

(* Whatever was installed, by commands that succeeded or failed, can be    *)
(* used: its dependencies are installed, agree with each other, and        *)
(* provide what its definition asks for.                                   *)
StoreUsable ==
    /\ \A h \in Hash : Consistent(Closure({SpockItself, h}))
    /\ \A h \in Hash \ DOMAIN Initial :
          store[h].name \in DOMAIN Defs =>
              ProvidesAll(store[h].deps, Defs[store[h].name].install)

(* A package is built in an environment without contradictions that has    *)
(* all its dependencies.                                                   *)
BuildEnvironment ==
    pc = "build" =>
        /\ Consistent(Top.employed)
        /\ ProvidesAll(Top.employed, Defs[soln[at].name].install \cup Defs[soln[at].name].build)

(* The sort reaches each package of a solution (ASSERT_require, Context.C: *)
(* 649): when no head is left, no package is.                              *)
LatticeEmptied == pc = "sort" /\ heads = <<>> => left = {}

(* "Secondary names are used to prevent two related packages from being    *)
(* used at the same time" (doc/example-package.yaml:23-25).                *)
SecondaryNamesExclude ==
    \A i \in DOMAIN shells : \A g, h \in shells[i].env.employed :
        g # h => store[g].aliases \cap store[h].aliases = {}
=============================================================================
