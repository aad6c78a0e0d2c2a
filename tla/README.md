# A verification of RMC/Spock

Spock is a small package manager for C++ development on Linux: it downloads,
builds, installs and removes packages of which many versions and many
configurations can be installed side by side, and it runs commands in shells
in which a chosen, consistent set of those packages is "employed". RMC is a
set of shell scripts on top of it for one particular source tree. This
directory holds TLA+ models of the parts of Spock that are hard to get right,
the TLC configurations that check them on small instances, and theorems about
them that TLAPS has checked.

All paths below are relative to the repository; `Spock/X.C` is short for
`src/Spock/X.C`.

## 1. The system

### Components, their state and their operations

| Component | State | Operations | What makes it correct |
|---|---|---|---|
| Package store (`DefinedPackage::install`, `InstalledPackage`, `spock-shell`, `spock-rm`, `Context::scanInstalledPackages`) | `$SPOCK_OPTDIR`: `HASH.yaml`, `HASH/`, `HASH.used` for each package, and one build log for each configuration attempted; the download cache; in each process a `Context` with a snapshot of the store | construct a context, solve, download, build, publish, register, stamp, remove, remove stale packages | a visible package has its files and keeps its dependencies; one writer for a tarball; no directory leaked; a hash lives once; a failed configuration is not built again |
| `spock-filter` (`spock-filter.C`) | pids of the primary and the filter, pipes, the pending event, the exit status, a flag set by a signal handler | poll and forward output, a chain of events with deadlines, reap and signal children | no output lost, no signal to a foreign pid, an interrupted program ends, the exit status is not made up |
| Solver (`Spock/Solver.C`, `PackageLists.C`, `Package.C`) | the lists of alternatives, one for each dependency; the solutions found | `solve`, `extendLists`, `appendConstraint` | each solution is closed under dependencies, has one package for each name and satisfies every pattern; complete up to its limits |
| Versions and patterns (`VersionNumber.C`, `PackagePattern.C`) | none | compare two versions, match a pattern | the order sorts and the sets rely on is one; `2` matches `2.1` but not `20` |
| Package definitions (`DefinedPackage.C`, `GhostPackage.C`) | the parsed definition, version sections and their dependencies | `versionsByDependency`, `readVersionedNode`, `Context::scanGhostPackages` | a ghost has the dependencies its versions will be installed with |
| Environment (`Environment.C`, `Context` stack) | variables, a stack of saved environments; nested shells inherit the one on top | prepend uniquely, employ, push, pop | whatever way an install ends, the environment it started from is back; a package is found before those it depends on |
| Spock's own package (`Context::findOrCreateSelf`) | one `HASH.yaml` for the running version of Spock | look up, create | exactly one of them |
| Directory (`Directory.C`) | indexes by hash and by name | insert, erase, find | all indexes agree |
| System compilers (`scripts/impl/compiler-support.sh`, `spock-install-system-compilers`) | packages for compilers, their collections and code generators | scan, look up, configure, install | a scan installs all compilers of the machine, and none twice; what it writes can be read back |
| `spock-compiler` | none; reads the `compiler.yaml` of its package | check the compiler, start it | what is started is what the package is named after |
| `spock-ls`, `spock-using`, `spock-download` | none of their own | queries; `spock-download` calls the download that the store models | – |
| `rmc`, bootstrap and dependency installers, compiler detection, build scripts of packages | files of a build directory | straight-line shell that calls the tools above | – |

### How the components interact

* Every tool first constructs a `Context` (`Context.C:49-80`), which lists and
  reads the store. From then on it works from that snapshot; nothing tells a
  process what the others change.
* `spock-shell` turns its command line into patterns, asks the **solver** for
  a consistent set of packages (installed ones, or *ghosts* made from
  **definitions**), and installs the ghosts one after the other. To build one,
  `DefinedPackage::install` calls the solver again for the build dependencies,
  pushes an **environment**, runs scripts in a subshell and publishes the
  result.
* The processes share the **store** and the download cache through the file
  system, without locks. `bfs::create_directory`, `bfs::copy_file` and
  `bfs::rename` are the only arbiters.
* `spock-filter` runs beside a build: it owns two children and talks to them
  through pipes, `kill` and `waitpid`; the clock drives its deadlines.
* `spock-shell` passes what it employs to the shell it starts through the
  **environment** (`SPOCK_EMPLOYED` and the search paths); the next command in
  that shell begins there.
* A **scan for system compilers** is a shell script that calls `spock-ls` to
  look packages up, and writes what is missing into the **store** itself,
  directories and YAML files, past `DefinedPackage::install`. `spock-compiler`
  is the program those packages hold: it starts the compiler of the machine,
  which the machine's owner upgrades without telling Spock.
* **Spock's own package** is under every other: `Context` creates it if the
  store has none for the running version (`Context.C:198-258`), employs it, and
  `installConfigFile` names it as a dependency of whatever is installed
  (`DefinedPackage.C:552`).

### What is hard

* *Interleaving without locks.* Publishing takes six steps (create the empty
  configuration file, fill it, move the log, remove the mark, read the file
  back, run a script), removal takes three, a scan takes one for each file.
* *Crashes.* A killed build leaves its log, its prefix directory and perhaps a
  truncated tarball. Some of them mean something to the next command.
* *Stale snapshots.* Solutions, time stamps and removal lists are computed
  from what was read at the start.
* *Signals and deadlines in `spock-filter`.* A child may end, a deadline pass,
  a signal arrive or a stream close in any order, and an event may be replaced
  inside the constructor of another.
* *Three outcomes where there should be two.* Exceptions that nothing catches
  end a program without unwinding, so a "temporary" directory stays.
* *Solutions within solutions.* A shell's solution is computed before its
  packages are built; each build solves again, and a post-install script adds
  packages that nobody solved for. In the end one set must be consistent.
* *Names for things that change.* A compiler package stands for a command, the
  command for a link, the link for a file.

The `hazards` of `PROJECT.json` list them one by one, each at its line, with
the property that would catch it.

## 2. Modules

| Module | Models | Used by |
|---|---|---|
| `PackageLifecycle` | abstract specification: what the store promises about one hash | `PackageStore` (refinement) |
| `PackageStore` | the store, the cache, Spock's own package, and any number of `spock-shell` and `spock-rm` processes | `MCPackageStore`, `PackageStore_proofs` |
| `MCPackageStore` | small dependency graphs and command sets for TLC | the `Store*` runs |
| `PackageStore_proofs` | theorems about `PackageStore` | `PackageStoreSerial_proofs` |
| `PackageStoreSerial_proofs` | theorems about `PackageStore` when one command runs at a time | – |
| `SpockFilter` | the supervisor, its children, pipes, clock and signals | the `Filter*` runs |
| `SpockFilter_proofs` | theorems about `SpockFilter` | – |
| `Versions` | version numbers, their comparison, the operators of patterns | `Solver` |
| `Solver` | the search for packages that go together, and what it needs of definitions, ghosts and the directory | `MCSolver`, `Solver_proofs` |
| `MCSolver` | worlds of installed packages, definitions and requests for TLC | the `Solver*` runs |
| `Solver_proofs` | theorems about `Solver` and `Versions` | – |
| `Session` | nested `spock-shell`s: the stack of environments, the sort of a solution, the loop over it, builds, parasites | `MCSession` |
| `MCSession` | a store, definitions and requests for TLC | the `Session*` runs |
| `Session_proofs` | theorems about `Session`: shells, requests, paths, builds | `SessionScope_proofs` |
| `SessionScope_proofs` | theorems about `Session`: what an environment may hold, and whether the store can be used | – |
| `Compilers` | scans for system compilers, the wrapper `spock-compiler`, a machine that is upgraded meanwhile | `MCCompilers`, `Compilers_proofs` |
| `MCCompilers` | a machine of two compiler commands for TLC | run `Compilers` |
| `Compilers_proofs` | types of `Compilers`, and what the wrapper starts | `CompilersStore_proofs` |
| `CompilersStore_proofs` | what a scan leaves in the store | – |

The models of `spock-shell` divide it. `PackageStore` has every step another
process can see, and abstracts the solver to its answers; `Solver` has the
search and abstracts the order; `Session` has one command at a time, in all of
its memory: the order, the environments and what a build adds to a solution.

### PackageStore

*State.* `yaml`, `pkgOf`, `depsOf`, `prefix` and `stamp` are the files of a
hash; `log` holds the configurations whose build log exists, `tarball` the
download cache. A process is a program counter `pc[p]` and what its `Context`
and its stack frames remember: the registered packages `known`, those it read
a recent stamp for `young`, the rest of the solution `todo`, the employed
packages `inUse`, the package and hash being built `cur`, `hash`, the
dependency solutions `iDeps`, `bDeps`, and the removal list `queue`.

*Actions*, in the order of the code. `Start` to `SelfFails` are the
construction of the `Context`: `ScanOne`, `ScanIncomplete`, `ScanSkips` and
`ScanVanished` read the listed files; `CreateSelf`, `OpenSelf`, `CloseSelf`,
`RegisterSelf` and `SelfFails` are `findOrCreateSelf`, which ends the command
if there are two packages for Spock. `Solve` to `Unwind` are `spock-shell` up
to the end of the build: `Download`, `FetchSucceeds`,
`CopyBegins`, `CopyEnds` are `DefinedPackage::download`; `Prepare` draws a
hash, solves the dependencies and makes the prefix directory; `CheckAttempted`
looks for the log of an earlier attempt; `OpenLog` is where `subshell` creates
it; `Unwind` is the destructor of `TemporaryDirectory`. `PublishBegins` to
`PostInstall` are the end of `install()`. `Employ`, `StampOne`,
`RunUserCommand` are `spock-shell` afterwards. `Select` to `RemovalEnds` are
`spock-rm` and `InstalledPackage::remove`. `Crash` kills a process anywhere,
and stands for exceptions that nothing catches (a `copy_file` or
`create_directory` that fails at `DefinedPackage.C:567` or `631`, for one);
`Age` lets days pass.

`issued`, `published`, `failed`, `crashes` and `torn` are history. `torn` has
the packages that were `Exposed` when their removal was killed: in the removal
list, and in need of two packages that the list is about.

*What a step is.* One step is one file system call another process can
observe, or one decision. Where `bfs::rename` throws and nothing catches it
(`KeepLogDies`), the process ends without cleaning up; where the exception is
caught (`PrepareFails`, `BuildFails`), it unwinds.

*Abstractions.*

* A package name stands for one version; versions, patterns and the search
  are abstracted to the answers the solver can give (`InstalledParts`,
  `Solutions`, `SettlesForGhost`): consistent sets of known installed packages,
  as large as possible.
* `unique_path()` does not return the same hash twice: hashes are drawn from
  `Hash \ issued`. The `create_directory` that would catch a repetition is part
  of `PrepareFails`.
* The name of a build log is a hash of the configuration; two configurations
  are taken to have different names.
* The installed part of a solution is employed before the first build; the
  code employs it in dependency order among the builds, with the same effect
  on what builds can see.
* A corrupt tarball always makes a build fail.
* Days do not pass between the stamps of one solution.
* `Prepare` takes its two solutions from those without a ghost. Only the
  second, for the build, is employed before a build and thereby tested for
  ghosts (`DefinedPackage.C:615-619`); that those for `"install"` cannot hold a
  ghost either is not assumed in `Prepare` but checked and proved
  (`NoGhostDependency`).
* There is one version of Spock; `findOrCreateSelf` also looks at packages of
  other versions, to print a warning, and at the operating system.
* The listing of the directory is one step.
* Where an instance runs out of hashes a command ends (`PrepareFails`,
  `SelfFails`). `ScanVanished` and `PrepareFails` end commands in a few more
  cases than the code.
* Parasites (packages a post-install script creates) and environments are left
  to `Session`.

### SpockFilter

*State.* `pc` is where the main loop is (`poll`, `write`, `event`) or how the
program ended; `nextEvent` is the pending `DoThenWait`, `due` says that its
deadline has passed, `pid`, `fds`, `inputOpen`, `programExitStatus` and
`wasInterrupted` are the variables of the program. `proc` and `code` are what
the kernel knows of the children, `pipe`, `fill` and `writers` what is in the
pipes and who may still write.

*Actions.* `ReadChunk`, `CloseHungUp`, `PollTimesOut`, `WriteChunk` and
`BrokenPipe` are `transferData`. Each event has actions for the outcomes of its
`process()`: what it waits for happened, its deadline passed, or neither. The
constructor and the `finalAction()` of an event are part of the action that
calls them, including those that replace the pending event at once
(`IntPrimary` without a primary). `TimePasses`, `Signal`, `Emit`,
`CloseStream`, `FilterReads` and `ChildEnds` are the environment.

*Abstractions.* A chunk is one `read()`. The clock is one flag for each pending
event. `--quiet` has its default. A filter that closes its input and lives on,
errors of `read` and `kill`, and a filter that cannot be forked are left out, and
so is a supervisor without a filter, which writes to its own output
(`spock-filter.C:476-484`) and may block or fail there; a primary that cannot be forked is included. `finalAction()` replaces the
`shared_ptr` that owns the running event; the write to the freed object that
follows has no reader and is not modelled.

### Solver and Versions

*State.* `world` is what the solver is given and never changes: the installed
packages, the definitions, the employed packages and the request. `plists` is
the `PackageLists` that all levels of the recursion share. The recursion itself
is the stack `frames`: for each level its constraints, the index of its loop
(`next`) and the number of lists it was entered with (`oldPlistSize`).
`solutions` are the sets found.

*Actions.* `Begin` is the public `solve()`: it checks the employed packages and
makes the first lists. On each level, `Accept` takes the next package of the
level's list, if it fits the constraints and none of the lists of its
dependencies is empty, and enters the next level; `Reject` passes it over;
`Exhaust` is the end of the loop and returns; `Found` is the end of the lists.
`Return` includes what the caller does first: it cuts `plists` to its own size.
`AssertionFails` is the abort of `Context::dependencyLattice` on packages that
depend on each other in a circle.

*Operators.* `Fits`, `Constrain` and `NeedDeps` are the three results of
`appendConstraint`, whose recursion over the constraints that follow becomes a
quantifier. `Alternatives`, `IsRedundant` and `AddList` are the body of
`extendLists`; its loop over the patterns and `PackageLists::sort`, which puts
the first of what is left next, are recursive functions. `Identical` and `Excludes` are those of `Package.C`, including
that `Identical` is not symmetric. `GhostVersions` and `SectionFor` are the two
ways a version finds its section of a definition: first match and last match.

*Abstractions.*

* A version is a sequence of parts; a part has a value, if it is a number of at
  most six digits, and a place in alphabetical order. Versions that differ in
  writing only (`1.1` and `1.01`) are left out of the worlds.
* A solution is a set: `sortByDependencyLattice` only orders it.
* Parasites (ghosts of what a post-install script makes, which have secondary
  names, unlike those of definitions: `GhostPackage.C:142-144`) and the
  dependency on Spock itself that a definition with no other gets are left to
  `Session`.
* Employed packages are different installed packages (`WorldsOK`). A pattern
  with no name, which raises an exception, does not occur.
* `MaxSolutions` is 1 in the program, which never sets it; the runs look for
  three to see the search backtrack after it has found something.
* Every timestamp is different, so the order by hash never decides.
* `WellFormed` says what the theorems assume of worlds, see section 4. The
  worlds of run `Solver` are well formed, which TLC checks; those of
  `SolverSections` are not, on purpose.

### Session

*State.* `store` is what is installed, a hash being a place in it. `shells` are
the nested shells with the environment each was spawned with. The command in
the innermost shell is `pc` and: its `request`; `envs`, the environments that
`Context` keeps on its stack; `left`, `heads` and `order`, the lattice of
dependencies, its list of heads and what was taken from it; `soln`, `at` and
`inUse`, the loop of `main()`; `iDeps`, the install dependencies in
`DefinedPackage::install`.

*Actions.* `Start` constructs the `Context` from the environment; `LeaveShell`
is the user's `exit`. `Solve` chooses a solution and finds the first heads;
`RemoveHead` is one round of `sortByDependencyLattice`; `UseInstalled` and
`BeginLoop` are what `main()` does with the sorted solution, `TakeInstalled`,
`BeginInstall` and `EndLoop` its loop. `BeginInstall` to `PostInstallFails` are
`install()`: the two solutions, the environments pushed for the package and for
its build, the publication with the dependencies it records, the parasites that
the post-install script installs, and the ghosts they replace. Each place where
the command may end early (`NoSolution`, `GiveUp`, `AbortBuild`, `BuildFails`,
`PostInstallFails`) is an action.

*Abstractions.*

* One command runs at a time, and a name stands for one version.
* `Solutions` are the answers of the solver: sets that satisfy the request,
  contain nothing that is not needed for it, and prefer an installed package to
  a ghost. Which of them it finds first is left open, and so is the order in
  which the dependencies of a build are employed, the order of heads and the
  order of solutions.
* An environment is the set of employed packages and one search path, in which
  a package stands for its prefix directory. Other variables and `sh` quoting
  are left out.
* A post-install script installs any subset of the parasites its definition
  announces. A new parasite depends on Spock, its host and the code generators;
  a generator that is itself created by such a script is not modelled (the
  worlds start with one).

### Compilers

*State.* `link` and `content` are the machine: where each command leads and what
the file is. `store` holds collections, code generations and compilers, a
removed one being `Nothing`. `installer[i]` is a scan: the command and the
switches it is at and what it has found out; `wrapper` is a run of
`spock-compiler`. `clock` counts the changes made by others; packages and runs
remember it (`since`, `calm`, `checked`, `steady`) for the properties only.

*Actions.* `Program` asks the next command what it is
(`spock-compiler-install-program`); `FindCollection` and `CreateCollection` are
`spock-compiler-conditional-install-collection`; `Detect` and `Lookup` are
`spock-compiler-conditional-install-language` and
`spock-compiler-conditional-install`; `Configure` and `Publish` are
`spock-compiler-install`, with `FindGeneration` and `CreateGeneration`
(`spock-compiler-conditional-install-codegen`) between them. `Call` to `execCompiler` are the
wrapper, with the names of its functions. `Upgrade`, `Relink` and `Remove` are
the machine's owner and `spock-rm`.

*Details that matter.* The lookup puts the code generation behind the language,
where packages do not have it, so that it finds default compilers only (and for
those any generation). `set -e` has no effect to the left of `||`, so a
compiler that fails its second examination leaves `compiler.yaml` empty and is
installed all the same. A dependency is the text that `spock-ls -1` printed;
with two lines in it no later `Context` can be constructed.

*Abstractions.* All compilers are of one vendor. A build of a compiler is known
by the output of `--version` (`BuildAssumption`), the tests a compiler is put
to by their outcome (`accepts`, `default`). The `--spock-*` switches of the
wrapper print and are parts of scans; the rewriting of its arguments keeps
them all and is left out. Three things are coarser than the scripts: a
configuration file is written in one step and no scan is killed (a file that
is written by half ends every later `Context`, as `ScanIncomplete` of
`PackageStore` does); a detection, which runs the compiler several times, is
one step, so an upgrade is before or after it; and versions are compared for
equality where the pattern of the lookup also matches longer versions.

## 3. Runs

All bounds are constants in the configuration files.

| Run | Question | Instance | Why it is enough |
|---|---|---|---|
| `StoreRace` | Can two commands and a kill break the store? | 2 processes, 1 package and Spock's own, which is installed at first; 3 hashes, 1 crash; `spock-shell` and `spock-rm` | each pair of operations meets at each step; two free hashes allow two builds of one package, a second package for Spock, or both (3.4 million states) |
| `StoreSerial` | Can a sequence of commands, one of them killed, break what is recorded about packages? | 1 process, an empty store, 3 packages of which one is a build tool, 4 hashes, 1 crash, all commands | the properties relate a package, its dependency, a build tool and Spock's package; four hashes are one for each, and each removal leaves fewer (1.5 million states) |
| `StoreLiveness` | Does every command end? | 2 processes, one of which only removes, 1 package and Spock's own, 3 hashes | a command can only wait for files another process takes away, and the second process takes all of them, Spock's package included (284 000 states) |
| `StoreRefused`, `StoreTriangle` | findings, see below | the smallest instances that show them | – |
| `Filter` | Does supervision work in every order of output, ends of children, deadlines and signals? | pipes of 2 chunks, 3 chunks, 2 signals, exit codes 0 and 3 | a pipe can be full and hold more; a signal can come before, during and after a shutdown |
| `FilterSignal` | finding, see below | the smallest instance that shows it | – |
| `Solver` | Are the solutions right, and are there none when it finds none? | 9407 worlds: up to 5 installed packages, 2 definitions of 2 versions with one or two sections, 4 requests for each, up to two employed packages; 3 solutions looked for | every combination of installed package, ghost and tightening meets in some world; with three solutions looked for, the search backtracks through all of most worlds |
| `SolverSections` | finding, see below | the sections of `lib/packages/cmake.yaml` in small | – |
| `Session` | Is what a shell employs consistent, whatever was installed on the way there? | 2 nested shells, 4 packages at first and up to 8; two exclusive compilers, a library, an application with a build tool, a collection with two parasites; 5 requests | installed and missing packages, a build tool that must be chosen before it is there, and a parasite that replaces a ghost all meet in one solution; with two levels a request can contradict its shell (85 117 states) |
| `SessionAliases` | finding, see below | two packages to be built that share a secondary name | – |
| `Compilers` | Does a scan leave what users need, and does the wrapper start what it should? | one scan at a time, 2 scans, 2 changes of the machine, 1 removal; 2 commands, 2 files, 3 builds of which two have one version number, 3 sets of switches | the second scan meets what the first left, with a change before, between and inside; a patched compiler, a relinked command and a removed collection each need one change, and two of them combine (5.5 million states) |

`CHECK_DEADLOCK` is off in the `Filter*` and `Solver*` runs, since the program
ends, and the model with it, and in the `Session*` and `Compilers` runs, which
stop at their bounds (`MaxStore`, `MaxScans`, `MaxChanges`). The sections of the definitions in run `Solver` do
not overlap; `SolverSections` shows what happens when they do.

**What they show.**

* `StoreRace`: `RegisteredHasPrefix` (a configuration file never outlives its
  prefix directory), `OneCopier` (one writer for a cached tarball),
  `NoOrphanPrefix` (unless a process was killed, a prefix directory belongs to
  a package, to its builder or to its remover), `LifecycleSpec` (the store
  implements `PackageLifecycle`: each hash is reserved, published and removed
  at most once, in this order).
* `StoreSerial`: `DependenciesRegistered` (every dependency that an installed
  package names is installed; a package that a forced removal has yet to
  remove, and that needs two of those it removes, is excepted, since for it the
  order of removal does not hold what it promises: finding `StoreTriangle`),
  `NoGhostDependency` (when an install begins, what the package needs to be
  used is employed), `OneSelf` (at most one package for Spock, through removals
  and kills), `StaleSparesYoung` (`spock-rm --stale` removes dependents it
  never tested for age; the order of the stamps is what makes this right),
  `NoRebuildOfFailed`. They are claims about one command at a time: commands
  that run at the same time, which the code does not rule out, work from stale
  snapshots and can break each of them except `NoGhostDependency`. Two first
  commands can each create a package for Spock, after which every command
  exits.
* `StoreLiveness`: `CommandsEnd`.
* `Solver`: `AnyChoiceIsValid` (a solution satisfies the request and all
  dependencies whatever versions of its ghosts the user picks; the reference
  definition `IsSolution` knows nothing of lists and constraints),
  `NoSolutionMissed` (when fewer solutions were found than looked for, every
  valid set of packages contains one of them), `ConstraintsCompatible` (no two
  packages that exclude each other on any level).
* `Filter`: `PidsAreOurs`, `NothingDropped`, `FilterOutlivesPrimary`,
  `SuccessIsReal`, `NoFilterLeft` and `EndsOnceOver`.
* `Session`: `ShellsConsistent` (no shell employs two packages that exclude
  each other or lacks a dependency of one), `RequestMet` (what was asked for
  is there, and stays there in nested shells), `NothingLeaks` (no way out of
  an install leaves a package of the build behind in the user's shell),
  `PathOrder` (a package is found before what it depends on; code generators,
  which add nothing to search paths and which the ghost of a parasite does not
  foresee, are excepted), `StoreUsable` (what was installed, also by a command
  that failed later, is complete and free of contradictions), `BuildEnvironment`
  (a build sees exactly a consistent set with all of its dependencies),
  `LatticeEmptied` (the sort forgets no package).
* `Compilers`: `RunsAsNamed`, `StoreReadable`, `NoSecondPackage` and
  `ScanComplete`. Their premises are where the code's limits are, and each
  limit was seen by dropping the premise. Without `calm` or `steady`,
  `RunsAsNamed` fails: nothing can be done about a compiler that is replaced
  between the check and the start. With a second scan at the same time
  `StoreReadable` fails, since both may find no collection and create one, and
  the store is unreadable from then on. `ScanComplete` lets a patched compiler
  hide behind its predecessor of the same version number, which the wrapper
  then refuses and no scan replaces; and a default compiler behind one of
  another generation, when `spock-rm` has removed it and its sibling stayed.
  `NoSecondPackage` is about the default generation: others are installed
  again by every scan (`scripts/impl/compiler-support.sh:229`).

**Fairness.** `PackageStore` assumes `WF_vars(Step(p))` for each process: the
operating system schedules it, and the scripts it waits for end. Starting a
command and a crash are not fair. `SpockFilter` assumes weak fairness of the
supervisor (its `poll` has a timeout, so it never sleeps for good), of the
clock, and of the filter reading what it is sent; it does *not* assume that
either child ever ends.

**Findings.** Each is a run that TLC refutes, of a property that states what
the repository says.

| Run | The repository says | The code does |
|---|---|---|
| `StoreRefused` | a configuration is refused if it was "previously attempted and failed" (`Spock/DefinedPackage.C:649,658`) | a build that was killed, or is still running, is refused as well |
| `StoreTriangle` | an interrupted `spock-rm` leaves the system in a valid state (`spock-rm.C:133-134`) | the reverse of a depth-first preorder may remove a package before its dependent. Since every package depends on Spock (`Spock/DefinedPackage.C:552`), two packages of which one needs the other are enough: a removal that starts at Spock may remove `lib` before `app` |
| `SolverSections` | the *last* group of settings that match a version is used (`doc/example-package.yaml:11-13`) | ghosts are made by the *first* match (`Spock/DefinedPackage.C:258`), and get the dependencies of the last match of their greatest version: version 3.0 of a package written like `lib/packages/cmake.yaml` loses its compilers |
| `FilterSignal` | signals are caught and the primary is signaled (`spock-filter.C:6`) | a write to a filter that died of the same signal ends the program first |
| `SessionAliases` | secondary names keep two related packages from being used at the same time (`doc/example-package.yaml:23-25`) | a ghost has no secondary names (`Spock/GhostPackage.C:18`), so one solution may hold two that exclude each other; both are installed and employed |

Read in the code while modelling, in the models, and without a run: a configuration
file is created before it is filled (`Spock/DefinedPackage.C:567`, against the
comment at 668-670), so that a `Context` that is constructed meanwhile ends
with a syntax error (`ScanIncomplete`); the exit status of `spock-filter` is 1 or 2 and the
filter's wins (`spock-filter.C:315`, against 11-12); the last resort against a
primary is SIGINT once more (`spock-filter.C:189`, against 184 and 190).

## 4. Theorems

| Module | Theorem | Says |
|---|---|---|
| `PackageStore_proofs` | `TypeInvariant` | types, and which parts of a job are set at which step |
| | `StoreInvariant` | the inductive invariant of the store |
| | `PackagesHaveFiles` | `[]RegisteredHasPrefix` |
| | `CopyInvariant`, `TarballsHaveOneWriter` | `[]OneCopier` |
| | `PrefixOwnedInvariant`, `PrefixesHaveOwners` | `[]NoOrphanPrefix` |
| | `StoreImplementsLifecycle` | `Spec => LifecycleSpec` |
| | `PlanInvariant`, `GhostsNeverPublished` | `[]NoGhostDependency` |
| `PackageStoreSerial_proofs` | `FailedNotRebuilt` | `NoRebuildOfFailed`, one command at a time |
| | `RecordedInvariant`, `SnapshotInvariant`, `ClosedInvariant`, `DependenciesStayRegistered` | `[]DependenciesRegistered`, one command at a time |
| | `SelfInvariant`, `SpockStaysUnique` | `[]OneSelf`, one command at a time |
| | `StampInvariant`, `StaleSparesRecent` | `StaleSparesYoung`, one command at a time |
| `SpockFilter_proofs` | `FilterTypeInvariant`, `FilterInvariant` | types and the inductive invariant |
| | `PidsStayOurs`, `OutputIsForwarded`, `FilterSignaledLast`, `SuccessIsNotMadeUp`, `FilterNotLeftBehind` | the safety invariants of run `Filter` |
| `Solver_proofs` | `SearchInvariant`, `ConstraintsStayCompatible` | `[]ConstraintsCompatible`, for any worlds |
| | `StackInvariant`, `SolverTypes` | `[]SolverTypeOK`, for well-formed worlds |
| | `SoundInvariant`, `SolutionsAreValid` | `[]AnyChoiceIsValid`, for well-formed worlds |
| | `MissInvariant`, `NothingIsMissed` | `[]NoSolutionMissed`, for well-formed worlds |
| | `PlainVersionsAreOrdered` | versions that are written alike are totally ordered |
| `Session_proofs` | `SessionInvariant`, `SessionTypes` | `[]SessionTypeOK` and the inductive invariant of nested shells |
| | `ShellsStayConsistent`, `RequestsAreMet`, `PathsAreOrdered` | `[]ShellsConsistent`, `[]RequestMet`, `[]PathOrder` |
| | `SortReachesAll` | `[]LatticeEmptied` |
| | `BuildsAreSupplied` | `[]BuildEnvironment` |
| `SessionScope_proofs` | `NothingEverLeaks` | `[]NothingLeaks` |
| | `StoreStaysUsable` | `[]StoreUsable` |
| `Compilers_proofs` | `CompilersTypeCorrect` | `[]CompilersTypeOK` |
| | `WrapperRunsAsNamed` | `[]RunsAsNamed` |
| `CompilersStore_proofs` | `StoreStaysReadable` | `[]StoreReadable`, with one scan at a time |
| | `DefaultsInstalledOnce` | `[]NoSecondPackage`, with one scan at a time |
| | `ScansAreComplete` | `[]ScanComplete`, with any number of scans at a time |

They hold for any number of processes, packages and crashes, any finite set of
hashes, and any dependencies; for any pipe size, any number of chunks and
signals and any exit codes. They rest on `ConstantsOK` and
`FilterConstantsOK` only, those about compatible constraints on `WorldsOK`.
Those about compilers hold for any machine, any switches and any
number of upgrades, removals and scans, and rest on `BuildAssumption` (builds
differ in what `--version` prints), `MachineAssumption`, `ListAssumption` and
`NothingAssumption` (the sign for no package is not a package);
`StoreStaysReadable` and `DefaultsInstalledOnce` also on `OneScan`, that there
is at most one installer, which the code needs and does not enforce. Those of `PackageStoreSerial_proofs` assume
`OneProcess`, that one command runs at a time, and stand for any number of
commands and of killed processes, any dependencies, and a store with or without
a package for Spock at first. The assumption cannot be dropped: commands at the
same time work from stale snapshots.

The other theorems about the solver hold for any number of packages, versions,
definitions, employed packages and solutions looked for, and assume `WellFormed`
of `Solver.tla`; the last two of these are more than what reading the files
ensures:

* there are finitely many packages, definitions and patterns; an installed
  package has one version, and its hash is its own;
* no version is in two sections of its definition. `lib/packages/cmake.yaml`
  breaks this, and run `SolverSections` is the counterexample without it;
* the versions of a name are totally ordered by `Less`. `VersionNumber::operator<`
  does not ensure it (`2 < 10 < 1a < 2`). `PlainVersionsAreOrdered` says when it
  does: if, place by place, the versions of a name have numbers only or texts
  only, and none is written in two ways (`1.1` and `1.01`).

Those about sessions hold for any number of names, packages, commands and nested
shells, and assume `WellFormed` of `Session.tla`:

* `PrivateAliases`: a secondary name of a definition is a name of nothing else.
  Real definitions (`boost-py` and `boost-nopy`, the compiler collections) share
  one to exclude each other, and run `SessionAliases` is the counterexample
  where two such are built for one solution;
* `OneHost`: a parasite has one host and no definition of its own;
* `OneGenerator`: one code generator at most is installed, and none is defined,
  as `Session` does not model their creation;
* `NoCycle`: definitions do not depend on each other in a circle, which
  `Context::dependencyLattice` asserts.

`StoreStaysUsable` assumes besides that what is installed at first can be used
(`UsableAtFirst`), and that packages with parasites need nothing but Spock
(`ParasitesFit`), as `gnu-compilers` and `llvm-compilers` do in `lib/packages`.
TLC checks that the instance of run `Session` satisfies all of them, and that
of run `Solver` those of the solver.

*The store.* `RegisteredHasPrefix` is not inductive: a removal deletes a prefix
after the configuration file, and a build publishes at the end of many steps.
`StoreInv` adds what makes it so: a hash in use was drawn (`HashesDrawn`), two
processes never build the same one (`OwnersUnique`), a hash under construction
is not visible to anybody and not yet published (`InstallsUnseen`), what
processes know was published (`SeenIsPublished`), and a remover deletes a
prefix only after the configuration (`ConfigRemovedFirst`). With `StoreInv`,
the refinement is a case split: five actions move exactly one hash one phase on
(`OneMoves`), and the others leave everything that phases are made of alone
(`PhasesUntouched`). `NoOrphanPrefix` follows from `PrefixOwned`, which follows
a directory from the process that makes it to the one that deletes it; a
process that dies in `KeepLogDies` has published its package already, so what
it leaves behind is a package and not an orphan.

`NoGhostDependency` rests on `PlanInv`, which follows a command from its
solution to its last stamp: what is employed has one package for each name and
all of its dependencies, and together with what is yet to be installed it has
the names that each of its packages needs (`PlanOf`). So when a package's turn
comes, its dependencies are employed, and nothing is left for the solver to
choose. The contents of published packages do not change (`ContentsStay`),
which is why this holds however many processes run at the same time.

*The store, one command at a time.* `FailedNotRebuilt`: the mark of a failed
build outlives every step but those after a build that succeeded
(`AttemptInv`). `DependenciesStayRegistered`: a snapshot stays true until its
process removes what is in it (`SnapshotInv`), so what an install names as
dependencies is there, Spock included; and a package is only removed when
nothing depends on it any more, or else what depends on it is `Exposed`. The
latter is the claim about the order of removal lists (`QueueInv`).
`PreorderListsAll` shows that the preorder lists every dependent, and
`DependentsFollow` that it lists a package before all that depend on it, unless
the dependent needs another package of the list too: the one it was reached
from is among its dependencies. That no package depends on itself, directly or
not, is an invariant and not an assumption (`Recorded`: what a package names
was published before it). `SpockStaysUnique`: a command that creates a package
for Spock has found none, and no other command runs (`SelfInv`).
`StaleSparesRecent`: since a command employs packages with all their
dependencies (`PlanInv`), stamping bottom up leaves recent stamps on recent
stamps only, and then no dependent of a stale package is recent (`StampInv`,
`DependentsStale`).

*The filter.* `FilterInv` is the conjunction of the safety invariants with
`EventsInOrder` (once an event concerns the filter, the primary has been given
up), `PrimaryAccounted` (a status of zero after that means a primary that was
reaped with zero) and `FilterAccounted` (a program that exited has reaped,
killed or never had its filter).

*The solver.* `SearchInv` says that the stack is a sequence of levels with
compatible constraints. The step that matters is `Accept`: the lemma
`ConstrainKeepsCompatible` shows that a package that fits leaves the
constraints compatible, also where it replaces a ghost by an installed package
with secondary names the ghost did not have, because what follows in the list
is validated again (what precedes it was compared with the new package
already). `Found` adds nothing, and a return drops a level.

`StackInv` describes the recursion: every level but the one on top has chosen
from the list of its number, which is among those it knew, and a level knows no
fewer lists than the one before. Hence a return cuts `plists` to what the
caller knew, and nothing that a level below has chosen is lost.

`AnyChoiceIsValid` compares the result of a search with a definition that knows
nothing of one. `SoundInv` is what connects them. A pattern is *served* by a
package all of whose versions it matches. At each level, each pattern of the
request, and each that a constraint depends on, is served by a constraint or by
every package of one of the lists the level knows (`Provided`), and from each
list below its own a package was chosen that some constraint refines
(`IsChosen`). Lists are left out when they are redundant, and lists for the
dependencies of a tightened constraint are not added at all; the lemmas
`RedundantIsCovered` and `ConstrainTightens` show that neither is needed: a
tighter ghost is in the same section, hence has the same dependencies, and a
package identical to a constraint serves what it serves. Past the last list a
package was chosen from each list, so the constraints serve everything
(`AllChosenSettles`), and go on to do so when the user narrows ghosts to one
version (`SettledIsValid`).

`NoSolutionMissed` is about what the search does *not* do. Take a valid set `T`.
A level is `Live` for it if `T` has a version of each constraint (`Admits`), if
each list the level knows has a package of which `T` has a version (`Hits`), and
if one of those in its own list is still to be tried. `MissInv` says that until
enough was found, some level is live for each valid set that no solution leaves
to the user. A package of which `T` has a version fits (`AdmittedFits`), and the
lists it adds are hit, thus not empty (`MeetsHits`, `AdmittedHits`), so that
`Reject` never passes it over; a level that is exhausted was not live; and where
the level at the end of the lists is live, the solution leaves `T`
(`AdmittedIsLeft`).

*Sessions.* A shell's solution is computed once and carried out step by step,
while each step changes the store. The invariant (`IInv`) is therefore about the
`Plan`: the solution, with what was installed meanwhile in the place of its
ghosts. It remains a `GoodPlan`, that is, consistent, complete for the request
and the environment, and sorted so that dependencies come first; what has been
carried out of it is employed. The delicate step is `PostInstall`, where the new
package and the parasites it brought replace ghosts: they must have the names
the ghosts had, no more (`PrivateAliases`, `OneHost`), or the plan could
contradict itself. `LatticeEmptied` is a consequence of `NoCycle`: of packages
that do not depend on each other in a circle, one has nobody that depends on it,
so the list of heads does not run dry. `Employ` puts the path of a package in
front, so a plan that is sorted yields a path that is.

`NothingLeaks` needs that a plan has nothing superfluous (`ScopeInv`): the
solution is minimal when it is found, and a part of the plan that is closed
under dependencies and has all that was asked for is all of it, also after
ghosts were replaced. For `StoreUsable` a package records as dependencies what
its build employed for it, which the plan shows to be consistent and closed;
for a parasite, which records its host and the code generators, `HostFits`
says that these go together.

*The wrapper.* What the wrapper starts is fresh, what it compares with is as old
as the package. `IInv` carries the one fact that bridges them: `Truthful`, a
package installed in calm has a configuration whose output is that of a build
of its version which speaks its language. It follows a scan through its steps:
from the first question on, as long as the clock stands still, what the scan
has noted is what the machine would say now (`ScanInv`); `Upgrade`,
`Relink` and `Remove` may disturb the machine because they advance the clock.
`BuildAssumption` then turns equal outputs into the same build. TLC checked
`IInv` as an invariant before it was proved.

*Complete scans.* `CompleteInv` follows a scan over commands and switches: as
long as nobody else changed anything, each combination behind it was rejected by
the compiler or has a package that `Provides` it, which later installations,
by this scan or another, only add to.

*The store of compilers.* For `StoreReadable`, `LookupInv` says that there is at
most one collection of a version and one generation of a name (`Unique`), that
the dependencies of a compiler are single packages (`Resolved`), and that a
scan about to create one still finds none (`ScanLookups`), which is where a
second scan would break it. For `NoSecondPackage`, `OnceInv` adds that a scan
past its lookup is about to install what is not there yet (`ScanDecision`).

*Induction.* The library's induction rules take an operator as a parameter,
which no installed prover can instantiate. Where a proof needs induction over a
loop (the sort of a list of alternatives, `ExtendLists`, a path, a preorder),
the loop is a recursive function of a number, and the lemmas `NatMin` and
`UpTo` argue from a least counterexample; `DefinedByRecursion` shows that such a
function exists and satisfies its equations.

*Model-checked only.* `CommandsEnd` and `EndsOnceOver` are liveness under
fairness, which TLAPS does not do. All invariants and action properties that
the runs check are proved, those of the store in part for one command at a
time, see above.

## 5. Plan

Done: the parts of Spock where concurrency and failure meet, the store and the
filter; the search of the solver; a session with its environments, builds and
parasites; the system compilers with their wrapper. All of them have proofs.

Next, in this order:

1. Several versions of Spock on one store, each with a package of its own.
2. `Versions`: the comparison is not transitive (`2 < 10 < 1a < 2`), which
   matters to the sorts in `PackageLists.C` and to sets of versions.
3. The abstraction of the solver in `PackageStore` and `Session` (`Solutions`,
   `SettlesForGhost`) checked against `Solver`.
4. `Directory`: agreement of its indexes.

Theorems to come: that the answers `Session` and `PackageStore` take from the
solver (`Solutions`) are solutions in the sense of `Solver`, so that
`SolutionsAreValid` and `NothingIsMissed` carry over to them.

## 6. Not modelled

`spock-ls`, `spock-using` and `spock-download` print or call what is modelled
elsewhere. The `rmc` scripts, the bootstrap and dependency installers are
straight-line shell that calls the tools modelled here, compiler detection
parses the output of compilers, and the build scripts of packages are a step
that succeeds or fails. The parsing of patterns and definitions, command lines,
messages and flags are left out. `Solver`, `Session` and `Compilers` start with
an installed Spock.
