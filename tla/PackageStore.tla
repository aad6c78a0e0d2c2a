---------------------------- MODULE PackageStore ----------------------------
(***************************************************************************)
(* The directory of installed packages ($SPOCK_OPTDIR) and the download    *)
(* cache, shared without any lock by concurrent spock-shell and spock-rm   *)
(* processes.  On disk a package HASH is a configuration file HASH.yaml,   *)
(* a prefix directory HASH/ and a time stamp file HASH.used; a build       *)
(* leaves a log named after the hash of its configuration, whose existence *)
(* marks the configuration as attempted.  A process works from the         *)
(* snapshot it took when it constructed its Context.                       *)
(*                                                                         *)
(* Spock itself is a package of the store, which the first command of a    *)
(* new Spock creates, and on which whatever it installs depends.           *)
(*                                                                         *)
(* Each package name stands for one defined version.  Package contents,    *)
(* environments and the parasites of post-install scripts are left out.    *)
(***************************************************************************)
EXTENDS Naturals, Sequences, FiniteSets

CONSTANTS
    Proc,           \* process slots; each runs one command at a time
    Pkg,            \* packages that have a definition file
    Hash,           \* installation hashes; bounds the number of builds
    Spock,          \* the name of the package for Spock itself
    SelfAtFirst,    \* the hash it is installed under at first, if it is
    NoHash, NoPkg,  \* not a hash, not a package
    InstallDeps,    \* InstallDeps[k]: packages k needs to be used
    BuildDeps,      \* BuildDeps[k]: packages k needs in addition to be built
    Commands,       \* Commands[p]: the commands slot p may run
    MaxCrashes      \* bounds the number of killed processes

Command == {"shell", "rm", "rm-stale"}

ASSUME ConstantsOK ==
    /\ IsFiniteSet(Hash)
    /\ NoHash \notin Hash
    /\ NoPkg \notin Pkg /\ Spock \notin Pkg \cup {NoPkg}
    /\ SelfAtFirst \in SUBSET Hash /\ \A g, h \in SelfAtFirst : g = h
    /\ InstallDeps \in [Pkg -> SUBSET Pkg]
    /\ BuildDeps \in [Pkg -> SUBSET Pkg]
    /\ Commands \in [Proc -> SUBSET Command]
    /\ MaxCrashes \in Nat

VARIABLES
    (* The file system *)
    yaml,           \* yaml[h]: "none", "empty" (being copied) or "full"
    pkgOf, depsOf,  \* what a full HASH.yaml says: package, dependencies
    prefix,         \* hashes whose prefix directory exists
    stamp,          \* stamp[h]: HASH.used is "none", "young" or "old"
    log,            \* configurations whose build log marks them as attempted
    tarball,        \* tarball[k]: "none", "partial" or "full" in the cache
    (* The processes *)
    pc,             \* pc[p]: what p does next
    cmd,            \* cmd[p]: the command p runs
    known,          \* known[p]: hashes registered in p's Context
    young,          \* young[p]: those of them that p read a recent stamp for
    work,           \* work[p]: hashes p has yet to scan, to stamp or to remove
    todo,           \* todo[p]: ghost packages of p's solution, yet to install
    inUse,          \* inUse[p]: installed packages p employs
    cur, hash,      \* cur[p], hash[p]: the package p installs and its new hash
    iDeps, bDeps,   \* iDeps[p], bDeps[p]: solutions of cur[p]'s dependencies
    queue,          \* queue[p]: removal list, removed from its end
    (* History *)
    issued,         \* hashes drawn so far: unique_path() does not repeat one
    published,      \* hashes whose configuration has been complete
    failed,         \* configurations whose last finished build failed
    crashes,        \* number of processes killed
    torn            \* packages exposed when a removal was killed: see Exposed

config  == <<yaml, pkgOf, depsOf>>
cache   == <<log, tarball>>
history == <<issued, published, failed, crashes, torn>>
plan    == <<todo, inUse>>
job     == <<cur, hash, iDeps, bDeps>>
memory  == <<cmd, known, young, work, plan, job, queue>>
vars    == <<config, prefix, stamp, cache, pc, memory, history>>

Conf == [pkg : Pkg \cup {NoPkg}, install : SUBSET Hash, build : SUBSET Hash]

-----------------------------------------------------------------------------
(* Sets of installed packages *)

(* No two packages of one name, and no dependency left out.                *)
Consistent(D) ==
    /\ \A g, h \in D : pkgOf[g] = pkgOf[h] => g = h
    /\ \A h \in D : depsOf[h] \subseteq D

Names(D) == {pkgOf[h] : h \in D}

(* The packages of K for Spock itself.                                     *)
Self(K) == {h \in K : pkgOf[h] = Spock}

(* The packages k needs at run time, itself included.                      *)
Needed(k) ==
    {j \in Pkg : \A S \in SUBSET Pkg :
        k \in S /\ (\A m \in S : InstallDeps[m] \subseteq S) => j \in S}

(* The installed part of a solution for k: the solver takes an installed   *)
(* package before a ghost whenever the rest of the solution allows it.     *)
(* Spock itself is employed from the start.                                *)
InstalledParts(k, K) ==
    LET Part == {D \in SUBSET {h \in K : pkgOf[h] \in Needed(k) \cup {Spock}} :
                    Self(K) \subseteq D /\ Consistent(D)}
    IN  {D \in Part : \A E \in Part : D \subseteq E => E = D}

(* Installed packages of K, the employed E among them, that cover the     *)
(* names in W.                                                             *)
Covers(W, E, K) ==
    {D \in SUBSET K : E \subseteq D /\ Consistent(D) /\ W \subseteq Names(D)}

(* Solutions without a ghost.                                              *)
Solutions(W, E, K) ==
    {D \in Covers(W, E, K) : \A F \in Covers(W, E, K) : F \subseteq D => F = D}

(* The solver ignores onlyInstalled(): it settles for a ghost when the     *)
(* installed packages it has taken so far exclude the remaining ones.      *)
SettlesForGhost(W, E, K) ==
    \E D \in SUBSET (E \cup {h \in K : \E k \in W : pkgOf[h] \in Needed(k)}) :
        /\ E \subseteq D /\ Consistent(D)
        /\ \A F \in Covers(W, E, K) : ~ D \subseteq F

(* The packages of K that need h, directly or not, and h itself.           *)
Dependents(h, K) ==
    {g \in K : \A S \in SUBSET K :
        h \in S /\ (\A d \in K : depsOf[d] \cap S # {} => d \in S) => g \in S}

(* A depth-first preorder of the dependents of h: the next package depends *)
(* on the last one listed that still has an unlisted dependent.            *)
IsPreorder(s, h) ==
    /\ s[1] = h
    /\ \A i, j \in DOMAIN s : s[i] = s[j] => i = j
    /\ \A i \in DOMAIN s \ {1} : \E j \in 1 .. (i - 1) :
          /\ s[j] \in depsOf[s[i]]
          /\ \A m \in (j + 1) .. (i - 1), n \in i .. Len(s) : s[m] \notin depsOf[s[n]]

Preorders(h, K) ==
    LET D == Dependents(h, K)
    IN  {s \in [1 .. Cardinality(D) -> D] : IsPreorder(s, h)}

Configuration(p) == [pkg |-> cur[p], install |-> iDeps[p], build |-> bDeps[p]]

Goto(p, l) == pc' = [pc EXCEPT ![p] = l]

-----------------------------------------------------------------------------
Init ==
    /\ yaml = [h \in Hash |-> IF h \in SelfAtFirst THEN "full" ELSE "none"]
    /\ pkgOf = [h \in Hash |-> IF h \in SelfAtFirst THEN Spock ELSE NoPkg]
    /\ depsOf = [h \in Hash |-> {}]
    /\ prefix = SelfAtFirst
    /\ stamp = [h \in Hash |-> "none"]
    /\ log = {}
    /\ tarball = [k \in Pkg |-> "none"]
    /\ pc = [p \in Proc |-> "idle"]
    /\ cmd = [p \in Proc |-> "shell"]
    /\ known = [p \in Proc |-> {}]
    /\ young = [p \in Proc |-> {}]
    /\ work = [p \in Proc |-> {}]
    /\ todo = [p \in Proc |-> {}]
    /\ inUse = [p \in Proc |-> {}]
    /\ cur = [p \in Proc |-> NoPkg]
    /\ hash = [p \in Proc |-> NoHash]
    /\ iDeps = [p \in Proc |-> {}]
    /\ bDeps = [p \in Proc |-> {}]
    /\ queue = [p \in Proc |-> <<>>]
    /\ issued = SelfAtFirst /\ published = SelfAtFirst /\ failed = {}
    /\ crashes = 0 /\ torn = {}

(* The process is gone and its memory with it.                             *)
Exit(p) ==
    /\ Goto(p, "idle")
    /\ cmd' = [cmd EXCEPT ![p] = "shell"]
    /\ known' = [known EXCEPT ![p] = {}]
    /\ young' = [young EXCEPT ![p] = {}]
    /\ work' = [work EXCEPT ![p] = {}]
    /\ todo' = [todo EXCEPT ![p] = {}]
    /\ inUse' = [inUse EXCEPT ![p] = {}]
    /\ cur' = [cur EXCEPT ![p] = NoPkg]
    /\ hash' = [hash EXCEPT ![p] = NoHash]
    /\ iDeps' = [iDeps EXCEPT ![p] = {}]
    /\ bDeps' = [bDeps EXCEPT ![p] = {}]
    /\ queue' = [queue EXCEPT ![p] = <<>>]

-----------------------------------------------------------------------------
(* Construction of the Context, common to all commands *)

(* A user runs a command; the Context lists the configuration files.       *)
Start(p) ==
    /\ pc[p] = "idle"
    /\ \E c \in Commands[p] : cmd' = [cmd EXCEPT ![p] = c]
    /\ work' = [work EXCEPT ![p] = {h \in Hash : yaml[h] # "none"}]
    /\ Goto(p, "scan")
    /\ UNCHANGED <<config, prefix, stamp, cache, known, young, plan, job, queue, history>>

(* One listed file is read and registered; its time stamp is read with it. *)
ScanOne(p) ==
    /\ pc[p] = "scan"
    /\ \E h \in work[p] :
          /\ yaml[h] = "full"
          /\ known' = [known EXCEPT ![p] = @ \cup {h}]
          /\ young' = [young EXCEPT ![p] = IF stamp[h] = "young" THEN @ \cup {h} ELSE @]
          /\ work' = [work EXCEPT ![p] = @ \ {h}]
    /\ UNCHANGED <<config, prefix, stamp, cache, pc, cmd, plan, job, queue, history>>

(* A file that is still empty has no package name: SyntaxError.            *)
ScanIncomplete(p) ==
    /\ pc[p] = "scan"
    /\ \E h \in work[p] : yaml[h] = "empty"
    /\ Goto(p, "broken")
    /\ UNCHANGED <<config, prefix, stamp, cache, memory, history>>

(* A file that went away since it was listed is passed over...             *)
ScanSkips(p) ==
    /\ pc[p] = "scan"
    /\ \E h \in work[p] :
          /\ yaml[h] = "none"
          /\ work' = [work EXCEPT ![p] = @ \ {h}]
    /\ UNCHANGED <<config, prefix, stamp, cache, pc, cmd, known, young, plan, job, queue, history>>

(* ... or, if its status could still be read, NotFound.                    *)
ScanVanished(p) ==
    /\ pc[p] = "scan"
    /\ \E h \in work[p] : yaml[h] = "none"
    /\ Exit(p)
    /\ UNCHANGED <<config, prefix, stamp, cache, history>>

GiveUp(p) ==
    /\ pc[p] = "broken"
    /\ Exit(p)
    /\ UNCHANGED <<config, prefix, stamp, cache, history>>

Scanned(p) == pc[p] = "scan" /\ work[p] = {}

(* Mutant: whatever the scan has found, Spock's package is created.        *)
CreateSelfAgain(p) ==
    /\ Scanned(p)
    /\ \E h \in Hash \ issued :
          /\ hash' = [hash EXCEPT ![p] = h]
          /\ issued' = issued \cup {h}
          /\ prefix' = prefix \cup {h}
    /\ Goto(p, "self")
    /\ UNCHANGED <<config, stamp, cache, cmd, known, young, work, plan, cur, iDeps, bDeps,
                   queue, published, failed, crashes, torn>>

(* Context::findOrCreateSelf.  Without a package for this Spock there is   *)
(* one to be made: its prefix directory...                                 *)
CreateSelf(p) ==
    /\ Scanned(p) /\ Self(known[p]) = {}
    /\ \E h \in Hash \ issued :
          /\ hash' = [hash EXCEPT ![p] = h]
          /\ issued' = issued \cup {h}
          /\ prefix' = prefix \cup {h}
    /\ Goto(p, "self")
    /\ UNCHANGED <<config, stamp, cache, cmd, known, young, work, plan, cur, iDeps, bDeps,
                   queue, published, failed, crashes, torn>>

(* ... its configuration file, empty at first...                           *)
OpenSelf(p) ==
    /\ pc[p] = "self"
    /\ yaml' = [yaml EXCEPT ![hash[p]] = "empty"]
    /\ Goto(p, "self-write")
    /\ UNCHANGED <<pkgOf, depsOf, prefix, stamp, cache, memory, history>>

CloseSelf(p) ==
    /\ pc[p] = "self-write"
    /\ yaml' = [yaml EXCEPT ![hash[p]] = "full"]
    /\ pkgOf' = [pkgOf EXCEPT ![hash[p]] = Spock]
    /\ published' = published \cup {hash[p]}
    /\ Goto(p, "self-read")
    /\ UNCHANGED <<depsOf, prefix, stamp, cache, memory, issued, failed, crashes, torn>>

(* ... which is then read back.                                            *)
RegisterSelf(p) ==
    /\ pc[p] = "self-read" /\ yaml[hash[p]] = "full"
    /\ known' = [known EXCEPT ![p] = @ \cup {hash[p]}]
    /\ hash' = [hash EXCEPT ![p] = NoHash]
    /\ Goto(p, "scan")
    /\ UNCHANGED <<config, prefix, stamp, cache, cmd, young, work, plan, cur, iDeps, bDeps,
                   queue, history>>

(* Several packages for this Spock, or the new one is gone already, or all *)
(* hashes of the instance are used up.                                     *)
SelfFails(p) ==
    /\ \/ Scanned(p) /\ \E g, h \in Self(known[p]) : g # h
       \/ Scanned(p) /\ Self(known[p]) = {} /\ issued = Hash
       \/ pc[p] = "self-read" /\ yaml[hash[p]] # "full"
    /\ Exit(p)
    /\ UNCHANGED <<config, prefix, stamp, cache, history>>

(* The Context is constructed.                                             *)
Ready(p) == Scanned(p) /\ \E h \in Hash : Self(known[p]) = {h}

-----------------------------------------------------------------------------
(* spock-shell *)

(* The solver's answer to a request for package k; with --install=no a     *)
(* solution that lacks anything ends the command.                          *)
Solve(p) ==
    /\ Ready(p) /\ cmd[p] = "shell"
    /\ \E k \in Pkg : \E D \in InstalledParts(k, known[p]) :
          /\ inUse' = [inUse EXCEPT ![p] = D]
          /\ todo' = [todo EXCEPT ![p] = Needed(k) \ Names(D)]
    /\ Goto(p, "next")
    /\ UNCHANGED <<config, prefix, stamp, cache, cmd, known, young, work, job, queue, history>>

MayNotInstall(p) ==
    /\ pc[p] = "next" /\ todo[p] # {}
    /\ Exit(p)
    /\ UNCHANGED <<config, prefix, stamp, cache, history>>

(* Mutant: the ghosts are installed in any order.                          *)
NextGhostAny(p) ==
    /\ pc[p] = "next"
    /\ \E k \in todo[p] : cur' = [cur EXCEPT ![p] = k]
    /\ Goto(p, "download")
    /\ UNCHANGED <<config, prefix, stamp, cache, cmd, known, young, work, plan,
                   hash, iDeps, bDeps, queue, history>>

(* The next ghost of the solution, in dependency order.                    *)
NextGhost(p) ==
    /\ pc[p] = "next"
    /\ \E k \in todo[p] :
          /\ InstallDeps[k] \cap todo[p] = {}
          /\ cur' = [cur EXCEPT ![p] = k]
    /\ Goto(p, "download")
    /\ UNCHANGED <<config, prefix, stamp, cache, cmd, known, young, work, plan,
                   hash, iDeps, bDeps, queue, history>>

(* DefinedPackage::download.  A file in the cache is taken as it is.       *)
Download(p) ==
    /\ pc[p] = "download"
    /\ Goto(p, IF tarball[cur[p]] = "none" THEN "fetch" ELSE "prepare")
    /\ UNCHANGED <<config, prefix, stamp, cache, memory, history>>

FetchSucceeds(p) ==
    /\ pc[p] = "fetch"
    /\ Goto(p, "copy")
    /\ UNCHANGED <<config, prefix, stamp, cache, memory, history>>

(* The download script fails, or copy_file finds that another process has  *)
(* created the cache file meanwhile, or fails and leaves what it has       *)
(* copied.                                                                 *)
DownloadFails(p) ==
    /\ \/ pc[p] \in {"fetch", "copying"}
       \/ pc[p] = "copy" /\ tarball[cur[p]] # "none"
    /\ Exit(p)
    /\ UNCHANGED <<config, prefix, stamp, cache, history>>

(* Mutant: the copy overwrites an existing file.                           *)
CopyBeginsAnyway(p) ==
    /\ pc[p] = "copy"
    /\ tarball' = [tarball EXCEPT ![cur[p]] = "partial"]
    /\ Goto(p, "copying")
    /\ UNCHANGED <<config, prefix, stamp, log, memory, history>>

CopyBegins(p) ==
    /\ pc[p] = "copy" /\ tarball[cur[p]] = "none"
    /\ tarball' = [tarball EXCEPT ![cur[p]] = "partial"]
    /\ Goto(p, "copying")
    /\ UNCHANGED <<config, prefix, stamp, log, memory, history>>

CopyEnds(p) ==
    /\ pc[p] = "copying"
    /\ tarball' = [tarball EXCEPT ![cur[p]] = "full"]
    /\ Goto(p, "prepare")
    /\ UNCHANGED <<config, prefix, stamp, log, memory, history>>

(* Mutant: an existing prefix directory is taken over.                     *)
PrepareTakesOver(p) ==
    /\ pc[p] = "prepare"
    /\ \E h \in (Hash \ issued) \cup prefix :
          /\ hash' = [hash EXCEPT ![p] = h]
          /\ issued' = issued \cup {h}
          /\ prefix' = prefix \cup {h}
    /\ iDeps' = [iDeps EXCEPT ![p] = inUse[p]]
    /\ bDeps' = [bDeps EXCEPT ![p] = inUse[p]]
    /\ Goto(p, "check")
    /\ UNCHANGED <<config, stamp, cache, cmd, known, young, work, plan, cur, queue,
                   published, failed, crashes, torn>>

(* A new hash, dependencies solved against the snapshot, and the prefix    *)
(* directory made.  That the install dependencies alone have a solution    *)
(* without a ghost is NoGhostDependency.                                   *)
Prepare(p) ==
    /\ pc[p] = "prepare"
    /\ \E h \in Hash \ issued :
          /\ hash' = [hash EXCEPT ![p] = h]
          /\ issued' = issued \cup {h}
          /\ prefix' = prefix \cup {h}
    /\ \E D \in Solutions(InstallDeps[cur[p]], inUse[p], known[p]) :
          iDeps' = [iDeps EXCEPT ![p] = D]
    /\ \E D \in Solutions(InstallDeps[cur[p]] \cup BuildDeps[cur[p]], inUse[p], known[p]) :
          bDeps' = [bDeps EXCEPT ![p] = D]
    /\ Goto(p, "check")
    /\ UNCHANGED <<config, stamp, cache, cmd, known, young, work, plan, cur, queue,
                   published, failed, crashes, torn>>

(* The solver returns a ghost, which cannot be employed, or the prefix      *)
(* directory exists already (or all hashes of the instance are used up).   *)
PrepareFails(p) ==
    /\ pc[p] = "prepare"
    /\ \/ SettlesForGhost(InstallDeps[cur[p]] \cup BuildDeps[cur[p]], inUse[p], known[p])
       \/ prefix # {}
       \/ issued = Hash
    /\ Exit(p)
    /\ UNCHANGED <<config, prefix, stamp, cache, history>>

(* Mutant: the mark of an earlier attempt is ignored.                      *)
CheckNothing(p) ==
    /\ pc[p] = "check"
    /\ Goto(p, "open")
    /\ UNCHANGED <<config, prefix, stamp, cache, memory, history>>

CheckAttempted(p) ==
    /\ pc[p] = "check"
    /\ Goto(p, IF Configuration(p) \in log THEN "refused" ELSE "open")
    /\ UNCHANGED <<config, prefix, stamp, cache, memory, history>>

(* The child of subshell() creates or truncates the log and starts; the    *)
(* script first unpacks the tarball, and dies if it is truncated.          *)
OpenLog(p) ==
    /\ pc[p] = "open"
    /\ log' = log \cup {Configuration(p)}
    /\ Goto(p, IF tarball[cur[p]] = "full" THEN "build" ELSE "corrupt")
    /\ UNCHANGED <<config, prefix, stamp, tarball, memory, history>>

BuildSucceeds(p) ==
    /\ pc[p] = "build"
    /\ Goto(p, "publish")
    /\ UNCHANGED <<config, prefix, stamp, cache, memory, history>>

(* The script fails or leaves no installed.yaml: CommandError.             *)
BuildFails(p) ==
    /\ pc[p] \in {"build", "corrupt"}
    /\ failed' = failed \cup {Configuration(p)}
    /\ Goto(p, "unwind")
    /\ UNCHANGED <<config, prefix, stamp, cache, memory, issued, published, crashes, torn>>

(* Mutant: the prefix is kept from the start.                              *)
UnwindKeepsPrefix(p) ==
    /\ pc[p] \in {"refused", "unwind"}
    /\ Exit(p)
    /\ UNCHANGED <<config, prefix, stamp, cache, history>>

(* The destructors of install() remove the prefix that was not kept.       *)
Unwind(p) ==
    /\ pc[p] \in {"refused", "unwind"}
    /\ prefix' = prefix \ {hash[p]}
    /\ Exit(p)
    /\ UNCHANGED <<config, stamp, cache, history>>

(* installConfigFile copies the finished file into place...                *)
PublishBegins(p) ==
    /\ pc[p] = "publish"
    /\ yaml' = [yaml EXCEPT ![hash[p]] = "empty"]
    /\ Goto(p, "publishing")
    /\ UNCHANGED <<pkgOf, depsOf, prefix, stamp, cache, memory, history>>

(* ... which lists the direct install dependencies and Spock itself.       *)
PublishEnds(p) ==
    /\ pc[p] = "publishing"
    /\ yaml' = [yaml EXCEPT ![hash[p]] = "full"]
    /\ pkgOf' = [pkgOf EXCEPT ![hash[p]] = cur[p]]
    /\ depsOf' = [depsOf EXCEPT ![hash[p]] =
          {d \in iDeps[p] : pkgOf[d] \in InstallDeps[cur[p]]} \cup Self(known[p])]
    /\ published' = published \cup {hash[p]}
    /\ Goto(p, "finalize")
    /\ UNCHANGED <<prefix, stamp, cache, memory, issued, failed, crashes, torn>>

(* The log is moved into the prefix directory.                             *)
KeepLog(p) ==
    /\ pc[p] = "finalize"
    /\ Configuration(p) \in log /\ hash[p] \in prefix
    /\ log' = log \ {Configuration(p)}
    /\ failed' = failed \ {Configuration(p)}
    /\ Goto(p, "tidy")
    /\ UNCHANGED <<config, prefix, stamp, tarball, memory, issued, published, crashes, torn>>

(* Mutant: the exception unwinds install() while the prefix is temporary.  *)
KeepLogUnwinds(p) ==
    /\ pc[p] = "finalize"
    /\ Configuration(p) \notin log \/ hash[p] \notin prefix
    /\ prefix' = prefix \ {hash[p]}
    /\ Exit(p)
    /\ UNCHANGED <<config, stamp, cache, history>>

(* rename() throws what nothing catches: the program terminates where it   *)
(* is, without unwinding.                                                  *)
KeepLogDies(p) ==
    /\ pc[p] = "finalize"
    /\ Configuration(p) \notin log \/ hash[p] \notin prefix
    /\ Exit(p)
    /\ UNCHANGED <<config, prefix, stamp, cache, history>>

RemoveAttempted(p) ==
    /\ pc[p] = "tidy"
    /\ log' = log \ {Configuration(p)}
    /\ Goto(p, "register")
    /\ UNCHANGED <<config, prefix, stamp, tarball, memory, history>>

(* scanInstalledPackage reads the new file back.                           *)
Register(p) ==
    /\ pc[p] = "register" /\ yaml[hash[p]] = "full"
    /\ known' = [known EXCEPT ![p] = @ \cup {hash[p]}]
    /\ Goto(p, "post")
    /\ UNCHANGED <<config, prefix, stamp, cache, cmd, young, work, plan, job, queue, history>>

RegisterFails(p) ==
    /\ pc[p] = "register" /\ yaml[hash[p]] # "full"
    /\ Exit(p)
    /\ UNCHANGED <<config, prefix, stamp, cache, history>>

(* Mutant: the package is put to use after the job has been cleared.       *)
PostInstallForgets(p) ==
    /\ pc[p] = "post"
    /\ hash' = [hash EXCEPT ![p] = NoHash]
    /\ inUse' = [inUse EXCEPT ![p] = @ \cup {hash'[p]}]
    /\ todo' = [todo EXCEPT ![p] = @ \ {cur[p]}]
    /\ cur' = [cur EXCEPT ![p] = NoPkg]
    /\ iDeps' = [iDeps EXCEPT ![p] = {}]
    /\ bDeps' = [bDeps EXCEPT ![p] = {}]
    /\ Goto(p, "next")
    /\ UNCHANGED <<config, prefix, stamp, cache, cmd, known, young, work, queue, history>>

PostInstall(p) ==
    /\ pc[p] = "post"
    /\ inUse' = [inUse EXCEPT ![p] = @ \cup {hash[p]}]
    /\ todo' = [todo EXCEPT ![p] = @ \ {cur[p]}]
    /\ cur' = [cur EXCEPT ![p] = NoPkg]
    /\ hash' = [hash EXCEPT ![p] = NoHash]
    /\ iDeps' = [iDeps EXCEPT ![p] = {}]
    /\ bDeps' = [bDeps EXCEPT ![p] = {}]
    /\ Goto(p, "next")
    /\ UNCHANGED <<config, prefix, stamp, cache, cmd, known, young, work, queue, history>>

(* A failed post-install script ends the command; the package stays.       *)
PostInstallFails(p) ==
    /\ pc[p] = "post"
    /\ Exit(p)
    /\ UNCHANGED <<config, prefix, stamp, cache, history>>

(* Everything is installed: stamp the solution, dependencies first.        *)
Employ(p) ==
    /\ pc[p] = "next" /\ todo[p] = {}
    /\ work' = [work EXCEPT ![p] = inUse[p]]
    /\ Goto(p, "stamp")
    /\ UNCHANGED <<config, prefix, stamp, cache, cmd, known, young, plan, job, queue, history>>

(* Mutant: the solution is stamped in any order.                           *)
StampAny(p) ==
    /\ pc[p] = "stamp"
    /\ \E h \in work[p] :
          /\ stamp' = [stamp EXCEPT ![h] = "young"]
          /\ work' = [work EXCEPT ![p] = @ \ {h}]
    /\ UNCHANGED <<config, prefix, cache, pc, cmd, known, young, plan, job, queue, history>>

StampOne(p) ==
    /\ pc[p] = "stamp"
    /\ \E h \in work[p] :
          /\ depsOf[h] \cap work[p] = {}
          /\ stamp' = [stamp EXCEPT ![h] = "young"]
          /\ work' = [work EXCEPT ![p] = @ \ {h}]
    /\ UNCHANGED <<config, prefix, cache, pc, cmd, known, young, plan, job, queue, history>>

(* The user's command runs in the subshell and ends.                       *)
RunUserCommand(p) ==
    /\ pc[p] = "stamp" /\ work[p] = {}
    /\ Goto(p, "use")
    /\ UNCHANGED <<config, prefix, stamp, cache, memory, history>>

UserCommandEnds(p) ==
    /\ pc[p] = "use"
    /\ Exit(p)
    /\ UNCHANGED <<config, prefix, stamp, cache, history>>

-----------------------------------------------------------------------------
(* spock-rm *)

(* The patterns select some installed packages, or all if there are none;  *)
(* --stale drops those used recently.  Without --force a removal list of   *)
(* more than one entry is refused.                                         *)
Select(p) ==
    /\ Ready(p) /\ cmd[p] # "shell"
    /\ \E T \in SUBSET known[p] :
       \E force \in BOOLEAN :
          LET S == IF cmd[p] = "rm-stale" THEN T \ young[p] ELSE T
          IN  /\ force \/ \A h \in S : S = {h} /\ Dependents(h, known[p]) = {h}
              /\ work' = [work EXCEPT ![p] = S]
    /\ Goto(p, "rm")
    /\ UNCHANGED <<config, prefix, stamp, cache, cmd, known, young, plan, job, queue, history>>

(* Reversing the list takes the last selected package first, and of its    *)
(* dependents the one listed last.                                         *)
NextSelected(p) ==
    /\ pc[p] = "rm" /\ queue[p] = <<>>
    /\ \E h \in work[p] : \E s \in Preorders(h, known[p]) :
          /\ queue' = [queue EXCEPT ![p] = s]
          /\ work' = [work EXCEPT ![p] = @ \ {h}]
    /\ UNCHANGED <<config, prefix, stamp, cache, pc, cmd, known, young, plan, job, history>>

(* Mutant: the removal list is not reversed.                               *)
VictimFirst(p) == queue[p][1]

Victim(p) == queue[p][Len(queue[p])]

Pop(p) == queue' = [queue EXCEPT ![p] = SubSeq(@, 1, Len(@) - 1)]

(* Mutant: a package that is gone already is waited for.                   *)
ExamineInsists(p) ==
    /\ pc[p] = "rm" /\ queue[p] # <<>>
    /\ yaml[Victim(p)] # "none"
    /\ Goto(p, "rm-yaml")
    /\ UNCHANGED <<config, prefix, stamp, cache, cmd, known, young, work, plan, job, queue, history>>

(* InstalledPackage::remove: skip what is gone already...                  *)
Examine(p) ==
    /\ pc[p] = "rm" /\ queue[p] # <<>>
    /\ IF yaml[Victim(p)] = "none"
       THEN Pop(p) /\ UNCHANGED pc
       ELSE Goto(p, "rm-yaml") /\ UNCHANGED queue
    /\ UNCHANGED <<config, prefix, stamp, cache, cmd, known, young, work, plan, job, history>>

(* ... then remove the configuration file, and the prefix after it.        *)
RemoveConfig(p) ==
    /\ pc[p] = "rm-yaml"
    /\ yaml' = [yaml EXCEPT ![Victim(p)] = "none"]
    /\ Goto(p, "rm-prefix")
    /\ UNCHANGED <<pkgOf, depsOf, prefix, stamp, cache, memory, history>>

RemovePrefix(p) ==
    /\ pc[p] = "rm-prefix"
    /\ prefix' = prefix \ {Victim(p)}
    /\ Pop(p)
    /\ Goto(p, "rm")
    /\ UNCHANGED <<config, stamp, cache, cmd, known, young, work, plan, job, history>>

RemovalEnds(p) ==
    /\ pc[p] = "rm" /\ queue[p] = <<>> /\ work[p] = {}
    /\ Exit(p)
    /\ UNCHANGED <<config, prefix, stamp, cache, history>>

-----------------------------------------------------------------------------
(* The packages p has yet to remove that need two of those it removes: a   *)
(* depth-first list can name only one of the two before them.              *)
Exposed(p) ==
    {g \in {queue[p][i] : i \in DOMAIN queue[p]} :
        \E c, d \in depsOf[g] \cap Dependents(queue[p][1], known[p]) : c # d}

(* A process that is killed, or ended by an exception nothing catches,     *)
(* leaves the file system as it is.                                        *)
Crash(p) ==
    /\ crashes < MaxCrashes /\ pc[p] # "idle"
    /\ crashes' = crashes + 1
    /\ torn' = torn \cup Exposed(p)
    /\ Exit(p)
    /\ UNCHANGED <<config, prefix, stamp, cache, issued, published, failed>>

(* Days pass, for the files and for the stamps a process has read alike, so *)
(* that nothing counts as recent any more.  Stamping one solution takes no *)
(* noticeable part of a day.                                               *)
Age ==
    /\ \E h \in Hash : stamp[h] = "young"
    /\ \A p \in Proc : pc[p] # "stamp"
    /\ stamp' = [h \in Hash |-> IF stamp[h] = "young" THEN "old" ELSE stamp[h]]
    /\ young' = [p \in Proc |-> {}]
    /\ UNCHANGED <<config, prefix, cache, pc, cmd, known, work, plan, job, queue, history>>

ContextStep(p) ==
    \/ ScanOne(p) \/ ScanIncomplete(p) \/ ScanSkips(p) \/ ScanVanished(p) \/ GiveUp(p)
    \/ CreateSelf(p) \/ OpenSelf(p) \/ CloseSelf(p) \/ RegisterSelf(p) \/ SelfFails(p)

ShellStep(p) ==
    \/ Solve(p) \/ MayNotInstall(p) \/ NextGhost(p)
    \/ Download(p) \/ FetchSucceeds(p) \/ DownloadFails(p) \/ CopyBegins(p) \/ CopyEnds(p)
    \/ Prepare(p) \/ PrepareFails(p) \/ CheckAttempted(p) \/ OpenLog(p)
    \/ BuildSucceeds(p) \/ BuildFails(p) \/ Unwind(p)
    \/ PublishBegins(p) \/ PublishEnds(p) \/ KeepLog(p) \/ KeepLogDies(p)
    \/ RemoveAttempted(p) \/ Register(p) \/ RegisterFails(p)
    \/ PostInstall(p) \/ PostInstallFails(p)
    \/ Employ(p) \/ StampOne(p) \/ RunUserCommand(p) \/ UserCommandEnds(p)

RemoveStep(p) ==
    \/ Select(p) \/ NextSelected(p) \/ Examine(p)
    \/ RemoveConfig(p) \/ RemovePrefix(p) \/ RemovalEnds(p)

Step(p) == ContextStep(p) \/ ShellStep(p) \/ RemoveStep(p)

Next ==
    \/ \E p \in Proc : Start(p) \/ Step(p) \/ Crash(p)
    \/ Age

Spec == Init /\ [][Next]_vars

(* The operating system schedules every process, and the scripts a process *)
(* waits for end.  Nothing obliges a user to start a command.              *)
FairSpec == Spec /\ \A p \in Proc : WF_vars(Step(p))

-----------------------------------------------------------------------------
(* Properties *)

Scanning   == {"scan", "broken"}
Creating   == {"self", "self-write", "self-read"}
Installing == {"check", "refused", "open", "build", "corrupt", "unwind", "publish",
               "publishing", "finalize", "tidy", "register", "post"}
Removing   == {"rm", "rm-yaml", "rm-prefix"}
Label      == {"idle", "next", "download", "fetch", "copy", "copying", "prepare",
               "stamp", "use"} \cup Scanning \cup Creating \cup Installing \cup Removing

(* The variables hold what they are meant to hold.                         *)
TypeOK ==
    /\ yaml \in [Hash -> {"none", "empty", "full"}]
    /\ pkgOf \in [Hash -> Pkg \cup {Spock, NoPkg}]
    /\ depsOf \in [Hash -> SUBSET Hash]
    /\ prefix \in SUBSET Hash
    /\ stamp \in [Hash -> {"none", "young", "old"}]
    /\ log \in SUBSET Conf
    /\ tarball \in [Pkg -> {"none", "partial", "full"}]
    /\ pc \in [Proc -> Label]
    /\ cmd \in [Proc -> Command]
    /\ known \in [Proc -> SUBSET Hash]
    /\ young \in [Proc -> SUBSET Hash]
    /\ work \in [Proc -> SUBSET Hash]
    /\ todo \in [Proc -> SUBSET Pkg]
    /\ inUse \in [Proc -> SUBSET Hash]
    /\ cur \in [Proc -> Pkg \cup {NoPkg}]
    /\ hash \in [Proc -> Hash \cup {NoHash}]
    /\ iDeps \in [Proc -> SUBSET Hash]
    /\ bDeps \in [Proc -> SUBSET Hash]
    /\ queue \in [Proc -> Seq(Hash)]
    /\ issued \in SUBSET Hash
    /\ published \in SUBSET Hash
    /\ failed \in SUBSET Conf
    /\ crashes \in Nat
    /\ torn \in SUBSET Hash

(* A configuration file never outlives its prefix directory: whatever      *)
(* installs, removals and crashes are interleaved, a package that a        *)
(* Context can see has its files (DefinedPackage::install makes the prefix *)
(* first, InstalledPackage::remove deletes it last).                       *)
RegisteredHasPrefix == \A h \in Hash : yaml[h] # "none" => h \in prefix

(* Two processes never write the same cached tarball: copy_file is the     *)
(* only arbiter between downloads of one package.                          *)
OneCopier ==
    \A p, q \in Proc :
        pc[p] = "copying" /\ pc[q] = "copying" /\ cur[p] = cur[q] => p = q

(* The store implements the life cycle of each hash.                       *)
PhaseOf(h) ==
    IF yaml[h] = "full" THEN "installed"
    ELSE IF h \in published THEN IF h \in prefix THEN "retired" ELSE "gone"
    ELSE IF h \in prefix THEN "building"
    ELSE IF h \in issued THEN "gone" ELSE "free"

Lifecycle == INSTANCE PackageLifecycle WITH phase <- [h \in Hash |-> PhaseOf(h)]

LifecycleSpec == Lifecycle!Spec

(* Every dependency an installed package names is itself installed, so the *)
(* solver can employ the package.  Claimed when one process runs at a time:*)
(* a failed build or a kill half way must not break it, except for what a  *)
(* forced removal is about to remove, or was when it was killed, and which *)
(* needs two of the packages removed.                                      *)
DependenciesRegistered ==
    \A h \in Hash :
        \/ yaml[h] = "full" => \A d \in depsOf[h] : yaml[d] = "full"
        \/ h \in torn
        \/ \E p \in Proc : h \in Exposed(p)

(* What spock-rm claims of its order: a removal interrupted anywhere leaves*)
(* no installed package without a dependency.                              *)
AlwaysRegistered ==
    \A h \in Hash : yaml[h] = "full" => \A d \in depsOf[h] : yaml[d] = "full"

(* Only the solution of the build dependencies is refused for a ghost: when*)
(* an install begins, all that the package itself needs is employed, so the*)
(* solver has no ghost to settle for, and whatever is published names hashes*)
(* only.  It is the order of installs that makes this so.                  *)
NoGhostDependency ==
    \A p \in Proc :
        pc[p] = "prepare" => ~ SettlesForGhost(InstallDeps[cur[p]], inUse[p], known[p])

(* As long as users run one command at a time there is one package for     *)
(* Spock itself, however often it is removed and created anew and wherever *)
(* a command is killed; with two of them every command would exit.         *)
OneSelf ==
    \A g, h \in Hash :
        /\ yaml[g] = "full" /\ pkgOf[g] = Spock
        /\ yaml[h] = "full" /\ pkgOf[h] = Spock
        => g = h

(* Without crashes no prefix directory is leaked: each belongs to a        *)
(* package, to the process building it or to the process deleting it.      *)
NoOrphanPrefix ==
    crashes = 0 =>
        \A h \in prefix :
            \/ yaml[h] # "none"
            \/ \E p \in Proc : hash[p] = h
            \/ \E p \in Proc : pc[p] = "rm-prefix" /\ Victim(p) = h

(* spock-rm --stale never removes a package used recently, although it     *)
(* also removes the dependents of the packages it selects: spock-shell     *)
(* stamps dependencies first, so even a crash between two stamps leaves no *)
(* recently used package above a stale one.                                *)
StaleSparesYoung ==
    [][\A p \in Proc : \A h \in Hash :
          RemoveConfig(p) /\ cmd[p] = "rm-stale" /\ Victim(p) = h => stamp[h] # "young"]_vars

(* A configuration whose last build failed is not built again as long as   *)
(* users run one command at a time.                                        *)
NoRebuildOfFailed ==
    [][\A p \in Proc : OpenLog(p) => Configuration(p) \notin failed]_vars

(* Every command comes to an end, whatever the others do to the store.     *)
CommandsEnd == \A p \in Proc : pc[p] # "idle" ~> pc[p] = "idle"

(* What the refusal of an install claims: the configuration was attempted  *)
(* before and failed.                                                      *)
RefusedOnlyIfFailed == \A p \in Proc : pc[p] = "refused" => Configuration(p) \in failed
=============================================================================
