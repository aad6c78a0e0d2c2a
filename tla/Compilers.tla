------------------------------ MODULE Compilers ------------------------------
(***************************************************************************)
(* The compilers of the operating system as packages.  A scan of           *)
(* spock-install-system-compilers asks every compiler command it finds     *)
(* what it is and installs a package for each language the command         *)
(* accepts, with the collection and the code generation the package        *)
(* depends on.  What users run is spock-compiler, a wrapper in the         *)
(* package that refuses to start a compiler which no longer says of itself *)
(* what it said when the package was installed.                            *)
(*                                                                         *)
(* Scans ask, look up and write in separate steps, and the wrapper checks  *)
(* and starts in separate steps; upgrades of the machine and spock-rm come *)
(* in between.  All compilers are of one vendor.                           *)
(***************************************************************************)
EXTENDS Naturals, Sequences, FiniteSets

CONSTANTS
    Command,      \* the compiler commands a scan finds, in its order
    File,         \* the executables a command may lead to
    Build,        \* what such a file may be: [version, output, default, accepts]
    Attempt,      \* the switches a scan tries, in order: [std, generation]
    Nothing,      \* no file, no configuration, no language option
    Links,        \* Links[c]: the files command c may lead to
    Contents,     \* Contents[f]: what file f may be in the course of time
    Installer,    \* processes that scan
    MaxScans, MaxChanges, MaxRemovals

Commands == {Command[i] : i \in DOMAIN Command}
Attempts == {Attempt[i] : i \in DOMAIN Attempt}
Generations == {a.generation : a \in Attempts}

(* The output of --version, white space aside, tells builds apart.         *)
ASSUME BuildAssumption ==
    /\ Nothing \notin Build
    /\ \A b, c \in Build : b.output = c.output => b = c

ASSUME MachineAssumption ==
    /\ \A c \in Commands : Links[c] \subseteq File
    /\ \A f \in File : Contents[f] \subseteq Build \cup {Nothing}

ASSUME ListAssumption == Command \in Seq(Commands) /\ Attempt \in Seq(Attempts)

VARIABLES
    link,         \* the file each command leads to, symbolic links resolved
    content,      \* what each file is at present
    clock,        \* how often the machine or the store was changed by others
    removals,     \* how often spock-rm was run
    store,        \* the packages, by hash; a removed one is Nothing
    scans,        \* how many scans were begun
    installer,    \* the state of each scan
    wrapper       \* the state of a run of spock-compiler

vars == <<link, content, clock, removals, store, scans, installer, wrapper>>

-----------------------------------------------------------------------------
(* What detect-compiler-characteristics says of a build under some         *)
(* switches: the language it then compiles, Nothing if it fails.           *)
Language(b, a) ==
    IF b = Nothing \/ a \notin b.accepts THEN Nothing
    ELSE IF a.std = Nothing THEN b.default ELSE a.std

Plain == [std |-> Nothing, generation |-> "default"]

Running(c) == content[link[c]]

Live == {h \in DOMAIN store : store[h] # Nothing}

CompilerPackages == {h \in Live : store[h].kind = "compiler"}

(* A dependency is the text that spock-ls printed.  Two lines of it are no *)
(* package pattern, and a Context that meets one throws in its constructor.*)
Readable ==
    \A h \in CompilerPackages :
        Cardinality(store[h].collection) = 1 /\ Cardinality(store[h].generation) = 1

(* What spock-ls -1 NAME=VERSION prints, nothing if it fails.              *)
Listed(kind, name, version) ==
    {h \in Live : /\ Readable
                  /\ store[h].kind = kind
                  /\ store[h].name = name
                  /\ store[h].version = version}

Pseudo(kind, name, version) ==
    [kind |-> kind, name |-> name, version |-> version,
     collection |-> {}, generation |-> {}, config |-> Nothing, calm |-> TRUE]

NextHash == Len(store) + 1

-----------------------------------------------------------------------------
(* The scan.  It installs no package twice, or so it means to.             *)
Idle == [pc |-> "idle", cmd |-> 1, try |-> 1, since |-> 0, start |-> 0,
         version |-> Nothing, language |-> Nothing, collection |-> {},
         generation |-> {}, config |-> Nothing]

Update(i, r) == installer' = [installer EXCEPT ![i] = r]

NextTry(s) == [s EXCEPT !.pc = "detect", !.try = s.try + 1, !.version = Nothing,
                        !.language = Nothing, !.generation = {}, !.config = Nothing]

NextProgram(s) == [Idle EXCEPT !.pc = "program", !.cmd = s.cmd + 1, !.start = s.start]

BeginScan(i) ==
    /\ installer[i].pc \in {"idle", "done"}
    /\ scans < MaxScans
    /\ Readable
    /\ scans' = scans + 1
    /\ Update(i, [Idle EXCEPT !.pc = "program", !.start = clock])
    /\ UNCHANGED <<link, content, clock, removals, store, wrapper>>

(* The next command: what is it without any switches?                      *)
Program(i) ==
    LET s == installer[i] IN
    /\ s.pc = "program"
    /\ IF s.cmd > Len(Command)
       THEN Update(i, [Idle EXCEPT !.pc = "done", !.start = s.start])
       ELSE LET b == Running(Command[s.cmd]) IN
            IF Language(b, Plain) = Nothing
            THEN Update(i, NextProgram(s))
            ELSE Update(i, [s EXCEPT !.pc = "collection", !.since = clock, !.version = b.version])
    /\ UNCHANGED <<link, content, clock, removals, store, scans, wrapper>>

FindCollection(i) ==
    LET s == installer[i]
        found == Listed("collection", "system-compilers", s.version)
    IN /\ s.pc = "collection"
       /\ IF found = {}
          THEN Update(i, [s EXCEPT !.pc = "new-collection"])
          ELSE Update(i, [s EXCEPT !.pc = "detect", !.collection = found, !.version = Nothing])
       /\ UNCHANGED <<link, content, clock, removals, store, scans, wrapper>>

CreateCollection(i) ==
    LET s == installer[i] IN
    /\ s.pc = "new-collection"
    /\ store' = Append(store, Pseudo("collection", "system-compilers", s.version))
    /\ Update(i, [s EXCEPT !.pc = "detect", !.collection = {NextHash}, !.version = Nothing])
    /\ UNCHANGED <<link, content, clock, removals, scans, wrapper>>

(* The next switches: what language does the command compile with them?    *)
Detect(i) ==
    LET s == installer[i] IN
    /\ s.pc = "detect"
    /\ IF s.try > Len(Attempt)
       THEN Update(i, NextProgram(s))
       ELSE LET b == Running(Command[s.cmd])
                l == Language(b, Attempt[s.try])
            IN IF l = Nothing
               THEN Update(i, NextTry(s))
               ELSE Update(i, [s EXCEPT !.pc = "lookup", !.version = b.version, !.language = l])
    /\ UNCHANGED <<link, content, clock, removals, store, scans, wrapper>>

(* Mutant: the generation is part of the name when it is the default, too. *)
AlreadyInstalledByFullName(s) ==
    /\ Attempt[s.try].generation # "default"
    /\ Listed("compiler", s.language, s.version) # {}

(* Mutant: any compiler of the version will do, whatever it runs.          *)
AlreadyInstalledElsewhere(s) ==
    /\ Attempt[s.try].generation = "default"
    /\ \E h \in Listed("compiler", s.language, s.version) : store[h].config # Nothing

(* The lookup asks for VENDOR-LANGUAGE-GENERATION, but packages are named  *)
(* VENDOR-LANGUAGE whatever their generation: it finds nothing unless the  *)
(* generation is the default, and then it finds every generation.          *)
AlreadyInstalled(s) ==
    /\ Attempt[s.try].generation = "default"
    /\ \E h \in Listed("compiler", s.language, s.version) :
          /\ store[h].config # Nothing
          /\ link[store[h].config.executable] = link[Command[s.cmd]]

Lookup(i) ==
    LET s == installer[i] IN
    /\ s.pc = "lookup"
    /\ IF AlreadyInstalled(s)
       THEN Update(i, NextTry(s))
       ELSE Update(i, [s EXCEPT !.pc = "configure"])
    /\ UNCHANGED <<link, content, clock, removals, store, scans, wrapper>>

(* The command is asked again for compiler.yaml.  If it fails this time    *)
(* the file is left empty and the installation goes on.                    *)
Configuration(c, a) ==
    IF Language(Running(c), a) = Nothing THEN Nothing
    ELSE [executable |-> c, switches |-> a, output |-> Running(c).output]

Configure(i) ==
    LET s == installer[i] IN
    /\ s.pc = "configure"
    /\ Update(i, [s EXCEPT !.pc = "generation",
                           !.config = Configuration(Command[s.cmd], Attempt[s.try])])
    /\ UNCHANGED <<link, content, clock, removals, store, scans, wrapper>>

(* Mutant: asks for the alias of all generations.                          *)
FindGenerationByAlias(i) ==
    LET s == installer[i]
        found == {h \in Live : store[h].kind = "generation"}
    IN /\ s.pc = "generation"
       /\ IF {h \in found : store[h].name = Attempt[s.try].generation} = {}
          THEN Update(i, [s EXCEPT !.pc = "new-generation"])
          ELSE Update(i, [s EXCEPT !.pc = "publish", !.generation = found])
       /\ UNCHANGED <<link, content, clock, removals, store, scans, wrapper>>

FindGeneration(i) ==
    LET s == installer[i]
        found == Listed("generation", Attempt[s.try].generation, "spock")
    IN /\ s.pc = "generation"
       /\ IF found = {}
          THEN Update(i, [s EXCEPT !.pc = "new-generation"])
          ELSE Update(i, [s EXCEPT !.pc = "publish", !.generation = found])
       /\ UNCHANGED <<link, content, clock, removals, store, scans, wrapper>>

CreateGeneration(i) ==
    LET s == installer[i] IN
    /\ s.pc = "new-generation"
    /\ store' = Append(store, Pseudo("generation", Attempt[s.try].generation, "spock"))
    /\ Update(i, [s EXCEPT !.pc = "publish", !.generation = {NextHash}])
    /\ UNCHANGED <<link, content, clock, removals, scans, wrapper>>

(* HASH.yaml makes the package known.  calm records, for the properties,   *)
(* that nobody changed the machine or the store since the command was      *)
(* first asked.                                                            *)
Publish(i) ==
    LET s == installer[i] IN
    /\ s.pc = "publish"
    /\ store' = Append(store,
           [kind |-> "compiler", name |-> s.language, version |-> s.version,
            collection |-> s.collection, generation |-> s.generation,
            config |-> s.config, calm |-> (s.since = clock)])
    /\ Update(i, NextTry(s))
    /\ UNCHANGED <<link, content, clock, removals, scans, wrapper>>

-----------------------------------------------------------------------------
(* The wrapper.                                                            *)
Asleep == [pc |-> "idle", hash |-> 0, package |-> Nothing, config |-> Nothing,
           checked |-> 0, ran |-> Nothing, steady |-> FALSE]

CanMove(pc) == wrapper.pc = pc /\ UNCHANGED <<link, content, clock, removals, store, scans, installer>>

Call(h) ==
    /\ CanMove("idle")
    /\ h \in CompilerPackages
    /\ wrapper' = [Asleep EXCEPT !.pc = "config", !.hash = h, !.package = store[h]]

Fail == wrapper' = [Asleep EXCEPT !.pc = "failed"]

readConfigFile ==
    /\ CanMove("config")
    /\ IF store[wrapper.hash] = Nothing \/ wrapper.package.config = Nothing
       THEN Fail
       ELSE wrapper' = [wrapper EXCEPT !.pc = "executable", !.config = wrapper.package.config]

validateExecutable ==
    /\ CanMove("executable")
    /\ IF Running(wrapper.config.executable) = Nothing
       THEN Fail
       ELSE wrapper' = [wrapper EXCEPT !.pc = "version"]

(* Mutant: any compiler that can say its version will do.                  *)
SaysAnything(b, config) == b # Nothing

SaysTheSame(b, config) == b # Nothing /\ b.output = config.output

validateVersion ==
    /\ CanMove("version")
    /\ IF SaysTheSame(Running(wrapper.config.executable), wrapper.config)
       THEN wrapper' = [wrapper EXCEPT !.pc = "exec", !.checked = clock]
       ELSE Fail

(* Mutant: counts on the compiler still being there.                       *)
execUnchecked ==
    /\ CanMove("exec")
    /\ wrapper' = [wrapper EXCEPT !.pc = "runs", !.steady = (wrapper.checked = clock),
                                  !.ran = Running(wrapper.config.executable)]

execCompiler ==
    /\ CanMove("exec")
    /\ IF Running(wrapper.config.executable) = Nothing
       THEN Fail
       ELSE wrapper' = [wrapper EXCEPT !.pc = "runs", !.steady = (wrapper.checked = clock),
                                       !.ran = Running(wrapper.config.executable)]

Exit ==
    /\ wrapper.pc \in {"runs", "failed"}
    /\ wrapper' = Asleep
    /\ UNCHANGED <<link, content, clock, removals, store, scans, installer>>

-----------------------------------------------------------------------------
(* The rest of the machine: a file is upgraded, removed or put back, a     *)
(* command is linked to another file, spock-rm removes a package with all  *)
(* that depend on it.                                                      *)
Upgrade(f) ==
    /\ clock < MaxChanges
    /\ \E b \in Contents[f] \ {content[f]} : content' = [content EXCEPT ![f] = b]
    /\ clock' = clock + 1
    /\ UNCHANGED <<link, removals, store, scans, installer, wrapper>>

Relink(c) ==
    /\ clock < MaxChanges
    /\ \E f \in Links[c] \ {link[c]} : link' = [link EXCEPT ![c] = f]
    /\ clock' = clock + 1
    /\ UNCHANGED <<content, removals, store, scans, installer, wrapper>>

Removed(h) == {h} \cup {k \in CompilerPackages : h \in store[k].collection \cup store[k].generation}

Remove(h) ==
    /\ removals < MaxRemovals
    /\ clock < MaxChanges
    /\ Readable
    /\ h \in Live
    /\ store' = [k \in DOMAIN store |-> IF k \in Removed(h) THEN Nothing ELSE store[k]]
    /\ removals' = removals + 1
    /\ clock' = clock + 1
    /\ UNCHANGED <<link, content, scans, installer, wrapper>>

-----------------------------------------------------------------------------
Init ==
    /\ link \in [Commands -> File] /\ \A c \in Commands : link[c] \in Links[c]
    /\ content \in [File -> Build \cup {Nothing}] /\ \A f \in File : content[f] \in Contents[f]
    /\ clock = 0
    /\ removals = 0
    /\ store = <<>>
    /\ scans = 0
    /\ installer = [i \in Installer |-> Idle]
    /\ wrapper = Asleep

Scan(i) ==
    \/ BeginScan(i) \/ Program(i) \/ FindCollection(i) \/ CreateCollection(i)
    \/ Detect(i) \/ Lookup(i) \/ Configure(i) \/ FindGeneration(i)
    \/ CreateGeneration(i) \/ Publish(i)

Wrap ==
    \/ \E h \in DOMAIN store : Call(h)
    \/ readConfigFile \/ validateExecutable \/ validateVersion \/ execCompiler \/ Exit

Environment ==
    \/ \E f \in File : Upgrade(f)
    \/ \E c \in Commands : Relink(c)
    \/ \E h \in DOMAIN store : Remove(h)

Next == (\E i \in Installer : Scan(i)) \/ Wrap \/ Environment

Spec == Init /\ [][Next]_vars

-----------------------------------------------------------------------------
Versions == {b.version : b \in Build}
Languages == {Language(b, a) : b \in Build, a \in Attempts \cup {Plain}} \ {Nothing}
Configurations == [executable : Commands, switches : Attempts, output : {b.output : b \in Build}]
Optional(S) == S \cup {Nothing}

Package ==
    [kind : {"collection", "generation", "compiler"},
     name : Languages \cup Generations \cup {"system-compilers"},
     version : Versions \cup {"spock"},
     collection : SUBSET Nat, generation : SUBSET Nat,
     config : Optional(Configurations), calm : BOOLEAN]

ASSUME NothingAssumption == Nothing \notin Package \cup Configurations

ScanState ==
    [pc : {"idle", "program", "collection", "new-collection", "detect", "lookup", "configure",
           "generation", "new-generation", "publish", "done"},
     cmd : Nat, try : Nat, since : Nat, start : Nat,
     version : Optional(Versions), language : Optional(Languages),
     collection : SUBSET Nat, generation : SUBSET Nat, config : Optional(Configurations)]

WrapperState ==
    [pc : {"idle", "config", "executable", "version", "exec", "runs", "failed"},
     hash : Nat, package : Optional(Package), config : Optional(Configurations),
     checked : Nat, ran : Optional(Build), steady : BOOLEAN]

(* Values of the variables; a wrapper that has read its configuration has  *)
(* one, and what it runs is a compiler.                                    *)
CompilersTypeOK ==
    /\ link \in [Commands -> File]
    /\ content \in [File -> Optional(Build)]
    /\ clock \in Nat /\ removals \in Nat /\ scans \in Nat
    /\ store \in Seq(Optional(Package))
    /\ installer \in [Installer -> ScanState]
    /\ wrapper \in WrapperState
    /\ wrapper.pc \in {"config", "executable", "version", "exec", "runs"} =>
          wrapper.package \in Package
    /\ wrapper.pc \in {"executable", "version", "exec", "runs"} =>
          wrapper.config \in Configurations /\ wrapper.config = wrapper.package.config
    /\ wrapper.pc = "runs" => wrapper.ran \in Build

(* A compiler that the wrapper starts is of the version and compiles the   *)
(* language its package is named after.  The wrapper's check has to make   *)
(* up for everything that may have happened since the installation; what   *)
(* it cannot see is a change while the package was being installed, or     *)
(* between the check and the start.                                        *)
RunsAsNamed ==
    wrapper.pc = "runs" /\ wrapper.steady /\ wrapper.package.calm =>
        /\ wrapper.ran.version = wrapper.package.version
        /\ Language(wrapper.ran, wrapper.config.switches) = wrapper.package.name

(* Every dependency of an installed compiler names one package, so that    *)
(* the commands of Spock can read the store.                               *)
StoreReadable == Readable

(* No scan installs a compiler of the default generation a second time.    *)
NoSecondPackage ==
    \A h, k \in CompilerPackages :
        (/\ store[h].config # Nothing
         /\ store[h].config = store[k].config
         /\ store[h].config.switches.generation = "default"
         /\ store[h].name = store[k].name
         /\ store[h].version = store[k].version) => h = k

(* A package through which users can run command c with switches a.  A     *)
(* default compiler may be hidden by one of another generation, and an     *)
(* upgraded one by its predecessor of the same version number.             *)
Provides(p, c, a) ==
    LET b == Running(c) IN
    /\ p.kind = "compiler"
    /\ p.collection \cup p.generation \subseteq Live
    /\ p.name = Language(b, a)
    /\ p.version = b.version
    /\ p.config # Nothing
    /\ link[p.config.executable] = link[c]
    /\ \/ p.config.output = b.output
       \/ \E old \in Build \ {b} : old.version = b.version /\ old.output = p.config.output
    /\ a.generation # "default" => p.config.switches.generation = a.generation

(* After a scan that nobody interfered with, there is a package for every  *)
(* language of every compiler on the machine, whatever scans, upgrades and *)
(* removals came before; Provides says what may stand in for a compiler.   *)
ScanComplete ==
    \A i \in Installer :
        (/\ installer[i].pc = "done"
         /\ installer[i].start = clock
         /\ \A h \in CompilerPackages : store[h].calm) =>
        \A c \in Commands : \A a \in Attempts :
            Language(Running(c), a) # Nothing /\ Language(Running(c), Plain) # Nothing =>
                \E h \in Live : Provides(store[h], c, a)
=============================================================================
