-------------------------- MODULE Compilers_proofs --------------------------
(***************************************************************************)
(* Whatever the machine, the scans and the users do, and however many of   *)
(* them there are, the wrapper runs the compiler its package is named      *)
(* after (RunsAsNamed).  The argument: as long as nobody has changed       *)
(* anything since a scan first asked a command, what the scan holds is     *)
(* true of the file the command leads to, so a package installed in calm   *)
(* records the output of a build of its version and language; the wrapper  *)
(* starts nothing that prints another output, and no two builds print the  *)
(* same.                                                                   *)
(***************************************************************************)
EXTENDS Compilers, SequenceTheorems, TLAPS

(* What the package says of its compiler is true of one build.             *)
Truthful(p) ==
    p.calm /\ p.config # Nothing =>
        \E b \in Build : /\ p.version = b.version
                         /\ p.name = Language(b, p.config.switches)
                         /\ p.config.output = b.output

Asking == {"lookup", "configure", "generation", "new-generation", "publish"}
Configured == {"generation", "new-generation", "publish"}

(* Where a scan is in its lists, and what it knows.                        *)
ScanInv(s) ==
    /\ s.since <= clock /\ s.cmd >= 1 /\ s.try >= 1
    /\ s.pc \in {"collection", "new-collection", "detect"} \cup Asking => s.cmd <= Len(Command)
    /\ s.pc \in {"collection", "new-collection"} \cup Asking => s.version \in Versions
    /\ s.pc \in Asking => s.try <= Len(Attempt) /\ s.language \in Languages
    /\ s.pc \in Asking /\ s.since = clock =>
          /\ Running(Command[s.cmd]) \in Build
          /\ s.version = Running(Command[s.cmd]).version
          /\ s.language = Language(Running(Command[s.cmd]), Attempt[s.try])
    /\ s.pc \in Configured /\ s.since = clock /\ s.config # Nothing =>
          s.config = [executable |-> Command[s.cmd], switches |-> Attempt[s.try],
                      output |-> Running(Command[s.cmd]).output]

StoreInv == \A h \in DOMAIN store : store[h] # Nothing => Truthful(store[h])

WrapperInv ==
    /\ wrapper.pc \in {"config", "executable", "version", "exec", "runs"} => Truthful(wrapper.package)
    /\ wrapper.pc \in {"executable", "version", "exec", "runs"} => wrapper.config # Nothing
    /\ wrapper.pc = "exec" =>
          /\ wrapper.checked <= clock
          /\ wrapper.checked = clock =>
                /\ Running(wrapper.config.executable) \in Build
                /\ Running(wrapper.config.executable).output = wrapper.config.output
    /\ wrapper.pc = "runs" /\ wrapper.steady => wrapper.ran.output = wrapper.config.output

IInv ==
    /\ CompilersTypeOK
    /\ \A i \in Installer : ScanInv(installer[i])
    /\ StoreInv
    /\ WrapperInv

-----------------------------------------------------------------------------
(* The elements of the two lists.                                          *)
LEMMA ListElements ==
    /\ Len(Command) \in Nat /\ DOMAIN Command = 1..Len(Command)
    /\ Len(Attempt) \in Nat /\ DOMAIN Attempt = 1..Len(Attempt)
    /\ \A n \in Nat : n >= 1 /\ n <= Len(Command) => Command[n] \in Commands
    /\ \A n \in Nat : n >= 1 /\ n <= Len(Attempt) => Attempt[n] \in Attempts
BY ListAssumption DEF Commands, Attempts

(* A command leads to a build or to nothing.                               *)
LEMMA RunningType ==
    ASSUME CompilersTypeOK, NEW c \in Commands
    PROVE  Running(c) \in Optional(Build)
BY DEF CompilersTypeOK, Running

(* A compiler whose language is known exists, and the language is one.     *)
LEMMA LanguageType ==
    ASSUME NEW b \in Optional(Build), NEW a \in Attempts \cup {Plain}, Language(b, a) # Nothing
    PROVE  /\ b \in Build
           /\ Language(b, a) \in Languages
           /\ b.version \in Versions
<1>1. b # Nothing
    BY DEF Language
<1>2. b \in Build
    BY <1>1 DEF Optional
<1> QED
    BY <1>2 DEF Languages, Versions

(* Everything listed is an index of the store.                             *)
LEMMA ListedType ==
    ASSUME CompilersTypeOK, NEW kind, NEW name, NEW version
    PROVE  Listed(kind, name, version) \subseteq Nat
<1>1. DOMAIN store = 1..Len(store) /\ Len(store) \in Nat
    BY DEF CompilersTypeOK
<1> QED
    BY <1>1 DEF Listed, Live

(* A step of a scan that keeps to what a scan may hold.                    *)
LEMMA ScanStep ==
    ASSUME IInv, NEW i \in Installer, NEW r \in ScanState, ScanInv(r), Update(i, r),
           UNCHANGED <<link, content, clock, removals, wrapper>>,
           scans' \in Nat,
           store' \in Seq(Optional(Package)),
           \A h \in DOMAIN store' : store'[h] # Nothing => Truthful(store'[h])
    PROVE  IInv'
<1> USE DEF IInv
<1>1. installer' \in [Installer -> ScanState]
    BY DEF Update, CompilersTypeOK
<1>2. CompilersTypeOK'
    BY <1>1 DEF CompilersTypeOK
<1>3. ASSUME NEW j \in Installer
      PROVE  ScanInv(installer[j])'
    <2>1. installer'[j] = IF j = i THEN r ELSE installer[j]
        BY DEF Update, CompilersTypeOK
    <2>2. ScanInv(installer'[j])
        BY <2>1
    <2> QED
        BY <2>2 DEF ScanInv, Running
<1>4. StoreInv'
    BY DEF StoreInv, Truthful
<1>5. WrapperInv'
    BY DEF WrapperInv, Running, Truthful
<1> QED
    BY <1>2, <1>3, <1>4, <1>5

(* The new package of a scan at the end of the store.                      *)
LEMMA AppendStep ==
    ASSUME CompilersTypeOK, StoreInv, NEW p \in Package, Truthful(p), store' = Append(store, p)
    PROVE  /\ store' \in Seq(Optional(Package))
           /\ \A h \in DOMAIN store' : store'[h] # Nothing => Truthful(store'[h])
           /\ NextHash \in Nat
<1>1. store \in Seq(Optional(Package)) /\ p \in Optional(Package)
    BY DEF CompilersTypeOK, Optional
<1>2. /\ store' \in Seq(Optional(Package))
      /\ DOMAIN store' = 1..(Len(store) + 1)
      /\ Len(store) \in Nat
      /\ DOMAIN store = 1..Len(store)
      /\ \A h \in 1..Len(store) : store'[h] = store[h]
      /\ store'[Len(store) + 1] = p
    BY <1>1, AppendProperties
<1>3. ASSUME NEW h \in DOMAIN store', store'[h] # Nothing
      PROVE  Truthful(store'[h])
    <2>1. CASE h \in 1..Len(store)
        BY <1>2, <1>3, <2>1 DEF StoreInv
    <2>2. CASE h = Len(store) + 1
        BY <1>2, <2>2
    <2> QED
        BY <1>2, <2>1, <2>2
<1> QED
    BY <1>2, <1>3 DEF NextHash

(* The shapes of what a scan moves on to.                                  *)
LEMMA IdleType ==
    /\ Idle \in ScanState
    /\ \A s \in ScanState : NextTry(s) \in ScanState /\ NextProgram(s) \in ScanState
<1>1. Idle \in ScanState
    BY DEF Idle, ScanState, Optional
<1>2. ASSUME NEW s \in ScanState PROVE NextTry(s) \in ScanState
    <2>1. s.try + 1 \in Nat /\ {} \in SUBSET Nat /\ Nothing \in Optional(Versions)
          /\ Nothing \in Optional(Languages) /\ Nothing \in Optional(Configurations)
        BY DEF ScanState, Optional
    <2> QED
        BY <2>1 DEF NextTry, ScanState
<1>3. ASSUME NEW s \in ScanState PROVE NextProgram(s) \in ScanState
    <2>1. s.cmd + 1 \in Nat /\ s.start \in Nat
        BY DEF ScanState
    <2> QED
        BY <1>1, <2>1 DEF NextProgram, ScanState
<1> QED
    BY <1>1, <1>2, <1>3

(* Going on to the next switches or the next command keeps what is known.  *)
LEMMA NextInv ==
    ASSUME CompilersTypeOK, NEW s \in ScanState, ScanInv(s)
    PROVE  /\ ScanInv(NextProgram(s))
           /\ s.cmd <= Len(Command) => ScanInv(NextTry(s))
BY DEF CompilersTypeOK, ScanInv, NextTry, NextProgram, Idle, ScanState, Asking, Configured

(* A scan that begins, and one that is done.                               *)
LEMMA RestInv ==
    ASSUME NEW pc \in {"program", "done"}, NEW n \in Nat, clock \in Nat
    PROVE  [Idle EXCEPT !.pc = pc, !.start = n] \in ScanState
           /\ ScanInv([Idle EXCEPT !.pc = pc, !.start = n])
<1> DEFINE r == [Idle EXCEPT !.pc = pc, !.start = n]
<1>1. r \in ScanState
    BY IdleType DEF ScanState
<1>2. r.pc = pc /\ r.since = 0 /\ r.cmd = 1 /\ r.try = 1
    BY DEF Idle
<1>3. ScanInv(r)
    BY <1>2 DEF ScanInv, Asking, Configured
<1> QED
    BY <1>1, <1>3

(* Steps of a scan that only ask or look up.                               *)
LEMMA QuietStep ==
    ASSUME IInv, NEW i \in Installer, NEW r \in ScanState, ScanInv(r), Update(i, r),
           UNCHANGED <<link, content, clock, removals, store, wrapper>>,
           scans' \in Nat
    PROVE  IInv'
<1>1. /\ store' \in Seq(Optional(Package))
      /\ \A h \in DOMAIN store' : store'[h] # Nothing => Truthful(store'[h])
    BY DEF IInv, CompilersTypeOK, StoreInv
<1> QED
    BY <1>1, ScanStep

(* A scan begins.                                                          *)
LEMMA BeginScanKeeps ==
    ASSUME IInv, NEW i \in Installer, BeginScan(i)
    PROVE  IInv'
<1> DEFINE r == [Idle EXCEPT !.pc = "program", !.start = clock]
<1>1. clock \in Nat /\ scans' \in Nat
    BY DEF IInv, CompilersTypeOK, BeginScan
<1>2. r \in ScanState /\ ScanInv(r)
    BY <1>1, RestInv
<1>3. Update(i, r) /\ UNCHANGED <<link, content, clock, removals, store, wrapper>>
    BY DEF BeginScan
<1> HIDE DEF r
<1> QED
    BY <1>1, <1>2, <1>3, QuietStep

(* It asks what the next command is.                                       *)
LEMMA ProgramKeeps ==
    ASSUME IInv, NEW i \in Installer, Program(i)
    PROVE  IInv'
<1> DEFINE s == installer[i]
           b == Running(Command[s.cmd])
           last == [Idle EXCEPT !.pc = "done", !.start = s.start]
           r == [s EXCEPT !.pc = "collection", !.since = clock, !.version = b.version]
<1>1. /\ s \in ScanState /\ ScanInv(s) /\ clock \in Nat
      /\ UNCHANGED <<link, content, clock, removals, store, scans, wrapper>>
      /\ scans' \in Nat
    BY DEF IInv, CompilersTypeOK, Program
<1>2. CASE s.cmd > Len(Command)
    <2>1. last \in ScanState /\ ScanInv(last)
        BY <1>1, RestInv DEF ScanState
    <2>2. Update(i, last)
        BY <1>2 DEF Program
    <2> QED
        BY <1>1, <2>1, <2>2, QuietStep
<1>3. CASE ~(s.cmd > Len(Command)) /\ Language(b, Plain) = Nothing
    <2>1. NextProgram(s) \in ScanState /\ ScanInv(NextProgram(s))
        BY <1>1, IdleType, NextInv DEF IInv
    <2>2. Update(i, NextProgram(s))
        BY <1>3 DEF Program
    <2> QED
        BY <1>1, <2>1, <2>2, QuietStep
<1>4. CASE ~(s.cmd > Len(Command)) /\ Language(b, Plain) # Nothing
    <2>1. s.cmd \in Nat /\ s.cmd >= 1 /\ s.cmd <= Len(Command)
        BY <1>1, <1>4, ListElements DEF ScanState, ScanInv
    <2>2. Command[s.cmd] \in Commands
        BY <2>1, ListElements
    <2>3. b \in Optional(Build)
        BY <2>2, RunningType DEF IInv
    <2>4. b.version \in Versions
        BY <1>4, <2>3, LanguageType
    <2>5. r \in ScanState
        BY <1>1, <2>4 DEF ScanState, Optional
    <2>6. ScanInv(r)
        BY <1>1, <2>1, <2>4 DEF ScanState, ScanInv, Asking, Configured
    <2>7. Update(i, r)
        BY <1>4 DEF Program
    <2> QED
        BY <1>1, <2>5, <2>6, <2>7, QuietStep
<1> QED
    BY <1>2, <1>3, <1>4

(* It looks up the collection of the version.                              *)
LEMMA FindCollectionKeeps ==
    ASSUME IInv, NEW i \in Installer, FindCollection(i)
    PROVE  IInv'
<1> DEFINE s == installer[i]
           found == Listed("collection", "system-compilers", s.version)
           make == [s EXCEPT !.pc = "new-collection"]
           take == [s EXCEPT !.pc = "detect", !.collection = found, !.version = Nothing]
<1>1. /\ s \in ScanState /\ ScanInv(s) /\ s.pc = "collection"
      /\ UNCHANGED <<link, content, clock, removals, store, scans, wrapper>>
      /\ scans' \in Nat
    BY DEF IInv, CompilersTypeOK, FindCollection
<1>2. found \in SUBSET Nat /\ Nothing \in Optional(Versions)
    BY ListedType DEF IInv, Optional
<1> HIDE DEF found
<1>3. make \in ScanState /\ take \in ScanState
    BY <1>1, <1>2 DEF ScanState
<1>4. ScanInv(make) /\ ScanInv(take)
    BY <1>1 DEF ScanState, ScanInv, Asking, Configured
<1>5. Update(i, make) \/ Update(i, take)
    BY DEF FindCollection, found
<1> QED
    BY <1>1, <1>3, <1>4, <1>5, QuietStep

(* It creates the collection.                                              *)
LEMMA CreateCollectionKeeps ==
    ASSUME IInv, NEW i \in Installer, CreateCollection(i)
    PROVE  IInv'
<1> DEFINE s == installer[i]
           p == Pseudo("collection", "system-compilers", s.version)
           r == [s EXCEPT !.pc = "detect", !.collection = {NextHash}, !.version = Nothing]
<1>1. /\ s \in ScanState /\ ScanInv(s) /\ s.pc = "new-collection"
      /\ UNCHANGED <<link, content, clock, removals, scans, wrapper>>
      /\ scans' \in Nat /\ CompilersTypeOK /\ StoreInv
    BY DEF IInv, CompilersTypeOK, CreateCollection
<1>2. p \in Package /\ Truthful(p)
    BY <1>1 DEF Pseudo, Package, Truthful, ScanInv, Optional
<1>3. store' = Append(store, p) /\ Update(i, r)
    BY DEF CreateCollection
<1> HIDE DEF p
<1>4. /\ store' \in Seq(Optional(Package))
      /\ \A h \in DOMAIN store' : store'[h] # Nothing => Truthful(store'[h])
      /\ NextHash \in Nat
    BY <1>1, <1>2, <1>3, AppendStep
<1>5. r \in ScanState
    BY <1>1, <1>4 DEF ScanState, Optional
<1>6. ScanInv(r)
    BY <1>1 DEF ScanState, ScanInv, Asking, Configured
<1> QED
    BY <1>1, <1>3, <1>4, <1>5, <1>6, ScanStep

(* It asks for the language that the next switches give.                   *)
LEMMA DetectKeeps ==
    ASSUME IInv, NEW i \in Installer, Detect(i)
    PROVE  IInv'
<1> DEFINE s == installer[i]
           b == Running(Command[s.cmd])
           l == Language(b, Attempt[s.try])
           r == [s EXCEPT !.pc = "lookup", !.version = b.version, !.language = l]
<1>1. /\ s \in ScanState /\ ScanInv(s) /\ s.pc = "detect" /\ clock \in Nat
      /\ UNCHANGED <<link, content, clock, removals, store, scans, wrapper>>
      /\ scans' \in Nat /\ CompilersTypeOK
    BY DEF IInv, CompilersTypeOK, Detect
<1>2. s.cmd \in Nat /\ s.cmd >= 1 /\ s.cmd <= Len(Command)
    BY <1>1 DEF ScanState, ScanInv
<1>3. CASE s.try > Len(Attempt)
    <2>1. NextProgram(s) \in ScanState /\ ScanInv(NextProgram(s))
        BY <1>1, IdleType, NextInv
    <2>2. Update(i, NextProgram(s))
        BY <1>3 DEF Detect
    <2> QED
        BY <1>1, <2>1, <2>2, QuietStep
<1>4. CASE ~(s.try > Len(Attempt)) /\ l = Nothing
    <2>1. NextTry(s) \in ScanState /\ ScanInv(NextTry(s))
        BY <1>1, <1>2, IdleType, NextInv
    <2>2. Update(i, NextTry(s))
        BY <1>4 DEF Detect
    <2> QED
        BY <1>1, <2>1, <2>2, QuietStep
<1>5. CASE ~(s.try > Len(Attempt)) /\ l # Nothing
    <2>1. s.try \in Nat /\ s.try >= 1 /\ s.try <= Len(Attempt)
        BY <1>1, <1>5, ListElements DEF ScanState, ScanInv
    <2>2. Command[s.cmd] \in Commands /\ Attempt[s.try] \in Attempts
        BY <1>2, <2>1, ListElements
    <2>3. b \in Optional(Build)
        BY <1>1, <2>2, RunningType
    <2>4. b \in Build /\ b.version \in Versions /\ l \in Languages
        BY <1>5, <2>2, <2>3, LanguageType
    <2>5. Update(i, r)
        BY <1>5 DEF Detect
    <2> HIDE DEF l
    <2>6. r \in ScanState
        BY <1>1, <2>4 DEF ScanState, Optional
    <2>7. r.pc = "lookup" /\ r.version = b.version /\ r.language = l
          /\ r.cmd = s.cmd /\ r.try = s.try /\ r.since = s.since
        BY <1>1 DEF ScanState
    <2>8. ScanInv(r)
        <3>1. r.since <= clock /\ r.cmd >= 1 /\ r.try >= 1 /\ r.cmd <= Len(Command) /\ r.try <= Len(Attempt)
            BY <1>1, <1>2, <2>1, <2>7 DEF ScanInv
        <3>2. r.version \in Versions /\ r.language \in Languages
            BY <2>4, <2>7
        <3>3. Running(Command[r.cmd]) = b /\ Language(Running(Command[r.cmd]), Attempt[r.try]) = l
            BY <2>7 DEF l
        <3> QED
            BY <2>4, <2>7, <3>1, <3>2, <3>3 DEF ScanInv, Asking, Configured
    <2> QED
        BY <1>1, <2>5, <2>6, <2>8, QuietStep
<1> QED
    BY <1>3, <1>4, <1>5

(* It looks whether the compiler is installed already.                     *)
LEMMA LookupKeeps ==
    ASSUME IInv, NEW i \in Installer, Lookup(i)
    PROVE  IInv'
<1> DEFINE s == installer[i]
           r == [s EXCEPT !.pc = "configure"]
<1>1. /\ s \in ScanState /\ ScanInv(s) /\ s.pc = "lookup" /\ clock \in Nat
      /\ UNCHANGED <<link, content, clock, removals, store, scans, wrapper>>
      /\ scans' \in Nat /\ CompilersTypeOK
    BY DEF IInv, CompilersTypeOK, Lookup
<1>2. NextTry(s) \in ScanState /\ ScanInv(NextTry(s))
    BY <1>1, IdleType, NextInv DEF ScanInv, Asking
<1>3. r \in ScanState
    BY <1>1 DEF ScanState
<1>4. ScanInv(r)
    BY <1>1 DEF ScanState, ScanInv, Asking, Configured
<1>5. Update(i, NextTry(s)) \/ Update(i, r)
    BY DEF Lookup
<1> QED
    BY <1>1, <1>2, <1>3, <1>4, <1>5, QuietStep

(* What a command says of itself, for compiler.yaml.                       *)
LEMMA ConfigurationType ==
    ASSUME CompilersTypeOK, NEW c \in Commands, NEW a \in Attempts
    PROVE  /\ Configuration(c, a) \in Optional(Configurations)
           /\ Configuration(c, a) # Nothing =>
                 Configuration(c, a) = [executable |-> c, switches |-> a, output |-> Running(c).output]
<1>1. CASE Language(Running(c), a) = Nothing
    BY <1>1 DEF Configuration, Optional
<1>2. CASE Language(Running(c), a) # Nothing
    <2>1. Running(c) \in Build
        BY <1>2, RunningType, LanguageType
    <2>2. Running(c).output \in {b.output : b \in Build}
        BY <2>1
    <2> QED
        BY <1>2, <2>2 DEF Configuration, Configurations, Optional
<1> QED
    BY <1>1, <1>2

(* It asks again for the configuration of the new package.                 *)
LEMMA ConfigureKeeps ==
    ASSUME IInv, NEW i \in Installer, Configure(i)
    PROVE  IInv'
<1> DEFINE s == installer[i]
           config == Configuration(Command[s.cmd], Attempt[s.try])
           r == [s EXCEPT !.pc = "generation", !.config = config]
<1>1. /\ s \in ScanState /\ ScanInv(s) /\ s.pc = "configure"
      /\ UNCHANGED <<link, content, clock, removals, store, scans, wrapper>>
      /\ scans' \in Nat /\ CompilersTypeOK
    BY DEF IInv, CompilersTypeOK, Configure
<1>2. Command[s.cmd] \in Commands /\ Attempt[s.try] \in Attempts
    BY <1>1, ListElements DEF ScanState, ScanInv, Asking
<1>3. /\ config \in Optional(Configurations)
      /\ config # Nothing => config = [executable |-> Command[s.cmd], switches |-> Attempt[s.try],
                                       output |-> Running(Command[s.cmd]).output]
    BY <1>1, <1>2, ConfigurationType
<1>4. Update(i, r)
    BY DEF Configure
<1> HIDE DEF config
<1>5. r \in ScanState
    BY <1>1, <1>3 DEF ScanState
<1>6. /\ r.pc = "generation" /\ r.config = config /\ r.cmd = s.cmd /\ r.try = s.try
      /\ r.since = s.since /\ r.version = s.version /\ r.language = s.language
    BY <1>1 DEF ScanState
<1> HIDE DEF r
<1>7. ScanInv(r)
    BY <1>1, <1>3, <1>6 DEF ScanInv, Asking, Configured
<1> QED
    BY <1>1, <1>4, <1>5, <1>7, QuietStep

(* It looks up the package of the generation.                              *)
LEMMA FindGenerationKeeps ==
    ASSUME IInv, NEW i \in Installer, FindGeneration(i)
    PROVE  IInv'
<1> DEFINE s == installer[i]
           found == Listed("generation", Attempt[s.try].generation, "spock")
           make == [s EXCEPT !.pc = "new-generation"]
           take == [s EXCEPT !.pc = "publish", !.generation = found]
<1>1. /\ s \in ScanState /\ ScanInv(s) /\ s.pc = "generation"
      /\ UNCHANGED <<link, content, clock, removals, store, scans, wrapper>>
      /\ scans' \in Nat
    BY DEF IInv, CompilersTypeOK, FindGeneration
<1>2. found \in SUBSET Nat
    BY ListedType DEF IInv
<1> HIDE DEF found
<1>3. make \in ScanState /\ take \in ScanState
    BY <1>1, <1>2 DEF ScanState
<1>4. ScanInv(make) /\ ScanInv(take)
    BY <1>1 DEF ScanState, ScanInv, Asking, Configured
<1>5. Update(i, make) \/ Update(i, take)
    BY DEF FindGeneration, found
<1> QED
    BY <1>1, <1>3, <1>4, <1>5, QuietStep

(* It creates the package of the generation.                               *)
LEMMA CreateGenerationKeeps ==
    ASSUME IInv, NEW i \in Installer, CreateGeneration(i)
    PROVE  IInv'
<1> DEFINE s == installer[i]
           p == Pseudo("generation", Attempt[s.try].generation, "spock")
           r == [s EXCEPT !.pc = "publish", !.generation = {NextHash}]
<1>1. /\ s \in ScanState /\ ScanInv(s) /\ s.pc = "new-generation"
      /\ UNCHANGED <<link, content, clock, removals, scans, wrapper>>
      /\ scans' \in Nat /\ CompilersTypeOK /\ StoreInv
    BY DEF IInv, CompilersTypeOK, CreateGeneration
<1>2. Attempt[s.try].generation \in Generations
    BY <1>1, ListElements DEF ScanState, ScanInv, Asking, Generations
<1>3. p \in Package /\ Truthful(p)
    BY <1>2 DEF Pseudo, Package, Truthful, Optional
<1>4. store' = Append(store, p) /\ Update(i, r)
    BY DEF CreateGeneration
<1> HIDE DEF p
<1>5. /\ store' \in Seq(Optional(Package))
      /\ \A h \in DOMAIN store' : store'[h] # Nothing => Truthful(store'[h])
      /\ NextHash \in Nat
    BY <1>1, <1>3, <1>4, AppendStep
<1>6. r \in ScanState
    BY <1>1, <1>5 DEF ScanState
<1>7. ScanInv(r)
    BY <1>1 DEF ScanState, ScanInv, Asking, Configured
<1> QED
    BY <1>1, <1>4, <1>5, <1>6, <1>7, ScanStep

(* It publishes the package.                                               *)
LEMMA PublishKeeps ==
    ASSUME IInv, NEW i \in Installer, Publish(i)
    PROVE  IInv'
<1> DEFINE s == installer[i]
           p == [kind |-> "compiler", name |-> s.language, version |-> s.version,
                 collection |-> s.collection, generation |-> s.generation,
                 config |-> s.config, calm |-> (s.since = clock)]
           b == Running(Command[s.cmd])
<1>1. /\ s \in ScanState /\ ScanInv(s) /\ s.pc = "publish"
      /\ UNCHANGED <<link, content, clock, removals, scans, wrapper>>
      /\ scans' \in Nat /\ CompilersTypeOK /\ StoreInv
    BY DEF IInv, CompilersTypeOK, Publish
<1>2. s.version \in Versions /\ s.language \in Languages /\ s.cmd <= Len(Command)
    BY <1>1 DEF ScanInv, Asking
<1>3. p \in Package
    BY <1>1, <1>2 DEF ScanState, Package
<1>4. Truthful(p)
    <2>1. SUFFICES ASSUME s.since = clock, s.config # Nothing
                   PROVE  /\ b \in Build /\ s.version = b.version
                          /\ s.language = Language(b, s.config.switches)
                          /\ s.config.output = b.output
        BY DEF Truthful
    <2>2. /\ b \in Build /\ s.version = b.version /\ s.language = Language(b, Attempt[s.try])
          /\ s.config = [executable |-> Command[s.cmd], switches |-> Attempt[s.try], output |-> b.output]
        BY <1>1, <2>1 DEF ScanInv, Asking, Configured
    <2> QED
        BY <2>2
<1>5. store' = Append(store, p) /\ Update(i, NextTry(s))
    BY DEF Publish
<1> HIDE DEF p
<1>6. /\ store' \in Seq(Optional(Package))
      /\ \A h \in DOMAIN store' : store'[h] # Nothing => Truthful(store'[h])
    BY <1>1, <1>3, <1>4, <1>5, AppendStep
<1>7. NextTry(s) \in ScanState /\ ScanInv(NextTry(s))
    BY <1>1, <1>2, IdleType, NextInv
<1> QED
    BY <1>1, <1>5, <1>6, <1>7, ScanStep

-----------------------------------------------------------------------------
(* A step of the wrapper changes nothing else.                             *)
LEMMA WrapperStep ==
    ASSUME IInv, UNCHANGED <<link, content, clock, removals, store, scans, installer>>,
           wrapper' \in WrapperState,
           wrapper'.pc \in {"config", "executable", "version", "exec", "runs"} =>
               wrapper'.package \in Package /\ Truthful(wrapper'.package),
           wrapper'.pc \in {"executable", "version", "exec", "runs"} =>
               /\ wrapper'.config \in Configurations /\ wrapper'.config # Nothing
               /\ wrapper'.config = wrapper'.package.config,
           wrapper'.pc = "runs" => wrapper'.ran \in Build,
           wrapper'.pc = "exec" =>
               /\ wrapper'.checked <= clock
               /\ wrapper'.checked = clock =>
                     /\ Running(wrapper'.config.executable) \in Build
                     /\ Running(wrapper'.config.executable).output = wrapper'.config.output,
           wrapper'.pc = "runs" /\ wrapper'.steady => wrapper'.ran.output = wrapper'.config.output
    PROVE  IInv'
<1>1. CompilersTypeOK'
    BY DEF IInv, CompilersTypeOK
<1>2. \A i \in Installer : ScanInv(installer[i])'
    BY DEF IInv, ScanInv, Running
<1>3. StoreInv'
    BY DEF IInv, StoreInv, Truthful
<1>4. WrapperInv'
    BY DEF WrapperInv, Running, Truthful
<1> QED
    BY <1>1, <1>2, <1>3, <1>4 DEF IInv

(* A wrapper that rests or gives up.                                       *)
LEMMA RestingStep ==
    ASSUME IInv, UNCHANGED <<link, content, clock, removals, store, scans, installer>>,
           Fail \/ wrapper' = Asleep
    PROVE  IInv'
<1>1. wrapper' \in WrapperState /\ wrapper'.pc \in {"idle", "failed"}
    <2>1. CASE Fail
        BY <2>1 DEF Fail, Asleep, WrapperState, Optional
    <2>2. CASE wrapper' = Asleep
        BY <2>2 DEF Asleep, WrapperState, Optional
    <2> QED
        BY <2>1, <2>2
<1> QED
    BY <1>1, WrapperStep

(* The wrapper takes a step.                                               *)
LEMMA WrapKeeps ==
    ASSUME IInv, Wrap
    PROVE  IInv'
<1> DEFINE w == wrapper
<1>0. w \in WrapperState /\ clock \in Nat /\ CompilersTypeOK /\ StoreInv /\ WrapperInv
    BY DEF IInv, CompilersTypeOK
<1>1. ASSUME NEW h \in DOMAIN store, Call(h)
      PROVE  IInv'
    <2>1. h \in Nat /\ store[h] \in Package /\ Truthful(store[h])
        BY <1>0, <1>1 DEF Call, CompilerPackages, Live, CompilersTypeOK, StoreInv, Optional
    <2>2. wrapper' = [Asleep EXCEPT !.pc = "config", !.hash = h, !.package = store[h]]
          /\ UNCHANGED <<link, content, clock, removals, store, scans, installer>>
        BY <1>1 DEF Call, CanMove
    <2>3. wrapper' \in WrapperState
        BY <2>1, <2>2 DEF Asleep, WrapperState, Optional
    <2>4. wrapper'.pc = "config" /\ wrapper'.package = store[h]
        BY <2>2 DEF Asleep
    <2> QED
        BY <2>1, <2>2, <2>3, <2>4, WrapperStep
<1>2. CASE readConfigFile
    <2>1. w.pc = "config" /\ UNCHANGED <<link, content, clock, removals, store, scans, installer>>
        BY <1>2 DEF readConfigFile, CanMove
    <2>2. CASE Fail
        BY <2>1, <2>2, RestingStep
    <2>3. CASE ~Fail
        <3>1. w.package \in Package /\ Truthful(w.package) /\ w.package.config # Nothing
            BY <1>0, <1>2, <2>1, <2>3 DEF readConfigFile, CompilersTypeOK, WrapperInv
        <3>2. w.package.config \in Configurations
            BY <3>1 DEF Package, Optional
        <3>3. wrapper' = [w EXCEPT !.pc = "executable", !.config = w.package.config]
            BY <1>2, <2>3 DEF readConfigFile
        <3>4. wrapper' \in WrapperState /\ wrapper'.pc = "executable" /\ wrapper'.package = w.package
              /\ wrapper'.config = w.package.config
            BY <1>0, <3>2, <3>3 DEF WrapperState, Optional
        <3> QED
            BY <2>1, <3>1, <3>2, <3>4, WrapperStep
    <2> QED
        BY <2>2, <2>3
<1>3. CASE validateExecutable
    <2>1. w.pc = "executable" /\ UNCHANGED <<link, content, clock, removals, store, scans, installer>>
        BY <1>3 DEF validateExecutable, CanMove
    <2>2. CASE Fail
        BY <2>1, <2>2, RestingStep
    <2>3. CASE wrapper' = [w EXCEPT !.pc = "version"]
        <3>1. /\ w.package \in Package /\ Truthful(w.package)
              /\ w.config \in Configurations /\ w.config # Nothing /\ w.config = w.package.config
            BY <1>0, <2>1 DEF CompilersTypeOK, WrapperInv
        <3>2. wrapper' \in WrapperState /\ wrapper'.pc = "version" /\ wrapper'.package = w.package
              /\ wrapper'.config = w.config
            BY <1>0, <2>3 DEF WrapperState
        <3> QED
            BY <2>1, <3>1, <3>2, WrapperStep
    <2> QED
        BY <1>3, <2>2, <2>3 DEF validateExecutable
<1>4. CASE validateVersion
    <2>1. w.pc = "version" /\ UNCHANGED <<link, content, clock, removals, store, scans, installer>>
        BY <1>4 DEF validateVersion, CanMove
    <2>2. CASE Fail
        BY <2>1, <2>2, RestingStep
    <2>3. CASE ~Fail
        <3>1. /\ w.package \in Package /\ Truthful(w.package)
              /\ w.config \in Configurations /\ w.config # Nothing /\ w.config = w.package.config
            BY <1>0, <2>1 DEF CompilersTypeOK, WrapperInv
        <3>2. /\ wrapper' = [w EXCEPT !.pc = "exec", !.checked = clock]
              /\ SaysTheSame(Running(w.config.executable), w.config)
            BY <1>4, <2>3 DEF validateVersion
        <3>3. Running(w.config.executable) \in Build
              /\ Running(w.config.executable).output = w.config.output
            BY <1>0, <3>1, <3>2, RunningType DEF SaysTheSame, Configurations, Optional
        <3>4. wrapper' \in WrapperState /\ wrapper'.pc = "exec" /\ wrapper'.package = w.package
              /\ wrapper'.config = w.config /\ wrapper'.checked = clock
            BY <1>0, <3>2 DEF WrapperState
        <3> QED
            BY <1>0, <2>1, <3>1, <3>3, <3>4, WrapperStep
    <2> QED
        BY <2>2, <2>3
<1>5. CASE execCompiler
    <2> DEFINE b == Running(w.config.executable)
    <2>1. w.pc = "exec" /\ UNCHANGED <<link, content, clock, removals, store, scans, installer>>
        BY <1>5 DEF execCompiler, CanMove
    <2>2. CASE Fail
        BY <2>1, <2>2, RestingStep
    <2>3. CASE ~Fail
        <3>1. /\ w.package \in Package /\ Truthful(w.package)
              /\ w.config \in Configurations /\ w.config # Nothing /\ w.config = w.package.config
              /\ w.checked = clock => b.output = w.config.output
            BY <1>0, <2>1 DEF CompilersTypeOK, WrapperInv
        <3>2. /\ wrapper' = [w EXCEPT !.pc = "runs", !.steady = (w.checked = clock), !.ran = b]
              /\ b # Nothing
            BY <1>5, <2>3 DEF execCompiler
        <3>3. b \in Build
            BY <1>0, <3>1, <3>2, RunningType DEF Configurations, Optional
        <3> HIDE DEF b
        <3>4. wrapper' \in WrapperState /\ wrapper'.pc = "runs" /\ wrapper'.package = w.package
              /\ wrapper'.config = w.config /\ wrapper'.ran = b /\ wrapper'.steady = (w.checked = clock)
            BY <1>0, <3>2, <3>3 DEF WrapperState, Optional
        <3> QED
            BY <1>0, <2>1, <3>1, <3>3, <3>4, WrapperStep
    <2> QED
        BY <2>2, <2>3
<1>6. CASE Exit
    BY <1>6, RestingStep DEF Exit
<1> QED
    BY <1>1, <1>2, <1>3, <1>4, <1>5, <1>6 DEF Wrap

(* A change by others ends every calm.                                     *)
LEMMA EnvironmentKeeps ==
    ASSUME IInv, Environment
    PROVE  IInv'
<1>0. CompilersTypeOK /\ clock \in Nat
    BY DEF IInv, CompilersTypeOK
<1>1. clock' = clock + 1 /\ UNCHANGED <<scans, installer, wrapper>>
    BY DEF Environment, Upgrade, Relink, Remove
<1>2. link' \in [Commands -> File] /\ content' \in [File -> Optional(Build)] /\ removals' \in Nat
    BY <1>0, MachineAssumption DEF Environment, Upgrade, Relink, Remove, CompilersTypeOK, Optional
<1>3. /\ store' \in Seq(Optional(Package))
      /\ \A h \in DOMAIN store' : store'[h] # Nothing => Truthful(store'[h])
    <2>1. CASE UNCHANGED store
        BY <1>0, <2>1 DEF IInv, StoreInv, CompilersTypeOK
    <2>2. CASE \E g \in DOMAIN store :
                 store' = [k \in DOMAIN store |-> IF k \in Removed(g) THEN Nothing ELSE store[k]]
        <3>1. PICK g : store' = [k \in DOMAIN store |-> IF k \in Removed(g) THEN Nothing ELSE store[k]]
            BY <2>2
        <3>2. /\ DOMAIN store = 1..Len(store) /\ Len(store) \in Nat
              /\ \A k \in DOMAIN store : store[k] \in Optional(Package)
            BY <1>0 DEF CompilersTypeOK
        <3>3. \A k \in DOMAIN store : store'[k] \in Optional(Package)
            BY <3>1, <3>2 DEF Optional
        <3>4. store' \in Seq(Optional(Package))
            BY <3>1, <3>2, <3>3
        <3>5. \A h \in DOMAIN store' : store'[h] # Nothing => Truthful(store'[h])
            BY <3>1 DEF IInv, StoreInv
        <3> QED
            BY <3>4, <3>5
    <2> QED
        BY <2>1, <2>2 DEF Environment, Upgrade, Relink, Remove
<1>4. CompilersTypeOK'
    BY <1>0, <1>1, <1>2, <1>3 DEF CompilersTypeOK
<1>5. ASSUME NEW i \in Installer
      PROVE  ScanInv(installer[i])'
    <2>1. installer[i] \in ScanState /\ ScanInv(installer[i])
        BY <1>0 DEF IInv, CompilersTypeOK
    <2>2. installer[i].since \in Nat /\ installer[i].since # clock'
        BY <1>0, <1>1, <2>1 DEF ScanInv, ScanState
    <2> QED
        BY <1>0, <1>1, <2>1, <2>2 DEF ScanInv
<1>6. StoreInv'
    BY <1>3 DEF StoreInv, Truthful
<1>7. WrapperInv'
    <2>1. wrapper.pc = "exec" => wrapper.checked <= clock' /\ wrapper.checked # clock'
        BY <1>0, <1>1 DEF IInv, WrapperInv, CompilersTypeOK, WrapperState
    <2> QED
        BY <1>1, <2>1 DEF IInv, WrapperInv, Truthful
<1> QED
    BY <1>4, <1>5, <1>6, <1>7 DEF IInv

-----------------------------------------------------------------------------
(* The invariant holds at first.                                           *)
LEMMA InitIInv == Init => IInv
<1> SUFFICES ASSUME Init PROVE IInv
    OBVIOUS
<1>1. wrapper \in WrapperState /\ wrapper.pc = "idle"
    BY DEF Init, Asleep, WrapperState, Optional
<1>2. installer \in [Installer -> ScanState] /\ \A i \in Installer : installer[i] = Idle
    BY IdleType DEF Init
<1>3. store = <<>> /\ clock = 0
    BY DEF Init
<1>4. store \in Seq(Optional(Package))
    BY <1>3
<1>5. CompilersTypeOK
    BY <1>1, <1>2, <1>4 DEF Init, CompilersTypeOK, Optional
<1>6. ScanInv(Idle)
    BY <1>3 DEF ScanInv, Idle, Asking, Configured
<1>7. StoreInv
    BY <1>3 DEF StoreInv
<1>8. WrapperInv
    BY <1>1 DEF WrapperInv
<1> QED
    BY <1>2, <1>5, <1>6, <1>7, <1>8 DEF IInv

(* Every step keeps it.                                                    *)
LEMMA NextIInv == IInv /\ [Next]_vars => IInv'
<1> SUFFICES ASSUME IInv, [Next]_vars PROVE IInv'
    OBVIOUS
<1>1. ASSUME NEW i \in Installer, Scan(i)
      PROVE  IInv'
    BY <1>1, BeginScanKeeps, ProgramKeeps, FindCollectionKeeps, CreateCollectionKeeps, DetectKeeps,
       LookupKeeps, ConfigureKeeps, FindGenerationKeeps, CreateGenerationKeeps, PublishKeeps DEF Scan
<1>2. CASE Wrap
    BY <1>2, WrapKeeps
<1>3. CASE Environment
    BY <1>3, EnvironmentKeeps
<1>4. CASE UNCHANGED vars
    BY <1>4 DEF vars, IInv, CompilersTypeOK, ScanInv, StoreInv, WrapperInv, Running, Truthful
<1> QED
    BY <1>1, <1>2, <1>3, <1>4 DEF Next

(* Values of the variables, whatever the constants.                        *)
THEOREM CompilersTypeCorrect == Spec => []CompilersTypeOK
<1>1. IInv => CompilersTypeOK
    BY DEF IInv
<1> QED
    BY <1>1, InitIInv, NextIInv, PTL DEF Spec

(* The wrapper runs the compiler its package is named after: any number of *)
(* scans at once, of commands, builds and changes to the machine.          *)
THEOREM WrapperRunsAsNamed == Spec => []RunsAsNamed
<1>1. IInv => RunsAsNamed
    <2> SUFFICES ASSUME IInv, wrapper.pc = "runs", wrapper.steady, wrapper.package.calm
                 PROVE  /\ wrapper.ran.version = wrapper.package.version
                        /\ Language(wrapper.ran, wrapper.config.switches) = wrapper.package.name
        BY DEF RunsAsNamed
    <2>1. /\ wrapper.ran \in Build /\ wrapper.ran.output = wrapper.config.output
          /\ Truthful(wrapper.package)
          /\ wrapper.config = wrapper.package.config /\ wrapper.config # Nothing
        BY DEF IInv, CompilersTypeOK, WrapperInv
    <2>2. wrapper.package.config # Nothing
        BY <2>1
    <2>3. PICK b \in Build : /\ wrapper.package.version = b.version
                             /\ wrapper.package.name = Language(b, wrapper.package.config.switches)
                             /\ wrapper.package.config.output = b.output
        BY <2>1, <2>2, Zenon DEF Truthful
    <2>4. b = wrapper.ran
        BY <2>1, <2>3, BuildAssumption
    <2> QED
        BY <2>1, <2>3, <2>4
<1> QED
    BY <1>1, InitIInv, NextIInv, PTL DEF Spec
=============================================================================
