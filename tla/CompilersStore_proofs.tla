------------------------ MODULE CompilersStore_proofs ------------------------
(***************************************************************************)
(* As long as one scan runs at a time, every dependency of an installed    *)
(* compiler names one package, so that the commands of Spock can read the  *)
(* store (StoreReadable).  The argument: a scan creates a collection or a  *)
(* code generation only if it found none, and nobody else creates any, so  *)
(* that no two of a name and a version are there at once, and a lookup     *)
(* lists one or none.  Removals only take away.                            *)
(*                                                                         *)
(* Nor is a compiler of the default generation installed twice             *)
(* (NoSecondPackage): a package of the same configuration would have the   *)
(* same executable, and a lookup compares executables.                     *)
(*                                                                         *)
(* And a scan is complete (ScanComplete), also beside other scans: as long *)
(* as nobody else changes the machine or the store, packages are only      *)
(* added, and a scan leaves behind no switches of which it does not know   *)
(* that the command rejects them or that a package provides them.          *)
(***************************************************************************)
EXTENDS Compilers_proofs, FiniteSetTheorems

OneScan == \A i, j \in Installer : i = j

Single(S) == \E x : S = {x}

(* A package that a lookup for one of its kind, name and version lists.    *)
Matches(h, kind, name, version) ==
    h \in Live /\ store[h].kind = kind /\ store[h].name = name /\ store[h].version = version

Unique ==
    \A kind \in {"collection", "generation"}, g, h \in DOMAIN store :
        \A name, version :
            Matches(g, kind, name, version) /\ Matches(h, kind, name, version) => g = h

Resolved ==
    \A h \in CompilerPackages : Single(store[h].collection) /\ Single(store[h].generation)

(* What a scan has looked up, and what it found missing is missing still.  *)
ScanLookups(s) ==
    /\ s.pc = "new-collection" =>
          \A h \in DOMAIN store : ~ Matches(h, "collection", "system-compilers", s.version)
    /\ s.pc = "new-generation" =>
          \A h \in DOMAIN store : ~ Matches(h, "generation", Attempt[s.try].generation, "spock")
    /\ s.pc \in {"detect"} \cup Asking => Single(s.collection)
    /\ s.pc = "publish" => Single(s.generation)

LookupInv ==
    /\ Unique
    /\ Resolved
    /\ \A i \in Installer : ScanLookups(installer[i])

-----------------------------------------------------------------------------
(* Packages whose dependencies are resolved can be read.                   *)
LEMMA ResolvedIsReadable == Resolved => Readable
<1> SUFFICES ASSUME Resolved, NEW h \in CompilerPackages
             PROVE  Cardinality(store[h].collection) = 1 /\ Cardinality(store[h].generation) = 1
    BY DEF Readable
<1>1. PICK c : store[h].collection = {c}
    BY DEF Resolved, Single
<1>2. PICK g : store[h].generation = {g}
    BY DEF Resolved, Single
<1> QED
    BY <1>1, <1>2, FS_Singleton

(* A lookup lists one package or none, and none only if there is none.     *)
LEMMA LookupFindsOne ==
    ASSUME LookupInv, NEW kind \in {"collection", "generation"}, NEW name, NEW version
    PROVE  \/ Single(Listed(kind, name, version))
           \/ /\ Listed(kind, name, version) = {}
              /\ \A h \in DOMAIN store : ~ Matches(h, kind, name, version)
<1> DEFINE found == Listed(kind, name, version)
<1>1. Readable
    BY ResolvedIsReadable DEF LookupInv
<1>2. \A h : h \in found <=> h \in DOMAIN store /\ Matches(h, kind, name, version)
    BY <1>1 DEF Listed, Matches, Live
<1>3. CASE found = {}
    BY <1>2, <1>3
<1>4. CASE found # {}
    <2>1. PICK h : h \in found
        BY <1>4
    <2>2. \A g \in found : g = h
        BY <1>2, <2>1 DEF LookupInv, Unique
    <2>3. found = {h}
        BY <2>1, <2>2
    <2> QED
        BY <2>3 DEF Single
<1> QED
    BY <1>3, <1>4

-----------------------------------------------------------------------------
(* The only scan moves on to r.                                            *)
LEMMA OnlyScanMoves ==
    ASSUME OneScan, CompilersTypeOK, NEW i \in Installer, NEW r, Update(i, r),
           Unique', Resolved', ScanLookups(r)'
    PROVE  LookupInv'
<1>1. ASSUME NEW j \in Installer
      PROVE  ScanLookups(installer[j])'
    <2>1. installer'[j] = r
        BY DEF OneScan, Update, CompilersTypeOK
    <2> QED
        BY <2>1 DEF ScanLookups, Matches, Live
<1> QED
    BY <1>1 DEF LookupInv

(* As long as the store stays the same, so does what holds of it.          *)
LEMMA SameStore ==
    ASSUME LookupInv, UNCHANGED store
    PROVE  /\ Unique' /\ Resolved'
           /\ \A s : ScanLookups(s) => ScanLookups(s)'
BY DEF LookupInv, Unique, Resolved, ScanLookups, Matches, CompilerPackages, Live

(* A new package at the end of the store.                                  *)
LEMMA StoreGrows ==
    ASSUME CompilersTypeOK, LookupInv, NEW p \in Package, store' = Append(store, p),
           p.kind = "compiler" => Single(p.collection) /\ Single(p.generation),
           p.kind # "compiler" =>
               \A h \in DOMAIN store : ~ Matches(h, p.kind, p.name, p.version)
    PROVE  Unique' /\ Resolved'
<1>1. store \in Seq(Optional(Package)) /\ p \in Optional(Package)
    BY DEF CompilersTypeOK, Optional
<1>2. /\ DOMAIN store' = DOMAIN store \cup {NextHash}
      /\ \A h \in DOMAIN store : store'[h] = store[h]
      /\ store'[NextHash] = p
    <2>1. /\ DOMAIN store' = 1..(Len(store) + 1)
          /\ Len(store) \in Nat
          /\ DOMAIN store = 1..Len(store)
          /\ \A h \in 1..Len(store) : store'[h] = store[h]
          /\ store'[Len(store) + 1] = p
        BY <1>1, AppendProperties
    <2> QED
        BY <2>1 DEF NextHash
<1>3. Unique'
    <2> SUFFICES ASSUME NEW kind \in {"collection", "generation"}, NEW g \in DOMAIN store',
                        NEW h \in DOMAIN store', NEW name, NEW version,
                        Matches(g, kind, name, version)', Matches(h, kind, name, version)'
                 PROVE  g = h
        BY DEF Unique
    <2>1. \A k \in DOMAIN store : Matches(k, kind, name, version)' => Matches(k, kind, name, version)
        BY <1>2 DEF Matches, Live
    <2>2. \A k : k = NextHash /\ Matches(k, kind, name, version)' =>
                     p.kind = kind /\ p.name = name /\ p.version = version
        BY <1>2 DEF Matches, Live
    <2>3. CASE g \in DOMAIN store /\ h \in DOMAIN store
        BY <2>1, <2>3 DEF LookupInv, Unique
    <2>4. CASE g = NextHash /\ h \in DOMAIN store
        BY <2>1, <2>2, <2>4
    <2>5. CASE g \in DOMAIN store /\ h = NextHash
        BY <2>1, <2>2, <2>5
    <2>6. CASE g = NextHash /\ h = NextHash
        BY <2>6
    <2> QED
        BY <1>2, <2>3, <2>4, <2>5, <2>6
<1>4. Resolved'
    <2> SUFFICES ASSUME NEW h \in CompilerPackages'
                 PROVE  Single(store'[h].collection) /\ Single(store'[h].generation)
        BY DEF Resolved, Single
    <2>1. h \in DOMAIN store' /\ store'[h] # Nothing /\ store'[h].kind = "compiler"
        BY DEF CompilerPackages, Live
    <2>2. CASE h \in DOMAIN store
        BY <1>2, <2>1, <2>2 DEF LookupInv, Resolved, CompilerPackages, Live
    <2>3. CASE h = NextHash
        BY <1>2, <2>1, <2>3
    <2> QED
        BY <1>2, <2>1, <2>2, <2>3
<1> QED
    BY <1>3, <1>4

(* Packages are taken away.                                                *)
LEMMA StoreShrinks ==
    ASSUME LookupInv, UNCHANGED installer, DOMAIN store' = DOMAIN store,
           \A h \in DOMAIN store : store'[h] # Nothing => store'[h] = store[h]
    PROVE  LookupInv'
<1>1. \A h \in Live' : h \in Live /\ store'[h] = store[h]
    BY DEF Live
<1>2. \A h, kind, name, version :
          Matches(h, kind, name, version)' => Matches(h, kind, name, version)
    BY <1>1 DEF Matches
<1>3. Unique'
    BY <1>2 DEF LookupInv, Unique
<1>4. Resolved'
    BY <1>1 DEF LookupInv, Resolved, CompilerPackages, Single
<1>5. \A i \in Installer : ScanLookups(installer[i])'
    BY <1>2 DEF LookupInv, ScanLookups
<1> QED
    BY <1>3, <1>4, <1>5 DEF LookupInv

-----------------------------------------------------------------------------
(* What a scan does.                                                       *)
LEMMA ScanKeepsLookups ==
    ASSUME OneScan, IInv, LookupInv, NEW i \in Installer, Scan(i)
    PROVE  LookupInv'
<1> DEFINE s == installer[i]
<1>1. s \in ScanState /\ ScanInv(s) /\ ScanLookups(s) /\ CompilersTypeOK
    BY DEF IInv, CompilersTypeOK, LookupInv
<1>2. ASSUME NEW r, Update(i, r), UNCHANGED store, ScanLookups(r)
      PROVE  LookupInv'
    BY <1>1, <1>2, OnlyScanMoves, SameStore
<1>3. ScanLookups(NextProgram(s))
    BY DEF ScanLookups, NextProgram, Idle, Asking
<1>4. s.pc \in {"detect"} \cup Asking => ScanLookups(NextTry(s))
    BY <1>1 DEF ScanLookups, NextTry, ScanState, Asking
<1>5. CASE BeginScan(i)
    <2> DEFINE r == [Idle EXCEPT !.pc = "program", !.start = clock]
    <2>1. Update(i, r) /\ UNCHANGED store
        BY <1>5 DEF BeginScan
    <2>2. ScanLookups(r)
        BY DEF ScanLookups, Idle, Asking
    <2> QED
        BY <1>2, <2>1, <2>2
<1>6. CASE Program(i)
    <2> DEFINE b == Running(Command[s.cmd])
               last == [Idle EXCEPT !.pc = "done", !.start = s.start]
               r == [s EXCEPT !.pc = "collection", !.since = clock, !.version = b.version]
    <2>1. UNCHANGED store /\ (Update(i, last) \/ Update(i, NextProgram(s)) \/ Update(i, r))
        BY <1>6 DEF Program
    <2>2. ScanLookups(last)
        BY DEF ScanLookups, Idle, Asking
    <2>3. ScanLookups(r)
        BY <1>1 DEF ScanLookups, ScanState, Asking
    <2> HIDE DEF r, last
    <2> QED
        BY <1>2, <1>3, <2>1, <2>2, <2>3
<1>7. CASE FindCollection(i)
    <2> DEFINE found == Listed("collection", "system-compilers", s.version)
               make == [s EXCEPT !.pc = "new-collection"]
               take == [s EXCEPT !.pc = "detect", !.collection = found, !.version = Nothing]
    <2>1. UNCHANGED store
          /\ IF found = {} THEN Update(i, make) ELSE Update(i, take)
        BY <1>7 DEF FindCollection
    <2>2. \/ Single(found)
          \/ found = {} /\ \A h \in DOMAIN store : ~ Matches(h, "collection", "system-compilers", s.version)
        BY LookupFindsOne
    <2> HIDE DEF found
    <2>3. CASE found = {}
        <3>1. \A h \in DOMAIN store : ~ Matches(h, "collection", "system-compilers", s.version)
            BY <2>2, <2>3 DEF Single
        <3>2. ScanLookups(make)
            BY <1>1, <3>1 DEF ScanLookups, ScanState, Asking
        <3> QED
            BY <1>2, <2>1, <2>3, <3>2
    <2>4. CASE found # {}
        <3>1. ScanLookups(take)
            BY <1>1, <2>2, <2>4 DEF ScanLookups, ScanState, Asking
        <3> QED
            BY <1>2, <2>1, <2>4, <3>1
    <2> QED
        BY <2>3, <2>4
<1>8. CASE CreateCollection(i)
    <2> DEFINE p == Pseudo("collection", "system-compilers", s.version)
               r == [s EXCEPT !.pc = "detect", !.collection = {NextHash}, !.version = Nothing]
    <2>1. s.pc = "new-collection" /\ store' = Append(store, p) /\ Update(i, r)
        BY <1>8 DEF CreateCollection
    <2>2. p \in Package
        BY <1>1, <2>1 DEF Pseudo, Package, ScanInv, Optional
    <2>3. p.kind = "collection" /\ p.name = "system-compilers" /\ p.version = s.version
        BY DEF Pseudo
    <2>4. Unique' /\ Resolved'
        <3> HIDE DEF p
        <3> QED
            BY <1>1, <2>1, <2>2, <2>3, StoreGrows DEF ScanLookups
    <2>5. PICK q : q = r
        OBVIOUS
    <2>6. q.pc = "detect" /\ Single(q.collection)
        BY <1>1, <2>5 DEF ScanState, Single
    <2>7. ScanLookups(q)'
        BY <2>6 DEF ScanLookups, Asking
    <2> HIDE DEF r
    <2>8. Update(i, q)
        BY <2>1, <2>5
    <2> QED
        BY <1>1, <2>4, <2>7, <2>8, OnlyScanMoves
<1>9. CASE Detect(i)
    <2> DEFINE b == Running(Command[s.cmd])
               l == Language(b, Attempt[s.try])
               r == [s EXCEPT !.pc = "lookup", !.version = b.version, !.language = l]
    <2>1. /\ s.pc = "detect" /\ UNCHANGED store
          /\ Update(i, NextProgram(s)) \/ Update(i, NextTry(s)) \/ Update(i, r)
        BY <1>9 DEF Detect
    <2>2. ScanLookups(r)
        BY <1>1, <2>1 DEF ScanLookups, ScanState, Asking
    <2> HIDE DEF r
    <2> QED
        BY <1>2, <1>3, <1>4, <2>1, <2>2
<1>10. CASE Lookup(i)
    <2> DEFINE r == [s EXCEPT !.pc = "configure"]
    <2>1. s.pc = "lookup" /\ UNCHANGED store /\ (Update(i, NextTry(s)) \/ Update(i, r))
        BY <1>10 DEF Lookup
    <2>2. ScanLookups(r)
        BY <1>1, <2>1 DEF ScanLookups, ScanState, Asking
    <2> QED
        BY <1>2, <1>4, <2>1, <2>2 DEF Asking
<1>11. CASE Configure(i)
    <2> DEFINE r == [s EXCEPT !.pc = "generation",
                              !.config = Configuration(Command[s.cmd], Attempt[s.try])]
    <2>1. s.pc = "configure" /\ UNCHANGED store /\ Update(i, r)
        BY <1>11 DEF Configure
    <2>2. ScanLookups(r)
        BY <1>1, <2>1 DEF ScanLookups, ScanState, Asking
    <2> QED
        BY <1>2, <2>1, <2>2
<1>12. CASE FindGeneration(i)
    <2> DEFINE name == Attempt[s.try].generation
               found == Listed("generation", name, "spock")
               make == [s EXCEPT !.pc = "new-generation"]
               take == [s EXCEPT !.pc = "publish", !.generation = found]
    <2>1. s.pc = "generation" /\ UNCHANGED store
          /\ IF found = {} THEN Update(i, make) ELSE Update(i, take)
        BY <1>12 DEF FindGeneration
    <2>2. \/ Single(found)
          \/ found = {} /\ \A h \in DOMAIN store : ~ Matches(h, "generation", name, "spock")
        BY LookupFindsOne
    <2> HIDE DEF found
    <2>3. CASE found = {}
        <3>1. \A h \in DOMAIN store : ~ Matches(h, "generation", name, "spock")
            BY <2>2, <2>3 DEF Single
        <3>2. make.try = s.try /\ make.pc = "new-generation" /\ make.collection = s.collection
            BY <1>1 DEF ScanState
        <3> HIDE DEF make
        <3>3. ScanLookups(make)
            BY <1>1, <2>1, <3>1, <3>2 DEF ScanLookups, Asking
        <3> QED
            BY <1>2, <2>1, <2>3, <3>3
    <2>4. CASE found # {}
        <3>1. ScanLookups(take)
            BY <1>1, <2>1, <2>2, <2>4 DEF ScanLookups, ScanState, Asking
        <3> QED
            BY <1>2, <2>1, <2>4, <3>1
    <2> QED
        BY <2>3, <2>4
<1>13. CASE CreateGeneration(i)
    <2> DEFINE name == Attempt[s.try].generation
               p == Pseudo("generation", name, "spock")
               r == [s EXCEPT !.pc = "publish", !.generation = {NextHash}]
    <2>1. s.pc = "new-generation" /\ store' = Append(store, p) /\ Update(i, r)
        BY <1>13 DEF CreateGeneration
    <2>2. name \in Generations
        BY <1>1, <2>1, ListElements DEF ScanState, ScanInv, Asking, Generations
    <2>3. p \in Package
        BY <2>2 DEF Pseudo, Package, Optional
    <2>4. p.kind = "generation" /\ p.name = name /\ p.version = "spock"
        BY DEF Pseudo
    <2>5. Unique' /\ Resolved'
        <3> HIDE DEF p
        <3> QED
            BY <1>1, <2>1, <2>3, <2>4, StoreGrows DEF ScanLookups
    <2>6. PICK q : q = r
        OBVIOUS
    <2>7. q.pc = "publish" /\ Single(q.generation) /\ q.collection = s.collection
        BY <1>1, <2>6 DEF ScanState, Single
    <2>8. Single(q.collection)
        BY <1>1, <2>1, <2>7 DEF ScanLookups, Asking
    <2>9. ScanLookups(q)'
        BY <2>7, <2>8 DEF ScanLookups
    <2> HIDE DEF r
    <2>10. Update(i, q)
        BY <2>1, <2>6
    <2> QED
        BY <1>1, <2>5, <2>9, <2>10, OnlyScanMoves
<1>14. CASE Publish(i)
    <2> DEFINE p == [kind |-> "compiler", name |-> s.language, version |-> s.version,
                     collection |-> s.collection, generation |-> s.generation,
                     config |-> s.config, calm |-> (s.since = clock)]
    <2>1. s.pc = "publish" /\ store' = Append(store, p) /\ Update(i, NextTry(s))
        BY <1>14 DEF Publish
    <2>2. p \in Package
        BY <1>1, <2>1 DEF ScanState, Package, ScanInv, Asking
    <2>3. p.kind = "compiler" /\ Single(p.collection) /\ Single(p.generation)
        BY <1>1, <2>1 DEF ScanLookups, Asking
    <2>4. Unique' /\ Resolved'
        <3> HIDE DEF p
        <3> QED
            BY <1>1, <2>1, <2>2, <2>3, StoreGrows
    <2>5. PICK q : q = NextTry(s)
        OBVIOUS
    <2>6. q.pc = "detect" /\ Single(q.collection)
        BY <1>1, <2>1, <2>5 DEF NextTry, ScanState, ScanLookups, Asking
    <2>7. ScanLookups(q)'
        BY <2>6 DEF ScanLookups
    <2>8. Update(i, q)
        BY <2>1, <2>5
    <2> QED
        BY <1>1, <2>4, <2>7, <2>8, OnlyScanMoves
<1> QED
    BY <1>5, <1>6, <1>7, <1>8, <1>9, <1>10, <1>11, <1>12, <1>13, <1>14 DEF Scan

-----------------------------------------------------------------------------
(* Nothing has been looked up at first.                                    *)
LEMMA InitLookups == Init => LookupInv
BY DEF Init, LookupInv, Unique, Resolved, ScanLookups, CompilerPackages, Live, Idle, Asking

(* And no step disturbs what lookups rely on.                              *)
LEMMA NextLookups ==
    ASSUME OneScan, IInv, LookupInv, [Next]_vars
    PROVE  LookupInv'
<1>1. ASSUME NEW i \in Installer, Scan(i)
      PROVE  LookupInv'
    BY <1>1, ScanKeepsLookups
<1>2. ASSUME NEW g, Remove(g)
      PROVE  LookupInv'
    BY <1>2, StoreShrinks DEF Remove
<1>3. CASE UNCHANGED <<store, installer>>
    BY <1>3, StoreShrinks
<1>4. Wrap => UNCHANGED <<store, installer>>
    BY DEF Wrap, Call, readConfigFile, validateExecutable, validateVersion, execCompiler, Exit, CanMove
<1>5. ASSUME Environment PROVE UNCHANGED <<store, installer>> \/ \E g : Remove(g)
    BY <1>5 DEF Environment, Upgrade, Relink
<1>6. UNCHANGED vars => UNCHANGED <<store, installer>>
    BY DEF vars
<1> QED
    BY <1>1, <1>2, <1>3, <1>4, <1>5, <1>6 DEF Next

(* With one scan at a time the commands of Spock can always read the       *)
(* store: no dependency of a compiler is the text of two packages.  For    *)
(* any number of scans in sequence, and whatever upgrades, removals and    *)
(* runs of the wrapper come in between.                                    *)
THEOREM StoreStaysReadable ==
    ASSUME OneScan
    PROVE  Spec => []StoreReadable
<1>1. Init => IInv /\ LookupInv
    BY InitIInv, InitLookups
<1>2. IInv /\ LookupInv /\ [Next]_vars => IInv' /\ LookupInv'
    BY NextIInv, NextLookups
<1>3. LookupInv => StoreReadable
    BY ResolvedIsReadable DEF LookupInv, StoreReadable
<1> QED
    BY <1>1, <1>2, <1>3, PTL DEF Spec

-----------------------------------------------------------------------------
(* A scan that has decided to install a default compiler knows of no       *)
(* package that runs the same command; what it will record is the command  *)
(* and the switches it is at.                                              *)
ScanDecision(s) ==
    /\ s.pc \in {"configure"} \cup Configured /\ Attempt[s.try].generation = "default" =>
          \A h \in CompilerPackages :
              store[h].name = s.language /\ store[h].version = s.version /\ store[h].config # Nothing =>
                  store[h].config.executable # Command[s.cmd]
    /\ s.pc \in Configured /\ s.config # Nothing =>
          s.config.executable = Command[s.cmd] /\ s.config.switches = Attempt[s.try]

OnceInv == NoSecondPackage /\ \A i \in Installer : ScanDecision(installer[i])

(* The only scan moves on to r, and no compiler is added.                  *)
LEMMA DecisionMoves ==
    ASSUME OneScan, CompilersTypeOK, OnceInv, NEW i \in Installer, NEW r, Update(i, r),
           \A h \in CompilerPackages' : h \in CompilerPackages /\ store'[h] = store[h],
           ScanDecision(r)
    PROVE  OnceInv'
<1>1. NoSecondPackage'
    BY DEF OnceInv, NoSecondPackage
<1>2. ASSUME NEW j \in Installer
      PROVE  ScanDecision(installer[j])'
    <2>1. installer'[j] = r
        BY DEF OneScan, Update, CompilersTypeOK
    <2>2. ScanDecision(r)'
        BY DEF ScanDecision
    <2> QED
        BY <2>1, <2>2 DEF ScanDecision
<1> QED
    BY <1>1, <1>2 DEF OnceInv

(* Compilers are taken away, or none is added.                             *)
LEMMA DecisionStays ==
    ASSUME OnceInv, UNCHANGED installer,
           \A h \in CompilerPackages' : h \in CompilerPackages /\ store'[h] = store[h]
    PROVE  OnceInv'
BY DEF OnceInv, NoSecondPackage, ScanDecision

(* A collection or a code generation is no compiler.                       *)
LEMMA PseudoIsNoCompiler ==
    ASSUME CompilersTypeOK, NEW p \in Package, p.kind # "compiler", store' = Append(store, p)
    PROVE  \A h \in CompilerPackages' : h \in CompilerPackages /\ store'[h] = store[h]
<1>1. store \in Seq(Optional(Package)) /\ p \in Optional(Package)
    BY DEF CompilersTypeOK, Optional
<1>2. /\ DOMAIN store' = 1..(Len(store) + 1)
      /\ Len(store) \in Nat
      /\ DOMAIN store = 1..Len(store)
      /\ \A h \in 1..Len(store) : store'[h] = store[h]
      /\ store'[Len(store) + 1] = p
    BY <1>1, AppendProperties
<1>3. \A h \in DOMAIN store' : h \in DOMAIN store \/ store'[h] = p
    BY <1>2
<1> QED
    BY <1>2, <1>3 DEF CompilerPackages, Live

(* No step of a scan adds a package for a compiler that has one.           *)
LEMMA ScanKeepsOnce ==
    ASSUME OneScan, IInv, LookupInv, OnceInv, NEW i \in Installer, Scan(i)
    PROVE  OnceInv'
<1> DEFINE s == installer[i]
<1>1. s \in ScanState /\ ScanInv(s) /\ ScanDecision(s) /\ CompilersTypeOK
    BY DEF IInv, CompilersTypeOK, OnceInv
<1>2. ASSUME NEW r, Update(i, r), UNCHANGED store, ScanDecision(r)
      PROVE  OnceInv'
    <2>1. \A h \in CompilerPackages' : h \in CompilerPackages /\ store'[h] = store[h]
        BY <1>2 DEF CompilerPackages, Live
    <2> QED
        BY <1>1, <1>2, <2>1, DecisionMoves
<1>3. \A r : r.pc \notin {"configure"} \cup Configured => ScanDecision(r)
    BY DEF ScanDecision
<1>4. ScanDecision(NextProgram(s)) /\ ScanDecision(NextTry(s))
    BY <1>1 DEF ScanDecision, NextProgram, NextTry, Idle, ScanState, Configured
<1>5. CASE BeginScan(i)
    <2> DEFINE r == [Idle EXCEPT !.pc = "program", !.start = clock]
    <2>1. Update(i, r) /\ UNCHANGED store /\ r.pc = "program"
        BY <1>5 DEF BeginScan, Idle
    <2> QED
        BY <1>2, <1>3, <2>1 DEF Configured
<1>6. CASE Program(i)
    <2> DEFINE b == Running(Command[s.cmd])
               last == [Idle EXCEPT !.pc = "done", !.start = s.start]
               r == [s EXCEPT !.pc = "collection", !.since = clock, !.version = b.version]
    <2>1. UNCHANGED store /\ (Update(i, last) \/ Update(i, NextProgram(s)) \/ Update(i, r))
        BY <1>6 DEF Program
    <2>2. last.pc = "done" /\ r.pc = "collection"
        BY <1>1 DEF Idle, ScanState
    <2> HIDE DEF last, r
    <2>3. ScanDecision(last) /\ ScanDecision(r)
        BY <1>3, <2>2 DEF Configured
    <2> QED
        BY <1>2, <1>4, <2>1, <2>3
<1>7. CASE FindCollection(i)
    <2> DEFINE found == Listed("collection", "system-compilers", s.version)
               make == [s EXCEPT !.pc = "new-collection"]
               take == [s EXCEPT !.pc = "detect", !.collection = found, !.version = Nothing]
    <2>1. UNCHANGED store /\ (Update(i, make) \/ Update(i, take))
        BY <1>7 DEF FindCollection
    <2>2. make.pc = "new-collection" /\ take.pc = "detect"
        BY <1>1 DEF ScanState
    <2> HIDE DEF make, take
    <2>3. ScanDecision(make) /\ ScanDecision(take)
        BY <1>3, <2>2 DEF Configured
    <2> QED
        BY <1>2, <2>1, <2>3
<1>8. CASE CreateCollection(i)
    <2> DEFINE p == Pseudo("collection", "system-compilers", s.version)
               r == [s EXCEPT !.pc = "detect", !.collection = {NextHash}, !.version = Nothing]
    <2>1. s.pc = "new-collection" /\ store' = Append(store, p) /\ Update(i, r)
        BY <1>8 DEF CreateCollection
    <2>2. p \in Package /\ p.kind # "compiler"
        BY <1>1, <2>1 DEF Pseudo, Package, ScanInv, Optional
    <2>3. r.pc = "detect"
        BY <1>1 DEF ScanState
    <2> HIDE DEF p, r
    <2>4. ScanDecision(r)
        BY <1>3, <2>3 DEF Configured
    <2> QED
        BY <1>1, <2>1, <2>2, <2>4, PseudoIsNoCompiler, DecisionMoves
<1>9. CASE Detect(i)
    <2> DEFINE b == Running(Command[s.cmd])
               l == Language(b, Attempt[s.try])
               r == [s EXCEPT !.pc = "lookup", !.version = b.version, !.language = l]
    <2>1. UNCHANGED store /\ (Update(i, NextProgram(s)) \/ Update(i, NextTry(s)) \/ Update(i, r))
        BY <1>9 DEF Detect
    <2>2. r.pc = "lookup"
        BY <1>1 DEF ScanState
    <2> HIDE DEF r
    <2>3. ScanDecision(r)
        BY <1>3, <2>2 DEF Configured
    <2> QED
        BY <1>2, <1>4, <2>1, <2>3
<1>10. CASE Lookup(i)
    <2> DEFINE r == [s EXCEPT !.pc = "configure"]
    <2>1. s.pc = "lookup" /\ UNCHANGED store
          /\ IF AlreadyInstalled(s) THEN Update(i, NextTry(s)) ELSE Update(i, r)
        BY <1>10 DEF Lookup
    <2>2. CASE AlreadyInstalled(s)
        BY <1>2, <1>4, <2>1, <2>2
    <2>3. CASE ~ AlreadyInstalled(s)
        <3>1. r.pc = "configure" /\ r.try = s.try /\ r.cmd = s.cmd
              /\ r.language = s.language /\ r.version = s.version
            BY <1>1 DEF ScanState
        <3>2. ASSUME Attempt[s.try].generation = "default", NEW h \in CompilerPackages,
                     store[h].name = s.language, store[h].version = s.version,
                     store[h].config # Nothing
              PROVE  store[h].config.executable # Command[s.cmd]
            <4>1. h \in Listed("compiler", s.language, s.version)
                BY <3>2, ResolvedIsReadable DEF Listed, CompilerPackages, LookupInv
            <4> QED
                BY <2>3, <3>2, <4>1 DEF AlreadyInstalled
        <3> HIDE DEF r
        <3>3. ScanDecision(r)
            BY <3>1, <3>2 DEF ScanDecision, Configured
        <3> QED
            BY <1>2, <2>1, <2>3, <3>3
    <2> QED
        BY <2>2, <2>3
<1>11. CASE Configure(i)
    <2> DEFINE config == Configuration(Command[s.cmd], Attempt[s.try])
               r == [s EXCEPT !.pc = "generation", !.config = config]
    <2>1. s.pc = "configure" /\ UNCHANGED store /\ Update(i, r)
        BY <1>11 DEF Configure
    <2>2. config # Nothing => config.executable = Command[s.cmd] /\ config.switches = Attempt[s.try]
        BY DEF Configuration
    <2> HIDE DEF config
    <2>3. r.pc = "generation" /\ r.try = s.try /\ r.cmd = s.cmd /\ r.config = config
          /\ r.language = s.language /\ r.version = s.version
        BY <1>1 DEF ScanState
    <2> HIDE DEF r
    <2>4. ScanDecision(r)
        BY <1>1, <2>1, <2>2, <2>3 DEF ScanDecision, Configured
    <2> QED
        BY <1>2, <2>1, <2>4
<1>12. CASE FindGeneration(i)
    <2> DEFINE found == Listed("generation", Attempt[s.try].generation, "spock")
               make == [s EXCEPT !.pc = "new-generation"]
               take == [s EXCEPT !.pc = "publish", !.generation = found]
    <2>1. s.pc = "generation" /\ UNCHANGED store /\ (Update(i, make) \/ Update(i, take))
        BY <1>12 DEF FindGeneration
    <2> HIDE DEF found
    <2>2. ASSUME NEW r \in {make, take}
          PROVE  ScanDecision(r)
        <3>1. r.pc \in Configured /\ r.try = s.try /\ r.cmd = s.cmd /\ r.config = s.config
              /\ r.language = s.language /\ r.version = s.version
            BY <1>1, <2>2 DEF ScanState, Configured
        <3> QED
            BY <1>1, <2>1, <3>1 DEF ScanDecision, Configured
    <2> HIDE DEF make, take
    <2> QED
        BY <1>2, <2>1, <2>2
<1>13. CASE CreateGeneration(i)
    <2> DEFINE p == Pseudo("generation", Attempt[s.try].generation, "spock")
               r == [s EXCEPT !.pc = "publish", !.generation = {NextHash}]
    <2>1. s.pc = "new-generation" /\ store' = Append(store, p) /\ Update(i, r)
        BY <1>13 DEF CreateGeneration
    <2>2. Attempt[s.try].generation \in Generations
        BY <1>1, <2>1, ListElements DEF ScanState, ScanInv, Asking, Generations
    <2>3. p \in Package /\ p.kind # "compiler"
        BY <2>2 DEF Pseudo, Package, Optional
    <2>4. r.pc = "publish" /\ r.try = s.try /\ r.cmd = s.cmd /\ r.config = s.config
          /\ r.language = s.language /\ r.version = s.version
        BY <1>1 DEF ScanState
    <2> HIDE DEF p, r
    <2>5. ScanDecision(r)
        BY <1>1, <2>1, <2>4 DEF ScanDecision, Configured
    <2> QED
        BY <1>1, <2>1, <2>3, <2>5, PseudoIsNoCompiler, DecisionMoves
<1>14. CASE Publish(i)
    <2> DEFINE p == [kind |-> "compiler", name |-> s.language, version |-> s.version,
                     collection |-> s.collection, generation |-> s.generation,
                     config |-> s.config, calm |-> (s.since = clock)]
    <2>1. s.pc = "publish" /\ store' = Append(store, p) /\ Update(i, NextTry(s))
        BY <1>14 DEF Publish
    <2>2. p \in Package
        BY <1>1, <2>1 DEF ScanState, Package, ScanInv, Asking
    <2>3. p.name = s.language /\ p.version = s.version /\ p.config = s.config
        OBVIOUS
    <2> HIDE DEF p
    <2>4. /\ DOMAIN store' = 1..(Len(store) + 1)
          /\ Len(store) \in Nat
          /\ DOMAIN store = 1..Len(store)
          /\ \A h \in 1..Len(store) : store'[h] = store[h]
          /\ store'[Len(store) + 1] = p
        <3>1. store \in Seq(Optional(Package)) /\ p \in Optional(Package)
            BY <1>1, <2>2 DEF CompilersTypeOK, Optional
        <3> QED
            BY <2>1, <3>1, AppendProperties
    <2>5. \A h \in CompilerPackages' :
              \/ h \in CompilerPackages /\ store'[h] = store[h]
              \/ h = Len(store) + 1 /\ store'[h] = p
        BY <2>4 DEF CompilerPackages, Live
    <2>6. ASSUME NEW h \in CompilerPackages, p.config # Nothing, store[h].config = p.config,
                 p.config.switches.generation = "default",
                 store[h].name = p.name, store[h].version = p.version
          PROVE  FALSE
        <3>1. s.config.executable = Command[s.cmd] /\ s.config.switches = Attempt[s.try]
            BY <1>1, <2>1, <2>3, <2>6 DEF ScanDecision, Configured
        <3> QED
            BY <1>1, <2>1, <2>3, <2>6, <3>1 DEF ScanDecision, Configured
    <2>7. NoSecondPackage'
        <3> SUFFICES ASSUME NEW h \in CompilerPackages', NEW k \in CompilerPackages',
                            store'[h].config # Nothing, store'[h].config = store'[k].config,
                            store'[h].config.switches.generation = "default",
                            store'[h].name = store'[k].name, store'[h].version = store'[k].version
                     PROVE  h = k
            BY DEF NoSecondPackage
        <3>1. CASE h \in CompilerPackages /\ store'[h] = store[h] /\ k \in CompilerPackages /\ store'[k] = store[k]
            BY <3>1 DEF OnceInv, NoSecondPackage
        <3>2. CASE h \in CompilerPackages /\ store'[h] = store[h] /\ store'[k] = p
            BY <2>6, <3>2
        <3>3. CASE store'[h] = p /\ k \in CompilerPackages /\ store'[k] = store[k]
            BY <2>6, <3>3
        <3>4. CASE h = Len(store) + 1 /\ k = Len(store) + 1
            BY <3>4
        <3> QED
            BY <2>5, <3>1, <3>2, <3>3, <3>4
    <2>8. PICK q : q = NextTry(s)
        OBVIOUS
    <2>9. q.pc = "detect" /\ Update(i, q)
        BY <1>1, <2>1, <2>8 DEF NextTry, ScanState
    <2>10. ASSUME NEW j \in Installer
           PROVE  ScanDecision(installer[j])'
        <3>1. installer'[j] = q
            BY <1>1, <2>9 DEF OneScan, Update, CompilersTypeOK
        <3> QED
            BY <2>9, <3>1 DEF ScanDecision, Configured
    <2> QED
        BY <2>7, <2>10 DEF OnceInv
<1> QED
    BY <1>5, <1>6, <1>7, <1>8, <1>9, <1>10, <1>11, <1>12, <1>13, <1>14 DEF Scan

(* There is one package at most for a compiler at first.                   *)
LEMMA InitOnce == Init => OnceInv
BY DEF Init, OnceInv, NoSecondPackage, ScanDecision, CompilerPackages, Live, Idle, Configured

(* And every step keeps it so.                                             *)
LEMMA NextOnce ==
    ASSUME OneScan, IInv, LookupInv, OnceInv, [Next]_vars
    PROVE  OnceInv'
<1>1. ASSUME NEW i \in Installer, Scan(i)
      PROVE  OnceInv'
    BY <1>1, ScanKeepsOnce
<1>2. ASSUME NEW g, Remove(g)
      PROVE  OnceInv'
    <2>1. \A h \in CompilerPackages' : h \in CompilerPackages /\ store'[h] = store[h]
        BY <1>2 DEF Remove, CompilerPackages, Live
    <2> QED
        BY <1>2, <2>1, DecisionStays DEF Remove
<1>3. CASE UNCHANGED <<store, installer>>
    BY <1>3, DecisionStays DEF CompilerPackages, Live
<1>4. Wrap => UNCHANGED <<store, installer>>
    BY DEF Wrap, Call, readConfigFile, validateExecutable, validateVersion, execCompiler, Exit, CanMove
<1>5. ASSUME Environment PROVE UNCHANGED <<store, installer>> \/ \E g : Remove(g)
    BY <1>5 DEF Environment, Upgrade, Relink
<1>6. UNCHANGED vars => UNCHANGED <<store, installer>>
    BY DEF vars
<1> QED
    BY <1>1, <1>2, <1>3, <1>4, <1>5, <1>6 DEF Next

(* With one scan at a time no compiler of the default generation is        *)
(* installed twice, however often scans are run and whatever commands are  *)
(* linked to in between.                                                   *)
THEOREM DefaultsInstalledOnce ==
    ASSUME OneScan
    PROVE  Spec => []NoSecondPackage
<1>1. Init => IInv /\ LookupInv /\ OnceInv
    BY InitIInv, InitLookups, InitOnce
<1>2. IInv /\ LookupInv /\ OnceInv /\ [Next]_vars => IInv' /\ LookupInv' /\ OnceInv'
    BY NextIInv, NextLookups, NextOnce
<1>3. OnceInv => NoSecondPackage
    BY DEF OnceInv
<1> QED
    BY <1>1, <1>2, <1>3, PTL DEF Spec

-----------------------------------------------------------------------------
(* A scan that nobody interferes with: what it has gone through so far is  *)
(* installed.                                                              *)
AllCalm == \A h \in CompilerPackages : store[h].calm

Supports(d) == d \in Live /\ store[d].kind # "compiler"

(* What a package installed in calm depends on is still there.             *)
CalmInv ==
    \A h \in CompilerPackages : store[h].calm =>
        \A d \in store[h].collection \cup store[h].generation : Supports(d)

(* The same of what a scan is about to install, as long as it is calm.     *)
SupplyInv(s) ==
    /\ s.start <= clock
    /\ s.pc \in {"collection", "new-collection", "detect"} \cup Asking => s.start <= s.since
    /\ s.pc \in {"detect"} \cup Asking /\ s.since = clock => \A d \in s.collection : Supports(d)
    /\ s.pc = "publish" /\ s.since = clock => \A d \in s.generation : Supports(d)
    /\ s.pc \in Configured /\ s.since = clock => s.config # Nothing

(* What command c accepts with switches a is installed.                    *)
Found(c, a) ==
    Language(Running(c), a) # Nothing /\ Language(Running(c), Plain) # Nothing =>
        \E h \in Live : Provides(store[h], c, a)

(* A scan has tried the switches at k of the command at m.                 *)
Tried(s, m, k) == s.pc = "done" \/ m < s.cmd \/ (m = s.cmd /\ k < s.try)

ProgressInv(s) ==
    s.start = clock /\ AllCalm =>
        \A m \in DOMAIN Command, k \in DOMAIN Attempt :
            Tried(s, m, k) => Found(Command[m], Attempt[k])

CompleteInv ==
    /\ CalmInv
    /\ \A i \in Installer : SupplyInv(installer[i]) /\ ProgressInv(installer[i])

(* The machine stays as it is, and packages are only added.                *)
Quiet ==
    /\ UNCHANGED <<link, content, clock>>
    /\ DOMAIN store \subseteq DOMAIN store'
    /\ \A h \in DOMAIN store : store'[h] = store[h]

(* What was found is found still, and what is calm now was calm before.    *)
LEMMA QuietKeeps ==
    ASSUME Quiet
    PROVE  /\ \A d : Supports(d) => Supports(d)'
           /\ \A c, a : Found(c, a) => Found(c, a)'
           /\ AllCalm' => AllCalm
           /\ \A s : SupplyInv(s) => SupplyInv(s)'
           /\ \A s : ProgressInv(s) => ProgressInv(s)'
<1>1. /\ UNCHANGED <<link, content, clock>>
      /\ \A h \in Live : h \in Live' /\ store'[h] = store[h]
    BY DEF Quiet, Live
<1>2. ASSUME NEW d, Supports(d) PROVE Supports(d)'
    BY <1>1, <1>2 DEF Supports
<1>3. ASSUME NEW c, NEW a, Found(c, a) PROVE Found(c, a)'
    <2>1. Running(c)' = Running(c)
        BY <1>1 DEF Running
    <2>2. ASSUME NEW h \in Live, Provides(store[h], c, a) PROVE Provides(store[h], c, a)'
        <3>1. PICK p : p = store[h]
            OBVIOUS
        <3>2. Provides(p, c, a)'
            BY <1>1, <2>1, <2>2, <3>1 DEF Provides
        <3> QED
            BY <1>1, <3>1, <3>2 DEF Provides
    <2> QED
        BY <1>1, <1>3, <2>1, <2>2 DEF Found
<1>4. AllCalm' => AllCalm
    BY <1>1 DEF AllCalm, CompilerPackages
<1>5. ASSUME NEW s, SupplyInv(s) PROVE SupplyInv(s)'
    BY <1>1, <1>2, <1>5 DEF SupplyInv
<1>6. ASSUME NEW s, ProgressInv(s) PROVE ProgressInv(s)'
    BY <1>1, <1>3, <1>4, <1>6 DEF ProgressInv, Tried
<1> QED
    BY <1>2, <1>3, <1>4, <1>5, <1>6

(* A scan moves on to r.                                                   *)
LEMMA ScanProgresses ==
    ASSUME CompilersTypeOK, CompleteInv, Quiet, CalmInv', NEW i \in Installer, NEW r, Update(i, r),
           SupplyInv(r)', ProgressInv(r)'
    PROVE  CompleteInv'
<1>1. ASSUME NEW j \in Installer
      PROVE  SupplyInv(installer[j])' /\ ProgressInv(installer[j])'
    <2>1. PICK t : t = installer'[j]
        OBVIOUS
    <2>2. t = r \/ t = installer[j]
        BY <2>1 DEF Update, CompilersTypeOK
    <2>3. SupplyInv(t)' /\ ProgressInv(t)'
        BY <2>2, QuietKeeps DEF CompleteInv
    <2> QED
        BY <2>1, <2>3 DEF SupplyInv, ProgressInv, Tried
<1> QED
    BY <1>1 DEF CompleteInv

(* Nothing but the wrapper, or nothing at all, changes.                    *)
LEMMA ScansRest ==
    ASSUME CompleteInv, UNCHANGED <<link, content, clock, store, installer>>
    PROVE  CompleteInv'
<1>1. Quiet
    BY DEF Quiet
<1>2. CalmInv'
    BY DEF CompleteInv, CalmInv, Supports, CompilerPackages, Live
<1>3. ASSUME NEW j \in Installer
      PROVE  SupplyInv(installer[j])' /\ ProgressInv(installer[j])'
    <2>1. PICK t : t = installer[j]
        OBVIOUS
    <2>2. SupplyInv(t)' /\ ProgressInv(t)'
        BY <1>1, <2>1, QuietKeeps DEF CompleteInv
    <2>3. t = installer'[j]
        BY <2>1
    <2> QED
        BY <2>2, <2>3 DEF SupplyInv, ProgressInv, Tried
<1> QED
    BY <1>2, <1>3 DEF CompleteInv

(* Someone else changes the machine or the store.                          *)
LEMMA EnvironmentInterferes ==
    ASSUME IInv, CompleteInv, Environment
    PROVE  CompleteInv'
<1>1. clock \in Nat /\ clock' = clock + 1 /\ UNCHANGED installer
    BY DEF IInv, CompilersTypeOK, Environment, Upgrade, Relink, Remove
<1>2. ASSUME NEW i \in Installer
      PROVE  SupplyInv(installer[i])' /\ ProgressInv(installer[i])'
    <2>1. PICK s : s = installer[i]
        OBVIOUS
    <2>2. s \in ScanState /\ s.since <= clock /\ s.start <= clock
        BY <2>1 DEF IInv, CompilersTypeOK, ScanInv, CompleteInv, SupplyInv
    <2>3. s.since # clock' /\ s.start # clock' /\ s.start <= clock'
        BY <1>1, <2>2 DEF ScanState
    <2>4. SupplyInv(s)
        BY <2>1 DEF CompleteInv
    <2>5. SupplyInv(s)' /\ ProgressInv(s)'
        BY <2>3, <2>4 DEF SupplyInv, ProgressInv
    <2> QED
        BY <1>1, <2>1, <2>5 DEF SupplyInv, ProgressInv, Tried
<1>3. CalmInv'
    <2>1. CASE UNCHANGED store
        BY <2>1 DEF CompleteInv, CalmInv, Supports, CompilerPackages, Live
    <2>2. CASE \E g \in DOMAIN store :
                 store' = [k \in DOMAIN store |-> IF k \in Removed(g) THEN Nothing ELSE store[k]]
        <3>1. PICK g : store' = [k \in DOMAIN store |-> IF k \in Removed(g) THEN Nothing ELSE store[k]]
            BY <2>2
        <3>2. \A h \in Live' : h \in Live /\ h \notin Removed(g) /\ store'[h] = store[h]
            BY <3>1 DEF Live
        <3>3. ASSUME NEW h \in CompilerPackages', store'[h].calm,
                     NEW d \in store'[h].collection \cup store'[h].generation
              PROVE  Supports(d)'
            <4>1. h \in CompilerPackages /\ h \notin Removed(g) /\ store'[h] = store[h]
                BY <3>2 DEF CompilerPackages
            <4>2. Supports(d)
                BY <3>3, <4>1 DEF CompleteInv, CalmInv
            <4>3. d # g
                BY <3>3, <4>1 DEF Removed
            <4>4. d \notin Removed(g)
                BY <4>2, <4>3 DEF Removed, Supports, CompilerPackages
            <4>5. d \in DOMAIN store /\ store[d] # Nothing
                BY <4>2 DEF Supports, Live
            <4>6. d \in Live' /\ store'[d] = store[d]
                BY <3>1, <4>4, <4>5 DEF Live
            <4> QED
                BY <4>2, <4>6 DEF Supports
        <3> QED
            BY <3>3 DEF CalmInv
    <2> QED
        BY <2>1, <2>2 DEF Environment, Upgrade, Relink, Remove
<1> QED
    BY <1>2, <1>3 DEF CompleteInv

(* A package is added to the store.                                        *)
LEMMA PackageAdded ==
    ASSUME CompilersTypeOK, NEW p \in Package, store' = Append(store, p),
           UNCHANGED <<link, content, clock>>
    PROVE  /\ Quiet
           /\ NextHash \in Live' /\ store'[NextHash] = p
           /\ \A h \in Live' : h \in Live \/ h = NextHash
<1>1. store \in Seq(Optional(Package)) /\ p \in Optional(Package)
    BY DEF CompilersTypeOK, Optional
<1>2. /\ DOMAIN store' = 1..(Len(store) + 1)
      /\ Len(store) \in Nat
      /\ DOMAIN store = 1..Len(store)
      /\ \A h \in 1..Len(store) : store'[h] = store[h]
      /\ store'[Len(store) + 1] = p
    BY <1>1, AppendProperties
<1>3. p # Nothing
    BY NothingAssumption
<1> QED
    BY <1>2, <1>3 DEF Quiet, Live, NextHash

(* It supports what others depend on as before.                            *)
LEMMA CalmGrows ==
    ASSUME CompleteInv, Quiet, NEW n, NEW p, store'[n] = p,
           \A h \in Live' : h \in Live \/ h = n,
           p.kind = "compiler" /\ p.calm => \A d \in p.collection \cup p.generation : Supports(d)
    PROVE  CalmInv'
<1>1. ASSUME NEW h \in CompilerPackages', store'[h].calm,
             NEW d \in store'[h].collection \cup store'[h].generation
      PROVE  Supports(d)
    <2>1. h \in Live' /\ store'[h].kind = "compiler"
        BY DEF CompilerPackages
    <2>2. CASE h \in Live
        <3>1. store'[h] = store[h] /\ h \in CompilerPackages
            BY <2>1, <2>2 DEF Quiet, Live, CompilerPackages
        <3> QED
            BY <1>1, <3>1 DEF CompleteInv, CalmInv
    <2>3. CASE h = n
        BY <1>1, <2>1, <2>3
    <2> QED
        BY <2>1, <2>2, <2>3
<1> QED
    BY <1>1, QuietKeeps DEF CalmInv

(* A scan that stays where it is in its lists.                             *)
LEMMA SamePlace ==
    ASSUME NEW s, ProgressInv(s), NEW r, r.start = s.start, r.cmd = s.cmd, r.try = s.try, r.pc # "done"
    PROVE  ProgressInv(r)
BY DEF ProgressInv, Tried

(* One that moves on to the next switches.                                 *)
LEMMA TryDone ==
    \A s \in ScanState :
        ProgressInv(s) /\ s.cmd <= Len(Command)
        /\ (s.start = clock /\ AllCalm => Found(Command[s.cmd], Attempt[s.try]))
            => ProgressInv(NextTry(s))
<1> SUFFICES ASSUME NEW s \in ScanState, ProgressInv(s),
                    s.start = clock /\ AllCalm => Found(Command[s.cmd], Attempt[s.try])
             PROVE  ProgressInv(NextTry(s))
    OBVIOUS
<1>1. PICK r : r = NextTry(s)
    OBVIOUS
<1>2. r.start = s.start /\ r.cmd = s.cmd /\ r.try = s.try + 1 /\ r.pc = "detect"
    BY <1>1 DEF NextTry, ScanState
<1>3. ASSUME NEW m \in DOMAIN Command, NEW k \in DOMAIN Attempt, Tried(r, m, k)
      PROVE  Tried(s, m, k) \/ (m = s.cmd /\ k = s.try)
    <2>1. k \in Nat /\ s.try \in Nat
        BY ListElements DEF ScanState
    <2>2. m < s.cmd \/ (m = s.cmd /\ k < s.try + 1)
        BY <1>2, <1>3 DEF Tried
    <2>3. k < s.try + 1 => k < s.try \/ k = s.try
        BY <2>1
    <2> QED
        BY <2>2, <2>3 DEF Tried
<1>4. ProgressInv(r)
    BY <1>2, <1>3 DEF ProgressInv
<1> QED
    BY <1>1, <1>4

(* The same after a step.                                                  *)
LEMMA NextTryDone ==
    (\A s \in ScanState :
        ProgressInv(s) /\ s.cmd <= Len(Command)
        /\ (s.start = clock /\ AllCalm => Found(Command[s.cmd], Attempt[s.try]))
            => ProgressInv(NextTry(s)))'
BY TryDone, PTL

(* One that moves on to the next command.                                  *)
LEMMA ProgramDone ==
    ASSUME NEW s \in ScanState, ProgressInv(s),
           \A k \in DOMAIN Attempt : Tried(s, s.cmd, k) \/ Found(Command[s.cmd], Attempt[k])
    PROVE  ProgressInv(NextProgram(s))
<1>1. PICK r : r = NextProgram(s)
    OBVIOUS
<1>2. r.start = s.start /\ r.cmd = s.cmd + 1 /\ r.try = 1 /\ r.pc = "program"
    BY <1>1 DEF NextProgram, Idle
<1>3. ASSUME NEW m \in DOMAIN Command, NEW k \in DOMAIN Attempt, Tried(r, m, k)
      PROVE  Tried(s, m, k) \/ m = s.cmd
    <2>1. k \in Nat \ {0} /\ s.cmd \in Nat /\ m \in Nat
        BY ListElements DEF ScanState
    <2> QED
        BY <1>2, <1>3, <2>1 DEF Tried
<1>4. ProgressInv(r)
    BY <1>2, <1>3 DEF ProgressInv
<1> QED
    BY <1>1, <1>4

(* A scan asks or looks up.                                                *)
LEMMA ScanAsks ==
    ASSUME CompilersTypeOK, CompleteInv, UNCHANGED <<link, content, clock, store>>,
           NEW i \in Installer, NEW r, Update(i, r), SupplyInv(r), ProgressInv(r)
    PROVE  CompleteInv'
<1>1. Quiet
    BY DEF Quiet
<1>2. CalmInv'
    BY DEF CompleteInv, CalmInv, Supports, CompilerPackages, Live
<1>3. SupplyInv(r)' /\ ProgressInv(r)'
    BY <1>1, QuietKeeps
<1> QED
    BY <1>1, <1>2, <1>3, ScanProgresses
(* Each step of a scan: what it leaves behind is installed, or the command *)
(* does not accept it.                                                     *)
LEMMA ScanKeepsComplete ==
    ASSUME IInv, CompleteInv, NEW i \in Installer, Scan(i)
    PROVE  CompleteInv'
<1>0. PICK s : s = installer[i]
    OBVIOUS
<1>1. /\ s = installer[i] /\ s \in ScanState /\ ScanInv(s) /\ SupplyInv(s) /\ ProgressInv(s)
      /\ CompilersTypeOK /\ clock \in Nat /\ UNCHANGED <<link, content, clock>>
    BY <1>0 DEF IInv, CompleteInv, CompilersTypeOK, Scan, BeginScan, Program, FindCollection,
           CreateCollection, Detect, Lookup, Configure, FindGeneration, CreateGeneration, Publish
<1>2. /\ s.since \in Nat /\ s.start \in Nat /\ s.since <= clock /\ s.start <= clock
      /\ s.cmd \in Nat /\ s.try \in Nat /\ s.cmd >= 1 /\ s.try >= 1
    BY <1>1 DEF ScanState, ScanInv, SupplyInv
<1>3. s.pc \in {"detect"} \cup Asking /\ s.start = clock => s.since = clock
    BY <1>1, <1>2 DEF SupplyInv
<1>4. SupplyInv(NextProgram(s)) /\ (s.pc \in {"detect"} \cup Asking => SupplyInv(NextTry(s)))
    <2>1. PICK q, r : q = NextProgram(s) /\ r = NextTry(s)
        OBVIOUS
    <2>2. q.pc = "program" /\ q.start = s.start
        BY <2>1 DEF NextProgram, Idle
    <2>3. /\ r.pc = "detect" /\ r.start = s.start /\ r.since = s.since
          /\ r.collection = s.collection
        BY <1>1, <2>1 DEF NextTry, ScanState
    <2>4. SupplyInv(q) /\ (s.pc \in {"detect"} \cup Asking => SupplyInv(r))
        BY <1>1, <1>2, <2>2, <2>3 DEF SupplyInv, Asking, Configured
    <2> QED
        BY <2>1, <2>4
<1>5. CASE BeginScan(i)
    <2>1. PICK r : r = [Idle EXCEPT !.pc = "program", !.start = clock]
        OBVIOUS
    <2>2. r.pc = "program" /\ r.start = clock /\ r.cmd = 1 /\ r.try = 1
        BY <2>1 DEF Idle
    <2>3. SupplyInv(r)
        BY <1>1, <2>2 DEF SupplyInv, Asking, Configured
    <2>4. ASSUME NEW m \in DOMAIN Command, NEW k \in DOMAIN Attempt PROVE ~ Tried(r, m, k)
        <3>1. m \in Nat \ {0} /\ k \in Nat \ {0}
            BY ListElements
        <3> QED
            BY <2>2, <3>1 DEF Tried
    <2>5. ProgressInv(r)
        BY <2>4 DEF ProgressInv
    <2>6. Update(i, r) /\ UNCHANGED <<link, content, clock, store>>
        BY <1>5, <2>1 DEF BeginScan
    <2> QED
        BY <1>1, <2>3, <2>5, <2>6, ScanAsks
<1>6. CASE Program(i)
    <2> DEFINE b == Running(Command[s.cmd])
    <2>1. UNCHANGED <<link, content, clock, store>>
        BY <1>6 DEF Program
    <2>2. CASE s.cmd > Len(Command)
        <3>1. PICK r : r = [Idle EXCEPT !.pc = "done", !.start = s.start]
            OBVIOUS
        <3>2. r.pc = "done" /\ r.start = s.start /\ Update(i, r)
            BY <1>1, <1>6, <2>2, <3>1 DEF Idle, Program
        <3>3. SupplyInv(r)
            BY <1>2, <3>2 DEF SupplyInv, Asking, Configured
        <3>4. \A m \in DOMAIN Command : m < s.cmd
            BY <1>2, <2>2, ListElements
        <3>5. ProgressInv(r)
            BY <1>1, <3>2, <3>4 DEF ProgressInv, Tried
        <3> QED
            BY <1>1, <2>1, <3>2, <3>3, <3>5, ScanAsks
    <2>3. CASE ~(s.cmd > Len(Command)) /\ Language(b, Plain) = Nothing
        <3>1. Update(i, NextProgram(s))
            BY <1>1, <1>6, <2>3 DEF Program
        <3>2. \A k : Found(Command[s.cmd], Attempt[k])
            BY <2>3 DEF Found
        <3>3. ProgressInv(NextProgram(s))
            BY <1>1, <3>2, ProgramDone
        <3> QED
            BY <1>1, <1>4, <2>1, <3>1, <3>3, ScanAsks
    <2>4. CASE ~(s.cmd > Len(Command)) /\ Language(b, Plain) # Nothing
        <3>1. PICK r : r = [s EXCEPT !.pc = "collection", !.since = clock, !.version = b.version]
            OBVIOUS
        <3>2. Update(i, r)
            BY <1>1, <1>6, <2>4, <3>1 DEF Program
        <3>3. /\ r.pc = "collection" /\ r.since = clock /\ r.start = s.start /\ r.cmd = s.cmd
              /\ r.try = s.try
            BY <1>1, <3>1 DEF ScanState
        <3>4. SupplyInv(r) /\ ProgressInv(r)
            BY <1>1, <1>2, <3>3, SamePlace DEF SupplyInv, Asking, Configured
        <3> QED
            BY <1>1, <2>1, <3>2, <3>4, ScanAsks
    <2> QED
        BY <2>2, <2>3, <2>4
<1>7. CASE FindCollection(i)
    <2>1. PICK found : found = Listed("collection", "system-compilers", s.version)
        OBVIOUS
    <2>2. PICK make, take : /\ make = [s EXCEPT !.pc = "new-collection"]
                            /\ take = [s EXCEPT !.pc = "detect", !.collection = found, !.version = Nothing]
        OBVIOUS
    <2>3. s.pc = "collection" /\ UNCHANGED <<link, content, clock, store>>
          /\ (Update(i, make) \/ Update(i, take))
        BY <1>1, <1>7, <2>1, <2>2 DEF FindCollection
    <2>4. make.pc = "new-collection" /\ make.start = s.start /\ make.cmd = s.cmd /\ make.try = s.try
          /\ make.since = s.since
        BY <1>1, <2>2 DEF ScanState
    <2>5. take.pc = "detect" /\ take.start = s.start /\ take.cmd = s.cmd /\ take.try = s.try
          /\ take.since = s.since /\ take.collection = found
        BY <1>1, <2>2 DEF ScanState
    <2>6. \A d \in found : Supports(d)
        BY <2>1 DEF Listed, Supports
    <2>7. SupplyInv(make) /\ SupplyInv(take)
        BY <1>1, <2>3, <2>4, <2>5, <2>6 DEF SupplyInv, Asking, Configured
    <2>8. ProgressInv(make) /\ ProgressInv(take)
        BY <1>1, <2>4, <2>5, SamePlace
    <2> QED
        BY <1>1, <2>3, <2>7, <2>8, ScanAsks
<1>8. CASE CreateCollection(i)
    <2>1. PICK p, n, r : /\ p = Pseudo("collection", "system-compilers", s.version) /\ n = NextHash
                         /\ r = [s EXCEPT !.pc = "detect", !.collection = {NextHash}, !.version = Nothing]
        OBVIOUS
    <2>2. s.pc = "new-collection" /\ store' = Append(store, p) /\ Update(i, r)
        BY <1>1, <1>8, <2>1 DEF CreateCollection
    <2>3. r.pc = "detect" /\ r.start = s.start /\ r.cmd = s.cmd /\ r.try = s.try
          /\ r.since = s.since /\ r.collection = {n}
        BY <1>1, <2>1 DEF ScanState
    <2>4. p \in Package /\ p.kind = "collection"
        <3>1. s.version \in Versions
            BY <1>1, <2>2 DEF ScanInv
        <3> QED
            BY <2>1, <3>1 DEF Pseudo, Package, Optional
    <2>5. Quiet /\ n \in Live' /\ store'[n] = p /\ \A h \in Live' : h \in Live \/ h = n
        BY <1>1, <2>1, <2>2, <2>4, PackageAdded
    <2>6. CalmInv'
        BY <2>4, <2>5, CalmGrows
    <2>7. Supports(n)'
        BY <2>4, <2>5 DEF Supports
    <2>8. SupplyInv(s)'
        BY <1>1, <2>5, QuietKeeps
    <2>9. SupplyInv(r)'
        BY <1>1, <1>2, <2>2, <2>3, <2>7 DEF SupplyInv, Asking, Configured
    <2>10. ProgressInv(r)'
        BY <1>1, <2>3, <2>5, SamePlace, QuietKeeps
    <2> QED
        BY <1>1, <2>2, <2>5, <2>6, <2>9, <2>10, ScanProgresses
<1>9. CASE Detect(i)
    <2> DEFINE b == Running(Command[s.cmd])
               l == Language(b, Attempt[s.try])
    <2>1. s.pc = "detect" /\ UNCHANGED <<link, content, clock, store>> /\ s.cmd <= Len(Command)
        BY <1>1, <1>9 DEF Detect, ScanInv
    <2>2. CASE s.try > Len(Attempt)
        <3>1. Update(i, NextProgram(s))
            BY <1>1, <1>9, <2>2 DEF Detect
        <3>2. \A k \in DOMAIN Attempt : Tried(s, s.cmd, k)
            BY <1>2, <2>2, ListElements DEF Tried
        <3>3. ProgressInv(NextProgram(s))
            BY <1>1, <3>2, ProgramDone
        <3> QED
            BY <1>1, <1>4, <2>1, <3>1, <3>3, ScanAsks
    <2>3. CASE ~(s.try > Len(Attempt)) /\ l = Nothing
        <3>1. Update(i, NextTry(s))
            BY <1>1, <1>9, <2>3 DEF Detect
        <3>2. Found(Command[s.cmd], Attempt[s.try])
            BY <2>3 DEF Found
        <3>3. ProgressInv(NextTry(s))
            BY <1>1, <2>1, <3>2, TryDone
        <3> QED
            BY <1>1, <1>4, <2>1, <3>1, <3>3, ScanAsks
    <2>4. CASE ~(s.try > Len(Attempt)) /\ l # Nothing
        <3>1. PICK r : r = [s EXCEPT !.pc = "lookup", !.version = b.version, !.language = l]
            OBVIOUS
        <3>2. Update(i, r)
            BY <1>1, <1>9, <2>4, <3>1 DEF Detect
        <3>3. r.pc = "lookup" /\ r.start = s.start /\ r.cmd = s.cmd /\ r.try = s.try
              /\ r.since = s.since /\ r.collection = s.collection
            BY <1>1, <3>1 DEF ScanState
        <3>4. SupplyInv(r)
            BY <1>1, <2>1, <3>3 DEF SupplyInv, Asking, Configured
        <3>5. ProgressInv(r)
            BY <1>1, <3>3, SamePlace
        <3> QED
            BY <1>1, <2>1, <3>2, <3>4, <3>5, ScanAsks
    <2> QED
        BY <2>2, <2>3, <2>4
<1>10. CASE Lookup(i)
    <2>1. PICK r : r = [s EXCEPT !.pc = "configure"]
        OBVIOUS
    <2>2. /\ s.pc = "lookup" /\ UNCHANGED <<link, content, clock, store>>
          /\ IF AlreadyInstalled(s) THEN Update(i, NextTry(s)) ELSE Update(i, r)
        BY <1>1, <1>10, <2>1 DEF Lookup
    <2>3. CASE ~ AlreadyInstalled(s)
        <3>1. /\ r.pc = "configure" /\ r.start = s.start /\ r.cmd = s.cmd /\ r.try = s.try
              /\ r.since = s.since /\ r.collection = s.collection
            BY <1>1, <2>1 DEF ScanState
        <3>2. SupplyInv(r)
            BY <1>1, <2>2, <3>1 DEF SupplyInv, Asking, Configured
        <3>3. ProgressInv(r)
            BY <1>1, <3>1, SamePlace
        <3> QED
            BY <1>1, <2>2, <2>3, <3>2, <3>3, ScanAsks
    <2>4. CASE AlreadyInstalled(s)
        <3> DEFINE c == Command[s.cmd]
                   a == Attempt[s.try]
                   b == Running(c)
        <3>1. ASSUME s.start = clock, AllCalm PROVE Found(c, a)
            <4>1. /\ s.since = clock /\ b \in Build /\ s.version = b.version
                  /\ s.language = Language(b, a)
                BY <1>1, <1>3, <2>2, <3>1 DEF ScanInv, Asking
            <4>2. PICK h \in Listed("compiler", s.language, s.version) :
                      /\ store[h].config # Nothing
                      /\ link[store[h].config.executable] = link[c]
                BY <2>4 DEF AlreadyInstalled
            <4>3. /\ h \in Live /\ store[h].kind = "compiler" /\ store[h].name = s.language
                  /\ store[h].version = s.version /\ h \in CompilerPackages
                BY <4>2 DEF Listed, CompilerPackages
            <4>4. store[h].calm
                BY <3>1, <4>3 DEF AllCalm
            <4>5. \A d \in store[h].collection \cup store[h].generation : d \in Live
                BY <4>3, <4>4 DEF CompleteInv, CalmInv, Supports
            <4>6. PICK old \in Build : old.version = b.version /\ store[h].config.output = old.output
                BY <4>1, <4>2, <4>3, <4>4 DEF IInv, StoreInv, Truthful, Live
            <4>7. a.generation = "default"
                BY <2>4 DEF AlreadyInstalled
            <4>8. Provides(store[h], c, a)
                BY <4>1, <4>2, <4>3, <4>5, <4>6, <4>7 DEF Provides
            <4> QED
                BY <4>3, <4>8 DEF Found
        <3>2. s.cmd <= Len(Command)
            BY <1>1, <2>2 DEF ScanInv, Asking
        <3>3. ProgressInv(NextTry(s))
            BY <1>1, <3>1, <3>2, TryDone
        <3>4. SupplyInv(NextTry(s))
            BY <1>4, <2>2 DEF Asking
        <3> QED
            BY <1>1, <2>2, <2>4, <3>3, <3>4, ScanAsks
    <2> QED
        BY <2>3, <2>4
<1>11. CASE Configure(i)
    <2>1. PICK config : config = Configuration(Command[s.cmd], Attempt[s.try])
        OBVIOUS
    <2>2. PICK r : r = [s EXCEPT !.pc = "generation", !.config = config]
        OBVIOUS
    <2>3. s.pc = "configure" /\ UNCHANGED <<link, content, clock, store>> /\ Update(i, r)
        BY <1>1, <1>11, <2>1, <2>2 DEF Configure
    <2>4. /\ r.pc = "generation" /\ r.start = s.start /\ r.cmd = s.cmd /\ r.try = s.try
          /\ r.since = s.since /\ r.collection = s.collection /\ r.config = config
        BY <1>1, <2>2 DEF ScanState
    <2>5. s.since = clock => config # Nothing
        <3> SUFFICES ASSUME s.since = clock PROVE config # Nothing
            OBVIOUS
        <3>1. /\ s.language \in Languages /\ Running(Command[s.cmd]) \in Build
              /\ s.language = Language(Running(Command[s.cmd]), Attempt[s.try])
            BY <1>1, <2>3 DEF ScanInv, Asking
        <3>2. config = [executable |-> Command[s.cmd], switches |-> Attempt[s.try],
                        output |-> Running(Command[s.cmd]).output]
            BY <2>1, <3>1 DEF Configuration, Languages
        <3>3. Command[s.cmd] \in Commands /\ Attempt[s.try] \in Attempts
            BY <1>1, <1>2, <2>3, ListElements DEF ScanInv, Asking
        <3>4. config \in Configurations
            BY <3>1, <3>2, <3>3 DEF Configurations
        <3> QED
            BY <3>4, NothingAssumption
    <2>6. SupplyInv(r)
        BY <1>1, <2>3, <2>4, <2>5 DEF SupplyInv, Asking, Configured
    <2>7. ProgressInv(r)
        BY <1>1, <2>4, SamePlace
    <2> QED
        BY <1>1, <2>3, <2>6, <2>7, ScanAsks
<1>12. CASE FindGeneration(i)
    <2>1. PICK found : found = Listed("generation", Attempt[s.try].generation, "spock")
        OBVIOUS
    <2>2. PICK make, take : /\ make = [s EXCEPT !.pc = "new-generation"]
                            /\ take = [s EXCEPT !.pc = "publish", !.generation = found]
        OBVIOUS
    <2>3. s.pc = "generation" /\ UNCHANGED <<link, content, clock, store>>
          /\ (Update(i, make) \/ Update(i, take))
        BY <1>1, <1>12, <2>1, <2>2 DEF FindGeneration
    <2>4. /\ make.pc = "new-generation" /\ make.start = s.start /\ make.cmd = s.cmd
          /\ make.try = s.try /\ make.since = s.since /\ make.collection = s.collection
          /\ make.config = s.config
        BY <1>1, <2>2 DEF ScanState
    <2>5. /\ take.pc = "publish" /\ take.start = s.start /\ take.cmd = s.cmd
          /\ take.try = s.try /\ take.since = s.since /\ take.collection = s.collection
          /\ take.config = s.config /\ take.generation = found
        BY <1>1, <2>2 DEF ScanState
    <2>6. \A d \in found : Supports(d)
        BY <2>1 DEF Listed, Supports
    <2>7. SupplyInv(make) /\ SupplyInv(take)
        BY <1>1, <2>3, <2>4, <2>5, <2>6 DEF SupplyInv, Asking, Configured
    <2>8. ProgressInv(make) /\ ProgressInv(take)
        BY <1>1, <2>4, <2>5, SamePlace
    <2> QED
        BY <1>1, <2>3, <2>7, <2>8, ScanAsks
<1>13. CASE CreateGeneration(i)
    <2>1. PICK p, n, r : /\ p = Pseudo("generation", Attempt[s.try].generation, "spock") /\ n = NextHash
                         /\ r = [s EXCEPT !.pc = "publish", !.generation = {NextHash}]
        OBVIOUS
    <2>2. s.pc = "new-generation" /\ store' = Append(store, p) /\ Update(i, r)
        BY <1>1, <1>13, <2>1 DEF CreateGeneration
    <2>3. /\ r.pc = "publish" /\ r.start = s.start /\ r.cmd = s.cmd /\ r.try = s.try
          /\ r.since = s.since /\ r.collection = s.collection /\ r.generation = {n}
          /\ r.config = s.config
        BY <1>1, <2>1 DEF ScanState
    <2>4. p \in Package /\ p.kind = "generation"
        <3>1. Attempt[s.try].generation \in Generations
            BY <1>1, <1>2, <2>2, ListElements DEF ScanInv, Asking, Generations
        <3> QED
            BY <2>1, <3>1 DEF Pseudo, Package, Optional
    <2>5. Quiet /\ n \in Live' /\ store'[n] = p /\ \A h \in Live' : h \in Live \/ h = n
        BY <1>1, <2>1, <2>2, <2>4, PackageAdded
    <2>6. CalmInv'
        BY <2>4, <2>5, CalmGrows
    <2>7. Supports(n)'
        BY <2>4, <2>5 DEF Supports
    <2>8. SupplyInv(s)'
        BY <1>1, <2>5, QuietKeeps
    <2>9. SupplyInv(r)'
        BY <1>1, <2>2, <2>3, <2>7, <2>8 DEF SupplyInv, Asking, Configured
    <2>10. ProgressInv(r)'
        BY <1>1, <2>3, <2>5, SamePlace, QuietKeeps
    <2> QED
        BY <1>1, <2>2, <2>5, <2>6, <2>9, <2>10, ScanProgresses
<1>14. CASE Publish(i)
    <2>1. PICK p, n, r, c, a :
              /\ p = [kind |-> "compiler", name |-> s.language, version |-> s.version,
                      collection |-> s.collection, generation |-> s.generation,
                      config |-> s.config, calm |-> (s.since = clock)]
              /\ n = NextHash /\ r = NextTry(s) /\ c = Command[s.cmd] /\ a = Attempt[s.try]
        OBVIOUS
    <2>2. s.pc = "publish" /\ store' = Append(store, p) /\ Update(i, r) /\ s.cmd <= Len(Command)
        BY <1>1, <1>14, <2>1 DEF Publish, ScanInv, Asking
    <2>3. p \in Package
        BY <1>1, <2>1, <2>2 DEF ScanState, Package, ScanInv, Asking
    <2>4. Quiet /\ n \in Live' /\ store'[n] = p /\ \A h \in Live' : h \in Live \/ h = n
        BY <1>1, <2>1, <2>2, <2>3, PackageAdded
    <2>5. s.since = clock => \A d \in s.collection \cup s.generation : Supports(d)
        BY <1>1, <2>2 DEF SupplyInv, Asking
    <2>6. CalmInv'
        <3>1. p.collection = s.collection /\ p.generation = s.generation /\ p.calm = (s.since = clock)
            BY <2>1
        <3>2. p.calm => \A d \in p.collection \cup p.generation : Supports(d)
            BY <2>5, <3>1, Zenon
        <3> QED
            BY <1>1, <2>4, <3>2, CalmGrows
    <2>7. SupplyInv(r)'
        BY <1>4, <2>1, <2>2, <2>4, QuietKeeps DEF Asking
    <2>8. ASSUME s.start = clock PROVE Found(c, a)'
        <3>1. s.since = clock
            BY <1>3, <2>2, <2>8 DEF Asking
        <3>2. \A d \in s.collection \cup s.generation : d \in Live'
            BY <2>4, <2>5, <3>1, QuietKeeps DEF Supports
        <3>3. /\ Running(c) \in Build /\ s.version = Running(c).version
              /\ s.language = Language(Running(c), a)
              /\ s.config = [executable |-> c, switches |-> a, output |-> Running(c).output]
              /\ s.config # Nothing
            BY <1>1, <2>1, <2>2, <3>1 DEF ScanInv, SupplyInv, Asking, Configured
        <3>4. Running(c)' = Running(c)
            BY <1>1 DEF Running
        <3>5. Provides(p, c, a)'
            BY <1>1, <2>1, <3>2, <3>3, <3>4 DEF Provides
        <3> QED
            BY <2>4, <3>5 DEF Found
    <2>9. ProgressInv(r)'
        <3>1. ProgressInv(s)'
            BY <1>1, <2>4, QuietKeeps
        <3>2. s.start = clock' /\ AllCalm' => Found(c, a)'
            BY <1>1, <2>8
        <3> QED
            BY <1>1, <2>1, <2>2, <3>1, <3>2, NextTryDone
    <2> QED
        BY <1>1, <2>2, <2>4, <2>6, <2>7, <2>9, ScanProgresses
<1> QED
    BY <1>5, <1>6, <1>7, <1>8, <1>9, <1>10, <1>11, <1>12, <1>13, <1>14 DEF Scan

(* At first there is nothing to be complete.                               *)
LEMMA InitComplete == Init => CompleteInv
<1> SUFFICES ASSUME Init PROVE CompleteInv
    OBVIOUS
<1>1. store = <<>> /\ clock = 0 /\ \A i \in Installer : installer[i] = Idle
    BY DEF Init
<1>2. CalmInv
    BY <1>1 DEF CalmInv, CompilerPackages, Live
<1>3. Idle.pc = "idle" /\ Idle.start = 0 /\ Idle.cmd = 1 /\ Idle.try = 1
    BY DEF Idle
<1>4. SupplyInv(Idle)
    BY <1>1, <1>3 DEF SupplyInv, Asking, Configured
<1>5. ASSUME NEW m \in DOMAIN Command, NEW k \in DOMAIN Attempt PROVE ~ Tried(Idle, m, k)
    <2>1. m \in Nat \ {0} /\ k \in Nat \ {0}
        BY ListElements
    <2> QED
        BY <1>3, <2>1 DEF Tried
<1>6. ProgressInv(Idle)
    BY <1>5 DEF ProgressInv
<1> QED
    BY <1>1, <1>2, <1>4, <1>6 DEF CompleteInv

(* Each step of the system keeps it that way.                              *)
LEMMA NextComplete ==
    ASSUME IInv, CompleteInv, [Next]_vars
    PROVE  CompleteInv'
<1>1. ASSUME NEW i \in Installer, Scan(i)
      PROVE  CompleteInv'
    BY <1>1, ScanKeepsComplete
<1>2. CASE Environment
    BY <1>2, EnvironmentInterferes
<1>3. CASE Wrap
    <2>1. UNCHANGED <<link, content, clock, store, installer>>
        BY <1>3 DEF Wrap, Call, readConfigFile, validateExecutable, validateVersion, execCompiler,
                    Exit, CanMove
    <2> QED
        BY <2>1, ScansRest
<1>4. CASE UNCHANGED vars
    BY <1>4, ScansRest DEF vars
<1> QED
    BY <1>1, <1>2, <1>3, <1>4 DEF Next

(* After a scan that nobody interfered with, every language of every       *)
(* compiler on the machine is installed, with all that its package depends *)
(* on, whatever scans, upgrades and removals came before, and however many *)
(* scans run at a time.                                                    *)
THEOREM ScansAreComplete == Spec => []ScanComplete
<1>1. Init => IInv /\ CompleteInv
    BY InitIInv, InitComplete
<1>2. IInv /\ CompleteInv /\ [Next]_vars => IInv' /\ CompleteInv'
    BY NextIInv, NextComplete
<1>3. CompleteInv => ScanComplete
    <2> SUFFICES ASSUME CompleteInv, NEW i \in Installer, installer[i].pc = "done",
                        installer[i].start = clock, \A h \in CompilerPackages : store[h].calm,
                        NEW c \in Commands, NEW a \in Attempts
                 PROVE  Found(c, a)
        BY DEF ScanComplete, Found
    <2>1. PICK m \in DOMAIN Command, k \in DOMAIN Attempt : c = Command[m] /\ a = Attempt[k]
        BY DEF Commands, Attempts
    <2>2. Tried(installer[i], m, k)
        BY DEF Tried
    <2> QED
        BY <2>1, <2>2 DEF CompleteInv, ProgressInv, AllCalm
<1> QED
    BY <1>1, <1>2, <1>3, PTL DEF Spec
=============================================================================
