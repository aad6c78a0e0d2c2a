-------------------------- MODULE PackageStore_proofs --------------------------
(***************************************************************************)
(* What PackageStore guarantees for any number of processes, packages,     *)
(* hashes and killed processes.                                            *)
(***************************************************************************)
EXTENDS PackageStore, FiniteSetTheorems, TLAPS

-----------------------------------------------------------------------------
(* Types *)

Fetching == {"download", "fetch", "copy", "copying", "prepare"}

Owning == Installing \cup Creating

(* A process that is about to install a package knows which, and from the  *)
(* moment it has made the prefix directory also under which hash.          *)
JobOK ==
    \A p \in Proc :
        /\ pc[p] \in Fetching \cup Installing => cur[p] \in Pkg
        /\ pc[p] \in Owning => hash[p] \in Hash
        /\ pc[p] \in {"rm-yaml", "rm-prefix"} => queue[p] # <<>>

(* A configuration is made of typed parts.                                 *)
LEMMA ConfigurationType ==
  ASSUME NEW p \in Proc, cur[p] \in Pkg \cup {NoPkg},
         iDeps[p] \in SUBSET Hash, bDeps[p] \in SUBSET Hash
  PROVE  Configuration(p) \in Conf
BY DEF Configuration, Conf

(* A solution consists of known packages.                                  *)
LEMMA SolutionsAreKnown ==
  ASSUME NEW W, NEW E, NEW K, NEW D \in Solutions(W, E, K)
  PROVE  D \subseteq K
BY DEF Solutions, Covers

(* And so are installed parts.                                             *)
LEMMA PartsAreKnown ==
  ASSUME NEW k, NEW K, NEW D \in InstalledParts(k, K)
  PROVE  D \subseteq K
BY DEF InstalledParts

(* A removal list is a sequence of known packages.                         *)
LEMMA PreordersAreKnown ==
  ASSUME NEW h, NEW K \in SUBSET Hash, NEW s \in Preorders(h, K)
  PROVE  s \in Seq(Hash) /\ \A i \in DOMAIN s : s[i] \in K
<1> DEFINE D == Dependents(h, K)
<1>1. D \subseteq K
  BY DEF Dependents
<1>2. Cardinality(D) \in Nat
  BY <1>1, ConstantsOK, FS_Subset, FS_CardinalityType
<1>3. s \in [1 .. Cardinality(D) -> D]
  BY DEF Preorders
<1> HIDE DEF D
<1>4. QED
  BY <1>1, <1>2, <1>3

(* Removing the last entry of a sequence.                                  *)
LEMMA ButLast ==
  ASSUME NEW S, NEW s \in Seq(S), s # <<>>
  PROVE  /\ SubSeq(s, 1, Len(s) - 1) \in Seq(S)
         /\ \A i \in DOMAIN SubSeq(s, 1, Len(s) - 1) :
               i \in DOMAIN s /\ SubSeq(s, 1, Len(s) - 1)[i] = s[i]
OBVIOUS

(* No step puts into a variable what it may not hold.                      *)
LEMMA StepKeepsTypes ==
  ASSUME TypeOK, JobOK, NEW p \in Proc, Start(p) \/ Step(p) \/ Crash(p)
  PROVE  TypeOK' /\ JobOK'
<1> USE ConstantsOK DEF Command, Label, Scanning, Creating, Installing, Removing, Fetching, Owning
<1>1. CASE Start(p)
  <2>1. cmd' \in [Proc -> Command]
    <3>1. PICK c \in Commands[p] : cmd' = [cmd EXCEPT ![p] = c]
      BY <1>1 DEF Start
    <3>2. c \in Command
      OBVIOUS
    <3>3. QED
      BY <3>1, <3>2 DEF TypeOK
  <2>2. QED
    BY <1>1, <2>1 DEF Start, Goto, config, cache, history, plan, job,
       TypeOK, JobOK
<1>2. CASE ScanOne(p)
  BY <1>2 DEF ScanOne, config, cache, history, plan, job, TypeOK, JobOK
<1>3. CASE ScanIncomplete(p)
  BY <1>3 DEF ScanIncomplete, Goto, config, cache, history, memory, plan,
     job, TypeOK, JobOK
<1>4. CASE ScanVanished(p)
  BY <1>4 DEF ScanVanished, Exit, Goto, config, cache, history, TypeOK,
     JobOK
<1>5. CASE GiveUp(p)
  BY <1>5 DEF GiveUp, Exit, Goto, config, cache, history, TypeOK, JobOK
<1>6. CASE Solve(p)
  <2>1. todo' \in [Proc -> SUBSET Pkg] /\ inUse' \in [Proc -> SUBSET Hash]
    BY <1>6, PartsAreKnown DEF Solve, Needed, TypeOK
  <2>2. QED
    BY <1>6, <2>1 DEF Solve, Goto, config, cache, history, job, TypeOK,
       JobOK
<1>7. CASE MayNotInstall(p)
  BY <1>7 DEF MayNotInstall, Exit, Goto, config, cache, history, TypeOK,
     JobOK
<1>8. CASE NextGhost(p)
  BY <1>8 DEF NextGhost, Goto, config, cache, history, plan, TypeOK, JobOK
<1>9. CASE Download(p)
  BY <1>9 DEF Download, Goto, config, cache, history, memory, plan, job,
     TypeOK, JobOK
<1>10. CASE FetchSucceeds(p)
  BY <1>10 DEF FetchSucceeds, Goto, config, cache, history, memory, plan,
     job, TypeOK, JobOK
<1>11. CASE DownloadFails(p)
  BY <1>11 DEF DownloadFails, Exit, Goto, config, cache, history, TypeOK,
     JobOK
<1>12. CASE CopyBegins(p)
  BY <1>12 DEF CopyBegins, Goto, config, history, memory, plan, job,
     TypeOK, JobOK
<1>13. CASE CopyEnds(p)
  BY <1>13 DEF CopyEnds, Goto, config, history, memory, plan, job, TypeOK,
     JobOK
<1>14. CASE Prepare(p)
  <2>1. /\ iDeps' \in [Proc -> SUBSET Hash]
        /\ bDeps' \in [Proc -> SUBSET Hash]
    BY <1>14, SolutionsAreKnown DEF Prepare, TypeOK
  <2>2. QED
    BY <1>14, <2>1 DEF Prepare, Goto, config, cache, plan, TypeOK, JobOK
<1>15. CASE PrepareFails(p)
  BY <1>15 DEF PrepareFails, Exit, Goto, config, cache, history, TypeOK,
     JobOK
<1>16. CASE CheckAttempted(p)
  BY <1>16 DEF CheckAttempted, Goto, Configuration, config, cache,
     history, memory, plan, job, TypeOK, JobOK
<1>17. CASE OpenLog(p)
  <2>1. Configuration(p) \in Conf
    BY ConfigurationType DEF TypeOK
  <2>2. QED
    BY <1>17, <2>1 DEF OpenLog, Goto, config, history, memory, plan, job,
       TypeOK, JobOK
<1>18. CASE BuildSucceeds(p)
  BY <1>18 DEF BuildSucceeds, Goto, config, cache, history, memory, plan,
     job, TypeOK, JobOK
<1>19. CASE BuildFails(p)
  <2>1. Configuration(p) \in Conf
    BY ConfigurationType DEF TypeOK
  <2>2. QED
    BY <1>19, <2>1 DEF BuildFails, Goto, config, cache, memory, plan, job,
       TypeOK, JobOK
<1>20. CASE Unwind(p)
  BY <1>20 DEF Unwind, Exit, Goto, config, cache, history, TypeOK, JobOK
<1>21. CASE PublishBegins(p)
  BY <1>21 DEF PublishBegins, Goto, cache, history, memory, plan, job,
     TypeOK, JobOK
<1>22. CASE PublishEnds(p)
  BY <1>22 DEF PublishEnds, Goto, Self, cache, memory, plan, job, TypeOK,
     JobOK
<1>23. CASE KeepLog(p)
  BY <1>23 DEF KeepLog, Goto, Configuration, config, memory, plan, job,
     TypeOK, JobOK
<1>24. CASE KeepLogDies(p)
  BY <1>24 DEF KeepLogDies, Exit, Configuration, Goto, config, cache,
     history, TypeOK, JobOK
<1>25. CASE RemoveAttempted(p)
  BY <1>25 DEF RemoveAttempted, Goto, Configuration, config, history,
     memory, plan, job, TypeOK, JobOK
<1>26. CASE Register(p)
  BY <1>26 DEF Register, Goto, config, cache, history, plan, job, TypeOK,
     JobOK
<1>27. CASE RegisterFails(p)
  BY <1>27 DEF RegisterFails, Exit, Goto, config, cache, history, TypeOK,
     JobOK
<1>28. CASE PostInstall(p)
  BY <1>28 DEF PostInstall, Goto, config, cache, history, TypeOK, JobOK
<1>29. CASE PostInstallFails(p)
  BY <1>29 DEF PostInstallFails, Exit, Goto, config, cache, history,
     TypeOK, JobOK
<1>30. CASE Employ(p)
  BY <1>30 DEF Employ, Goto, config, cache, history, plan, job, TypeOK,
     JobOK
<1>31. CASE StampOne(p)
  BY <1>31 DEF StampOne, config, cache, history, plan, job, TypeOK, JobOK
<1>32. CASE RunUserCommand(p)
  BY <1>32 DEF RunUserCommand, Goto, config, cache, history, memory, plan,
     job, TypeOK, JobOK
<1>33. CASE UserCommandEnds(p)
  BY <1>33 DEF UserCommandEnds, Exit, Goto, config, cache, history,
     TypeOK, JobOK
<1>34. CASE Select(p)
  BY <1>34 DEF Select, Goto, config, cache, history, plan, job, TypeOK,
     JobOK
<1>35. CASE NextSelected(p)
  <2>1. queue' \in [Proc -> Seq(Hash)]
    <3>1. PICK h \in work[p] : \E s \in Preorders(h, known[p]) : queue' =
       [queue EXCEPT ![p] = s]
      BY <1>35 DEF NextSelected
    <3>2. PICK s \in Preorders(h, known[p]) : queue' = [queue EXCEPT ![p]
       = s]
      BY <3>1
    <3>3. s \in Seq(Hash)
      BY <3>2, PreordersAreKnown DEF TypeOK
    <3>4. QED
      BY <3>2, <3>3 DEF TypeOK
  <2>2. QED
    BY <1>35, <2>1 DEF NextSelected, config, cache, history, plan, job,
       TypeOK, JobOK
<1>36. CASE Examine(p)
  <2>1. CASE yaml[Victim(p)] = "none"
    <3>1. queue' \in [Proc -> Seq(Hash)]
      <4>1. queue[p] # <<>> /\ queue' = [queue EXCEPT ![p] = SubSeq(@, 1, Len(@) - 1)]
        BY <1>36, <2>1 DEF Examine, Pop
      <4>2. SubSeq(queue[p], 1, Len(queue[p]) - 1) \in Seq(Hash)
        BY <4>1, ButLast DEF TypeOK
      <4>3. QED
        BY <4>1, <4>2 DEF TypeOK
    <3>2. QED
      BY <1>36, <2>1, <3>1 DEF Examine, Goto, config, cache, history,
         plan, job, TypeOK, JobOK, Pop
  <2>2. CASE yaml[Victim(p)] # "none"
    <3>1. /\ pc[p] = "rm" /\ queue[p] # <<>> /\ pc' = [pc EXCEPT ![p] = "rm-yaml"]
          /\ UNCHANGED <<config, prefix, stamp, cache, cmd, known, young, work, plan,
                         job, queue, history>>
      BY <1>36, <2>2 DEF Examine, Goto
    <3>2. TypeOK'
      BY <3>1 DEF config, cache, history, plan, job, TypeOK
    <3>3. JobOK'
      BY <3>1 DEF job, TypeOK, JobOK
    <3>4. QED
      BY <3>2, <3>3
  <2>3. QED
    BY <2>1, <2>2
<1>37. CASE RemoveConfig(p)
  BY <1>37 DEF RemoveConfig, Goto, cache, history, memory, plan, job,
     TypeOK, JobOK
<1>38. CASE RemovePrefix(p)
  <2>1. queue' \in [Proc -> Seq(Hash)]
    BY <1>38, ButLast DEF RemovePrefix, Pop, TypeOK, JobOK
  <2>2. QED
    BY <1>38, <2>1 DEF RemovePrefix, Goto, Pop, config, cache, history,
       plan, job, TypeOK, JobOK
<1>39. CASE RemovalEnds(p)
  BY <1>39 DEF RemovalEnds, Exit, Goto, config, cache, history, TypeOK,
     JobOK
<1>40. CASE Crash(p)
  <2>1. Exposed(p) \subseteq Hash
    <3>1. queue[p] \in Seq(Hash)
      BY DEF TypeOK
    <3>2. \A i \in DOMAIN queue[p] : queue[p][i] \in Hash
      BY <3>1
    <3>3. QED
      BY <3>2 DEF Exposed
  <2>2. torn' \in SUBSET Hash
    BY <1>40, <2>1 DEF Crash, TypeOK
  <2>3. QED
    BY <1>40, <2>2 DEF Crash, Exit, Goto, config, cache, TypeOK, JobOK
<1>41. CASE ScanSkips(p)
  BY <1>41 DEF ScanSkips, config, cache, history, plan, job, TypeOK, JobOK
<1>42. CASE CreateSelf(p)
  BY <1>42 DEF CreateSelf, Goto, config, cache, plan, TypeOK, JobOK
<1>43. CASE OpenSelf(p)
  BY <1>43 DEF OpenSelf, Goto, cache, history, memory, plan, job, TypeOK,
     JobOK
<1>44. CASE CloseSelf(p)
  BY <1>44 DEF CloseSelf, Goto, cache, memory, plan, job, TypeOK, JobOK
<1>45. CASE RegisterSelf(p)
  BY <1>45 DEF RegisterSelf, Goto, config, cache, history, plan, TypeOK,
     JobOK
<1>46. CASE SelfFails(p)
  BY <1>46 DEF SelfFails, Exit, Goto, config, cache, history, TypeOK, JobOK
<1>47. QED
  BY <1>1, <1>2, <1>3, <1>4, <1>5, <1>6, <1>7, <1>8, <1>9, <1>10, <1>11,
     <1>12, <1>13, <1>14, <1>15, <1>16, <1>17, <1>18, <1>19, <1>20, <1>21,
     <1>22, <1>23, <1>24, <1>25, <1>26, <1>27, <1>28, <1>29, <1>30, <1>31,
     <1>32, <1>33, <1>34, <1>35, <1>36, <1>37, <1>38, <1>39, <1>40, <1>41, <1>42,
     <1>43, <1>44, <1>45, <1>46 DEF Step, ContextStep, ShellStep, RemoveStep

(* What the variables may hold.                                            *)
THEOREM TypeInvariant == Spec => [](TypeOK /\ JobOK)
<1>1. Init => TypeOK /\ JobOK
  BY ConstantsOK DEF Init, TypeOK, JobOK, Command, Label, Scanning, Creating,
     Installing, Removing, Fetching, Owning, Conf
<1>2. ASSUME TypeOK, JobOK, NEW p \in Proc, Start(p) \/ Step(p) \/ Crash(p)
      PROVE  TypeOK' /\ JobOK'
  BY <1>2, StepKeepsTypes
<1>3. ASSUME TypeOK, JobOK, Age PROVE TypeOK' /\ JobOK'
  BY <1>3 DEF Age, TypeOK, JobOK, config, cache, plan, job, history
<1>4. ASSUME TypeOK, JobOK, UNCHANGED vars PROVE TypeOK' /\ JobOK'
  BY <1>4 DEF vars, TypeOK, JobOK, config, cache, memory, plan, job, history
<1>5. TypeOK /\ JobOK /\ [Next]_vars => TypeOK' /\ JobOK'
  BY <1>2, <1>3, <1>4 DEF Next
<1>6. QED
  BY <1>1, <1>5, PTL DEF Spec

-----------------------------------------------------------------------------
(* The inductive invariant *)

Unpublished == {"self", "check", "refused", "open", "build", "corrupt", "unwind", "publish"}
Filling     == {"self-write", "publishing"}

(* Nothing is on disk under a hash that has not been drawn.                *)
HashesDrawn ==
    /\ \A h \in Hash : yaml[h] # "none" \/ h \in prefix \/ h \in published => h \in issued
    /\ \A p \in Proc : pc[p] \in Owning => hash[p] \in issued

(* No two processes install under one hash.                                *)
OwnersUnique ==
    \A p, q \in Proc :
        pc[p] \in Owning /\ pc[q] \in Owning /\ hash[p] = hash[q] => p = q

(* What a process is installing has its prefix, and no configuration that  *)
(* others could see before the process creates it.                         *)
InstallsUnseen ==
    \A p \in Proc :
        /\ pc[p] \in Unpublished =>
              hash[p] \in prefix \ published /\ yaml[hash[p]] = "none"
        /\ pc[p] \in Filling =>
              hash[p] \in prefix \ published /\ yaml[hash[p]] = "empty"

(* A Context registers, and a removal list names, only packages that were  *)
(* once complete: no remover works on what is being installed.             *)
SeenIsPublished ==
    /\ \A h \in Hash : yaml[h] = "full" => h \in published
    /\ \A h \in published : yaml[h] # "empty"
    /\ \A p \in Proc : known[p] \subseteq published
    /\ \A p \in Proc : \A i \in DOMAIN queue[p] : queue[p][i] \in published

(* The prefix is deleted after the configuration.                          *)
ConfigRemovedFirst == \A p \in Proc : pc[p] = "rm-prefix" => yaml[Victim(p)] = "none"

StoreInv ==
    /\ HashesDrawn
    /\ OwnersUnique
    /\ InstallsUnseen
    /\ SeenIsPublished
    /\ ConfigRemovedFirst
    /\ RegisteredHasPrefix

(* A tarball that is being copied is incomplete, and has one writer.       *)
CopyInv ==
    /\ \A p \in Proc : pc[p] = "copying" => tarball[cur[p]] = "partial"
    /\ OneCopier

(* Process p is filling the prefix directory of h, or about to delete it.  *)
WorksOn(p, h) ==
    \/ pc[p] \in Unpublished \cup Filling /\ hash[p] = h
    \/ pc[p] = "rm-prefix" /\ Victim(p) = h

(* Until a process is killed a prefix directory has a configuration, or a  *)
(* process that works on it.                                               *)
PrefixOwned ==
    crashes = 0 => \A h \in prefix : yaml[h] # "none" \/ \E p \in Proc : WorksOn(p, h)

(* No interleaving of installs, removals and killed processes breaks the   *)
(* invariant.                                                              *)
THEOREM StoreInvariant == Spec => []StoreInv
<1>1. Init => StoreInv
  BY ConstantsOK DEF Init, StoreInv, HashesDrawn, OwnersUnique, InstallsUnseen,
     SeenIsPublished, ConfigRemovedFirst, RegisteredHasPrefix, Unpublished, Filling,
     Owning, Installing, Creating, Victim
<1>2. ASSUME TypeOK, JobOK, StoreInv, NEW p \in Proc, Start(p) \/ Step(p) \/ Crash(p)
      PROVE  StoreInv'
  <2> USE <1>2 DEF Unpublished, Filling, Owning, Installing, Creating
  <2>1. CASE Start(p)
    BY <2>1 DEF Start, Goto, config, cache, history, plan, job, StoreInv,
       HashesDrawn, OwnersUnique, InstallsUnseen, SeenIsPublished,
       ConfigRemovedFirst, RegisteredHasPrefix, TypeOK, JobOK, Victim
  <2>2. CASE ScanOne(p)
    BY <2>2 DEF ScanOne, config, cache, history, plan, job, StoreInv,
       HashesDrawn, OwnersUnique, InstallsUnseen, SeenIsPublished,
       ConfigRemovedFirst, RegisteredHasPrefix, TypeOK, JobOK, Victim
  <2>3. CASE ScanIncomplete(p)
    BY <2>3 DEF ScanIncomplete, Goto, config, cache, history, memory, plan,
       job, StoreInv, HashesDrawn, OwnersUnique, InstallsUnseen,
       SeenIsPublished, ConfigRemovedFirst, RegisteredHasPrefix, TypeOK, JobOK,
       Victim
  <2>4. CASE ScanVanished(p)
    BY <2>4 DEF ScanVanished, Exit, Goto, config, cache, history, StoreInv,
       HashesDrawn, OwnersUnique, InstallsUnseen, SeenIsPublished,
       ConfigRemovedFirst, RegisteredHasPrefix, TypeOK, JobOK, Victim
  <2>5. CASE GiveUp(p)
    BY <2>5 DEF GiveUp, Exit, Goto, config, cache, history, StoreInv,
       HashesDrawn, OwnersUnique, InstallsUnseen, SeenIsPublished,
       ConfigRemovedFirst, RegisteredHasPrefix, TypeOK, JobOK, Victim
  <2>6. CASE Solve(p)
    BY <2>6 DEF Solve, Goto, config, cache, history, job, StoreInv,
       HashesDrawn, OwnersUnique, InstallsUnseen, SeenIsPublished,
       ConfigRemovedFirst, RegisteredHasPrefix, TypeOK, JobOK, Victim
  <2>7. CASE MayNotInstall(p)
    BY <2>7 DEF MayNotInstall, Exit, Goto, config, cache, history, StoreInv,
       HashesDrawn, OwnersUnique, InstallsUnseen, SeenIsPublished,
       ConfigRemovedFirst, RegisteredHasPrefix, TypeOK, JobOK, Victim
  <2>8. CASE NextGhost(p)
    BY <2>8 DEF NextGhost, Goto, config, cache, history, plan, StoreInv,
       HashesDrawn, OwnersUnique, InstallsUnseen, SeenIsPublished,
       ConfigRemovedFirst, RegisteredHasPrefix, TypeOK, JobOK, Victim
  <2>9. CASE Download(p)
    BY <2>9 DEF Download, Goto, config, cache, history, memory, plan, job,
       StoreInv, HashesDrawn, OwnersUnique, InstallsUnseen, SeenIsPublished,
       ConfigRemovedFirst, RegisteredHasPrefix, TypeOK, JobOK, Victim
  <2>10. CASE FetchSucceeds(p)
    BY <2>10 DEF FetchSucceeds, Goto, config, cache, history, memory, plan,
       job, StoreInv, HashesDrawn, OwnersUnique, InstallsUnseen,
       SeenIsPublished, ConfigRemovedFirst, RegisteredHasPrefix, TypeOK, JobOK,
       Victim
  <2>11. CASE DownloadFails(p)
    BY <2>11 DEF DownloadFails, Exit, Goto, config, cache, history,
       StoreInv, HashesDrawn, OwnersUnique, InstallsUnseen, SeenIsPublished,
       ConfigRemovedFirst, RegisteredHasPrefix, TypeOK, JobOK, Victim
  <2>12. CASE CopyBegins(p)
    BY <2>12 DEF CopyBegins, Goto, config, history, memory, plan, job,
       StoreInv, HashesDrawn, OwnersUnique, InstallsUnseen, SeenIsPublished,
       ConfigRemovedFirst, RegisteredHasPrefix, TypeOK, JobOK, Victim
  <2>13. CASE CopyEnds(p)
    BY <2>13 DEF CopyEnds, Goto, config, history, memory, plan, job,
       StoreInv, HashesDrawn, OwnersUnique, InstallsUnseen, SeenIsPublished,
       ConfigRemovedFirst, RegisteredHasPrefix, TypeOK, JobOK, Victim
  <2>14. CASE Prepare(p)
    BY <2>14 DEF Prepare, Goto, config, cache, plan, StoreInv, HashesDrawn,
       OwnersUnique, InstallsUnseen, SeenIsPublished, ConfigRemovedFirst,
       RegisteredHasPrefix, TypeOK, JobOK, Victim
  <2>15. CASE PrepareFails(p)
    BY <2>15 DEF PrepareFails, Exit, Goto, config, cache, history, StoreInv,
       HashesDrawn, OwnersUnique, InstallsUnseen, SeenIsPublished,
       ConfigRemovedFirst, RegisteredHasPrefix, TypeOK, JobOK, Victim
  <2>16. CASE CheckAttempted(p)
    BY <2>16 DEF CheckAttempted, Goto, Configuration, config, cache,
       history, memory, plan, job, StoreInv, HashesDrawn, OwnersUnique,
       InstallsUnseen, SeenIsPublished, ConfigRemovedFirst,
       RegisteredHasPrefix, TypeOK, JobOK, Victim
  <2>17. CASE OpenLog(p)
    BY <2>17 DEF OpenLog, Goto, Configuration, config, history, memory,
       plan, job, StoreInv, HashesDrawn, OwnersUnique, InstallsUnseen,
       SeenIsPublished, ConfigRemovedFirst, RegisteredHasPrefix, TypeOK, JobOK,
       Victim
  <2>18. CASE BuildSucceeds(p)
    BY <2>18 DEF BuildSucceeds, Goto, config, cache, history, memory, plan,
       job, StoreInv, HashesDrawn, OwnersUnique, InstallsUnseen,
       SeenIsPublished, ConfigRemovedFirst, RegisteredHasPrefix, TypeOK, JobOK,
       Victim
  <2>19. CASE BuildFails(p)
    BY <2>19 DEF BuildFails, Goto, Configuration, config, cache, memory,
       plan, job, StoreInv, HashesDrawn, OwnersUnique, InstallsUnseen,
       SeenIsPublished, ConfigRemovedFirst, RegisteredHasPrefix, TypeOK, JobOK,
       Victim
  <2>20. CASE Unwind(p)
    BY <2>20 DEF Unwind, Exit, Goto, config, cache, history, StoreInv,
       HashesDrawn, OwnersUnique, InstallsUnseen, SeenIsPublished,
       ConfigRemovedFirst, RegisteredHasPrefix, TypeOK, JobOK, Victim
  <2>21. CASE PublishBegins(p)
    BY <2>21 DEF PublishBegins, Goto, cache, history, memory, plan, job,
       StoreInv, HashesDrawn, OwnersUnique, InstallsUnseen, SeenIsPublished,
       ConfigRemovedFirst, RegisteredHasPrefix, TypeOK, JobOK, Victim
  <2>22. CASE PublishEnds(p)
    BY <2>22 DEF PublishEnds, Goto, cache, memory, plan, job, StoreInv,
       HashesDrawn, OwnersUnique, InstallsUnseen, SeenIsPublished,
       ConfigRemovedFirst, RegisteredHasPrefix, TypeOK, JobOK, Victim
  <2>23. CASE KeepLog(p)
    BY <2>23 DEF KeepLog, Goto, Configuration, config, memory, plan, job,
       StoreInv, HashesDrawn, OwnersUnique, InstallsUnseen, SeenIsPublished,
       ConfigRemovedFirst, RegisteredHasPrefix, TypeOK, JobOK, Victim
  <2>24. CASE KeepLogDies(p)
    BY <2>24 DEF KeepLogDies, Exit, Configuration, Goto, config, cache,
       history, StoreInv, HashesDrawn, OwnersUnique, InstallsUnseen,
       SeenIsPublished, ConfigRemovedFirst, RegisteredHasPrefix, TypeOK, JobOK,
       Victim
  <2>25. CASE RemoveAttempted(p)
    BY <2>25 DEF RemoveAttempted, Goto, Configuration, config, history,
       memory, plan, job, StoreInv, HashesDrawn, OwnersUnique, InstallsUnseen,
       SeenIsPublished, ConfigRemovedFirst, RegisteredHasPrefix, TypeOK, JobOK,
       Victim
  <2>26. CASE Register(p)
    BY <2>26 DEF Register, Goto, config, cache, history, plan, job,
       StoreInv, HashesDrawn, OwnersUnique, InstallsUnseen, SeenIsPublished,
       ConfigRemovedFirst, RegisteredHasPrefix, TypeOK, JobOK, Victim
  <2>27. CASE RegisterFails(p)
    BY <2>27 DEF RegisterFails, Exit, Goto, config, cache, history,
       StoreInv, HashesDrawn, OwnersUnique, InstallsUnseen, SeenIsPublished,
       ConfigRemovedFirst, RegisteredHasPrefix, TypeOK, JobOK, Victim
  <2>28. CASE PostInstall(p)
    BY <2>28 DEF PostInstall, Goto, config, cache, history, StoreInv,
       HashesDrawn, OwnersUnique, InstallsUnseen, SeenIsPublished,
       ConfigRemovedFirst, RegisteredHasPrefix, TypeOK, JobOK, Victim
  <2>29. CASE PostInstallFails(p)
    BY <2>29 DEF PostInstallFails, Exit, Goto, config, cache, history,
       StoreInv, HashesDrawn, OwnersUnique, InstallsUnseen, SeenIsPublished,
       ConfigRemovedFirst, RegisteredHasPrefix, TypeOK, JobOK, Victim
  <2>30. CASE Employ(p)
    BY <2>30 DEF Employ, Goto, config, cache, history, plan, job, StoreInv,
       HashesDrawn, OwnersUnique, InstallsUnseen, SeenIsPublished,
       ConfigRemovedFirst, RegisteredHasPrefix, TypeOK, JobOK, Victim
  <2>31. CASE StampOne(p)
    BY <2>31 DEF StampOne, config, cache, history, plan, job, StoreInv,
       HashesDrawn, OwnersUnique, InstallsUnseen, SeenIsPublished,
       ConfigRemovedFirst, RegisteredHasPrefix, TypeOK, JobOK, Victim
  <2>32. CASE RunUserCommand(p)
    BY <2>32 DEF RunUserCommand, Goto, config, cache, history, memory, plan,
       job, StoreInv, HashesDrawn, OwnersUnique, InstallsUnseen,
       SeenIsPublished, ConfigRemovedFirst, RegisteredHasPrefix, TypeOK, JobOK,
       Victim
  <2>33. CASE UserCommandEnds(p)
    BY <2>33 DEF UserCommandEnds, Exit, Goto, config, cache, history,
       StoreInv, HashesDrawn, OwnersUnique, InstallsUnseen, SeenIsPublished,
       ConfigRemovedFirst, RegisteredHasPrefix, TypeOK, JobOK, Victim
  <2>34. CASE Select(p)
    BY <2>34 DEF Select, Goto, config, cache, history, plan, job, StoreInv,
       HashesDrawn, OwnersUnique, InstallsUnseen, SeenIsPublished,
       ConfigRemovedFirst, RegisteredHasPrefix, TypeOK, JobOK, Victim
  <2>35. CASE NextSelected(p)
    <3>1. \A i \in DOMAIN queue'[p] : queue'[p][i] \in published
      <4>1. PICK h \in work[p] : \E s \in Preorders(h, known[p]) : queue' =
         [queue EXCEPT ![p] = s]
        BY <2>35 DEF NextSelected
      <4>2. PICK s \in Preorders(h, known[p]) : queue' = [queue EXCEPT ![p]
         = s]
        BY <4>1
      <4>3. queue'[p] = s
        BY <4>2 DEF TypeOK
      <4>4. QED
        BY <4>3, PreordersAreKnown DEF StoreInv, SeenIsPublished, TypeOK
    <3>2. /\ pc[p] = "rm"
          /\ \A q \in Proc \ {p} : queue'[q] = queue[q]
          /\ UNCHANGED <<yaml, prefix, pc, known, hash, issued, published>>
      BY <2>35 DEF NextSelected, TypeOK, config, plan, job, history
    <3>3. SeenIsPublished'
      BY <3>1, <3>2 DEF StoreInv, SeenIsPublished
    <3>4. ConfigRemovedFirst'
      BY <3>2 DEF StoreInv, ConfigRemovedFirst, Victim
    <3>5. (HashesDrawn /\ OwnersUnique /\ InstallsUnseen /\ RegisteredHasPrefix)'
      BY <3>2 DEF StoreInv, HashesDrawn, OwnersUnique, InstallsUnseen,
         RegisteredHasPrefix
    <3>6. QED
      BY <3>3, <3>4, <3>5 DEF StoreInv
  <2>36. CASE Examine(p)
    <3>1. pc[p] = "rm" /\ queue[p] # <<>> /\ pc'[p] \in {"rm", "rm-yaml"}
      BY <2>36 DEF Examine, Goto, TypeOK
    <3>2. /\ \A q \in Proc \ {p} : pc'[q] = pc[q] /\ queue'[q] = queue[q]
          /\ queue'[p] \in {queue[p], SubSeq(queue[p], 1, Len(queue[p]) - 1)}
          /\ UNCHANGED <<yaml, prefix, known, hash, issued, published>>
      BY <2>36 DEF Examine, Goto, Pop, TypeOK, config, plan, job, history
    <3>3. \A i \in DOMAIN queue'[p] : queue'[p][i] \in published
      <4>1. \A i \in DOMAIN queue[p] : queue[p][i] \in published
        BY DEF StoreInv, SeenIsPublished
      <4>2. queue[p] \in Seq(Hash)
        BY DEF TypeOK
      <4>3. \A i \in DOMAIN SubSeq(queue[p], 1, Len(queue[p]) - 1) :
               i \in DOMAIN queue[p] /\ SubSeq(queue[p], 1, Len(queue[p]) - 1)[i] = queue[p][i]
        BY <3>1, <4>2, ButLast
      <4>4. QED
        BY <3>2, <4>1, <4>3
    <3>4. SeenIsPublished'
      BY <3>2, <3>3 DEF StoreInv, SeenIsPublished
    <3>5. ConfigRemovedFirst'
      BY <3>1, <3>2 DEF StoreInv, ConfigRemovedFirst, Victim
    <3>6. (HashesDrawn /\ OwnersUnique /\ InstallsUnseen /\ RegisteredHasPrefix)'
      BY <3>1, <3>2 DEF StoreInv, HashesDrawn, OwnersUnique, InstallsUnseen,
         RegisteredHasPrefix
    <3>7. QED
      BY <3>4, <3>5, <3>6 DEF StoreInv
  <2>37. CASE RemoveConfig(p)
    BY <2>37 DEF RemoveConfig, Goto, cache, history, memory, plan, job,
       StoreInv, HashesDrawn, OwnersUnique, InstallsUnseen, SeenIsPublished,
       ConfigRemovedFirst, RegisteredHasPrefix, TypeOK, JobOK, Victim
  <2>38. CASE RemovePrefix(p)
    BY <2>38 DEF RemovePrefix, Goto, Pop, config, cache, history, plan, job,
       StoreInv, HashesDrawn, OwnersUnique, InstallsUnseen, SeenIsPublished,
       ConfigRemovedFirst, RegisteredHasPrefix, TypeOK, JobOK, Victim
  <2>39. CASE RemovalEnds(p)
    BY <2>39 DEF RemovalEnds, Exit, Goto, config, cache, history, StoreInv,
       HashesDrawn, OwnersUnique, InstallsUnseen, SeenIsPublished,
       ConfigRemovedFirst, RegisteredHasPrefix, TypeOK, JobOK, Victim
  <2>40. CASE Crash(p)
    BY <2>40 DEF Crash, Exit, Goto, config, cache, StoreInv, HashesDrawn,
       OwnersUnique, InstallsUnseen, SeenIsPublished, ConfigRemovedFirst,
       RegisteredHasPrefix, TypeOK, JobOK, Victim
  <2>41. CASE ScanSkips(p)
    BY <2>41 DEF ScanSkips, config, cache, history, plan, job, StoreInv,
       HashesDrawn, OwnersUnique, InstallsUnseen, SeenIsPublished,
       ConfigRemovedFirst, RegisteredHasPrefix, TypeOK, JobOK, Victim
  <2>42. CASE CreateSelf(p)
    BY <2>42 DEF CreateSelf, Goto, config, cache, plan, StoreInv, HashesDrawn,
       OwnersUnique, InstallsUnseen, SeenIsPublished, ConfigRemovedFirst,
       RegisteredHasPrefix, TypeOK, JobOK, Victim
  <2>43. CASE OpenSelf(p)
    BY <2>43 DEF OpenSelf, Goto, cache, history, memory, plan, job, StoreInv,
       HashesDrawn, OwnersUnique, InstallsUnseen, SeenIsPublished,
       ConfigRemovedFirst, RegisteredHasPrefix, TypeOK, JobOK, Victim
  <2>44. CASE CloseSelf(p)
    BY <2>44 DEF CloseSelf, Goto, cache, memory, plan, job, StoreInv, HashesDrawn,
       OwnersUnique, InstallsUnseen, SeenIsPublished, ConfigRemovedFirst,
       RegisteredHasPrefix, TypeOK, JobOK, Victim
  <2>45. CASE RegisterSelf(p)
    BY <2>45 DEF RegisterSelf, Goto, config, cache, history, plan, StoreInv,
       HashesDrawn, OwnersUnique, InstallsUnseen, SeenIsPublished,
       ConfigRemovedFirst, RegisteredHasPrefix, TypeOK, JobOK, Victim
  <2>46. CASE SelfFails(p)
    BY <2>46 DEF SelfFails, Exit, Goto, config, cache, history, StoreInv,
       HashesDrawn, OwnersUnique, InstallsUnseen, SeenIsPublished,
       ConfigRemovedFirst, RegisteredHasPrefix, TypeOK, JobOK, Victim
  <2>47. QED
    BY <2>1, <2>2, <2>3, <2>4, <2>5, <2>6, <2>7, <2>8, <2>9, <2>10, <2>11,
       <2>12, <2>13, <2>14, <2>15, <2>16, <2>17, <2>18, <2>19, <2>20, <2>21,
       <2>22, <2>23, <2>24, <2>25, <2>26, <2>27, <2>28, <2>29, <2>30, <2>31,
       <2>32, <2>33, <2>34, <2>35, <2>36, <2>37, <2>38, <2>39, <2>40, <2>41,
       <2>42, <2>43, <2>44, <2>45, <2>46 DEF Step, ContextStep, ShellStep,
       RemoveStep
<1>3. ASSUME StoreInv, Age PROVE StoreInv'
  BY <1>3 DEF Age, StoreInv, HashesDrawn, OwnersUnique, InstallsUnseen, SeenIsPublished, ConfigRemovedFirst, RegisteredHasPrefix, Victim, config, cache, plan, job, history
<1>4. ASSUME StoreInv, UNCHANGED vars PROVE StoreInv'
  BY <1>4 DEF vars, StoreInv, HashesDrawn, OwnersUnique, InstallsUnseen, SeenIsPublished, ConfigRemovedFirst, RegisteredHasPrefix, Victim, config, cache, memory, plan, job, history
<1>5. TypeOK /\ JobOK /\ StoreInv /\ [Next]_vars => StoreInv'
  BY <1>2, <1>3, <1>4 DEF Next
<1>6. QED
  BY <1>1, <1>5, TypeInvariant, PTL DEF Spec

(* A Context can only see packages that have their files: RegisteredHasPrefix *)
(* of InstalledPackage::remove, DefinedPackage::install and every crash.   *)
THEOREM PackagesHaveFiles == Spec => []RegisteredHasPrefix
BY StoreInvariant, PTL DEF StoreInv

-----------------------------------------------------------------------------
(* The download cache *)

(* A step of one process leaves the others where they are.                 *)
LEMMA OthersStay ==
  ASSUME TypeOK, NEW q \in Proc, NEW p \in Proc \ {q}, Start(p) \/ Step(p) \/ Crash(p)
  PROVE  /\ pc'[q] = pc[q] /\ cur'[q] = cur[q]
         /\ hash'[q] = hash[q] /\ queue'[q] = queue[q]
         /\ known'[q] = known[q] /\ inUse'[q] = inUse[q]
         /\ todo'[q] = todo[q] /\ iDeps'[q] = iDeps[q]
<1>1. CASE Start(p) \/ ScanOne(p) \/ ScanIncomplete(p) \/ ScanSkips(p)
           \/ ScanVanished(p) \/ GiveUp(p)
  BY <1>1 DEF Start, ScanOne, ScanIncomplete, ScanSkips, ScanVanished, GiveUp, Goto,
     Exit, Pop, config, cache, history, memory, plan, job, TypeOK
<1>2. CASE Solve(p) \/ MayNotInstall(p) \/ NextGhost(p) \/ Download(p)
           \/ FetchSucceeds(p) \/ DownloadFails(p)
  BY <1>2 DEF Solve, MayNotInstall, NextGhost, Download, FetchSucceeds,
     DownloadFails, Goto, Exit, Pop, config, cache, history, memory, plan,
     job, TypeOK
<1>3. CASE CopyBegins(p) \/ CopyEnds(p)
  BY <1>3 DEF CopyBegins, CopyEnds, Goto, Exit, Pop, config, cache, history,
     memory, plan, job, TypeOK
<1>4. CASE Prepare(p) \/ PrepareFails(p) \/ CheckAttempted(p) \/ OpenLog(p)
  BY <1>4 DEF Prepare, PrepareFails, CheckAttempted, OpenLog, Goto, Exit, Pop,
     config, cache, history, memory, plan, job, TypeOK
<1>5. CASE BuildSucceeds(p) \/ BuildFails(p) \/ Unwind(p)
           \/ PublishBegins(p) \/ PublishEnds(p)
  BY <1>5 DEF BuildSucceeds, BuildFails, Unwind, PublishBegins, PublishEnds,
     Goto, Exit, Pop, config, cache, history, memory, plan, job, TypeOK
<1>6. CASE KeepLog(p) \/ KeepLogDies(p) \/ RemoveAttempted(p) \/ Register(p)
           \/ RegisterFails(p) \/ PostInstall(p) \/ PostInstallFails(p)
  BY <1>6 DEF KeepLog, KeepLogDies, RemoveAttempted, Register, RegisterFails,
     PostInstall, PostInstallFails, Goto, Exit, Pop, config, cache, history,
     memory, plan, job, TypeOK
<1>7. CASE Employ(p) \/ StampOne(p) \/ RunUserCommand(p)
           \/ UserCommandEnds(p) \/ Select(p) \/ NextSelected(p)
  BY <1>7 DEF Employ, StampOne, RunUserCommand, UserCommandEnds, Select,
     NextSelected, Goto, Exit, Pop, config, cache, history, memory, plan, job,
     TypeOK
<1>8. CASE Examine(p) \/ RemoveConfig(p) \/ RemovePrefix(p)
           \/ RemovalEnds(p)
  BY <1>8 DEF Examine, RemoveConfig, RemovePrefix, RemovalEnds, Goto, Exit,
     Pop, config, cache, history, memory, plan, job, TypeOK
<1>9. CASE Crash(p)
  BY <1>9 DEF Crash, Goto, Exit, Pop, config, cache, history, memory, plan,
     job, TypeOK
<1>10. CASE CreateSelf(p) \/ OpenSelf(p) \/ CloseSelf(p) \/ RegisterSelf(p)
           \/ SelfFails(p)
  BY <1>10 DEF CreateSelf, OpenSelf, CloseSelf, RegisterSelf, SelfFails, Goto,
     Exit, Pop, config, cache, history, memory, plan, job, TypeOK
<1>11. QED
  BY <1>1, <1>2, <1>3, <1>4, <1>5, <1>6, <1>7, <1>8, <1>9, <1>10
     DEF Step, ContextStep, ShellStep, RemoveStep

(* Only the two steps of a copy touch the download cache.                  *)
LEMMA OnlyCopiesWrite ==
  ASSUME TypeOK, NEW p \in Proc, Start(p) \/ Step(p) \/ Crash(p)
  PROVE  /\ CopyBegins(p) \/ CopyEnds(p) \/ tarball' = tarball
         /\ pc'[p] = "copying" => 
               CopyBegins(p) \/ (pc[p] = "copying" /\ cur'[p] = cur[p])
<1>1. CASE Start(p) \/ ScanOne(p) \/ ScanIncomplete(p) \/ ScanSkips(p)
           \/ ScanVanished(p) \/ GiveUp(p)
  BY <1>1 DEF Start, ScanOne, ScanIncomplete, ScanSkips, ScanVanished, GiveUp, Goto,
     Exit, Pop, config, cache, history, memory, plan, job, TypeOK
<1>2. CASE Solve(p) \/ MayNotInstall(p) \/ NextGhost(p) \/ Download(p)
           \/ FetchSucceeds(p) \/ DownloadFails(p)
  BY <1>2 DEF Solve, MayNotInstall, NextGhost, Download, FetchSucceeds,
     DownloadFails, Goto, Exit, Pop, config, cache, history, memory, plan,
     job, TypeOK
<1>3. CASE CopyBegins(p) \/ CopyEnds(p)
  BY <1>3 DEF CopyBegins, CopyEnds, Goto, Exit, Pop, config, cache, history,
     memory, plan, job, TypeOK
<1>4. CASE Prepare(p) \/ PrepareFails(p) \/ CheckAttempted(p) \/ OpenLog(p)
  BY <1>4 DEF Prepare, PrepareFails, CheckAttempted, OpenLog, Goto, Exit, Pop,
     config, cache, history, memory, plan, job, TypeOK
<1>5. CASE BuildSucceeds(p) \/ BuildFails(p) \/ Unwind(p)
           \/ PublishBegins(p) \/ PublishEnds(p)
  BY <1>5 DEF BuildSucceeds, BuildFails, Unwind, PublishBegins, PublishEnds,
     Goto, Exit, Pop, config, cache, history, memory, plan, job, TypeOK
<1>6. CASE KeepLog(p) \/ KeepLogDies(p) \/ RemoveAttempted(p) \/ Register(p)
           \/ RegisterFails(p) \/ PostInstall(p) \/ PostInstallFails(p)
  BY <1>6 DEF KeepLog, KeepLogDies, RemoveAttempted, Register, RegisterFails,
     PostInstall, PostInstallFails, Goto, Exit, Pop, config, cache, history,
     memory, plan, job, TypeOK
<1>7. CASE Employ(p) \/ StampOne(p) \/ RunUserCommand(p)
           \/ UserCommandEnds(p) \/ Select(p) \/ NextSelected(p)
  BY <1>7 DEF Employ, StampOne, RunUserCommand, UserCommandEnds, Select,
     NextSelected, Goto, Exit, Pop, config, cache, history, memory, plan, job,
     TypeOK
<1>8. CASE Examine(p) \/ RemoveConfig(p) \/ RemovePrefix(p)
           \/ RemovalEnds(p)
  BY <1>8 DEF Examine, RemoveConfig, RemovePrefix, RemovalEnds, Goto, Exit,
     Pop, config, cache, history, memory, plan, job, TypeOK
<1>9. CASE Crash(p)
  BY <1>9 DEF Crash, Goto, Exit, Pop, config, cache, history, memory, plan,
     job, TypeOK
<1>10. CASE CreateSelf(p) \/ OpenSelf(p) \/ CloseSelf(p) \/ RegisterSelf(p)
           \/ SelfFails(p)
  BY <1>10 DEF CreateSelf, OpenSelf, CloseSelf, RegisterSelf, SelfFails, Goto,
     Exit, Pop, config, cache, history, memory, plan, job, TypeOK
<1>11. QED
  BY <1>1, <1>2, <1>3, <1>4, <1>5, <1>6, <1>7, <1>8, <1>9, <1>10
     DEF Step, ContextStep, ShellStep, RemoveStep

(* The marks of the cache tell who may write it.                          *)
THEOREM CopyInvariant == Spec => []CopyInv
<1>1. Init => CopyInv
  BY DEF Init, CopyInv, OneCopier
<1>2. ASSUME TypeOK, JobOK, CopyInv, NEW p \in Proc, Start(p) \/ Step(p) \/ Crash(p)
      PROVE  CopyInv'
  <2> USE <1>2
  <2>1. CASE CopyBegins(p)
    <3>1. \A q \in Proc \ {p} : pc'[q] = pc[q] /\ cur'[q] = cur[q]
      BY OthersStay
    <3>2. \A q \in Proc \ {p} : pc[q] = "copying" => cur[q] \in Pkg /\ cur[q] # cur[p]
      BY <2>1 DEF CopyBegins, CopyInv, JobOK, Fetching
    <3>3. cur[p] \in Pkg /\ cur'[p] = cur[p] /\ tarball' = [tarball EXCEPT ![cur[p]] = "partial"]
      BY <2>1 DEF CopyBegins, memory, job, JobOK, Fetching
    <3>4. tarball \in [Pkg -> {"none", "partial", "full"}]
      BY DEF TypeOK
    <3>5. \A q \in Proc : pc'[q] = "copying" => tarball'[cur'[q]] = "partial"
      BY <3>1, <3>2, <3>3, <3>4 DEF CopyInv
    <3>6. OneCopier'
      BY <3>1, <3>2, <3>3 DEF CopyInv, OneCopier
    <3>7. QED
      BY <3>5, <3>6 DEF CopyInv
  <2>2. CASE CopyEnds(p)
    <3>1. \A q \in Proc \ {p} : pc'[q] = pc[q] /\ cur'[q] = cur[q]
      BY OthersStay
    <3>2. \A q \in Proc \ {p} : pc[q] = "copying" => cur[q] \in Pkg /\ cur[q] # cur[p]
      BY <2>2 DEF CopyEnds, CopyInv, OneCopier, JobOK, Fetching
    <3>3. cur[p] \in Pkg /\ tarball' = [tarball EXCEPT ![cur[p]] = "full"] /\ pc'[p] = "prepare"
      BY <2>2 DEF CopyEnds, Goto, JobOK, Fetching, TypeOK
    <3>4. tarball \in [Pkg -> {"none", "partial", "full"}]
      BY DEF TypeOK
    <3>5. \A q \in Proc : pc'[q] = "copying" => tarball'[cur'[q]] = "partial"
      BY <3>1, <3>2, <3>3, <3>4 DEF CopyInv
    <3>6. OneCopier'
      BY <3>1, <3>2, <3>3 DEF CopyInv, OneCopier
    <3>7. QED
      BY <3>5, <3>6 DEF CopyInv
  <2>3. CASE ~ CopyBegins(p) /\ ~ CopyEnds(p)
    <3>1. \A q \in Proc \ {p} : pc'[q] = pc[q] /\ cur'[q] = cur[q]
      BY OthersStay
    <3>2. /\ tarball' = tarball
          /\ pc'[p] = "copying" => pc[p] = "copying" /\ cur'[p] = cur[p]
      BY <2>3, OnlyCopiesWrite
    <3>3. QED
      BY <3>1, <3>2 DEF CopyInv, OneCopier
  <2>4. QED
    BY <2>1, <2>2, <2>3
<1>3. ASSUME CopyInv, Age PROVE CopyInv'
  BY <1>3 DEF Age, CopyInv, OneCopier, config, cache, plan, job, history
<1>4. ASSUME CopyInv, UNCHANGED vars PROVE CopyInv'
  BY <1>4 DEF vars, CopyInv, OneCopier, config, cache, memory, plan, job, history
<1>5. TypeOK /\ JobOK /\ CopyInv /\ [Next]_vars => CopyInv'
  BY <1>2, <1>3, <1>4 DEF Next
<1>6. QED
  BY <1>1, <1>5, TypeInvariant, PTL DEF Spec

(* Two downloads never write one file of the cache.                        *)
THEOREM TarballsHaveOneWriter == Spec => []OneCopier
BY CopyInvariant, PTL DEF CopyInv

-----------------------------------------------------------------------------
(* Prefix directories *)

(* Killed processes are not forgotten.                                     *)
LEMMA CrashesGrow ==
  ASSUME TypeOK, NEW p \in Proc, Start(p) \/ Step(p) \/ Crash(p)
  PROVE  crashes' = 0 => crashes = 0 /\ ~ Crash(p)
<1>1. CASE Start(p) \/ ScanOne(p) \/ ScanIncomplete(p) \/ ScanSkips(p)
           \/ ScanVanished(p) \/ GiveUp(p)
  BY <1>1 DEF Start, ScanOne, ScanIncomplete, ScanSkips, ScanVanished, GiveUp, Goto,
     Exit, Pop, config, cache, history, memory, plan, job, TypeOK, Crash
<1>2. CASE Solve(p) \/ MayNotInstall(p) \/ NextGhost(p) \/ Download(p)
           \/ FetchSucceeds(p) \/ DownloadFails(p)
  BY <1>2 DEF Solve, MayNotInstall, NextGhost, Download, FetchSucceeds,
     DownloadFails, Goto, Exit, Pop, config, cache, history, memory, plan,
     job, TypeOK, Crash
<1>3. CASE CopyBegins(p) \/ CopyEnds(p)
  BY <1>3 DEF CopyBegins, CopyEnds, Goto, Exit, Pop, config, cache, history,
     memory, plan, job, TypeOK, Crash
<1>4. CASE Prepare(p) \/ PrepareFails(p) \/ CheckAttempted(p) \/ OpenLog(p)
  BY <1>4 DEF Prepare, PrepareFails, CheckAttempted, OpenLog, Goto, Exit, Pop,
     config, cache, history, memory, plan, job, TypeOK, Crash
<1>5. CASE BuildSucceeds(p) \/ BuildFails(p) \/ Unwind(p)
           \/ PublishBegins(p) \/ PublishEnds(p)
  BY <1>5 DEF BuildSucceeds, BuildFails, Unwind, PublishBegins, PublishEnds,
     Goto, Exit, Pop, config, cache, history, memory, plan, job, TypeOK, Crash
<1>6. CASE KeepLog(p) \/ KeepLogDies(p) \/ RemoveAttempted(p) \/ Register(p)
           \/ RegisterFails(p) \/ PostInstall(p) \/ PostInstallFails(p)
  BY <1>6 DEF KeepLog, KeepLogDies, RemoveAttempted, Register, RegisterFails,
     PostInstall, PostInstallFails, Goto, Exit, Pop, config, cache, history,
     memory, plan, job, TypeOK, Crash
<1>7. CASE Employ(p) \/ StampOne(p) \/ RunUserCommand(p)
           \/ UserCommandEnds(p) \/ Select(p) \/ NextSelected(p)
  BY <1>7 DEF Employ, StampOne, RunUserCommand, UserCommandEnds, Select,
     NextSelected, Goto, Exit, Pop, config, cache, history, memory, plan, job,
     TypeOK, Crash
<1>8. CASE Examine(p) \/ RemoveConfig(p) \/ RemovePrefix(p)
           \/ RemovalEnds(p)
  BY <1>8 DEF Examine, RemoveConfig, RemovePrefix, RemovalEnds, Goto, Exit,
     Pop, config, cache, history, memory, plan, job, TypeOK, Crash
<1>9. CASE Crash(p)
  BY <1>9 DEF Crash, Goto, Exit, Pop, config, cache, history, memory, plan,
     job, TypeOK
<1>10. CASE CreateSelf(p) \/ OpenSelf(p) \/ CloseSelf(p) \/ RegisterSelf(p)
           \/ SelfFails(p)
  BY <1>10 DEF CreateSelf, OpenSelf, CloseSelf, RegisterSelf, SelfFails, Goto,
     Exit, Pop, config, cache, history, memory, plan, job, TypeOK, Crash
<1>11. QED
  BY <1>1, <1>2, <1>3, <1>4, <1>5, <1>6, <1>7, <1>8, <1>9, <1>10
     DEF Step, ContextStep, ShellStep, RemoveStep

(* No step leaves a directory behind that it worked on.                    *)
LEMMA NoPrefixLeft ==
  ASSUME TypeOK, JobOK, StoreInv, NEW h \in Hash, h \in prefix',
         NEW p \in Proc, Start(p) \/ Step(p)
  PROVE  \/ yaml'[h] # "none"
         \/ WorksOn(p, h)'
         \/ h \in prefix /\ yaml[h] = "none" /\ ~ WorksOn(p, h)
<1>1. CASE Start(p) \/ ScanOne(p) \/ ScanIncomplete(p) \/ ScanSkips(p)
           \/ ScanVanished(p) \/ GiveUp(p)
  BY <1>1 DEF Start, ScanOne, ScanIncomplete, ScanSkips, ScanVanished, GiveUp, Goto,
     Exit, Pop, config, cache, history, memory, plan, job, TypeOK, JobOK,
     StoreInv, InstallsUnseen, ConfigRemovedFirst, HashesDrawn,
     SeenIsPublished, WorksOn, Unpublished, Filling, Owning, Installing,
     Creating, Victim
<1>2. CASE Solve(p) \/ MayNotInstall(p) \/ NextGhost(p) \/ Download(p)
           \/ FetchSucceeds(p) \/ DownloadFails(p)
  BY <1>2 DEF Ready, Scanned, Solve, MayNotInstall, NextGhost, Download, FetchSucceeds,
     DownloadFails, Goto, Exit, Pop, config, cache, history, memory, plan,
     job, TypeOK, JobOK, StoreInv, InstallsUnseen, ConfigRemovedFirst,
     HashesDrawn, SeenIsPublished, WorksOn, Unpublished, Filling, Owning,
     Installing, Creating, Victim
<1>3. CASE CopyBegins(p) \/ CopyEnds(p)
  BY <1>3 DEF CopyBegins, CopyEnds, Goto, Exit, Pop, config, cache, history,
     memory, plan, job, TypeOK, JobOK, StoreInv, InstallsUnseen,
     ConfigRemovedFirst, HashesDrawn, SeenIsPublished, WorksOn, Unpublished, Filling,
     Owning, Installing, Creating, Victim
<1>4. CASE Prepare(p) \/ PrepareFails(p) \/ CheckAttempted(p) \/ OpenLog(p)
  BY <1>4 DEF Prepare, PrepareFails, CheckAttempted, OpenLog, Goto, Exit, Pop,
     config, cache, history, memory, plan, job, TypeOK, JobOK, StoreInv,
     InstallsUnseen, ConfigRemovedFirst, HashesDrawn, SeenIsPublished,
     WorksOn, Unpublished, Filling, Owning, Installing, Creating, Victim
<1>5. CASE BuildSucceeds(p) \/ BuildFails(p) \/ Unwind(p)
           \/ PublishBegins(p) \/ PublishEnds(p)
  BY <1>5 DEF BuildSucceeds, BuildFails, Unwind, PublishBegins, PublishEnds,
     Goto, Exit, Pop, config, cache, history, memory, plan, job, TypeOK,
     JobOK, StoreInv, InstallsUnseen, ConfigRemovedFirst, HashesDrawn,
     SeenIsPublished, WorksOn, Unpublished, Filling, Owning, Installing,
     Creating, Victim
<1>6. CASE KeepLog(p) \/ KeepLogDies(p) \/ RemoveAttempted(p) \/ Register(p)
           \/ RegisterFails(p) \/ PostInstall(p) \/ PostInstallFails(p)
  BY <1>6 DEF KeepLog, KeepLogDies, RemoveAttempted, Register, RegisterFails,
     PostInstall, PostInstallFails, Goto, Exit, Pop, config, cache, history,
     memory, plan, job, TypeOK, JobOK, StoreInv, InstallsUnseen,
     ConfigRemovedFirst, HashesDrawn, SeenIsPublished, WorksOn, Unpublished, Filling,
     Owning, Installing, Creating, Victim
<1>7. CASE Employ(p) \/ StampOne(p) \/ RunUserCommand(p)
           \/ UserCommandEnds(p) \/ Select(p) \/ NextSelected(p)
  BY <1>7 DEF Ready, Scanned, Employ, StampOne, RunUserCommand, UserCommandEnds, Select,
     NextSelected, Goto, Exit, Pop, config, cache, history, memory, plan, job,
     TypeOK, JobOK, StoreInv, InstallsUnseen, ConfigRemovedFirst, HashesDrawn,
     SeenIsPublished, WorksOn, Unpublished, Filling, Owning, Installing,
     Creating, Victim
<1>8. CASE Examine(p) \/ RemoveConfig(p) \/ RemovePrefix(p)
           \/ RemovalEnds(p)
  BY <1>8 DEF Examine, RemoveConfig, RemovePrefix, RemovalEnds, Goto, Exit,
     Pop, config, cache, history, memory, plan, job, TypeOK, JobOK, StoreInv,
     InstallsUnseen, ConfigRemovedFirst, HashesDrawn, SeenIsPublished,
     WorksOn, Unpublished, Filling, Owning, Installing, Creating, Victim
<1>9. CASE CreateSelf(p) \/ OpenSelf(p) \/ CloseSelf(p) \/ RegisterSelf(p)
           \/ SelfFails(p)
  BY <1>9 DEF Scanned, CreateSelf, OpenSelf, CloseSelf, RegisterSelf, SelfFails, Goto,
     Exit, Pop, config, cache, history, memory, plan, job, TypeOK, JobOK,
     StoreInv, InstallsUnseen, ConfigRemovedFirst, HashesDrawn,
     SeenIsPublished, WorksOn, Unpublished, Filling, Owning, Installing,
     Creating, Victim
<1>10. QED
  BY <1>1, <1>2, <1>3, <1>4, <1>5, <1>6, <1>7, <1>8, <1>9
     DEF Step, ContextStep, ShellStep, RemoveStep

(* A prefix directory is never left alone by a step that is not a kill.    *)
THEOREM PrefixOwnedInvariant == Spec => []PrefixOwned
<1>1. Init => PrefixOwned
  BY ConstantsOK DEF Init, PrefixOwned
<1>2. ASSUME TypeOK, JobOK, StoreInv, PrefixOwned, NEW p \in Proc,
             Start(p) \/ Step(p) \/ Crash(p)
      PROVE  PrefixOwned'
  <2> USE <1>2
  <2> SUFFICES ASSUME crashes' = 0, NEW h \in prefix'
               PROVE  yaml'[h] # "none" \/ \E q \in Proc : WorksOn(q, h)'
    BY DEF PrefixOwned
  <2>1. crashes = 0 /\ (Start(p) \/ Step(p))
    BY CrashesGrow
  <2>2. h \in Hash
    <3>1. TypeOK'
      BY StepKeepsTypes
    <3>2. QED
      BY <3>1 DEF TypeOK
  <2>3. \/ yaml'[h] # "none"
        \/ WorksOn(p, h)'
        \/ h \in prefix /\ yaml[h] = "none" /\ ~ WorksOn(p, h)
    BY <2>1, <2>2, NoPrefixLeft
  <2>4. CASE h \in prefix /\ yaml[h] = "none" /\ ~ WorksOn(p, h)
    <3>1. PICK q \in Proc \ {p} : WorksOn(q, h)
      BY <2>1, <2>4 DEF PrefixOwned
    <3>2. pc'[q] = pc[q] /\ hash'[q] = hash[q] /\ queue'[q] = queue[q]
      BY OthersStay
    <3>3. WorksOn(q, h)'
      BY <3>1, <3>2 DEF WorksOn, Victim
    <3>4. QED
      BY <3>3
  <2>5. QED
    BY <2>3, <2>4
<1>3. ASSUME PrefixOwned, Age PROVE PrefixOwned'
  BY <1>3 DEF Age, PrefixOwned, WorksOn, Victim, config, cache, plan, job, history
<1>4. ASSUME PrefixOwned, UNCHANGED vars PROVE PrefixOwned'
  BY <1>4 DEF vars, PrefixOwned, WorksOn, Victim, config, cache, memory, plan, job, history
<1>5. TypeOK /\ JobOK /\ StoreInv /\ PrefixOwned /\ [Next]_vars => PrefixOwned'
  BY <1>2, <1>3, <1>4 DEF Next
<1>6. QED
  BY <1>1, <1>5, TypeInvariant, StoreInvariant, PTL DEF Spec

(* Without a killed process no prefix directory is leaked.                 *)
THEOREM PrefixesHaveOwners == Spec => []NoOrphanPrefix
<1>1. TypeOK /\ PrefixOwned => NoOrphanPrefix
  BY DEF PrefixOwned, NoOrphanPrefix, WorksOn, TypeOK
<1>2. QED
  BY <1>1, TypeInvariant, PrefixOwnedInvariant, PTL

-----------------------------------------------------------------------------
(* The life cycle of a hash *)

(* Seven actions move hashes on; the others do not touch what phases are    *)
(* made of.                                                                *)
LEMMA PhasesUntouched ==
  ASSUME TypeOK, JobOK, StoreInv, NEW h \in Hash, NEW p \in Proc, Start(p) \/ Step(p) \/ Crash(p),
         ~ CreateSelf(p), ~ CloseSelf(p), ~ Prepare(p), ~ Unwind(p), ~ PublishEnds(p),
         ~ RemoveConfig(p), ~ RemovePrefix(p)
  PROVE  PhaseOf(h)' = PhaseOf(h)
<1>1. CASE Start(p) \/ ScanOne(p) \/ ScanIncomplete(p) \/ ScanSkips(p)
           \/ ScanVanished(p) \/ GiveUp(p)
  BY <1>1 DEF Start, ScanOne, ScanIncomplete, ScanSkips, ScanVanished, GiveUp, Goto,
     Exit, Pop, config, cache, history, memory, plan, job, TypeOK, JobOK,
     StoreInv, InstallsUnseen, SeenIsPublished, HashesDrawn, PhaseOf,
     Unpublished, Filling, Owning, Installing, Creating
<1>2. CASE Solve(p) \/ MayNotInstall(p) \/ NextGhost(p) \/ Download(p)
           \/ FetchSucceeds(p) \/ DownloadFails(p)
  BY <1>2 DEF Solve, MayNotInstall, NextGhost, Download, FetchSucceeds,
     DownloadFails, Goto, Exit, Pop, config, cache, history, memory, plan,
     job, TypeOK, JobOK, StoreInv, InstallsUnseen, SeenIsPublished,
     HashesDrawn, PhaseOf, Unpublished, Filling, Owning, Installing, Creating
<1>3. CASE CopyBegins(p) \/ CopyEnds(p)
  BY <1>3 DEF CopyBegins, CopyEnds, Goto, Exit, Pop, config, cache, history,
     memory, plan, job, TypeOK, JobOK, StoreInv, InstallsUnseen,
     SeenIsPublished, HashesDrawn, PhaseOf, Unpublished, Filling, Owning, Installing, Creating
<1>4. CASE PrepareFails(p) \/ CheckAttempted(p) \/ OpenLog(p)
  BY <1>4 DEF PrepareFails, CheckAttempted, OpenLog, Goto, Exit, Pop, config,
     cache, history, memory, plan, job, TypeOK, JobOK, StoreInv,
     InstallsUnseen, SeenIsPublished, HashesDrawn, PhaseOf, Unpublished, Filling,
     Owning, Installing, Creating
<1>5. CASE BuildSucceeds(p) \/ BuildFails(p) \/ PublishBegins(p)
  BY <1>5 DEF BuildSucceeds, BuildFails, PublishBegins, Goto, Exit, Pop,
     config, cache, history, memory, plan, job, TypeOK, JobOK, StoreInv,
     InstallsUnseen, SeenIsPublished, HashesDrawn, PhaseOf, Unpublished, Filling,
     Owning, Installing, Creating
<1>6. CASE KeepLog(p) \/ KeepLogDies(p) \/ RemoveAttempted(p) \/ Register(p)
           \/ RegisterFails(p) \/ PostInstall(p) \/ PostInstallFails(p)
  BY <1>6 DEF KeepLog, KeepLogDies, RemoveAttempted, Register, RegisterFails,
     PostInstall, PostInstallFails, Goto, Exit, Pop, config, cache, history,
     memory, plan, job, TypeOK, JobOK, StoreInv, InstallsUnseen,
     SeenIsPublished, HashesDrawn, PhaseOf, Unpublished, Filling, Owning, Installing, Creating
<1>7. CASE Employ(p) \/ StampOne(p) \/ RunUserCommand(p)
           \/ UserCommandEnds(p) \/ Select(p) \/ NextSelected(p)
  BY <1>7 DEF Employ, StampOne, RunUserCommand, UserCommandEnds, Select,
     NextSelected, Goto, Exit, Pop, config, cache, history, memory, plan, job,
     TypeOK, JobOK, StoreInv, InstallsUnseen, SeenIsPublished, HashesDrawn,
     PhaseOf, Unpublished, Filling, Owning, Installing, Creating
<1>8. CASE Examine(p) \/ RemovalEnds(p)
  BY <1>8 DEF Examine, RemovalEnds, Goto, Exit, Pop, config, cache, history,
     memory, plan, job, TypeOK, JobOK, StoreInv, InstallsUnseen,
     SeenIsPublished, HashesDrawn, PhaseOf, Unpublished, Filling, Owning, Installing, Creating
<1>9. CASE Crash(p)
  BY <1>9 DEF Crash, Goto, Exit, Pop, config, cache, history, memory, plan,
     job, TypeOK, JobOK, StoreInv, InstallsUnseen, SeenIsPublished,
     HashesDrawn, PhaseOf, Unpublished, Filling, Owning, Installing, Creating
<1>10. CASE OpenSelf(p) \/ RegisterSelf(p) \/ SelfFails(p)
  BY <1>10 DEF OpenSelf, RegisterSelf, SelfFails, Goto, Exit, Pop, config,
     cache, history, memory, plan, job, TypeOK, JobOK, StoreInv,
     InstallsUnseen, SeenIsPublished, HashesDrawn, PhaseOf, Unpublished,
     Filling, Owning, Installing, Creating
<1>11. QED
  BY <1>1, <1>2, <1>3, <1>4, <1>5, <1>6, <1>7, <1>8, <1>9, <1>10
     DEF Step, ContextStep, ShellStep, RemoveStep

(* One hash moves on or none does, and the others stay: a step of the      *)
(* life cycle.                                                             *)
LEMMA OneMoves ==
  ASSUME TypeOK, TypeOK', JobOK, StoreInv, NEW p \in Proc, Start(p) \/ Step(p) \/ Crash(p)
  PROVE  \/ \A h \in Hash : PhaseOf(h)' = PhaseOf(h)
         \/ \E h \in Hash :
               /\ \A g \in Hash \ {h} : PhaseOf(g)' = PhaseOf(g)
               /\ << PhaseOf(h), PhaseOf(h)' >> \in
                     { << "free", "building" >>, << "building", "installed" >>,
                       << "building", "gone" >>, << "installed", "retired" >>,
                       << "retired", "gone" >> }
<1> USE DEF TypeOK, JobOK, StoreInv, InstallsUnseen, SeenIsPublished, HashesDrawn,
        ConfigRemovedFirst, RegisteredHasPrefix, Unpublished, Filling, Owning,
        Installing, Creating, PhaseOf, Victim
<1>1. CASE Prepare(p)
  <2>1. PICK h \in Hash \ issued : issued' = issued \cup {h} /\ prefix' = prefix \cup {h}
    BY <1>1 DEF Prepare
  <2>2. UNCHANGED <<yaml, published>>
    BY <1>1 DEF Prepare, config
  <2>3. QED
    BY <2>1, <2>2
<1>2. CASE Unwind(p)
  <2>1. /\ pc[p] \in {"refused", "unwind"} /\ prefix' = prefix \ {hash[p]}
        /\ UNCHANGED <<yaml, published, issued>>
    BY <1>2 DEF Unwind, config, history
  <2>2. hash[p] \in Hash /\ hash[p] \in prefix \ published /\ yaml[hash[p]] = "none"
    BY <2>1
  <2>3. hash[p] \in issued
    BY <2>1
  <2>4. QED
    BY <2>1, <2>2, <2>3
<1>3. CASE PublishEnds(p)
  <2>1. /\ pc[p] = "publishing" /\ yaml' = [yaml EXCEPT ![hash[p]] = "full"]
        /\ published' = published \cup {hash[p]}
        /\ UNCHANGED <<prefix, issued>>
    BY <1>3 DEF PublishEnds
  <2>2. PICK h \in Hash : h = hash[p]
    BY <2>1
  <2>3. h \in prefix \ published /\ yaml[h] = "empty"
    BY <2>1, <2>2
  <2>4. /\ yaml' = [yaml EXCEPT ![h] = "full"] /\ published' = published \cup {h}
        /\ UNCHANGED <<prefix, issued>>
    BY <2>1, <2>2
  <2>5. yaml'[h] = "full" /\ \A g \in Hash \ {h} : yaml'[g] = yaml[g]
    BY <2>4
  <2>6. \A g \in Hash \ {h} : PhaseOf(g)' = PhaseOf(g)
    BY <2>4, <2>5
  <2>7. PhaseOf(h) = "building" /\ PhaseOf(h)' = "installed"
    BY <2>3, <2>5
  <2>8. QED
    BY <2>6, <2>7
<1>4. CASE RemoveConfig(p)
  <2>1. /\ pc[p] = "rm-yaml" /\ yaml' = [yaml EXCEPT ![Victim(p)] = "none"]
        /\ UNCHANGED <<prefix, published, issued>>
    BY <1>4 DEF RemoveConfig, history
  <2>2. Victim(p) \in published
    <3>1. queue[p] \in Seq(Hash) /\ queue[p] # <<>>
      BY <2>1
    <3>2. Len(queue[p]) \in DOMAIN queue[p]
      BY <3>1
    <3>3. QED
      BY <3>2
  <2>3. PICK h \in Hash : h = Victim(p)
    BY <2>2
  <2>4. /\ yaml' = [yaml EXCEPT ![h] = "none"] /\ h \in published
        /\ UNCHANGED <<prefix, published, issued>>
    BY <2>1, <2>2, <2>3
  <2>5. yaml'[h] = "none" /\ \A g \in Hash \ {h} : yaml'[g] = yaml[g]
    BY <2>4
  <2>6. \A g \in Hash \ {h} : PhaseOf(g)' = PhaseOf(g)
    BY <2>4, <2>5
  <2>7. \/ PhaseOf(h) = "installed" /\ PhaseOf(h)' = "retired"
        \/ PhaseOf(h)' = PhaseOf(h)
    BY <2>4, <2>5
  <2>8. QED
    BY <2>6, <2>7
<1>5. CASE RemovePrefix(p)
  <2>1. /\ pc[p] = "rm-prefix" /\ prefix' = prefix \ {Victim(p)}
        /\ UNCHANGED <<yaml, published, issued>>
    BY <1>5 DEF RemovePrefix, config, history
  <2>2. Victim(p) \in published
    <3>1. queue[p] \in Seq(Hash) /\ queue[p] # <<>>
      BY <2>1
    <3>2. Len(queue[p]) \in DOMAIN queue[p]
      BY <3>1
    <3>3. QED
      BY <3>2
  <2>3. QED
    BY <2>1, <2>2
<1>6. CASE CreateSelf(p)
  <2>1. PICK h \in Hash \ issued : issued' = issued \cup {h} /\ prefix' = prefix \cup {h}
    BY <1>6 DEF CreateSelf
  <2>2. UNCHANGED <<yaml, published>>
    BY <1>6 DEF CreateSelf, config
  <2>3. QED
    BY <2>1, <2>2
<1>7. CASE CloseSelf(p)
  <2>1. PICK h \in Hash : h = hash[p]
    BY <1>7 DEF CloseSelf
  <2>2. h \in prefix \ published /\ yaml[h] = "empty"
    BY <1>7, <2>1 DEF CloseSelf
  <2>3. /\ yaml' = [yaml EXCEPT ![h] = "full"] /\ published' = published \cup {h}
        /\ UNCHANGED <<prefix, issued>>
    BY <1>7, <2>1 DEF CloseSelf
  <2>4. yaml'[h] = "full" /\ \A g \in Hash \ {h} : yaml'[g] = yaml[g]
    BY <2>3
  <2>5. \A g \in Hash \ {h} : PhaseOf(g)' = PhaseOf(g)
    BY <2>3, <2>4
  <2>6. PhaseOf(h) = "building" /\ PhaseOf(h)' = "installed"
    BY <2>2, <2>4
  <2>7. QED
    BY <2>5, <2>6
<1> HIDE DEF TypeOK, JobOK, StoreInv, PhaseOf
<1>8. CASE /\ ~ CreateSelf(p) /\ ~ CloseSelf(p) /\ ~ Prepare(p) /\ ~ Unwind(p)
           /\ ~ PublishEnds(p) /\ ~ RemoveConfig(p) /\ ~ RemovePrefix(p)
  BY <1>8, PhasesUntouched
<1>9. QED
  BY <1>1, <1>2, <1>3, <1>4, <1>5, <1>6, <1>7, <1>8

(* The store implements the life cycle: a hash is reserved by the one      *)
(* process that makes its prefix directory, published once and removed     *)
(* once, and is never seen again.                                          *)
THEOREM StoreImplementsLifecycle == Spec => LifecycleSpec
<1> DEFINE phases == [h \in Hash |-> PhaseOf(h)]
<1>1. Init => Lifecycle!Init
  <2>1. Init => \A h \in Hash : PhaseOf(h) \in {"free", "installed"}
    BY DEF Init, PhaseOf
  <2>2. QED
    BY <2>1 DEF Lifecycle!Init
<1>2. ASSUME TypeOK, TypeOK', JobOK, StoreInv, [Next]_vars
      PROVE  [Lifecycle!Next]_phases
  <2>1. CASE \A h \in Hash : PhaseOf(h)' = PhaseOf(h)
    BY <2>1
  <2>2. ASSUME NEW h \in Hash,
               \A g \in Hash \ {h} : PhaseOf(g)' = PhaseOf(g),
               << PhaseOf(h), PhaseOf(h)' >> \in
                  { << "free", "building" >>, << "building", "installed" >>,
                    << "building", "gone" >>, << "installed", "retired" >>,
                    << "retired", "gone" >> }
        PROVE  Lifecycle!Next
    <3>1. \A to : PhaseOf(h)' = to => phases' = [phases EXCEPT ![h] = to]
      BY <2>2
    <3>2. QED
      BY <2>2, <3>1 DEF Lifecycle!Next, Lifecycle!Move, Lifecycle!Reserve,
         Lifecycle!Publish, Lifecycle!Abandon, Lifecycle!Retire, Lifecycle!Reclaim
  <2>3. CASE Age
    BY <2>1, <2>3 DEF Age, PhaseOf, config, history
  <2>4. CASE UNCHANGED vars
    BY <2>1, <2>4 DEF vars, PhaseOf, config, history
  <2>5. CASE \E p \in Proc : Start(p) \/ Step(p) \/ Crash(p)
    BY <1>2, <2>1, <2>2, <2>5, OneMoves
  <2>6. QED
    BY <1>2, <2>3, <2>4, <2>5 DEF Next
<1>3. QED
  BY <1>1, <1>2, TypeInvariant, StoreInvariant, PTL DEF Spec, LifecycleSpec, Lifecycle!Spec

-----------------------------------------------------------------------------
(* The plan of a command *)

Working == Fetching \cup Installing \cup {"next", "stamp", "use"}

(* No two packages of D have one name.                                     *)
NamesUnique(D) == \A c, d \in D : pkgOf[c] = pkgOf[d] => c = d

(* The packages a command employs, with those it has yet to install, have  *)
(* all their dependencies among them; what it installs has all of its own  *)
(* employed already.  Spock itself is employed from the start.             *)
PlanOf(p) ==
    /\ pc[p] \in Working =>
          /\ inUse[p] \subseteq known[p] /\ Self(known[p]) \subseteq inUse[p]
          /\ \A h \in inUse[p] : depsOf[h] \subseteq inUse[p]
          /\ \A k \in todo[p] : \A m \in InstallDeps[k] :
                m \in todo[p] \/ \E d \in inUse[p] : pkgOf[d] = m
    /\ pc[p] \in Fetching \cup Installing =>
          cur[p] \in todo[p] /\ InstallDeps[cur[p]] \cap todo[p] = {}
    /\ pc[p] \in Installing =>
          /\ inUse[p] \subseteq iDeps[p] /\ iDeps[p] \subseteq known[p]
          /\ NamesUnique(iDeps[p])
    /\ pc[p] \in {"finalize", "tidy", "register", "post"} =>
          /\ hash[p] \in published /\ pkgOf[hash[p]] = cur[p]
          /\ depsOf[hash[p]] \subseteq inUse[p]
    /\ pc[p] = "post" => hash[p] \in known[p]

PlanInv == \A p \in Proc : PlanOf(p)

(* A step that publishes nothing changes no configuration file's contents. *)
LEMMA ContentsStay ==
  ASSUME TypeOK, JobOK, NEW p \in Proc, Start(p) \/ Step(p) \/ Crash(p)
  PROVE  PublishEnds(p) \/ CloseSelf(p) \/ UNCHANGED <<pkgOf, depsOf, published>>
BY DEF Step, ContextStep, ShellStep, RemoveStep, Start, ScanOne, ScanIncomplete,
   ScanSkips, ScanVanished, GiveUp, CreateSelf, OpenSelf, RegisterSelf, SelfFails,
   Solve, MayNotInstall, NextGhost, Download, FetchSucceeds, DownloadFails, CopyBegins,
   CopyEnds, Prepare, PrepareFails, CheckAttempted, OpenLog, BuildSucceeds, BuildFails,
   Unwind, PublishBegins, KeepLog, KeepLogDies, RemoveAttempted, Register, RegisterFails,
   PostInstall, PostInstallFails, Employ, StampOne, RunUserCommand, UserCommandEnds,
   Select, NextSelected, Examine, RemoveConfig, RemovePrefix, RemovalEnds, Crash,
   Exit, config, history

(* What a complete configuration says is never changed.                    *)
LEMMA PublishedKept ==
  ASSUME TypeOK, JobOK, StoreInv, NEW p \in Proc, Start(p) \/ Step(p) \/ Crash(p)
  PROVE  /\ published \subseteq published' /\ published \subseteq Hash
         /\ \A h \in published : pkgOf'[h] = pkgOf[h] /\ depsOf'[h] = depsOf[h]
<1>1. published \subseteq Hash
  BY DEF TypeOK
<1>2. CASE PublishEnds(p) \/ CloseSelf(p)
  <2>1. pc[p] \in Filling /\ published' = published \cup {hash[p]}
    BY <1>2 DEF PublishEnds, CloseSelf, Filling
  <2>2. hash[p] \notin published
    BY <2>1 DEF StoreInv, InstallsUnseen
  <2>3. \A h \in published : pkgOf'[h] = pkgOf[h] /\ depsOf'[h] = depsOf[h]
    BY <1>1, <1>2, <2>2 DEF PublishEnds, CloseSelf, TypeOK
  <2>4. QED
    BY <1>1, <2>1, <2>3
<1>3. CASE ~ PublishEnds(p) /\ ~ CloseSelf(p)
  BY <1>1, <1>3, ContentsStay
<1>4. QED
  BY <1>2, <1>3

(* A solution has no two packages of one name.                             *)
LEMMA SolutionNamesUnique ==
  ASSUME NEW W, NEW E, NEW K, NEW D \in Solutions(W, E, K)
  PROVE  NamesUnique(D) /\ E \subseteq D /\ \A h \in D : depsOf[h] \subseteq D
BY DEF Solutions, Covers, Consistent, NamesUnique

(* What the request needs is needed with all its dependencies.             *)
LEMMA NeededClosed ==
  ASSUME NEW k \in Pkg, NEW j \in Needed(k), NEW m \in InstallDeps[j]
  PROVE  j \in Pkg /\ m \in Needed(k)
BY ConstantsOK DEF Needed

(* A process keeps its own plan complete while it carries it out.          *)
LEMMA StepKeepsPlan ==
  ASSUME TypeOK, JobOK, StoreInv, NEW p \in Proc, PlanOf(p), Start(p) \/ Step(p) \/ Crash(p)
  PROVE  PlanOf(p)'
<1> USE DEF Goto, TypeOK, PlanOf, Working, Fetching, Installing, NamesUnique, Self
<1>1. CASE Start(p) \/ ScanOne(p) \/ ScanIncomplete(p) \/ ScanSkips(p) \/ ScanVanished(p)
           \/ GiveUp(p)
  BY <1>1 DEF Start, ScanOne, ScanIncomplete, ScanSkips, ScanVanished, GiveUp, Exit,
     config, history, memory, plan, job
<1>2. CASE CreateSelf(p) \/ OpenSelf(p) \/ CloseSelf(p) \/ RegisterSelf(p) \/ SelfFails(p)
  BY <1>2 DEF CreateSelf, OpenSelf, CloseSelf, RegisterSelf, SelfFails, Exit,
     config, history, memory, plan, job
<1>3. CASE Solve(p)
  <2>1. PICK k \in Pkg : \E D \in InstalledParts(k, known[p]) :
           /\ inUse' = [inUse EXCEPT ![p] = D]
           /\ todo' = [todo EXCEPT ![p] = Needed(k) \ Names(D)]
    BY <1>3 DEF Solve
  <2>2. PICK D \in InstalledParts(k, known[p]) :
           /\ inUse' = [inUse EXCEPT ![p] = D]
           /\ todo' = [todo EXCEPT ![p] = Needed(k) \ Names(D)]
    BY <2>1
  <2>3. /\ D \subseteq known[p] /\ Self(known[p]) \subseteq D
        /\ \A h \in D : depsOf[h] \subseteq D
    BY DEF InstalledParts, Consistent
  <2>4. /\ inUse'[p] = D /\ todo'[p] = Needed(k) \ Names(D) /\ pc'[p] = "next"
        /\ UNCHANGED <<pkgOf, depsOf, published, known>>
    BY <1>3, <2>2 DEF Solve, config, history
  <2>5. \A j \in Needed(k) \ Names(D) : \A m \in InstallDeps[j] :
           m \in Needed(k) \ Names(D) \/ \E d \in D : pkgOf[d] = m
    BY NeededClosed DEF Names
  <2>6. QED
    BY <2>3, <2>4, <2>5
<1>4. CASE MayNotInstall(p) \/ NextGhost(p) \/ Download(p)
           \/ FetchSucceeds(p) \/ DownloadFails(p) \/ CopyBegins(p) \/ CopyEnds(p)
  BY <1>4 DEF MayNotInstall, NextGhost, Download, FetchSucceeds, DownloadFails,
     CopyBegins, CopyEnds, Exit, config, history, memory, plan, job
<1>5. CASE Prepare(p)
  <2>1. PICK D \in Solutions(InstallDeps[cur[p]], inUse[p], known[p]) :
           iDeps' = [iDeps EXCEPT ![p] = D]
    BY <1>5 DEF Prepare
  <2>2. inUse[p] \subseteq iDeps'[p] /\ iDeps'[p] \subseteq known[p] /\ NamesUnique(iDeps'[p])
    BY <2>1, SolutionNamesUnique, SolutionsAreKnown
  <2>3. /\ pc[p] = "prepare" /\ pc'[p] = "check"
        /\ UNCHANGED <<pkgOf, depsOf, published, inUse, todo, cur, known>>
    BY <1>5 DEF Prepare, config, plan
  <2>4. QED
    BY <2>2, <2>3
<1>6. CASE PrepareFails(p) \/ CheckAttempted(p) \/ OpenLog(p) \/ BuildSucceeds(p)
           \/ BuildFails(p) \/ Unwind(p) \/ PublishBegins(p)
  BY <1>6 DEF PrepareFails, CheckAttempted, OpenLog, BuildSucceeds, BuildFails, Unwind,
     PublishBegins, Exit, config, history, memory, plan, job
<1>7. CASE PublishEnds(p)
  <2> DEFINE h == hash[p]
  <2> DEFINE S == {d \in iDeps[p] : pkgOf[d] \in InstallDeps[cur[p]]} \cup Self(known[p])
  <2>1. /\ h \in Hash \ published /\ known[p] \subseteq published
        /\ pc[p] = "publishing" /\ pc'[p] = "finalize"
        /\ UNCHANGED <<inUse, todo, cur, hash, iDeps, known>>
    BY <1>7 DEF PublishEnds, JobOK, Owning, Filling, StoreInv, InstallsUnseen,
       SeenIsPublished, memory, plan, job
  <2>2. /\ inUse[p] \subseteq known[p] /\ Self(known[p]) \subseteq inUse[p]
        /\ \A g \in inUse[p] : depsOf[g] \subseteq inUse[p]
        /\ \A k \in todo[p] : \A m \in InstallDeps[k] :
              m \in todo[p] \/ \E d \in inUse[p] : pkgOf[d] = m
        /\ cur[p] \in todo[p] /\ InstallDeps[cur[p]] \cap todo[p] = {}
        /\ inUse[p] \subseteq iDeps[p] /\ iDeps[p] \subseteq known[p]
        /\ NamesUnique(iDeps[p])
    BY <2>1
  <2>3. S \subseteq inUse[p]
    BY <2>1, <2>2
  <2>4. /\ pkgOf'[h] = cur[p] /\ depsOf'[h] = S /\ published' = published \cup {h}
        /\ \A g \in published : pkgOf'[g] = pkgOf[g] /\ depsOf'[g] = depsOf[g]
    BY <1>7, <2>1 DEF PublishEnds
  <2> HIDE DEF S
  <2>5. inUse[p] \subseteq published
    BY <2>1, <2>2
  <2>6. \A g \in known[p] : pkgOf'[g] = pkgOf[g]
    BY <2>1, <2>4
  <2>7. \A g \in inUse[p] : depsOf'[g] \subseteq inUse[p]
    BY <2>2, <2>4, <2>5
  <2>8. ASSUME NEW k \in todo[p], NEW m \in InstallDeps[k], m \notin todo[p]
        PROVE  \E d \in inUse[p] : pkgOf'[d] = m
    <3>1. PICK d \in inUse[p] : pkgOf[d] = m
      BY <2>2, <2>8
    <3>2. QED
      BY <3>1, <2>4, <2>5
  <2>9. Self(known[p])' \subseteq inUse[p]
    BY <2>1, <2>2, <2>6
  <2>10. NamesUnique(iDeps[p])'
    BY <2>1, <2>2, <2>6
  <2>11. QED
    BY <2>1, <2>2, <2>3, <2>4, <2>7, <2>8, <2>9, <2>10
<1>8. CASE KeepLog(p) \/ KeepLogDies(p) \/ RemoveAttempted(p) \/ RegisterFails(p)
  BY <1>8 DEF KeepLog, KeepLogDies, RemoveAttempted, RegisterFails, Exit,
     config, history, memory, plan, job
<1>9. CASE Register(p)
  <2>1. /\ pc[p] = "register" /\ pc'[p] = "post" /\ known'[p] = known[p] \cup {hash[p]}
        /\ UNCHANGED <<pkgOf, depsOf, published, inUse, todo, cur, hash, iDeps>>
    BY <1>9 DEF Register, config, history, plan, job
  <2>2. pkgOf[hash[p]] # Spock
    BY <2>1, ConstantsOK DEF JobOK
  <2>3. Self(known[p])' = Self(known[p])
    BY <2>1, <2>2
  <2>4. QED
    BY <2>1, <2>3
<1>10. CASE PostInstall(p)
  <2>1. /\ pc[p] = "post" /\ pc'[p] = "next"
        /\ inUse'[p] = inUse[p] \cup {hash[p]} /\ todo'[p] = todo[p] \ {cur[p]}
        /\ UNCHANGED <<pkgOf, depsOf, published, known>>
    BY <1>10 DEF PostInstall, config, history
  <2>2. /\ hash[p] \in known[p] /\ pkgOf[hash[p]] = cur[p]
        /\ depsOf[hash[p]] \subseteq inUse[p] /\ inUse[p] \subseteq known[p]
        /\ Self(known[p]) \subseteq inUse[p]
        /\ \A g \in inUse[p] : depsOf[g] \subseteq inUse[p]
        /\ \A k \in todo[p] : \A m \in InstallDeps[k] :
              m \in todo[p] \/ \E d \in inUse[p] : pkgOf[d] = m
    BY <2>1
  <2>3. \A k \in todo'[p] : \A m \in InstallDeps[k] :
           m \in todo'[p] \/ \E d \in inUse'[p] : pkgOf[d] = m
    BY <2>1, <2>2
  <2>4. QED
    BY <2>1, <2>2, <2>3
<1>11. CASE PostInstallFails(p) \/ UserCommandEnds(p) \/ Crash(p)
  BY <1>11 DEF PostInstallFails, UserCommandEnds, Crash, Exit
<1>12. CASE Employ(p) \/ StampOne(p) \/ RunUserCommand(p)
  <2>1. /\ pc[p] \in {"next", "stamp"} /\ pc'[p] \in {"stamp", "use"}
        /\ UNCHANGED <<pkgOf, depsOf, inUse, todo, known>>
    BY <1>12 DEF Employ, StampOne, RunUserCommand, config, memory, plan
  <2>2. QED
    BY <2>1
<1>13. CASE RemoveStep(p)
  <2>1. CASE Select(p)
    BY <2>1 DEF Select
  <2>2. CASE NextSelected(p)
    BY <2>2 DEF NextSelected
  <2>3. CASE Examine(p)
    BY <2>3 DEF Examine
  <2>4. CASE RemoveConfig(p) \/ RemovePrefix(p) \/ RemovalEnds(p)
    BY <2>4 DEF RemoveConfig, RemovePrefix, RemovalEnds, Exit
  <2>5. QED
    BY <1>13, <2>1, <2>2, <2>3, <2>4 DEF RemoveStep
<1>14. QED
  BY <1>1, <1>2, <1>3, <1>4, <1>5, <1>6, <1>7, <1>8, <1>9, <1>10, <1>11, <1>12, <1>13
  DEF Step, ContextStep, ShellStep

(* Nor can others disturb it: what they publish is not in its snapshot, and*)
(* what they remove was.                                                   *)
LEMMA OthersKeepPlan ==
  ASSUME TypeOK, JobOK, StoreInv, NEW q \in Proc, PlanOf(q),
         NEW p \in Proc \ {q}, Start(p) \/ Step(p) \/ Crash(p)
  PROVE  PlanOf(q)'
<1>1. /\ pc'[q] = pc[q] /\ cur'[q] = cur[q] /\ hash'[q] = hash[q] /\ known'[q] = known[q]
      /\ inUse'[q] = inUse[q] /\ todo'[q] = todo[q] /\ iDeps'[q] = iDeps[q]
  BY OthersStay
<1>2. /\ published \subseteq published'
      /\ \A h \in published : pkgOf'[h] = pkgOf[h] /\ depsOf'[h] = depsOf[h]
  BY PublishedKept
<1>3. known[q] \subseteq published
  BY DEF StoreInv, SeenIsPublished
<1>4. Self(known[q])' = Self(known[q])
  BY <1>1, <1>2, <1>3 DEF Self
<1>5. pc[q] \in Installing => pc[q] \in Working
  BY DEF Working
<1>6. QED
  BY <1>1, <1>2, <1>3, <1>4, <1>5 DEF PlanOf, NamesUnique

(* A command employs packages with all their dependencies.                 *)
THEOREM PlanInvariant == Spec => []PlanInv
<1>1. Init => PlanInv
  BY DEF Init, PlanInv, PlanOf, Working, Fetching, Installing
<1>2. TypeOK /\ JobOK /\ StoreInv /\ PlanInv /\ [Next]_vars => PlanInv'
  <2>1. ASSUME PlanInv, Age \/ UNCHANGED vars PROVE PlanInv'
    BY <2>1 DEF Age, vars, PlanInv, PlanOf, NamesUnique, Self, config, cache, history, memory,
       plan, job
  <2>2. ASSUME TypeOK, JobOK, StoreInv, PlanInv,
               NEW p \in Proc, Start(p) \/ Step(p) \/ Crash(p)
        PROVE  PlanInv'
    <3> SUFFICES ASSUME NEW q \in Proc PROVE PlanOf(q)'
      BY DEF PlanInv
    <3>1. PlanOf(q)
      BY <2>2 DEF PlanInv
    <3>2. CASE q = p
      BY <2>2, <3>1, <3>2, StepKeepsPlan
    <3>3. CASE q # p
      BY <2>2, <3>1, <3>3, OthersKeepPlan
    <3>4. QED
      BY <3>2, <3>3
  <2>3. QED
    BY <2>1, <2>2 DEF Next
<1>3. QED
  BY <1>1, <1>2, TypeInvariant, StoreInvariant, PTL DEF Spec

(* The solution of the install dependencies alone never holds a ghost,     *)
(* though nothing refuses one (DefinedPackage::install, which rejects      *)
(* ghosts among the build dependencies only): whatever the package needs is*)
(* employed before it is installed.                                        *)
THEOREM GhostsNeverPublished == Spec => []NoGhostDependency
<1>1. TypeOK /\ PlanInv => NoGhostDependency
  <2> SUFFICES ASSUME TypeOK, PlanInv, NEW p \in Proc, pc[p] = "prepare",
                      SettlesForGhost(InstallDeps[cur[p]], inUse[p], known[p])
               PROVE  FALSE
    BY DEF NoGhostDependency
  <2> DEFINE W == InstallDeps[cur[p]]
  <2>1. /\ inUse[p] \subseteq known[p] /\ cur[p] \in todo[p] /\ W \cap todo[p] = {}
        /\ \A m \in W : m \in todo[p] \/ \E d \in inUse[p] : pkgOf[d] = m
    BY DEF PlanInv, PlanOf, Working, Fetching
  <2>2. \A m \in W : \E d \in inUse[p] : pkgOf[d] = m
    BY <2>1
  <2>3. PICK D : /\ D \subseteq inUse[p] \cup known[p]
                 /\ inUse[p] \subseteq D /\ Consistent(D)
                 /\ \A F \in Covers(W, inUse[p], known[p]) : ~ D \subseteq F
    BY DEF SettlesForGhost
  <2>4. D \in Covers(W, inUse[p], known[p])
    BY <2>1, <2>2, <2>3 DEF Covers, Names
  <2>5. QED
    BY <2>3, <2>4
<1>2. QED
  BY <1>1, TypeInvariant, PlanInvariant, PTL
================================================================================
