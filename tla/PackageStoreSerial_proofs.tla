---------------------- MODULE PackageStoreSerial_proofs ----------------------
(***************************************************************************)
(* What PackageStore guarantees in addition when users run one command at  *)
(* a time, for any packages, any number of commands and killed processes.  *)
(***************************************************************************)
EXTENDS PackageStore_proofs

(* There is one process slot.                                              *)
OneProcess == \A p, q \in Proc : p = q

-----------------------------------------------------------------------------
(* Failed configurations *)

(* A configuration whose last build failed is marked as attempted.  Between*)
(* the check for the mark and the build, the mark stays as it was read;    *)
(* when it is removed, the package was built.                              *)
AttemptInv ==
    /\ failed \subseteq log
    /\ \A p \in Proc :
          /\ pc[p] = "open" => Configuration(p) \notin log
          /\ pc[p] \in {"build", "corrupt"} => Configuration(p) \in log
          /\ pc[p] = "tidy" => Configuration(p) \notin failed

(* The mark is kept through every step of the only process.                *)
LEMMA StepKeepsAttempts ==
  ASSUME TypeOK, JobOK, OneProcess, AttemptInv,
         NEW p \in Proc, Start(p) \/ Step(p) \/ Crash(p)
  PROVE  AttemptInv'
<1> USE DEF Goto, Configuration, TypeOK, OneProcess, AttemptInv
<1>1. CASE Start(p) \/ ContextStep(p)
  BY <1>1 DEF Start, ContextStep, ScanOne, ScanIncomplete, ScanSkips, ScanVanished, GiveUp,
     CreateSelf, OpenSelf, CloseSelf, RegisterSelf, SelfFails, Scanned, Exit,
     config, cache, history, memory, plan, job
<1>2. CASE Solve(p) \/ MayNotInstall(p) \/ NextGhost(p) \/ Download(p)
           \/ FetchSucceeds(p) \/ DownloadFails(p) \/ CopyBegins(p) \/ CopyEnds(p)
  BY <1>2 DEF Solve, Ready, Scanned, MayNotInstall, NextGhost, Download, FetchSucceeds,
     DownloadFails, CopyBegins, CopyEnds, Exit, config, cache, history, memory, plan, job
<1>3. CASE Prepare(p) \/ PrepareFails(p) \/ CheckAttempted(p)
  BY <1>3 DEF Prepare, PrepareFails, CheckAttempted, Exit,
     config, cache, history, memory, plan, job
<1>4. CASE OpenLog(p) \/ BuildSucceeds(p) \/ BuildFails(p) \/ Unwind(p)
  BY <1>4 DEF OpenLog, BuildSucceeds, BuildFails, Unwind, Exit,
     config, cache, history, memory, plan, job
<1>5. CASE PublishBegins(p) \/ PublishEnds(p) \/ KeepLog(p) \/ KeepLogDies(p)
           \/ RemoveAttempted(p)
  BY <1>5 DEF PublishBegins, PublishEnds, KeepLog, KeepLogDies, RemoveAttempted, Exit,
     config, cache, history, memory, plan, job
<1>6. CASE Register(p) \/ RegisterFails(p) \/ PostInstall(p) \/ PostInstallFails(p)
           \/ Employ(p) \/ StampOne(p) \/ RunUserCommand(p) \/ UserCommandEnds(p)
  BY <1>6 DEF Register, RegisterFails, PostInstall, PostInstallFails, Employ, StampOne,
     RunUserCommand, UserCommandEnds, Exit, config, cache, history, memory, plan, job
<1>7. CASE RemoveStep(p) \/ Crash(p)
  BY <1>7 DEF RemoveStep, Select, Ready, Scanned, NextSelected, Examine, Pop, RemoveConfig,
     RemovePrefix, RemovalEnds, Crash, Exit, config, cache, history, memory, plan, job
<1>8. QED
  BY <1>1, <1>2, <1>3, <1>4, <1>5, <1>6, <1>7 DEF Step, ShellStep

(* The mark of a failed build outlives every command but a successful one.*)
THEOREM AttemptInvariant == ASSUME OneProcess PROVE Spec => []AttemptInv
<1>1. Init => AttemptInv
  BY DEF Init, AttemptInv
<1>2. TypeOK /\ JobOK /\ AttemptInv /\ [Next]_vars => AttemptInv'
  <2>1. ASSUME AttemptInv, Age \/ UNCHANGED vars PROVE AttemptInv'
    BY <2>1 DEF Age, vars, AttemptInv, Configuration, config, cache, history, memory, plan, job
  <2>2. QED
    BY <2>1, StepKeepsAttempts DEF Next
<1>3. QED
  BY <1>1, <1>2, TypeInvariant, PTL DEF Spec

(* A configuration whose last build failed is not built again              *)
(* (DefinedPackage::install, the check of the build log).                  *)
THEOREM FailedNotRebuilt == ASSUME OneProcess PROVE Spec => NoRebuildOfFailed
<1>1. AttemptInv => [\A p \in Proc : OpenLog(p) => Configuration(p) \notin failed]_vars
  BY DEF AttemptInv, OpenLog
<1>2. QED
  BY <1>1, AttemptInvariant, PTL DEF NoRebuildOfFailed

-----------------------------------------------------------------------------
(* What configuration files say *)

(* A complete configuration names packages that were complete before it;   *)
(* one that is not complete yet says nothing.  So there are no cycles:     *)
(* among any packages there is one that needs none of the others.          *)
Recorded ==
    /\ \A h \in published : depsOf[h] \subseteq published
    /\ \A h \in Hash \ published : depsOf[h] = {}
    /\ \A S \in SUBSET published : S # {} => \E h \in S : depsOf[h] \cap S = {}

(* A package that is published after those it needs closes no cycle.       *)
LEMMA PublishingKeepsRecorded ==
  ASSUME TypeOK, Recorded, NEW h \in Hash \ published, NEW D \in SUBSET published,
         depsOf' = [depsOf EXCEPT ![h] = D], published' = published \cup {h}
  PROVE  Recorded'
<1>1. published \subseteq Hash /\ \A g \in published : g # h
  BY DEF TypeOK
<1>2. depsOf'[h] = D /\ \A g \in Hash \ {h} : depsOf'[g] = depsOf[g]
  BY DEF TypeOK
<1>3. \A g \in published' : depsOf'[g] \subseteq published'
  BY <1>1, <1>2 DEF Recorded
<1>4. \A g \in Hash \ published' : depsOf'[g] = {}
  BY <1>2 DEF Recorded
<1>5. ASSUME NEW S \in SUBSET (published'), S # {}
      PROVE  \E g \in S : depsOf'[g] \cap S = {}
  <2> DEFINE T == S \ {h}
  <2>1. CASE T = {}
    BY <2>1, <1>1, <1>2, <1>5
  <2>2. CASE T # {}
    <3>1. T \in SUBSET published
      OBVIOUS
    <3>2. PICK g \in T : depsOf[g] \cap T = {}
      BY <2>2, <3>1 DEF Recorded
    <3>3. g \in published /\ depsOf[g] \subseteq published
      BY <3>1 DEF Recorded
    <3>4. depsOf'[g] = depsOf[g] /\ h \notin depsOf[g]
      BY <1>1, <1>2, <3>3
    <3>5. depsOf'[g] \cap S = {} /\ g \in S
      BY <3>2, <3>4
    <3>6. QED
      BY <3>5
  <2>3. QED
    BY <2>1, <2>2
<1>6. QED
  BY <1>3, <1>4, <1>5 DEF Recorded

(* Dependencies never form a cycle.                                        *)
THEOREM RecordedInvariant == Spec => []Recorded
<1>1. Init => Recorded
  BY ConstantsOK DEF Init, Recorded
<1>2. ASSUME TypeOK, JobOK, StoreInv, PlanInv, Recorded,
             NEW p \in Proc, Start(p) \/ Step(p) \/ Crash(p)
      PROVE  Recorded'
  <2>1. CASE PublishEnds(p)
    <3> DEFINE D == {d \in iDeps[p] : pkgOf[d] \in InstallDeps[cur[p]]} \cup Self(known[p])
    <3>1. /\ hash[p] \in Hash \ published
          /\ iDeps[p] \subseteq known[p] /\ known[p] \subseteq published
      BY <1>2, <2>1 DEF PublishEnds, JobOK, Owning, Filling, Installing, StoreInv,
         InstallsUnseen, SeenIsPublished, PlanInv, PlanOf
    <3>2. D \in SUBSET published
      BY <3>1 DEF Self
    <3>3. depsOf' = [depsOf EXCEPT ![hash[p]] = D] /\ published' = published \cup {hash[p]}
      BY <2>1 DEF PublishEnds
    <3> HIDE DEF D
    <3>4. PICK h \in Hash \ published : h = hash[p]
      BY <3>1
    <3>5. QED
      BY <1>2, <3>2, <3>3, <3>4, PublishingKeepsRecorded
  <2>2. CASE CloseSelf(p)
    <3>1. PICK h \in Hash \ published : h = hash[p]
      BY <1>2, <2>2 DEF CloseSelf, JobOK, Owning, Creating, Filling, StoreInv, InstallsUnseen
    <3>2. depsOf' = depsOf /\ published' = published \cup {h} /\ depsOf[h] = {}
      BY <1>2, <2>2, <3>1 DEF CloseSelf, Recorded
    <3>3. depsOf' = [depsOf EXCEPT ![h] = {}]
      BY <1>2, <3>2 DEF TypeOK
    <3>4. {} \in SUBSET published
      OBVIOUS
    <3>5. QED
      BY <1>2, <3>2, <3>3, <3>4, PublishingKeepsRecorded
  <2>3. CASE ~ PublishEnds(p) /\ ~ CloseSelf(p)
    <3>1. UNCHANGED <<depsOf, published>>
      BY <1>2, <2>3, ContentsStay
    <3>2. QED
      BY <1>2, <3>1 DEF Recorded
  <2>4. QED
    BY <2>1, <2>2, <2>3
<1>3. ASSUME Recorded, Age \/ UNCHANGED vars PROVE Recorded'
  <2>1. UNCHANGED <<depsOf, published>>
    BY <1>3 DEF Age, vars, config, history
  <2>2. QED
    BY <1>3, <2>1 DEF Recorded
<1>4. TypeOK /\ JobOK /\ StoreInv /\ PlanInv /\ Recorded /\ [Next]_vars => Recorded'
  BY <1>2, <1>3 DEF Next
<1>5. QED
  BY <1>1, <1>4, TypeInvariant, StoreInvariant, PlanInvariant, PTL DEF Spec

-----------------------------------------------------------------------------
(* Snapshots *)

Full == {h \in Hash : yaml[h] = "full"}

(* What a command has read of the store stays true as long as it does not  *)
(* remove anything itself; a removal has read all there is.                *)
SnapshotInv ==
    \A p \in Proc :
        /\ pc[p] \notin Removing => known[p] \subseteq Full
        /\ pc[p] \in Scanning => Full \subseteq known[p] \cup work[p]
        /\ pc[p] \in Creating => Full \subseteq known[p] \cup {hash[p]} /\ work[p] = {}
        /\ pc[p] \in Removing => Full \subseteq known[p] /\ work[p] \subseteq known[p]

(* The only process changes the store under no snapshot but its own.       *)
LEMMA StepKeepsSnapshots ==
  ASSUME TypeOK, JobOK, OneProcess, StoreInv, SnapshotInv,
         NEW p \in Proc, Start(p) \/ Step(p) \/ Crash(p)
  PROVE  SnapshotInv'
<1> USE DEF Goto, TypeOK, OneProcess, SnapshotInv, Full, Scanning, Creating, Removing, Installing
<1>1. CASE Start(p) \/ ScanOne(p) \/ ScanIncomplete(p) \/ ScanSkips(p) \/ ScanVanished(p)
           \/ GiveUp(p)
  BY <1>1 DEF Start, ScanOne, ScanIncomplete, ScanSkips, ScanVanished, GiveUp, Exit,
     config, memory, plan, job
<1>2. CASE CreateSelf(p) \/ RegisterSelf(p) \/ SelfFails(p)
  BY <1>2 DEF CreateSelf, RegisterSelf, SelfFails, Scanned, Exit, JobOK, Owning, config,
     memory, plan, job
<1>3. CASE OpenSelf(p) \/ CloseSelf(p)
  <2>1. /\ hash[p] \in Hash /\ yaml[hash[p]] # "full"
        /\ yaml' = [yaml EXCEPT ![hash[p]] = "empty"] \/ yaml' = [yaml EXCEPT ![hash[p]] = "full"]
        /\ pc[p] \in {"self", "self-write"} /\ pc'[p] \in {"self-write", "self-read"}
        /\ UNCHANGED <<known, hash, work>>
    BY <1>3 DEF OpenSelf, CloseSelf, StoreInv, InstallsUnseen, Unpublished, Filling, JobOK,
       Owning, memory, plan, job
  <2>2. Full \subseteq Full' /\ Full' \subseteq Full \cup {hash[p]}
    BY <2>1
  <2>3. known[p] \subseteq Full' /\ Full' \subseteq known[p] \cup {hash[p]} /\ work[p] = {}
    BY <2>1, <2>2
  <2>4. QED
    BY <2>1, <2>3
<1>4. CASE Solve(p) \/ MayNotInstall(p) \/ NextGhost(p) \/ Download(p)
           \/ FetchSucceeds(p) \/ DownloadFails(p) \/ CopyBegins(p) \/ CopyEnds(p)
  BY <1>4 DEF Solve, Ready, Scanned, MayNotInstall, NextGhost, Download, FetchSucceeds,
     DownloadFails, CopyBegins, CopyEnds, Exit, config, memory, plan, job
<1>5. CASE Prepare(p)
  BY <1>5 DEF Prepare, config, memory, plan, job
<1>6. CASE PrepareFails(p) \/ CheckAttempted(p) \/ OpenLog(p) \/ BuildSucceeds(p)
           \/ BuildFails(p) \/ Unwind(p)
  BY <1>6 DEF PrepareFails, CheckAttempted, OpenLog, BuildSucceeds, BuildFails, Unwind, Exit,
     config, memory, plan, job
<1>7. CASE PublishBegins(p) \/ PublishEnds(p)
  <2>1. /\ hash[p] \in Hash /\ yaml[hash[p]] # "full"
        /\ yaml' = [yaml EXCEPT ![hash[p]] = "empty"] \/ yaml' = [yaml EXCEPT ![hash[p]] = "full"]
        /\ pc[p] \in {"publish", "publishing"} /\ pc' = [pc EXCEPT ![p] = pc'[p]]
        /\ pc'[p] \in {"publishing", "finalize"}
        /\ UNCHANGED <<known, iDeps>>
    BY <1>7 DEF PublishBegins, PublishEnds, StoreInv, InstallsUnseen, Unpublished, Filling,
       JobOK, Owning, memory, plan, job
  <2>2. Full \subseteq Full'
    BY <2>1
  <2>3. known[p] \subseteq Full'
    BY <2>1, <2>2
  <2>4. QED
    BY <2>1, <2>3
<1>8. CASE KeepLog(p) \/ KeepLogDies(p) \/ RemoveAttempted(p)
  BY <1>8 DEF KeepLog, KeepLogDies, RemoveAttempted, Exit, config, memory, plan, job
<1>9. CASE Register(p) \/ RegisterFails(p) \/ PostInstall(p) \/ PostInstallFails(p)
           \/ Employ(p) \/ StampOne(p) \/ RunUserCommand(p) \/ UserCommandEnds(p)
  BY <1>9 DEF Register, RegisterFails, PostInstall, PostInstallFails, Employ, StampOne,
     RunUserCommand, UserCommandEnds, Exit, JobOK, Owning, config, memory, plan, job
<1>10. CASE Select(p)
  BY <1>10 DEF Select, Ready, Scanned, config, memory, plan, job
<1>11. CASE NextSelected(p) \/ Examine(p) \/ RemoveConfig(p) \/ RemovePrefix(p)
           \/ RemovalEnds(p) \/ Crash(p)
  BY <1>11 DEF NextSelected, Examine, Pop, RemoveConfig, RemovePrefix,
     RemovalEnds, Crash, Exit, config, memory, plan, job
<1>12. QED
  BY <1>1, <1>2, <1>3, <1>4, <1>5, <1>6, <1>7, <1>8, <1>9, <1>10, <1>11
  DEF Step, ContextStep, ShellStep, RemoveStep

(* A snapshot is true until its process removes what is in it.             *)
THEOREM SnapshotInvariant == ASSUME OneProcess PROVE Spec => []SnapshotInv
<1>1. Init => SnapshotInv
  BY DEF Init, SnapshotInv, Full, Scanning, Creating, Removing, Installing
<1>2. TypeOK /\ JobOK /\ StoreInv /\ SnapshotInv /\ [Next]_vars => SnapshotInv'
  <2>1. ASSUME SnapshotInv, Age \/ UNCHANGED vars PROVE SnapshotInv'
    BY <2>1 DEF Age, vars, SnapshotInv, Full, config, cache, history, memory, plan, job
  <2>2. QED
    BY <2>1, StepKeepsSnapshots DEF Next
<1>3. QED
  BY <1>1, <1>2, TypeInvariant, StoreInvariant, PTL DEF Spec

-----------------------------------------------------------------------------
(* Removal lists *)

(* What depends on a dependent is a dependent; a dependent needs another   *)
(* one, but for the package itself, which needs none of them.              *)
LEMMA DependentsNeed ==
  ASSUME Recorded, NEW K \in SUBSET published, NEW h \in K
  PROVE  /\ Dependents(h, K) \subseteq K
         /\ h \in Dependents(h, K)
         /\ \A g \in K : depsOf[g] \cap Dependents(h, K) # {} => g \in Dependents(h, K)
         /\ depsOf[h] \cap Dependents(h, K) = {}
<1> DEFINE D == Dependents(h, K)
<1>1. D \subseteq K /\ h \in D
  BY DEF Dependents
<1>2. ASSUME NEW g \in K, NEW d \in depsOf[g], d \in D
      PROVE  g \in D
  <2> SUFFICES ASSUME NEW S \in SUBSET K, h \in S, \A e \in K : depsOf[e] \cap S # {} => e \in S
               PROVE  g \in S
    BY DEF Dependents
  <2>1. d \in S
    BY <1>2 DEF Dependents
  <2>2. QED
    BY <2>1
<1>3. ASSUME NEW g \in D, g # h PROVE depsOf[g] \cap D # {}
  <2> DEFINE S == {h} \cup {e \in D : depsOf[e] \cap D # {}}
  <2>1. S \in SUBSET K /\ h \in S /\ S \subseteq D
    BY <1>1
  <2>2. ASSUME NEW e \in K, depsOf[e] \cap S # {} PROVE e \in S
    <3>1. depsOf[e] \cap D # {}
      BY <2>1, <2>2
    <3>2. e \in D
      BY <1>2, <3>1
    <3>3. QED
      BY <3>1, <3>2
  <2>3. g \in S
    <3> HIDE DEF S
    <3>1. QED
      BY <1>3, <2>1, <2>2 DEF Dependents
  <2>4. QED
    BY <1>3, <2>3
<1>4. PICK g \in D : depsOf[g] \cap D = {}
  BY <1>1 DEF Recorded
<1>5. QED
  BY <1>1, <1>2, <1>3, <1>4

(* A preorder lists every dependent.                                       *)
LEMMA PreorderListsAll ==
  ASSUME NEW h, NEW K \in SUBSET Hash, NEW s \in Preorders(h, K)
  PROVE  /\ DOMAIN s = 1 .. Len(s) /\ Len(s) \in Nat
         /\ \A i \in DOMAIN s : s[i] \in Dependents(h, K)
         /\ \A g \in Dependents(h, K) : \E i \in DOMAIN s : s[i] = g
<1> DEFINE D == Dependents(h, K)
<1> DEFINE n == Cardinality(D)
<1>1. D \subseteq K
  BY DEF Dependents
<1>2. IsFiniteSet(D) /\ n \in Nat
  BY <1>1, ConstantsOK, FS_Subset, FS_CardinalityType
<1>3. s \in [1 .. n -> D] /\ \A i, j \in DOMAIN s : s[i] = s[j] => i = j
  BY DEF Preorders, IsPreorder
<1> HIDE DEF D
<1>4. s \in Injection(1 .. n, D)
  BY <1>3 DEF Injection, IsInjective
<1>5. IsFiniteSet(1 .. n) /\ Cardinality(1 .. n) = n
  BY <1>2, FS_Interval
<1>6. s \in Surjection(1 .. n, D)
  BY <1>2, <1>4, <1>5, FS_Injection
<1>7. \A g \in D : \E i \in 1 .. n : s[i] = g
  BY <1>6 DEF Surjection
<1>8. QED
  BY <1>2, <1>3, <1>7 DEF D

(* A preorder lists a package before those that depend on it, unless they  *)
(* depend on two of the packages listed.                                   *)
LEMMA DependentsFollow ==
  ASSUME Recorded, NEW K \in SUBSET published, published \subseteq Hash,
         NEW h \in K, NEW s \in Preorders(h, K),
         NEW i \in DOMAIN s, NEW g \in K, s[i] \in depsOf[g],
         \A c, d \in depsOf[g] \cap Dependents(h, K) : c = d
  PROVE  \E j \in DOMAIN s : i < j /\ s[j] = g
<1> DEFINE D == Dependents(h, K)
<1>1. /\ DOMAIN s = 1 .. Len(s) /\ Len(s) \in Nat
      /\ \A j \in DOMAIN s : s[j] \in D
      /\ \A e \in D : \E j \in DOMAIN s : s[j] = e
  BY PreorderListsAll
<1>2. g \in D /\ depsOf[h] \cap D = {}
  BY <1>1, DependentsNeed
<1>3. PICK j \in DOMAIN s : s[j] = g
  BY <1>1, <1>2
<1>4. s[1] = h /\ \A a, b \in DOMAIN s : s[a] = s[b] => a = b
  BY DEF Preorders, IsPreorder
<1>5. j # 1
  BY <1>1, <1>2, <1>3, <1>4
<1>6. PICK a \in 1 .. (j - 1) : s[a] \in depsOf[g]
  BY <1>3, <1>5 DEF Preorders, IsPreorder
<1>7. a \in DOMAIN s
  BY <1>1
<1>8. s[a] = s[i]
  BY <1>1, <1>6, <1>7
<1>9. QED
  BY <1>1, <1>3, <1>4, <1>6, <1>7, <1>8

(* Whoever still depends on an entry of a removal list comes after it, or  *)
(* is exposed.                                                             *)
QueueInv ==
    \A p \in Proc :
        /\ pc[p] \notin Removing => queue[p] = <<>>
        /\ \A i \in DOMAIN queue[p] : \A g \in Full :
              queue[p][i] \in depsOf[g] =>
                  \/ \E j \in DOMAIN queue[p] : i < j /\ queue[p][j] = g
                  \/ g \in Exposed(p)

(* Steps that leave the removal list alone, or drop it.                    *)
LEMMA RemovalUntouched ==
  ASSUME OneProcess, QueueInv, NEW p \in Proc,
         \/ queue'[p] = <<>>
         \/ /\ pc'[p] \in Removing /\ queue'[p] = queue[p] /\ known'[p] = known[p]
            /\ Full' \subseteq Full /\ depsOf' = depsOf
  PROVE  QueueInv'
<1> SUFFICES ASSUME NEW q \in Proc
             PROVE  /\ pc'[q] \notin Removing => queue'[q] = <<>>
                    /\ \A i \in DOMAIN queue'[q] : \A g \in Full' :
                          queue'[q][i] \in depsOf'[g] =>
                              \/ \E j \in DOMAIN queue'[q] : i < j /\ queue'[q][j] = g
                              \/ g \in Exposed(q)'
  BY DEF QueueInv, Full
<1>1. q = p
  BY DEF OneProcess
<1>2. DOMAIN <<>> = {}
  OBVIOUS
<1>3. CASE queue'[p] = <<>>
  BY <1>1, <1>2, <1>3
<1>4. CASE /\ pc'[p] \in Removing /\ queue'[p] = queue[p] /\ known'[p] = known[p]
           /\ Full' \subseteq Full /\ depsOf' = depsOf
  <2>1. Exposed(p)' = Exposed(p)
    BY <1>4 DEF Exposed, Dependents
  <2>2. QED
    BY <1>1, <1>4, <2>1 DEF QueueInv
<1>5. QED
  BY <1>3, <1>4

(* Popping an entry that is gone takes only that from what is exposed.     *)
LEMMA PopExposes ==
  ASSUME TypeOK, NEW p \in Proc, queue[p] # <<>>, Pop(p), UNCHANGED <<depsOf, known>>,
         NEW g \in Exposed(p), g # Victim(p)
  PROVE  g \in Exposed(p)'
<1> DEFINE s == queue[p]
<1>1. s \in Seq(Hash) /\ s # <<>> /\ queue'[p] = SubSeq(s, 1, Len(s) - 1)
  BY DEF TypeOK, Pop
<1>2. /\ DOMAIN SubSeq(s, 1, Len(s) - 1) = 1 .. (Len(s) - 1)
      /\ \A k \in 1 .. (Len(s) - 1) : SubSeq(s, 1, Len(s) - 1)[k] = s[k]
      /\ DOMAIN s = 1 .. Len(s) /\ Len(s) \in Nat
  BY <1>1
<1>3. PICK k \in DOMAIN s : s[k] = g
  BY DEF Exposed
<1>4. k # Len(s)
  BY <1>3 DEF Victim
<1>5. k \in DOMAIN queue'[p] /\ queue'[p][k] = g /\ queue'[p][1] = s[1]
  BY <1>1, <1>2, <1>3, <1>4
<1>6. \E c, d \in depsOf[g] \cap Dependents(s[1], known[p]) : c # d
  BY DEF Exposed
<1>7. Dependents(queue[p][1], known[p])' = Dependents(s[1], known[p])
  BY <1>5 DEF Dependents
<1>8. QED
  BY <1>5, <1>6, <1>7 DEF Exposed

(* And the list stays in order.                                            *)
LEMMA PopKeepsQueue ==
  ASSUME TypeOK, OneProcess, QueueInv, NEW p \in Proc, pc'[p] \in Removing,
         queue[p] # <<>>, Pop(p), yaml[Victim(p)] # "full", UNCHANGED <<yaml, depsOf, known>>
  PROVE  QueueInv'
<1> \A q \in Proc : q = p
  BY DEF OneProcess
<1> SUFFICES ASSUME NEW i \in DOMAIN queue'[p], NEW g \in Full', queue'[p][i] \in depsOf'[g]
             PROVE  \/ \E j \in DOMAIN queue'[p] : i < j /\ queue'[p][j] = g
                    \/ g \in Exposed(p)'
  BY DEF QueueInv, Full
<1> DEFINE s == queue[p]
<1>2. s \in Seq(Hash) /\ s # <<>> /\ queue'[p] = SubSeq(s, 1, Len(s) - 1)
  BY DEF TypeOK, Pop
<1>3. /\ DOMAIN SubSeq(s, 1, Len(s) - 1) = 1 .. (Len(s) - 1)
      /\ \A k \in 1 .. (Len(s) - 1) : SubSeq(s, 1, Len(s) - 1)[k] = s[k]
      /\ DOMAIN s = 1 .. Len(s) /\ Len(s) \in Nat
  BY <1>2
<1>4. i \in DOMAIN s /\ g \in Full /\ s[i] \in depsOf[g] /\ g # Victim(p)
  BY <1>2, <1>3 DEF Full
<1>5. CASE \E j \in DOMAIN s : i < j /\ s[j] = g
  <2>1. PICK j \in DOMAIN s : i < j /\ s[j] = g
    BY <1>5
  <2>2. j # Len(s)
    BY <2>1, <1>4 DEF Victim
  <2>3. j \in DOMAIN queue'[p] /\ queue'[p][j] = g
    BY <1>2, <1>3, <2>1, <2>2
  <2>4. QED
    BY <2>1, <2>3
<1>6. CASE g \in Exposed(p)
  BY <1>4, <1>6, PopExposes
<1>7. QED
  BY <1>4, <1>5, <1>6 DEF QueueInv

(* The packages whose dependencies need not be there.                      *)
Excused(h) == h \in torn \/ \E p \in Proc : h \in Exposed(p)

(* Steps that change no configuration and excuse as much as before.        *)
LEMMA ClosedUntouched ==
  ASSUME DependenciesRegistered, UNCHANGED <<yaml, depsOf>>,
         \A h \in Full : Excused(h) => Excused(h)'
  PROVE  DependenciesRegistered'
BY DEF DependenciesRegistered, Excused, Full

(* Nothing is exposed without a removal list.                              *)
LEMMA NothingExposed ==
  ASSUME NEW p, queue[p] = <<>>
  PROVE  Exposed(p) = {}
BY DEF Exposed

(* Removal lists are in the right order, and every step keeps the store    *)
(* closed.                                                                 *)
LEMMA StepKeepsClosed ==
  ASSUME TypeOK, JobOK, OneProcess, StoreInv, PlanInv, Recorded, SnapshotInv, QueueInv,
         DependenciesRegistered, NEW p \in Proc, Start(p) \/ Step(p) \/ Crash(p)
  PROVE  QueueInv' /\ DependenciesRegistered'
<1> USE DEF Goto, TypeOK
<1> \A q \in Proc : q = p
  BY DEF OneProcess
<1>1. CASE \/ Start(p) \/ ScanOne(p) \/ ScanIncomplete(p) \/ ScanSkips(p) \/ ScanVanished(p)
           \/ GiveUp(p) \/ CreateSelf(p) \/ RegisterSelf(p) \/ SelfFails(p)
  <2>1. UNCHANGED <<yaml, depsOf, torn>> /\ queue'[p] = <<>> /\ queue[p] = <<>>
    BY <1>1 DEF Start, ScanOne, ScanIncomplete, ScanSkips, ScanVanished, GiveUp, CreateSelf,
       RegisterSelf, SelfFails, Scanned, Exit, config, memory, history, QueueInv, Removing
  <2>2. QED
    BY <2>1, RemovalUntouched, NothingExposed, ClosedUntouched DEF Excused
<1>2. CASE ShellStep(p) /\ ~ PublishBegins(p) /\ ~ PublishEnds(p)
  <2>1. UNCHANGED <<yaml, depsOf, torn>> /\ queue'[p] = <<>> /\ queue[p] = <<>>
    BY <1>2 DEF ShellStep, Solve, Ready, Scanned, MayNotInstall, NextGhost, Download,
       FetchSucceeds, DownloadFails, CopyBegins, CopyEnds, Prepare, PrepareFails,
       CheckAttempted, OpenLog, BuildSucceeds, BuildFails, Unwind, KeepLog, KeepLogDies,
       RemoveAttempted, Register, RegisterFails, PostInstall, PostInstallFails, Employ,
       StampOne, RunUserCommand, UserCommandEnds, Exit, config, memory, history, QueueInv,
       Removing
  <2>2. QED
    BY <2>1, RemovalUntouched, NothingExposed, ClosedUntouched DEF Excused
<1>3. CASE PublishBegins(p) \/ OpenSelf(p)
  <2>1. hash[p] \in Hash /\ yaml[hash[p]] = "none"
    BY <1>3 DEF PublishBegins, OpenSelf, StoreInv, InstallsUnseen, Unpublished, JobOK, Owning,
       Installing, Creating
  <2>2. /\ yaml' = [yaml EXCEPT ![hash[p]] = "empty"]
        /\ UNCHANGED <<depsOf, torn, queue>> /\ queue[p] = <<>>
    BY <1>3 DEF PublishBegins, OpenSelf, memory, history, QueueInv, Removing
  <2>3. Full' = Full
    BY <2>1, <2>2 DEF Full
  <2>4. Exposed(p) = {} /\ queue'[p] = <<>>
    BY <2>2, NothingExposed
  <2>5. \A g \in Full : g \notin torn => \A d \in depsOf[g] : d \in Full
    BY <2>4 DEF DependenciesRegistered, Full
  <2>6. DependenciesRegistered'
    <3> SUFFICES ASSUME NEW g \in Full', g \notin torn, NEW d \in depsOf[g] PROVE d \in Full'
      BY <2>2 DEF DependenciesRegistered, Full
    <3>1. QED
      BY <2>3, <2>5
  <2>7. QED
    BY <2>4, <2>6, RemovalUntouched
<1>4. CASE PublishEnds(p) \/ CloseSelf(p)
  <2> DEFINE h == hash[p]
  <2>1. /\ h \in Hash /\ h \notin published /\ queue' = queue /\ queue[p] = <<>>
        /\ yaml' = [yaml EXCEPT ![h] = "full"] /\ torn' = torn
        /\ \A g \in Hash \ {h} : depsOf'[g] = depsOf[g]
    BY <1>4 DEF PublishEnds, CloseSelf, StoreInv, InstallsUnseen, Filling, JobOK, Owning,
       Creating, Installing, Removing, QueueInv, memory
  <2>2. depsOf'[h] \subseteq Full
    <3>1. CASE PublishEnds(p)
      <4>1. depsOf'[h] = {d \in iDeps[p] : pkgOf[d] \in InstallDeps[cur[p]]} \cup Self(known[p])
        BY <2>1, <3>1 DEF PublishEnds
      <4>2. iDeps[p] \subseteq known[p] /\ known[p] \subseteq Full
        BY <3>1 DEF PublishEnds, PlanInv, PlanOf, SnapshotInv, Installing, Removing
      <4>3. QED
        BY <4>1, <4>2 DEF Self
    <3>2. CASE CloseSelf(p)
      BY <2>1, <3>2 DEF CloseSelf, Recorded
    <3>3. QED
      BY <1>4, <3>1, <3>2
  <2>3. Full' = Full \cup {h}
    BY <2>1 DEF Full
  <2>4. \A g \in Full : g \notin torn => \A d \in depsOf[g] : d \in Full
    BY <2>1, NothingExposed DEF DependenciesRegistered, Full
  <2>5. DependenciesRegistered'
    <3> SUFFICES ASSUME NEW g \in Full', g \notin torn, NEW d \in depsOf'[g] PROVE d \in Full'
      BY <2>1 DEF DependenciesRegistered, Full
    <3>1. CASE g = h
      BY <3>1, <2>2, <2>3
    <3>2. CASE g # h
      <4>1. g \in Full /\ depsOf'[g] = depsOf[g]
        BY <3>2, <2>1, <2>3 DEF Full
      <4>2. QED
        BY <4>1, <2>3, <2>4
    <3>3. QED
      BY <3>1, <3>2
  <2>6. QueueInv'
    BY <2>1, RemovalUntouched
  <2>7. QED
    BY <2>5, <2>6
<1>5. CASE Select(p)
  <2>1. UNCHANGED <<yaml, depsOf, torn>> /\ queue'[p] = <<>> /\ queue[p] = <<>>
    BY <1>5 DEF Select, Ready, Scanned, config, history, QueueInv, Removing
  <2>2. QED
    BY <2>1, RemovalUntouched, NothingExposed, ClosedUntouched DEF Excused
<1>6. CASE NextSelected(p)
  <2>1. PICK K \in SUBSET published : K = known[p]
    BY DEF StoreInv, SeenIsPublished
  <2>2. PICK h \in K : \E s \in Preorders(h, K) : queue' = [queue EXCEPT ![p] = s]
    BY <1>6, <2>1 DEF NextSelected, SnapshotInv, Removing
  <2>3. PICK s \in Preorders(h, K) : queue' = [queue EXCEPT ![p] = s]
    BY <2>2
  <2>4. /\ queue'[p] = s /\ queue[p] = <<>> /\ UNCHANGED <<yaml, depsOf, known, torn>>
        /\ Full \subseteq K /\ pc'[p] \in Removing /\ published \subseteq Hash
    BY <1>6, <2>1, <2>3 DEF NextSelected, config, history, SnapshotInv, Removing
  <2>5. ASSUME NEW i \in DOMAIN s, NEW g \in Full, s[i] \in depsOf[g]
        PROVE  (\E j \in DOMAIN s : i < j /\ s[j] = g) \/ g \in Exposed(p)'
    <3>1. g \in K
      BY <2>4
    <3>2. CASE \A c, d \in depsOf[g] \cap Dependents(h, K) : c = d
      BY <2>1, <2>3, <2>4, <2>5, <3>1, <3>2, DependentsFollow
    <3>3. CASE \E c, d \in depsOf[g] \cap Dependents(h, K) : c # d
      <4>1. g \in Dependents(h, K)
        BY <2>1, <2>3, <3>1, <3>3, DependentsNeed
      <4>2. PICK j \in DOMAIN s : s[j] = g
        <5>1. K \in SUBSET Hash
          BY <2>4
        <5>2. QED
          BY <4>1, <5>1, PreorderListsAll
      <4>3. s[1] = h
        BY DEF Preorders, IsPreorder
      <4>4. Dependents(queue[p][1], known[p])' = Dependents(h, K)
        BY <2>1, <2>3, <2>4, <4>3 DEF Dependents
      <4>5. QED
        BY <2>4, <3>3, <4>2, <4>4 DEF Exposed
    <3>4. QED
      BY <3>2, <3>3
  <2>6. QueueInv'
    BY <2>4, <2>5 DEF QueueInv, Full
  <2>7. DependenciesRegistered'
    BY <2>4, NothingExposed, ClosedUntouched DEF Excused
  <2>8. QED
    BY <2>6, <2>7
<1>7. CASE Examine(p) \/ RemovePrefix(p)
  <2>1. /\ UNCHANGED <<yaml, depsOf, known, torn>> /\ queue[p] # <<>>
        /\ pc[p] \in Removing /\ pc'[p] \in Removing
    BY <1>7 DEF Examine, RemovePrefix, config, history, JobOK, Removing
  <2>2. CASE queue' = queue
    <3>1. Exposed(p)' = Exposed(p)
      BY <2>1, <2>2 DEF Exposed, Dependents
    <3>2. DependenciesRegistered'
      BY <2>1, <3>1, ClosedUntouched DEF Excused
    <3>3. Full' = Full
      BY <2>1 DEF Full
    <3>4. QED
      BY <2>1, <2>2, <3>2, <3>3, RemovalUntouched
  <2>3. CASE Pop(p) /\ yaml[Victim(p)] # "full"
    <3>1. \A g \in Full : g \in Exposed(p) => g \in Exposed(p)'
      BY <2>1, <2>3, PopExposes DEF Full
    <3>2. DependenciesRegistered'
      BY <2>1, <3>1, ClosedUntouched DEF Excused
    <3>3. QED
      BY <2>1, <2>3, <3>2, PopKeepsQueue
  <2>4. queue' = queue \/ (Pop(p) /\ yaml[Victim(p)] # "full")
    BY <1>7 DEF Examine, RemovePrefix, StoreInv, ConfigRemovedFirst
  <2>5. QED
    BY <2>2, <2>3, <2>4
<1>8. CASE RemoveConfig(p)
  <2> DEFINE v == Victim(p)
  <2>1. /\ yaml' = [yaml EXCEPT ![v] = "none"] /\ UNCHANGED <<depsOf, queue, known, torn>>
        /\ pc'[p] \in Removing /\ queue[p] # <<>>
    BY <1>8 DEF RemoveConfig, JobOK, Removing, memory, history
  <2>2. /\ DOMAIN queue[p] = 1 .. Len(queue[p]) /\ Len(queue[p]) \in Nat \ {0}
        /\ Len(queue[p]) \in DOMAIN queue[p] /\ v = queue[p][Len(queue[p])]
    BY <2>1 DEF Victim
  <2>3. Full' = Full \ {v}
    BY <2>1 DEF Full
  <2>4. Exposed(p)' = Exposed(p)
    BY <2>1 DEF Exposed, Dependents
  <2>5. ASSUME NEW g \in Full, v \in depsOf[g] PROVE g \in Exposed(p)
    <3>1. \/ \E j \in DOMAIN queue[p] : Len(queue[p]) < j
          \/ g \in Exposed(p)
      BY <2>2, <2>5 DEF QueueInv
    <3>2. QED
      BY <2>2, <3>1
  <2>6. DependenciesRegistered'
    <3> SUFFICES ASSUME NEW g \in Full', ~ Excused(g), NEW d \in depsOf[g] PROVE d \in Full'
      BY <2>1, <2>4 DEF DependenciesRegistered, Full, Excused
    <3>1. g \in Full /\ d \in Full
      BY <2>3 DEF DependenciesRegistered, Full, Excused
    <3>2. d # v
      BY <2>5, <3>1 DEF Excused
    <3>3. QED
      BY <2>3, <3>1, <3>2
  <2>7. QED
    BY <2>1, <2>3, <2>6, RemovalUntouched
<1>9. CASE RemovalEnds(p)
  <2>1. UNCHANGED <<yaml, depsOf, torn>> /\ queue'[p] = <<>> /\ queue[p] = <<>>
    BY <1>9 DEF RemovalEnds, Exit, config, history
  <2>2. QED
    BY <2>1, RemovalUntouched, NothingExposed, ClosedUntouched DEF Excused
<1>10. CASE Crash(p)
  <2>1. /\ UNCHANGED <<yaml, depsOf>> /\ queue'[p] = <<>>
        /\ torn' = torn \cup Exposed(p)
    BY <1>10 DEF Crash, Exit, config
  <2>2. QED
    BY <2>1, RemovalUntouched, ClosedUntouched DEF Excused
<1>11. QED
  BY <1>1, <1>2, <1>3, <1>4, <1>5, <1>6, <1>7, <1>8, <1>9, <1>10
  DEF Step, ContextStep, RemoveStep

(* The store and the removal list of the only process together.            *)
THEOREM ClosedInvariant ==
  ASSUME OneProcess PROVE Spec => [](QueueInv /\ DependenciesRegistered)
<1>1. Init => QueueInv /\ DependenciesRegistered
  BY DEF Init, QueueInv, DependenciesRegistered
<1>2. /\ TypeOK /\ JobOK /\ StoreInv /\ PlanInv /\ Recorded /\ SnapshotInv
      /\ QueueInv /\ DependenciesRegistered /\ [Next]_vars
      => QueueInv' /\ DependenciesRegistered'
  <2>1. ASSUME QueueInv, DependenciesRegistered, Age \/ UNCHANGED vars
        PROVE  QueueInv' /\ DependenciesRegistered'
    <3>1. UNCHANGED <<yaml, depsOf, pc, known, queue, torn>>
      BY <2>1 DEF Age, vars, config, history, memory
    <3>2. \A p \in Proc : Exposed(p)' = Exposed(p)
      BY <3>1 DEF Exposed, Dependents
    <3>3. Full' = Full
      BY <3>1 DEF Full
    <3>4. QED
      BY <2>1, <3>1, <3>2, <3>3 DEF QueueInv, DependenciesRegistered
  <2>2. QED
    BY <2>1, StepKeepsClosed DEF Next
<1>3. QED
  BY <1>1, <1>2, TypeInvariant, StoreInvariant, PlanInvariant, RecordedInvariant,
     SnapshotInvariant, PTL DEF Spec

(* Every dependency that an installed package names is installed, whatever *)
(* fails and wherever a command is killed, except for packages that a      *)
(* removal has yet to reach, or had when it was killed, and that need two  *)
(* of the packages it removes (InstalledPackage::remove, after the order of*)
(* spock-rm's removal list; DefinedPackage::install).                      *)
THEOREM DependenciesStayRegistered ==
  ASSUME OneProcess PROVE Spec => []DependenciesRegistered
BY ClosedInvariant, PTL

-----------------------------------------------------------------------------
(* Spock's own package *)

(* While a process makes the package there is no other.                    *)
SelfInv ==
    /\ OneSelf
    /\ \A p \in Proc : pc[p] \in {"self", "self-write"} => Self(Full) = {}

(* Only the two steps that complete a file make a package visible, and only*)
(* the first step of its creation leads to the others.                     *)
LEMMA ConfigsMade ==
  ASSUME TypeOK, JobOK, NEW p \in Proc, Start(p) \/ Step(p) \/ Crash(p),
         ~ CloseSelf(p), ~ PublishEnds(p), ~ CreateSelf(p)
  PROVE  /\ \A g \in Hash : yaml'[g] = "full" => yaml[g] = "full"
         /\ pc'[p] \in {"self", "self-write"} => pc[p] \in {"self", "self-write"}
<1> USE DEF Goto, TypeOK
<1>1. CASE Start(p) \/ ContextStep(p)
  BY <1>1 DEF Start, ContextStep, ScanOne, ScanIncomplete, ScanSkips, ScanVanished, GiveUp,
     OpenSelf, RegisterSelf, SelfFails, Exit, JobOK, Owning, Creating, config
<1>2. CASE Solve(p) \/ MayNotInstall(p) \/ NextGhost(p) \/ Download(p)
           \/ FetchSucceeds(p) \/ DownloadFails(p) \/ CopyBegins(p) \/ CopyEnds(p)
  BY <1>2 DEF Solve, MayNotInstall, NextGhost, Download, FetchSucceeds, DownloadFails,
     CopyBegins, CopyEnds, Exit, config
<1>3. CASE Prepare(p) \/ PrepareFails(p) \/ CheckAttempted(p) \/ OpenLog(p)
           \/ BuildSucceeds(p) \/ BuildFails(p) \/ Unwind(p) \/ PublishBegins(p)
  BY <1>3 DEF Prepare, PrepareFails, CheckAttempted, OpenLog, BuildSucceeds, BuildFails,
     Unwind, PublishBegins, Exit, JobOK, Owning, Installing, config
<1>4. CASE KeepLog(p) \/ KeepLogDies(p) \/ RemoveAttempted(p) \/ Register(p)
           \/ RegisterFails(p) \/ PostInstall(p) \/ PostInstallFails(p)
  BY <1>4 DEF KeepLog, KeepLogDies, RemoveAttempted, Register, RegisterFails, PostInstall,
     PostInstallFails, Exit, config
<1>5. CASE Employ(p) \/ StampOne(p) \/ RunUserCommand(p) \/ UserCommandEnds(p)
  BY <1>5 DEF Employ, StampOne, RunUserCommand, UserCommandEnds, Exit, config
<1>6. CASE RemoveStep(p) \/ Crash(p)
  BY <1>6 DEF RemoveStep, Select, NextSelected, Examine, RemoveConfig, RemovePrefix,
     RemovalEnds, Crash, Exit, config
<1>7. QED
  BY <1>1, <1>2, <1>3, <1>4, <1>5, <1>6 DEF Step, ShellStep

(* Only a snapshot without one makes a process create it, and the snapshot *)
(* of the only process is complete.                                        *)
LEMMA StepKeepsSelf ==
  ASSUME TypeOK, JobOK, OneProcess, StoreInv, SnapshotInv, SelfInv,
         NEW p \in Proc, Start(p) \/ Step(p) \/ Crash(p)
  PROVE  SelfInv'
<1> USE DEF Goto, TypeOK
<1> \A q \in Proc : q = p
  BY DEF OneProcess
<1>1. CASE CloseSelf(p)
  <2>1. /\ hash[p] \in Hash /\ yaml' = [yaml EXCEPT ![hash[p]] = "full"]
        /\ pkgOf' = [pkgOf EXCEPT ![hash[p]] = Spock]
        /\ pc'[p] = "self-read" /\ Self(Full) = {}
    BY <1>1 DEF CloseSelf, JobOK, Owning, Creating, SelfInv
  <2>2. \A g \in Hash : yaml'[g] = "full" /\ pkgOf'[g] = Spock => g = hash[p]
    BY <2>1 DEF Self, Full
  <2>3. QED
    BY <2>1, <2>2 DEF SelfInv, OneSelf
<1>2. CASE PublishEnds(p)
  <2>1. /\ hash[p] \in Hash /\ yaml' = [yaml EXCEPT ![hash[p]] = "full"]
        /\ pkgOf' = [pkgOf EXCEPT ![hash[p]] = cur[p]] /\ cur[p] # Spock
        /\ pc'[p] = "finalize"
    BY <1>2, ConstantsOK DEF PublishEnds, JobOK, Owning, Installing
  <2>2. \A g \in Hash : yaml'[g] = "full" /\ pkgOf'[g] = Spock =>
           yaml[g] = "full" /\ pkgOf[g] = Spock
    BY <2>1
  <2>3. QED
    BY <2>1, <2>2 DEF SelfInv, OneSelf
<1>3. CASE CreateSelf(p)
  <2>1. UNCHANGED <<yaml, pkgOf>> /\ Full \subseteq known[p] /\ Self(known[p]) = {}
    BY <1>3 DEF CreateSelf, Scanned, config, SnapshotInv, Scanning
  <2>2. Self(Full)' = {}
    BY <2>1 DEF Self, Full
  <2>3. QED
    BY <2>1, <2>2 DEF SelfInv, OneSelf
<1>4. CASE ~ CloseSelf(p) /\ ~ PublishEnds(p) /\ ~ CreateSelf(p)
  <2>1. pkgOf' = pkgOf
    BY <1>4, ContentsStay
  <2>2. \A g \in Hash : yaml'[g] = "full" => yaml[g] = "full"
    BY <1>4, ConfigsMade
  <2>3. pc'[p] \in {"self", "self-write"} => pc[p] \in {"self", "self-write"}
    BY <1>4, ConfigsMade
  <2>4. QED
    BY <2>1, <2>2, <2>3 DEF SelfInv, OneSelf, Self, Full
<1>5. QED
  BY <1>1, <1>2, <1>3, <1>4

(* There is one package for Spock itself.                                  *)
THEOREM SelfInvariant == ASSUME OneProcess PROVE Spec => []SelfInv
<1>1. Init => SelfInv
  BY ConstantsOK DEF Init, SelfInv, OneSelf
<1>2. TypeOK /\ JobOK /\ StoreInv /\ SnapshotInv /\ SelfInv /\ [Next]_vars => SelfInv'
  <2>1. ASSUME SelfInv, Age \/ UNCHANGED vars PROVE SelfInv'
    <3>1. UNCHANGED <<yaml, pkgOf, pc>>
      BY <2>1 DEF Age, vars, config
    <3>2. QED
      BY <2>1, <3>1 DEF SelfInv, OneSelf, Self, Full
  <2>2. QED
    BY <2>1, StepKeepsSelf DEF Next
<1>3. QED
  BY <1>1, <1>2, TypeInvariant, StoreInvariant, SnapshotInvariant, PTL DEF Spec

(* However often Spock's package is removed and created anew, and wherever *)
(* a command is killed, no Context finds two (Context::findOrCreateSelf).  *)
THEOREM SpockStaysUnique == ASSUME OneProcess PROVE Spec => []OneSelf
BY SelfInvariant, PTL DEF SelfInv

-----------------------------------------------------------------------------
(* Time stamps *)

(* Packages used recently have recently used dependencies only, so that no *)
(* dependent of a stale package is recent; a command stamps the packages   *)
(* it employs bottom up, and a removal has read every recent stamp.        *)
StampInv ==
    /\ \A h \in Hash : stamp[h] # "none" => h \in published
    /\ \A g \in published : stamp[g] = "young" => \A d \in depsOf[g] : stamp[d] = "young"
    /\ \A p \in Proc :
        /\ pc[p] = "self-read" => \A h \in Hash : h = hash[p] => stamp[h] # "young"
        /\ pc[p] = "stamp" =>
              work[p] \subseteq inUse[p] /\ \A h \in inUse[p] \ work[p] : stamp[h] = "young"
        /\ pc[p] \in {"idle"} \cup Scanning \cup Creating \cup Removing =>
              \A h \in known[p] : stamp[h] = "young" => h \in young[p]
        /\ pc[p] \notin Removing => queue[p] = <<>>
        /\ pc[p] \in Removing /\ cmd[p] = "rm-stale" =>
              /\ \A h \in work[p] : stamp[h] # "young"
              /\ \A i \in DOMAIN queue[p] : stamp[queue[p][i]] # "young"

(* No dependent of a stale package is recent.                              *)
LEMMA DependentsStale ==
  ASSUME \A g \in published : stamp[g] = "young" => \A d \in depsOf[g] : stamp[d] = "young",
         NEW K \in SUBSET published, NEW h \in K, stamp[h] # "young",
         NEW g \in Dependents(h, K)
  PROVE  stamp[g] # "young"
<1> DEFINE S == {e \in K : stamp[e] # "young"}
<1>1. h \in S /\ \A d \in K : depsOf[d] \cap S # {} => d \in S
  OBVIOUS
<1>2. S \in SUBSET K
  OBVIOUS
<1> HIDE DEF S
<1>3. g \in S
  BY <1>1, <1>2 DEF Dependents
<1>4. QED
  BY <1>3 DEF S

(* Stamps are written bottom up, and selections are read from them.        *)
LEMMA StepKeepsStamps ==
  ASSUME TypeOK, JobOK, OneProcess, StoreInv, Recorded, SnapshotInv, PlanInv, StampInv,
         NEW p \in Proc, Start(p) \/ Step(p) \/ Crash(p)
  PROVE  StampInv'
<1> USE DEF Goto, TypeOK, OneProcess, StampInv, Scanning, Creating, Removing
<1>1. CASE Start(p) \/ ScanOne(p) \/ ScanIncomplete(p) \/ ScanSkips(p) \/ ScanVanished(p)
           \/ GiveUp(p)
  BY <1>1 DEF Start, ScanOne, ScanIncomplete, ScanSkips, ScanVanished, GiveUp, Exit,
     config, history, memory, plan, job
<1>2. CASE CreateSelf(p) \/ OpenSelf(p)
  <2>1. /\ pc[p] \in {"scan", "self"} /\ pc'[p] \in {"self", "self-write"}
        /\ UNCHANGED <<depsOf, stamp, published, cmd, known, young, queue>>
    BY <1>2 DEF CreateSelf, OpenSelf, Scanned, config, history, memory
  <2>2. QED
    BY <2>1
<1>3. CASE SelfFails(p)
  <2>1. /\ pc'[p] = "idle" /\ known'[p] = {} /\ queue'[p] = <<>>
        /\ UNCHANGED <<depsOf, stamp, published>>
    BY <1>3 DEF SelfFails, Exit, config, history
  <2>2. QED
    BY <2>1
<1>4. CASE RegisterSelf(p)
  <2>1. /\ pc[p] = "self-read" /\ pc'[p] = "scan" /\ known'[p] = known[p] \cup {hash[p]}
        /\ hash[p] \in Hash
        /\ UNCHANGED <<depsOf, stamp, published, cmd, young, work, queue, inUse>>
    BY <1>4 DEF RegisterSelf, JobOK, Owning, config, history, plan
  <2>2. \A h \in known'[p] : stamp[h] = "young" => h \in young[p]
    BY <2>1
  <2>3. QED
    BY <2>1, <2>2
<1>5. CASE CloseSelf(p)
  <2>1. /\ hash[p] \in Hash \ published /\ depsOf[hash[p]] = {} /\ stamp[hash[p]] = "none"
        /\ published' = published \cup {hash[p]} /\ pc[p] = "self-write"
        /\ pc'[p] = "self-read"
        /\ UNCHANGED <<depsOf, stamp, hash, cmd, known, young, work, queue, inUse>>
    BY <1>5 DEF CloseSelf, JobOK, Owning, StoreInv, InstallsUnseen, Filling, Recorded,
       memory, plan, job
  <2>2. QED
    BY <2>1
<1>6. CASE Solve(p) \/ MayNotInstall(p) \/ NextGhost(p) \/ Download(p)
           \/ FetchSucceeds(p) \/ DownloadFails(p) \/ CopyBegins(p) \/ CopyEnds(p)
  BY <1>6 DEF Solve, Ready, Scanned, MayNotInstall, NextGhost, Download, FetchSucceeds,
     DownloadFails, CopyBegins, CopyEnds, Exit, config, history, memory, plan, job
<1>7. CASE Prepare(p)
  <2>1. /\ pc[p] = "prepare" /\ pc'[p] = "check"
        /\ UNCHANGED <<depsOf, stamp, published, queue>>
    BY <1>7 DEF Prepare, config
  <2>2. QED
    BY <2>1
<1>8. CASE CheckAttempted(p) \/ OpenLog(p) \/ BuildSucceeds(p) \/ BuildFails(p)
           \/ PublishBegins(p)
  <2>1. /\ pc[p] \in Installing /\ pc'[p] \in Installing
        /\ UNCHANGED <<depsOf, stamp, published, queue>>
    BY <1>8 DEF CheckAttempted, OpenLog, BuildSucceeds, BuildFails, PublishBegins, Installing,
       config, history, memory
  <2>2. QED
    BY <2>1 DEF Installing
<1>9. CASE PrepareFails(p) \/ Unwind(p)
  <2>1. /\ pc'[p] = "idle" /\ known'[p] = {} /\ queue'[p] = <<>>
        /\ UNCHANGED <<depsOf, stamp, published>>
    BY <1>9 DEF PrepareFails, Unwind, Exit, config, history
  <2>2. QED
    BY <2>1
<1>10. CASE PublishEnds(p)
  <2> DEFINE h == hash[p]
  <2> DEFINE S == {d \in iDeps[p] : pkgOf[d] \in InstallDeps[cur[p]]} \cup Self(known[p])
  <2>1. pc[p] = "publishing" /\ pc'[p] = "finalize" /\ UNCHANGED <<stamp, queue>>
    BY <1>10 DEF PublishEnds, memory
  <2>2. h \in Hash \ published /\ stamp[h] = "none"
    BY <2>1 DEF JobOK, Owning, Installing, Filling, StoreInv, InstallsUnseen
  <2>3. depsOf' = [depsOf EXCEPT ![h] = S] /\ published' = published \cup {h}
    BY <1>10 DEF PublishEnds
  <2> HIDE DEF S
  <2>4. published \subseteq Hash /\ \A g \in published : depsOf'[g] = depsOf[g]
    BY <2>2, <2>3
  <2>5. \A g \in Hash : stamp'[g] # "none" => g \in published'
    BY <2>1, <2>3
  <2>6. \A g \in published' : stamp'[g] = "young" => \A d \in depsOf'[g] : stamp'[d] = "young"
    BY <2>1, <2>2, <2>3, <2>4
  <2>7. queue[p] = <<>>
    BY <2>1
  <2>8. QED
    BY <2>1, <2>5, <2>6, <2>7
<1>11. CASE KeepLog(p) \/ KeepLogDies(p) \/ RemoveAttempted(p) \/ Register(p) \/ RegisterFails(p)
           \/ PostInstall(p) \/ PostInstallFails(p)
  BY <1>11 DEF KeepLog, KeepLogDies, RemoveAttempted, Register, RegisterFails, PostInstall,
     PostInstallFails, Exit, config, history, memory, plan, job
<1>12. CASE Employ(p) \/ RunUserCommand(p) \/ UserCommandEnds(p)
  BY <1>12 DEF Employ, RunUserCommand, UserCommandEnds, Exit,
     config, history, memory, plan, job
<1>13. CASE StampOne(p)
  <2>1. PICK h \in work[p] : /\ depsOf[h] \cap work[p] = {}
                             /\ stamp' = [stamp EXCEPT ![h] = "young"]
                             /\ work' = [work EXCEPT ![p] = @ \ {h}]
    BY <1>13 DEF StampOne
  <2>2. /\ inUse[p] \subseteq published /\ depsOf[h] \subseteq inUse[p]
        /\ work[p] \subseteq inUse[p] /\ pc[p] = "stamp"
        /\ \A g \in inUse[p] \ work[p] : stamp[g] = "young"
    BY <1>13, <2>1 DEF StampOne, PlanInv, PlanOf, Working, StoreInv, SeenIsPublished
  <2>3. \A g \in Hash : stamp'[g] = IF g = h THEN "young" ELSE stamp[g]
    BY <2>1
  <2>4. /\ UNCHANGED <<pc, published, depsOf, inUse, queue>>
        /\ work'[p] = work[p] \ {h}
    BY <1>13, <2>1 DEF StampOne, config, history, plan
  <2>5. \A d \in depsOf[h] : stamp[d] = "young"
    BY <2>1, <2>2
  <2>6. published \subseteq Hash /\ \A g \in published : depsOf[g] \subseteq Hash
    OBVIOUS
  <2>7. \A g \in published : stamp'[g] = "young" => \A d \in depsOf[g] : stamp'[d] = "young"
    BY <2>3, <2>5, <2>6
  <2>8. QED
    BY <2>2, <2>3, <2>4, <2>7
<1>14. CASE Select(p)
  <2>1. PICK T \in SUBSET known[p] :
           work'[p] = IF cmd[p] = "rm-stale" THEN T \ young[p] ELSE T
    <3>1. PICK T \in SUBSET known[p] :
             work' = [work EXCEPT ![p] = IF cmd[p] = "rm-stale" THEN T \ young[p] ELSE T]
      BY <1>14, Zenon DEF Select
    <3>2. QED
      BY <3>1
  <2>2. /\ pc[p] = "scan" /\ pc'[p] = "rm" /\ queue[p] = <<>>
        /\ UNCHANGED <<stamp, depsOf, published, cmd, known, young, queue>>
    BY <1>14 DEF Select, Ready, Scanned, config, history
  <2>3. T \subseteq known[p] /\ \A h \in known[p] : stamp[h] = "young" => h \in young[p]
    BY <2>1, <2>2
  <2>4. cmd[p] = "rm-stale" => \A h \in work'[p] : stamp[h] # "young"
    BY <2>1, <2>3
  <2>5. DOMAIN queue[p] = {}
    BY <2>2
  <2>6. QED
    BY <2>2, <2>3, <2>4, <2>5
<1>15. CASE NextSelected(p)
  <2>1. PICK h \in work[p] : \E s \in Preorders(h, known[p]) :
           queue' = [queue EXCEPT ![p] = s] /\ work' = [work EXCEPT ![p] = @ \ {h}]
    BY <1>15 DEF NextSelected
  <2>2. PICK s \in Preorders(h, known[p]) :
           queue' = [queue EXCEPT ![p] = s] /\ work' = [work EXCEPT ![p] = @ \ {h}]
    BY <2>1
  <2>3. /\ pc[p] = "rm" /\ queue'[p] = s /\ work'[p] = work[p] \ {h}
        /\ UNCHANGED <<pc, stamp, depsOf, published, cmd, known, young>>
    BY <1>15, <2>2 DEF NextSelected, config, history
  <2>4. known[p] \in SUBSET published /\ h \in known[p]
    BY <2>1, <2>3 DEF StoreInv, SeenIsPublished, SnapshotInv
  <2>5. ASSUME cmd[p] = "rm-stale", NEW i \in DOMAIN s PROVE stamp[s[i]] # "young"
    <3>1. s[i] \in Dependents(h, known[p])
      <4>1. PICK K \in SUBSET published : K = known[p]
        BY <2>4
      <4>2. h \in K /\ s \in Preorders(h, K) /\ published \subseteq Hash
        BY <2>2, <2>4, <4>1
      <4>3. s[i] \in Dependents(h, K)
        BY <4>1, <4>2, <2>5, PreorderListsAll
      <4>4. QED
        BY <4>1, <4>3
    <3>2. stamp[h] # "young"
      BY <2>1, <2>3, <2>5
    <3>3. \A g \in published : stamp[g] = "young" => \A d \in depsOf[g] : stamp[d] = "young"
      OBVIOUS
    <3>4. QED
      BY <2>4, <3>1, <3>2, <3>3, DependentsStale
  <2>6. QED
    BY <2>3, <2>5
<1>16. CASE Examine(p) \/ RemovePrefix(p)
  <2>1. /\ UNCHANGED <<stamp, depsOf, published, cmd, known, young, work>>
        /\ pc[p] \in Removing /\ pc'[p] \in Removing
        /\ queue' = queue \/ (queue[p] # <<>> /\ Pop(p))
    BY <1>16 DEF Examine, RemovePrefix, config, history, JobOK
  <2>2. CASE queue' = queue
    BY <2>1, <2>2
  <2>3. CASE queue[p] # <<>> /\ Pop(p)
    <3>1. queue'[p] = SubSeq(queue[p], 1, Len(queue[p]) - 1)
      BY <2>3 DEF Pop
    <3>2. \A i \in DOMAIN queue'[p] : i \in DOMAIN queue[p] /\ queue'[p][i] = queue[p][i]
      BY <2>3, <3>1, ButLast
    <3>3. QED
      BY <2>1, <3>2
  <2>4. QED
    BY <2>1, <2>2, <2>3
<1>17. CASE RemoveConfig(p) \/ RemovalEnds(p) \/ Crash(p)
  BY <1>17 DEF RemoveConfig, RemovalEnds, Crash, Exit, config, history, memory, plan, job
<1>18. QED
  BY <1>1, <1>2, <1>3, <1>4, <1>5, <1>6, <1>7, <1>8, <1>9, <1>10, <1>11, <1>12,
     <1>13, <1>14, <1>15, <1>16, <1>17
  DEF Step, ContextStep, ShellStep, RemoveStep

(* Recent stamps stand on recent stamps.                                   *)
THEOREM StampInvariant == ASSUME OneProcess PROVE Spec => []StampInv
<1>1. Init => StampInv
  BY ConstantsOK DEF Init, StampInv, Scanning, Creating, Removing
<1>2. /\ TypeOK /\ JobOK /\ StoreInv /\ Recorded /\ SnapshotInv /\ PlanInv /\ StampInv
      /\ [Next]_vars
      => StampInv'
  <2>1. ASSUME TypeOK, StampInv, Age PROVE StampInv'
    <3>1. \A h \in Hash : stamp'[h] # "young" /\ (stamp'[h] # "none" => stamp[h] # "none")
      BY <2>1 DEF Age
    <3>2. /\ \A p \in Proc : pc[p] # "stamp"
          /\ UNCHANGED <<published, depsOf, pc, cmd, known, work, queue, hash>>
      BY <2>1 DEF Age, config, history, job
    <3>3. ASSUME NEW p \in Proc
          PROVE  /\ \A h \in known[p] : stamp'[h] # "young"
                 /\ \A h \in work[p] : stamp'[h] # "young"
                 /\ \A i \in DOMAIN queue[p] : stamp'[queue[p][i]] # "young"
      BY <2>1, <3>1 DEF TypeOK
    <3>4. published \subseteq Hash
      BY <2>1 DEF TypeOK
    <3>5. QED
      BY <2>1, <3>1, <3>2, <3>3, <3>4 DEF StampInv
  <2>2. ASSUME StampInv, UNCHANGED vars PROVE StampInv'
    BY <2>2 DEF vars, StampInv, config, history, memory, plan, job
  <2>3. QED
    BY <2>1, <2>2, StepKeepsStamps DEF Next
<1>3. QED
  BY <1>1, <1>2, TypeInvariant, StoreInvariant, RecordedInvariant, SnapshotInvariant,
     PlanInvariant, PTL DEF Spec

(* Removing stale packages, and with them their dependents, spares what    *)
(* was used recently, wherever commands are killed (spock-rm --stale;      *)
(* Shell::run, which stamps dependencies first).                           *)
THEOREM StaleSparesRecent == ASSUME OneProcess PROVE Spec => StaleSparesYoung
<1>1. TypeOK /\ JobOK /\ StampInv =>
         [\A p \in Proc : \A h \in Hash :
             RemoveConfig(p) /\ cmd[p] = "rm-stale" /\ Victim(p) = h => stamp[h] # "young"]_vars
  <2> SUFFICES ASSUME TypeOK, JobOK, StampInv, NEW p \in Proc, RemoveConfig(p),
                      cmd[p] = "rm-stale"
               PROVE  stamp[Victim(p)] # "young"
    OBVIOUS
  <2>1. pc[p] \in Removing /\ queue[p] # <<>> /\ queue[p] \in Seq(Hash)
    BY DEF RemoveConfig, JobOK, TypeOK, Removing
  <2>2. Len(queue[p]) \in DOMAIN queue[p]
    BY <2>1
  <2>3. QED
    BY <2>1, <2>2 DEF StampInv, Victim
<1>2. QED
  BY <1>1, TypeInvariant, StampInvariant, PTL DEF StaleSparesYoung
=============================================================================
