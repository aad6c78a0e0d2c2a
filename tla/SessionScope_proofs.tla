------------------------ MODULE SessionScope_proofs ------------------------
(***************************************************************************)
(* What a shell is given beyond the one around it is what was asked for    *)
(* and what that needs, also when packages were built on the way; and      *)
(* whatever was installed, by commands that succeeded or failed, can be    *)
(* used.  Session_proofs has the invariant that these theorems build on.   *)
(***************************************************************************)
EXTENDS Session_proofs

(* A part of the plan that has all that the shell employs, and all that    *)
(* was asked for, and what its packages depend on, is all of the plan.     *)
Roots(plan, E, W) ==
    {i \in DOMAIN plan : \/ plan[i].hash \in E \cup Generators \cup {SpockItself}
                         \/ Names(plan[i]) \cap W # {}}

Needed(plan, E, W) ==
    \A X \in SUBSET DOMAIN plan :
        /\ Roots(plan, E, W) \subseteq X
        /\ \A i \in X, j \in DOMAIN plan : DependsOn(plan[i], plan[j]) => j \in X
        => X = DOMAIN plan

PlanNeeded == Growing => Needed(Plan, Here.env.employed, request)

(* What an environment may employ that is spawned by a command for W in an *)
(* environment that employs E.                                             *)
Scope(H, E, W) ==
    Closure(E \cup {h \in H : NamesOf(h) \cap W # {}} \cup Generators \cup {SpockItself})

ShellInScope(i) ==
    i # 1 => shells[i].env.employed \subseteq
                Scope(shells[i].env.employed, shells[i - 1].env.employed, shells[i].request)

ShellsInScope == \A i \in DOMAIN shells : ShellInScope(i)

PostInScope ==
    pc = "post" => Top.employed \subseteq Closure(Base.employed \cup Generators \cup {Host})

ScopeInv == PlanNeeded /\ ShellsInScope /\ PostInScope

-----------------------------------------------------------------------------
(* Plans *)

(* A solution with nothing superfluous is needed as a whole.               *)
LEMMA SolutionIsNeeded ==
  ASSUME StoreOK, OneGenerator, NEW r, NEW E \in SUBSET Hash, NEW W, Distinct(r),
         Minimal(ToSet(r), Employable(E \cup {SpockItself}), W)
  PROVE  Needed(r, E, W)
<1> DEFINE S == ToSet(r)
           B == Employable(E \cup {SpockItself})
<1>1. /\ S \subseteq Packages /\ B \subseteq S /\ Apart(S) /\ Provided(S, Wanted(W))
      /\ \A p \in S \ B : DependenciesMet(p, S)
      /\ IsSolution(S, B, W)
      /\ \A T \in SUBSET S : IsSolution(T, B, W) => T = S
  BY DEF Minimal, IsSolution
<1>2. \A i \in DOMAIN r : r[i] \in S
  BY DEF ToSet
<1>3. \A p \in S : \E i \in DOMAIN r : r[i] = p
  BY DEF ToSet
<1>4. \A h \in E \cup {SpockItself} : Installed(h).hash = h
  BY SpockIsInstalled, HashesAreInstalled
<1>5. SUFFICES ASSUME NEW X \in SUBSET DOMAIN r, Roots(r, E, W) \subseteq X,
                      \A i \in X, j \in DOMAIN r : DependsOn(r[i], r[j]) => j \in X
               PROVE  X = DOMAIN r
  BY DEF Needed
<1> DEFINE T == {r[i] : i \in X}
<1> HIDE DEF S, B
<1>6. T \subseteq S
  BY <1>2
<1>7. \A i \in X, q \in S : DependsOn(r[i], q) => q \in T
  BY <1>3, <1>5
<1>8. B \subseteq T
  <2>1. ASSUME NEW p \in B PROVE p \in T
    <3>1. PICK h \in E \cup {SpockItself} : p = Installed(h)
      BY DEF B, Employable
    <3>2. PICK i \in DOMAIN r : r[i] = p
      BY <1>1, <1>3
    <3>3. r[i].hash \in E \cup Generators \cup {SpockItself}
      BY <1>4, <3>1, <3>2
    <3>4. i \in X
      BY <1>5, <3>3 DEF Roots
    <3>5. QED
      BY <3>2, <3>4
  <2>2. QED
    BY <2>1
<1>9. Apart(T)
  BY <1>1, <1>6 DEF Apart
<1>10. Provided(T, Wanted(W))
  <2>1. ASSUME NEW n \in W PROVE \E p \in T : n \in Names(p)
    <3>1. PICK p \in S : n \in Names(p)
      BY <1>1 DEF Provided, Wanted
    <3>2. PICK i \in DOMAIN r : r[i] = p
      BY <1>3
    <3>3. i \in X
      BY <1>5, <3>1, <3>2 DEF Roots
    <3>4. QED
      BY <3>1, <3>2, <3>3
  <2>2. ASSUME NEW g \in Generators PROVE \E p \in T : CodeGeneration \in Names(p)
    <3>1. Installed(g) \in S /\ g \in Hash
      BY <1>1, GeneratorIncluded, GeneratorsAreAlike
    <3>2. Installed(g).hash = g /\ Names(Installed(g)) = NamesOf(g)
      BY <3>1, HashesAreInstalled
    <3>3. PICK i \in DOMAIN r : r[i] = Installed(g)
      BY <1>3, <3>1
    <3>4. i \in X
      BY <1>5, <3>2, <3>3 DEF Roots
    <3>5. CodeGeneration \in NamesOf(g)
      BY DEF Generators
    <3>6. QED
      BY <3>2, <3>3, <3>4, <3>5
  <2>3. QED
    BY <2>1, <2>2 DEF Provided, Wanted
<1>11. ASSUME NEW p \in T \ B PROVE DependenciesMet(p, T)
  <2>1. PICK i \in X : p = r[i]
    OBVIOUS
  <2>2. DependenciesMet(p, S)
    BY <1>1, <1>6, <1>11
  <2>3. CASE IsInstalled(p)
    <3>1. ASSUME NEW d \in store[p.hash].deps PROVE Installed(d) \in T
      <4>1. Installed(d) \in S /\ Installed(d).hash = d
        BY <2>2, <2>3, <3>1 DEF DependenciesMet, Installed
      <4>2. DependsOn(p, Installed(d))
        BY <2>3, <3>1, <4>1 DEF DependsOn
      <4>3. QED
        BY <1>7, <2>1, <4>1, <4>2
    <3>2. QED
      BY <2>3, <3>1 DEF DependenciesMet
  <2>4. CASE ~ IsInstalled(p)
    <3>1. ASSUME NEW n \in Needs(p.name) PROVE \E q \in T : n \in Names(q)
      <4>1. PICK q \in S : n \in Names(q)
        BY <2>2, <2>4 DEF DependenciesMet, Provided
      <4>2. DependsOn(p, q)
        BY <2>4, <3>1, <4>1 DEF DependsOn
      <4>3. QED
        BY <1>7, <2>1, <4>1, <4>2
    <3>2. QED
      BY <2>4, <3>1 DEF DependenciesMet, Provided
  <2>5. QED
    BY <2>3, <2>4
<1>12. T = S
  BY <1>1, <1>6, <1>8, <1>9, <1>10, <1>11 DEF IsSolution
<1>13. ASSUME NEW i \in DOMAIN r PROVE i \in X
  <2>1. PICK j \in X : r[j] = r[i]
    BY <1>2, <1>12
  <2>2. QED
    BY <2>1 DEF Distinct
<1>14. QED
  BY <1>13

(* When all of a plan is installed, it is in scope.                        *)
LEMMA FulfilledInScope ==
  ASSUME StoreOK, OneGenerator, NEW plan, NEW E \in SUBSET Hash, NEW W, NEW q \in Seq(Hash),
         \A i \in DOMAIN plan : plan[i] \in Packages,
         Needed(plan, E, W), Fulfilled(plan, q)
  PROVE  ToSet(q) \subseteq Scope(ToSet(q), E, W)
<1> DEFINE H == ToSet(q)
           R == E \cup {h \in H : NamesOf(h) \cap W # {}} \cup Generators \cup {SpockItself}
           C == Closure(R)
           X == {i \in DOMAIN plan : q[i] \in C}
<1>1. /\ \A i \in DOMAIN q : q[i] \in Hash /\ q[i] \in H
      /\ \A h \in H : \E i \in DOMAIN q : q[i] = h
  BY DEF ToSet
<1>a. DOMAIN plan = DOMAIN q
  BY DEF Fulfilled
<1>2. \A i \in DOMAIN plan : /\ IsInstalled(plan[i]) /\ plan[i].hash = q[i]
                             /\ Names(plan[i]) = NamesOf(q[i])
  BY PackagesAreKnown DEF Known, Fulfilled
<1> HIDE DEF H
<1>3. R \in SUBSET Hash
  <2>1. H \subseteq Hash
    BY <1>1
  <2>2. QED
    BY <2>1, GeneratorsAreAlike, SpockIsInstalled
<1>4. R \subseteq C /\ C \subseteq Hash /\ Closed(C)
  <2> HIDE DEF R
  <2>1. QED
    BY <1>3, ClosureFacts
<1> HIDE DEF C
<1>5. Roots(plan, E, W) \subseteq X
  <2>1. ASSUME NEW i \in DOMAIN plan, plan[i].hash \in E \cup Generators \cup {SpockItself}
        PROVE  q[i] \in C
    BY <1>2, <1>4, <2>1
  <2>2. ASSUME NEW i \in DOMAIN plan, Names(plan[i]) \cap W # {} PROVE q[i] \in C
    BY <1>1, <1>2, <1>4, <1>a, <2>2
  <2>3. QED
    BY <2>1, <2>2 DEF Roots
<1>6. \A i \in X, j \in DOMAIN plan : DependsOn(plan[i], plan[j]) => j \in X
  BY <1>2, <1>4 DEF DependsOn, Closed
<1>7. X = DOMAIN plan
  <2> HIDE DEF X
  <2>1. X \in SUBSET DOMAIN plan
    BY DEF X
  <2>2. QED
    BY <1>5, <1>6, <2>1 DEF Needed
<1>8. H \subseteq C
  BY <1>1, <1>7, <1>a
<1>9. QED
  BY <1>8 DEF C, H, Scope

(* Dependencies are what they were when packages are installed.            *)
LEMMA DependsOnKept ==
  ASSUME StoreOK, StoreOK', StoreGrows, NEW p \in Packages, NEW q \in Packages
  PROVE  DependsOn(p, q)' <=> DependsOn(p, q)
<1>1. /\ Names(q)' = Names(q) /\ \A h \in Hash : store'[h] = store[h]
  BY Growth
<1>2. IsInstalled(p) => store'[p.hash] = store[p.hash]
  BY <1>1, PackagesAreKnown DEF Known
<1>3. QED
  BY <1>1, <1>2 DEF DependsOn

(* A plan is needed as before when packages are installed.                 *)
LEMMA NeededGrows ==
  ASSUME StoreOK, StoreOK', StoreGrows, NEW plan, NEW E, NEW W,
         \A i \in DOMAIN plan : plan[i] \in Packages, Needed(plan, E, W)
  PROVE  Needed(plan, E, W)'
<1>1. \A i, j \in DOMAIN plan : DependsOn(plan[i], plan[j])' <=> DependsOn(plan[i], plan[j])
  BY DependsOnKept
<1>2. Generators' = Generators /\ \A i \in DOMAIN plan : Names(plan[i])' = Names(plan[i])
  BY Growth
<1>3. Roots(plan, E, W)' = Roots(plan, E, W)
  BY <1>2 DEF Roots
<1>4. ASSUME NEW X \in SUBSET DOMAIN plan, Roots(plan, E, W)' \subseteq X,
             \A i \in X, j \in DOMAIN plan : DependsOn(plan[i], plan[j])' => j \in X
      PROVE  X = DOMAIN plan
  BY <1>1, <1>3, <1>4 DEF Needed
<1>5. QED
  BY <1>4 DEF Needed

(* The package at k of a plan depends, once installed, on what its         *)
(* definition asks for.                                                    *)
Recorded(p, r, k) ==
    \A j \in DOMAIN p : Names(p[j]) \cap Needs(p[k].name) # {} =>
        IsInstalled(p[j]) /\ p[j].hash \in store'[r[k].hash].deps

(* A plan that advances is needed as before: the installed packages depend *)
(* on what their ghosts needed.                                            *)
LEMMA NeededAdvances ==
  ASSUME StoreOK, StoreOK', StoreGrows, PrivateAliases, OneHost, OneGenerator,
         NEW p, NEW r, NEW k, NEW B \in SUBSET Hash, NEW E \in SUBSET Hash, NEW W,
         SpockItself \in B, GoodPlan(p, B, W), Advances(p, r, k, B), Recorded(p, r, k),
         Needed(p, E, W)
  PROVE  Needed(r, E, W)'
<1>1. /\ DOMAIN r = DOMAIN p /\ k \in DOMAIN p
      /\ \A i \in DOMAIN p : i = k \/ r[i] = p[i] \/ StandsIn(p, r, i, k)
      /\ ~ IsInstalled(p[k]) /\ p[k].name \in DOMAIN Defs
      /\ r[k].hash \in Hash'
  BY DEF Advances
<1>2. \A i \in DOMAIN p : Names(p[i]) \subseteq Names(r[i])' /\ (IsInstalled(p[i]) => r[i] = p[i])
  BY PlanAdvances
<1>3. \A i \in DOMAIN p : p[i] \in Packages /\ Known(p[i])
  BY PackagesAreKnown DEF GoodPlan
<1>4. Generators' = Generators /\ \A h \in Hash : store'[h] = store[h]
  BY Growth
<1>5. ASSUME NEW i \in DOMAIN p, p[i].hash \in Hash PROVE IsInstalled(p[i])
  BY <1>5, HashType DEF IsInstalled, NoHash
<1>6. SUFFICES ASSUME NEW X \in SUBSET DOMAIN r, Roots(r, E, W)' \subseteq X,
                      \A i \in X, j \in DOMAIN r : DependsOn(r[i], r[j])' => j \in X
               PROVE  X = DOMAIN r
  BY DEF Needed
<1>7. Roots(p, E, W) \subseteq X
  <2>1. ASSUME NEW i \in DOMAIN p, p[i].hash \in E \cup Generators \cup {SpockItself} PROVE i \in X
    <3>1. p[i].hash \in Hash
      BY <2>1, GeneratorsAreAlike, SpockIsInstalled
    <3>2. r[i] = p[i]
      BY <1>2, <1>5, <3>1
    <3>3. r[i].hash \in E \cup Generators' \cup {SpockItself}
      BY <1>4, <2>1, <3>2
    <3>4. QED
      BY <1>1, <1>6, <3>3 DEF Roots
  <2>2. ASSUME NEW i \in DOMAIN p, Names(p[i]) \cap W # {} PROVE i \in X
    <3>1. Names(r[i])' \cap W # {}
      BY <1>2, <2>2
    <3>2. QED
      BY <1>1, <1>6, <3>1 DEF Roots
  <2>3. QED
    BY <2>1, <2>2 DEF Roots
<1>8. ASSUME NEW i \in X, NEW j \in DOMAIN p, DependsOn(p[i], p[j]) PROVE j \in X
  <2>1. i \in DOMAIN p
    BY <1>1
  <2>2. SUFFICES DependsOn(r[i], r[j])'
    BY <1>1, <1>6
  <2>3. CASE IsInstalled(p[i])
    <3>1. p[i].hash \in Hash /\ p[j].hash \in store[p[i].hash].deps
      BY <1>3, <1>8, <2>1, <2>3 DEF Known, DependsOn
    <3>2. p[j].hash \in Hash
      <4>1. store[p[i].hash].deps \subseteq Hash
        BY <3>1, HashType DEF StoreOK
      <4>2. QED
        BY <3>1, <4>1
    <3>3. r[i] = p[i] /\ r[j] = p[j]
      BY <1>2, <1>5, <2>1, <2>3, <3>2
    <3>4. QED
      BY <1>4, <2>3, <3>1, <3>3 DEF DependsOn
  <2>4. CASE ~ IsInstalled(p[i]) /\ r[i] = p[i]
    <3>1. Names(p[j]) \cap Needs(p[i].name) # {}
      BY <1>8, <2>4 DEF DependsOn
    <3>2. Names(r[j])' \cap Needs(r[i].name) # {}
      BY <1>2, <2>4, <3>1
    <3>3. QED
      BY <2>4, <3>2 DEF DependsOn
  <2>5. CASE i = k
    <3>1. Names(p[j]) \cap Needs(p[k].name) # {}
      BY <1>1, <1>8, <2>5 DEF DependsOn
    <3>2. r[j] = p[j] /\ p[j].hash \in store'[r[k].hash].deps
      BY <1>2, <3>1 DEF Recorded
    <3>3. IsInstalled(r[k])
      BY <1>1, NextHashType DEF IsInstalled, NoHash
    <3>4. QED
      BY <2>5, <3>2, <3>3 DEF DependsOn
  <2>6. CASE StandsIn(p, r, i, k)
    <3>1. Names(p[j]) \cap {p[k].name} # {} /\ ~ IsInstalled(p[i])
      BY <1>8, <2>6 DEF DependsOn, StandsIn
    <3>2. p[k].name \in Names(p[k])
      BY <1>1, <1>3 DEF Known
    <3>3. j = k
      BY <1>1, <3>1, <3>2 DEF GoodPlan
    <3>4. r[k].hash \in store'[r[i].hash].deps /\ r[i].hash \in Hash'
      BY <2>6 DEF StandsIn
    <3>5. IsInstalled(r[i])
      BY <3>4, NextHashType DEF IsInstalled, NoHash
    <3>6. QED
      BY <3>3, <3>4, <3>5 DEF DependsOn
  <2>7. QED
    BY <1>1, <2>1, <2>3, <2>4, <2>5, <2>6
<1>9. QED
  BY <1>1, <1>7, <1>8 DEF Needed

(* Scopes grow with the store.                                             *)
LEMMA ScopeGrows ==
  ASSUME StoreOK, StoreOK', StoreGrows, OneGenerator, NEW H \in SUBSET Hash, NEW E \in SUBSET Hash, NEW W
  PROVE  Scope(H, E, W) \subseteq Scope(H, E, W)'
<1> DEFINE R == E \cup {h \in H : NamesOf(h) \cap W # {}} \cup Generators \cup {SpockItself}
<1>1. Generators' = Generators /\ \A h \in H : NamesOf(h)' = NamesOf(h)
  BY Growth
<1>2. PICK X : X = R
  OBVIOUS
<1>3. X = E \cup {h \in H : NamesOf(h)' \cap W # {}} \cup Generators' \cup {SpockItself}
  BY <1>1, <1>2
<1>4. X \in SUBSET Hash
  BY <1>2, GeneratorsAreAlike, SpockIsInstalled
<1>5. Closure(X) \subseteq Closure(X)'
  BY <1>4, GrowthOfSets
<1>6. QED
  BY <1>2, <1>3, <1>5 DEF Scope

-----------------------------------------------------------------------------
(* Each step keeps what is in use in scope *)

(* A shell stays in scope when packages are installed.                     *)
LEMMA ShellScopeKept ==
  ASSUME IInv, OneGenerator, StoreOK', StoreGrows, ShellsInScope,
         NEW i \in DOMAIN shells, shells'[i] = shells[i], i # 1 => shells'[i - 1] = shells[i - 1]
  PROVE  ShellInScope(i)'
<1>1. CASE i = 1
  BY <1>1 DEF ShellInScope
<1>2. CASE i # 1
  <2>1. PICK H, E, W : /\ H = shells[i].env.employed /\ E = shells[i - 1].env.employed
                       /\ W = shells[i].request
    OBVIOUS
  <2>2. H = shells'[i].env.employed /\ E = shells'[i - 1].env.employed /\ W = shells'[i].request
    BY <1>2, <2>1
  <2>3. H \in SUBSET Hash /\ E \subseteq H
    BY <1>2, <2>1 DEF IInv, ShellsOK, ShellOK, Sound, Env
  <2>4. H \subseteq Scope(H, E, W)
    BY <1>2, <2>1 DEF ShellsInScope, ShellInScope
  <2>5. Scope(H, E, W) \subseteq Scope(H, E, W)'
    BY <2>3, ScopeGrows DEF IInv
  <2>6. H \subseteq Scope(H, E, W)'
    BY <2>4, <2>5
  <2>7. QED
    BY <2>2, <2>6 DEF ShellInScope
<1>3. QED
  BY <1>1, <1>2

(* As long as there are no other shells, all of them stay in scope.        *)
LEMMA ShellsScopeKept ==
  ASSUME IInv, OneGenerator, StoreOK', StoreGrows, ShellsInScope, UNCHANGED shells
  PROVE  ShellsInScope'
<1>1. \A i \in DOMAIN shells : ShellInScope(i)'
  BY ShellScopeKept
<1>2. QED
  BY <1>1 DEF ShellsInScope

(* A subshell that employs a plan that is needed is in scope.              *)
LEMMA SpawnInScope ==
  ASSUME IInv, OneGenerator, ShellsInScope, UNCHANGED store, pc # "prompt",
         NEW plan, NEW q \in Seq(Hash), Spawn(q),
         GoodPlan(plan, Base.employed, request), Needed(plan, Here.env.employed, request),
         Fulfilled(plan, q)
  PROVE  ShellsInScope'
<1>1. PICK base, E, W : base = Base /\ E = Here.env.employed /\ W = request
  OBVIOUS
<1>2. PICK e : e = Employ(base, q)
  OBVIOUS
<1>3. shells' = Append(shells, [env |-> e, request |-> W])
  BY <1>1, <1>2 DEF Spawn
<1>4. /\ Len(shells) \in DOMAIN shells /\ Here = shells[Len(shells)]
      /\ DOMAIN shells = 1 .. Len(shells) /\ Len(shells) \in Nat \ {0}
      /\ shells \in Seq([env : AnyEnv, request : SUBSET Name]) /\ ShellOK(Len(shells))
  BY HereIsAShell DEF IInv, ShellsOK
<1>5. StoreOK' /\ StoreGrows /\ StoreOK
  BY StoreKept DEF IInv
<1>6. PICK k : k = Len(shells) + 1
  OBVIOUS
<1>7. /\ DOMAIN shells' = DOMAIN shells \cup {k} /\ k - 1 \in DOMAIN shells
      /\ \A i \in DOMAIN shells : shells'[i] = shells[i] /\ (i # 1 => i - 1 \in DOMAIN shells)
      /\ shells'[k].env = e /\ shells'[k].request = W /\ shells'[k - 1] = Here
  BY <1>3, <1>4, <1>6
<1>8. base \in Env /\ E \in SUBSET Hash
  BY <1>1, <1>4 DEF IInv, ContextOK, Sound, Env, ShellOK
<1>9. e.employed = ToSet(q) /\ ToSet(q) \in SUBSET Hash
  <2>1. PICK X : X = Hash
    OBVIOUS
  <2>2. base \in [employed : SUBSET X, path : Seq(X)] /\ q \in Seq(X)
    BY <1>8, <2>1 DEF Env
  <2>3. Employ(base, q).employed = base.employed \cup ToSet(q)
    BY <2>2, EmployType
  <2>4. base.employed \subseteq ToSet(q)
    <3>1. PICK B : B = base.employed
      OBVIOUS
    <3>2. GoodPlan(plan, B, W) /\ B \in SUBSET Hash
      BY <1>1, <1>8, <3>1 DEF Env
    <3>3. Employs(q, B, W)
      BY <1>5, <3>2, PlanFulfilled
    <3>4. QED
      BY <3>1, <3>3 DEF Employs
  <2>5. ToSet(q) \subseteq X
    BY <2>2 DEF ToSet
  <2>6. QED
    BY <1>2, <2>1, <2>3, <2>4, <2>5
<1>10. ToSet(q) \subseteq Scope(ToSet(q), E, W)
  <2>1. \A i \in DOMAIN plan : plan[i] \in Packages
    BY DEF GoodPlan
  <2>2. Needed(plan, E, W)
    BY <1>1
  <2>3. QED
    BY <1>5, <1>8, <2>1, <2>2, FulfilledInScope
<1>11. PICK H : H = ToSet(q)
  OBVIOUS
<1>12. H \subseteq Scope(H, E, W)'
  <2>1. Scope(H, E, W) \subseteq Scope(H, E, W)'
    BY <1>5, <1>8, <1>9, <1>11, ScopeGrows
  <2>2. QED
    BY <1>10, <1>11, <2>1
<1>13. ShellInScope(k)'
  BY <1>1, <1>7, <1>9, <1>11, <1>12 DEF ShellInScope
<1>14. \A i \in DOMAIN shells : ShellInScope(i)'
  BY <1>5, <1>7, ShellScopeKept
<1>15. QED
  BY <1>7, <1>13, <1>14 DEF ShellsInScope

(* The plan that a command begins with is needed.                          *)
LEMMA BeginLoopInScope ==
  ASSUME IInv, NoCycle, OneGenerator, BeginLoop
  PROVE  PlanNeeded'
<1>1. pc = "sort" /\ heads = <<>> /\ UNCHANGED <<store, shells, request>>
  BY DEF BeginLoop
<1>2. PICK r, E, W : r = Reverse(order) /\ E = Here.env.employed /\ W = request
  OBVIOUS
<1>3. /\ ToSet(r) = ToSet(order) /\ ToSet(r) \subseteq Packages /\ Distinct(r)
      /\ Minimal(ToSet(r), Employable(Base.employed), W)
  BY <1>1, <1>2, SortedSolution DEF IInv, Minimal
<1>4. Base.employed = E \cup {SpockItself} /\ E \in SUBSET Hash
  BY <1>1, <1>2 DEF IInv, ContextOK, Sound, Env
<1>5. Needed(r, E, W)
  BY <1>3, <1>4, SolutionIsNeeded DEF IInv
<1>6. StoreOK' /\ StoreGrows
  BY <1>1, StoreKept DEF IInv
<1>7. \A i \in DOMAIN r : r[i] \in Packages
  BY <1>3 DEF ToSet
<1>8. Needed(r, E, W)'
  BY <1>5, <1>6, <1>7, NeededGrows DEF IInv
<1>9. Plan' = Reverse(order) /\ Here' = Here
  BY <1>1, BeginLoopStep DEF Here
<1>10. QED
  BY <1>1, <1>2, <1>8, <1>9 DEF PlanNeeded

(* A plan that stays the same stays needed.                                *)
LEMMA SamePlanNeeded ==
  ASSUME IInv, StoreOK', StoreGrows, PlanNeeded, Growing, Plan' = Plan, UNCHANGED <<shells, request>>
  PROVE  PlanNeeded'
<1>1. PICK p, E, W : p = Plan /\ E = Here.env.employed /\ W = request
  OBVIOUS
<1>2. Needed(p, E, W) /\ \A i \in DOMAIN p : p[i] \in Packages
  BY <1>1 DEF PlanNeeded, IInv, LoopOK, GoodPlan
<1>3. Needed(p, E, W)'
  BY <1>2, NeededGrows DEF IInv
<1>4. Here' = Here
  BY DEF Here
<1>5. QED
  BY <1>1, <1>3, <1>4 DEF PlanNeeded

(* A plan that advances by an install stays needed.                        *)
LEMMA PostInstallInScope ==
  ASSUME IInv, PrivateAliases, OneHost, OneGenerator, PlanNeeded, PostInstall
  PROVE  PlanNeeded'
<1>1. PICK p, r, k, B, E, W : /\ p = Plan /\ r = Plan' /\ k = at /\ B = Base.employed
                              /\ E = Here.env.employed /\ W = request
  OBVIOUS
<1>2. pc = "post" /\ UNCHANGED <<shells, request>>
  BY DEF PostInstall
<1>3. /\ StoreOK /\ StoreOK' /\ Advances(p, r, k, B) /\ r[k].hash = Host
  BY <1>1, PostInstallStep DEF IInv
<1>4. StoreGrows
  <2>1. PICK s \in Installable(soln[at].name) : store' = store \o ParasiteRecords(s)
    BY DEF PostInstall
  <2>2. QED
    BY <1>2, <2>1, ParasitesAdded DEF IInv
<1>5. GoodPlan(p, B, W) /\ Needed(p, E, W)
  BY <1>1, <1>2 DEF PlanNeeded, IInv, LoopOK, Growing
<1>6. B \in SUBSET Hash /\ SpockItself \in B
  BY <1>1, <1>2 DEF IInv, ContextOK, Sound, Env
<1>7. E \in SUBSET Hash
  BY <1>1, HereIsAShell DEF IInv, ShellOK, Sound, Env
<1>8. Recorded(p, r, k)
  <2>1. /\ soln \in Seq(Packages) /\ k \in DOMAIN soln /\ inUse \in Seq(Hash) /\ Len(inUse) = k - 1
        /\ soln[k].name \in DOMAIN Defs /\ ~ IsInstalled(soln[k]) /\ DOMAIN soln = 1 .. Len(soln)
        /\ Len(soln) \in Nat
    BY <1>1, <1>2 DEF IInv, LoopOK, BuildOK, Installing, Growing
  <2>2. /\ DOMAIN p = DOMAIN soln
        /\ \A i \in DOMAIN soln : p[i] = IF i < k THEN Installed(inUse[i]) ELSE soln[i]
    BY <1>1 DEF Plan
  <2>3. p[k] = soln[k]
    BY <2>1, <2>2
  <2>4. ASSUME NEW j \in DOMAIN p, NEW m \in Needs(p[k].name), m \in Names(p[j])
        PROVE  IsInstalled(p[j]) /\ p[j].hash \in store'[r[k].hash].deps
    <3>1. PICK i \in DOMAIN p : i < k /\ m \in Names(p[i])
      BY <1>5, <2>1, <2>2, <2>3, <2>4 DEF GoodPlan
    <3>2. i = j
      BY <1>5, <2>4, <3>1 DEF GoodPlan
    <3>3. j \in DOMAIN inUse /\ inUse[j] \in Hash
      BY <2>1, <2>2, <3>1, <3>2
    <3>4. p[j] = Installed(inUse[j])
      BY <2>2, <3>1, <3>2
    <3>5. IsInstalled(p[j]) /\ p[j].hash = inUse[j] /\ Names(p[j]) = NamesOf(inUse[j])
      BY <1>3, <3>3, <3>4, HashesAreInstalled
    <3>6. inUse[j] \in store[Host].deps
      BY <1>1, <1>2, <2>3, <2>4, <3>3, <3>5 DEF IInv, PostOK
    <3>7. Host \in Hash
      <4>1. Hash = 1 .. Len(store) /\ Hash # {}
        BY <1>3, HashType, SpockIsInstalled
      <4>2. QED
        BY <4>1 DEF Host
    <3>8. store'[Host] = store[Host]
      BY <1>4, <3>7 DEF StoreGrows, Hash
    <3>9. QED
      BY <1>3, <3>5, <3>6, <3>8
  <2>5. QED
    BY <2>4 DEF Recorded
<1>9. Needed(r, E, W)'
  BY <1>3, <1>4, <1>5, <1>6, <1>7, <1>8, NeededAdvances
<1>10. Here' = Here
  BY <1>2 DEF Here
<1>11. QED
  BY <1>1, <1>2, <1>9, <1>10 DEF PlanNeeded

(* A script runs with what is in use and what its package needs.           *)
LEMMA PublishInScope ==
  ASSUME IInv, PrivateAliases, OneGenerator, Publish
  PROVE  PostInScope'
<1>1. pc = "build" /\ UNCHANGED iDeps
  BY DEF Publish
<1>2. PICK q \in SetToSeqs(HashesOf(iDeps) \ Base.employed) :
         envs' = <<envs[1], envs[2], Employ(envs[2], Append(q, NewHash))>>
  BY DEF Publish
<1>3. PICK u, e, h, X : u = Base /\ h = NewHash /\ e = Employ(u, Append(q, h))
                        /\ X = u.employed \cup Generators
  OBVIOUS
<1>4. /\ StoreOK /\ StoreOK' /\ StoreGrows /\ Len(store') = h
  BY <1>3, PublishAdds DEF IInv, NewHash
<1>5. envs[1] = u /\ envs[2] = u /\ u \in Env /\ u.employed \in SUBSET Hash
  BY <1>1, <1>3 DEF IInv, ContextOK, Installing, Base, Sound, Env
<1>6. /\ iDeps \in SUBSET Packages /\ \A p \in iDeps : IsInstalled(p)
      /\ HashesOf(iDeps) \subseteq Closure(X)
  BY <1>1, <1>3 DEF IInv, BuildOK, Installing
<1>7. X \in SUBSET Hash
  BY <1>3, <1>4, <1>5, GeneratorsAreAlike
<1>8. h \in Hash' /\ Host' = h /\ Hash \subseteq Hash' /\ Generators' = Generators
  <2>1. Hash' = 1 .. Len(store') /\ Len(store) \in Nat
    BY <1>4, HashType, NextHashType
  <2>2. Hash \subseteq Hash' /\ Generators' = Generators
    BY <1>4, Growth
  <2>3. h = Len(store) + 1
    BY <1>3 DEF NewHash
  <2>4. QED
    BY <1>4, <2>1, <2>2, <2>3 DEF Host
<1>9. e.employed = u.employed \cup (HashesOf(iDeps) \ u.employed) \cup {h}
  <2>1. HashesOf(iDeps) \subseteq Hash /\ IsFiniteSet(HashesOf(iDeps))
    BY <1>4, <1>6, HashesOfSolutions
  <2>2. PICK Y, Z : Y = HashesOf(iDeps) \ u.employed /\ Z = Hash'
    OBVIOUS
  <2>3. q \in Seq(Y) /\ ToSet(q) = Y
    <3>1. IsFiniteSet(HashesOf(iDeps) \ u.employed)
      BY <2>1, FS_Subset
    <3>2. QED
      BY <1>3, <2>2, <3>1, Listing
  <2>4. Y \in SUBSET Z /\ h \in Z
    BY <1>8, <2>1, <2>2
  <2>5. q \in Seq(Z)
    BY <2>3, <2>4, SequenceWidened
  <2>6. Append(q, h) \in Seq(Z) /\ ToSet(Append(q, h)) = Y \cup {h}
    BY <2>3, <2>4, <2>5, Appended
  <2>7. u \in [employed : SUBSET Z, path : Seq(Z)]
    <3>1. Env \subseteq Env'
      BY <1>4, GrowthOfEnvironments
    <3>2. QED
      BY <1>5, <2>2, <3>1 DEF Env
  <2>8. Employ(u, Append(q, h)).employed = u.employed \cup ToSet(Append(q, h))
    <3>1. PICK s : s = Append(q, h)
      OBVIOUS
    <3>2. s \in Seq(Z)
      BY <2>6, <3>1
    <3>3. Employ(u, s).employed = u.employed \cup ToSet(s)
      BY <2>7, <3>2, EmployType
    <3>4. QED
      BY <3>1, <3>3
  <2>9. QED
    BY <1>3, <2>2, <2>6, <2>8
<1>10. PICK Y : Y = X \cup {h}
  OBVIOUS
<1>11. e.employed \subseteq Closure(Y)'
  <2>1. Y \in SUBSET Hash' /\ X \in SUBSET Hash'
    BY <1>7, <1>8, <1>10
  <2>2. Y \subseteq Closure(Y)' /\ Closed(Closure(Y))' /\ Closure(Y)' \subseteq Hash'
    BY <1>4, <2>1, NextClosureFacts
  <2>3. Closure(X)' \subseteq Closure(Y)'
    <3>1. PICK C : C = Closure(Y)'
      OBVIOUS
    <3>2. C \in SUBSET Hash' /\ X \subseteq C /\ Closed(C)'
      BY <1>10, <2>2, <3>1
    <3>3. Closure(X)' \subseteq C
      BY <1>4, <2>1, <3>2, NextClosureFacts
    <3>4. QED
      BY <3>1, <3>3
  <2>4. Closure(X) \subseteq Closure(X)'
    BY <1>4, <1>7, GrowthOfSets
  <2>5. HashesOf(iDeps) \subseteq Closure(Y)'
    BY <1>6, <2>3, <2>4
  <2>6. u.employed \cup {h} \subseteq Closure(Y)'
    BY <1>3, <1>10, <2>2
  <2>7. QED
    BY <1>9, <2>5, <2>6
<1>12. Base' = u /\ Top' = e
  <2>1. envs' = <<u, u, e>>
    BY <1>2, <1>3, <1>5
  <2>2. QED
    BY <2>1 DEF Base, Top, Last
<1>13. Y = (Base.employed \cup Generators \cup {Host})'
  BY <1>3, <1>8, <1>10, <1>12
<1>14. QED
  BY <1>11, <1>12, <1>13 DEF PostInScope

(* The shells are in scope, and the plan for the next one is needed.       *)
LEMMA ScopeStep ==
  ASSUME WellFormed, IInv /\ BuildEnvironment, ScopeInv, [Next]_vars
  PROVE  ScopeInv'
<1>1. IInv /\ IsFiniteSet(Name) /\ PrivateAliases /\ OneHost /\ OneGenerator /\ NoCycle
      /\ PlanNeeded /\ ShellsInScope /\ PostInScope
  BY DEF WellFormed, ScopeInv
<1>2. StoreOK'
  BY NextOK DEF IInv
<1>a. ASSUME ~ Growing' PROVE PlanNeeded' /\ PostInScope'
  BY <1>a DEF PlanNeeded, PostInScope, Growing
<1>b. ASSUME UNCHANGED store PROVE StoreGrows
  BY <1>b DEF StoreGrows
<1>3. CASE /\ UNCHANGED <<store, shells>>
           /\ ~ Growing'
  BY <1>1, <1>2, <1>3, <1>a, <1>b, ShellsScopeKept DEF ScopeInv
<1>4. CASE Start \/ NoSolution \/ Solve \/ RemoveHead \/ GiveUp \/ AbortBuild \/ BuildFails
  BY <1>3, <1>4 DEF Start, NoSolution, Solve, RemoveHead, GiveUp, AbortBuild, BuildFails, Exit, Growing
<1>5. CASE LeaveShell
  <2>1. pc = "prompt" /\ Len(shells) > 1 /\ shells' = Front(shells) /\ UNCHANGED <<store, pc>>
    BY <1>5 DEF LeaveShell
  <2>2. DOMAIN shells = 1 .. Len(shells) /\ Len(shells) \in Nat
        /\ shells \in Seq([env : AnyEnv, request : SUBSET Name])
    BY <1>1, HereIsAShell DEF IInv, ShellsOK
  <2>3. PICK X : X = [env : AnyEnv, request : SUBSET Name]
    OBVIOUS
  <2>4. \A m \in 1 .. Len(shells) :
           /\ DOMAIN SubSeq(shells, 1, m) = 1 .. m
           /\ \A i \in 1 .. m : SubSeq(shells, 1, m)[i] = shells[i]
    <3>1. shells \in Seq(X)
      BY <2>2, <2>3
    <3>2. QED
      BY <3>1
  <2>5. DOMAIN shells' = 1 .. (Len(shells) - 1)
        /\ \A i \in 1 .. (Len(shells) - 1) : shells'[i] = shells[i]
    BY <2>1, <2>2, <2>4 DEF Front
  <2>6. ASSUME NEW i \in DOMAIN shells' PROVE ShellInScope(i)'
    <3>1. /\ i \in DOMAIN shells /\ shells'[i] = shells[i]
          /\ (i # 1 => shells'[i - 1] = shells[i - 1])
      BY <2>2, <2>5
    <3>2. QED
      BY <1>1, <1>2, <1>b, <2>1, <3>1, ShellScopeKept
  <2>7. ShellsInScope'
    BY <2>6 DEF ShellsInScope
  <2>8. QED
    BY <1>a, <2>1, <2>7 DEF ScopeInv, Growing
<1>6. CASE UseInstalled
  <2>1. pc = "sort" /\ UNCHANGED store /\ ~ Growing'
    BY <1>6 DEF UseInstalled, Spawn, Exit, Growing
  <2>2. PICK B, E, W : B = Base.employed /\ E = Here.env.employed /\ W = request
    OBVIOUS
  <2>3. PICK r, q : /\ Spawn(q) /\ q \in Seq(Hash) /\ Fulfilled(r, q)
                    /\ GoodPlan(r, B, W) /\ Distinct(r)
                    /\ Minimal(ToSet(r), Employable(B), W)
    BY <1>1, <1>6, <2>2, AllInstalled
  <2>4. B = E \cup {SpockItself} /\ E \in SUBSET Hash
    BY <1>1, <2>1, <2>2 DEF IInv, ContextOK, Sound, Env
  <2>5. Needed(r, E, W)
    BY <1>1, <2>3, <2>4, SolutionIsNeeded DEF IInv
  <2>6. ShellsInScope'
    BY <1>1, <2>1, <2>2, <2>3, <2>5, SpawnInScope
  <2>7. QED
    BY <1>a, <2>1, <2>6 DEF ScopeInv
<1>7. CASE BeginLoop
  <2>1. UNCHANGED <<store, shells>> /\ pc' = "loop"
    BY <1>7 DEF BeginLoop
  <2>2. QED
    BY <1>1, <1>2, <1>7, <1>b, <2>1, BeginLoopInScope, ShellsScopeKept DEF ScopeInv, PostInScope
<1>8. CASE TakeInstalled \/ BeginInstall
  <2>1. UNCHANGED <<store, shells, request>> /\ pc = "loop" /\ pc' # "post"
    BY <1>8 DEF TakeInstalled, BeginInstall, Missing
  <2>2. Plan' = Plan
    BY <1>1, <1>8, TakeInstalledStep, BeginInstallStep
  <2>3. PlanNeeded'
    BY <1>1, <1>2, <1>b, <2>1, <2>2, SamePlanNeeded DEF Growing
  <2>4. QED
    BY <1>1, <1>2, <1>b, <2>1, <2>3, ShellsScopeKept DEF ScopeInv, PostInScope
<1>9. CASE Publish
  <2>1. UNCHANGED <<shells, request>> /\ UNCHANGED <<soln, at, inUse>> /\ pc = "build"
    BY <1>9 DEF Publish, looping
  <2>2. StoreGrows
    BY <1>1, <1>9, PublishAdds DEF IInv
  <2>3. Plan' = Plan
    BY <1>1, <2>1, <2>2, PlanKept DEF IInv, Growing
  <2>4. PlanNeeded'
    BY <1>1, <1>2, <2>1, <2>2, <2>3, SamePlanNeeded DEF Growing
  <2>5. QED
    BY <1>1, <1>2, <1>9, <2>1, <2>2, <2>4, ShellsScopeKept, PublishInScope DEF ScopeInv
<1>10. CASE PostInstall \/ PostInstallFails
  <2>1. UNCHANGED shells /\ pc = "post" /\ pc' # "post"
    BY <1>10 DEF PostInstall, PostInstallFails, Exit
  <2>2. StoreGrows
    <3>1. PICK s \in Installable(soln[at].name) : store' = store \o ParasiteRecords(s)
      BY <1>10 DEF PostInstall, PostInstallFails
    <3>2. QED
      BY <1>1, <2>1, <3>1, ParasitesAdded DEF IInv
  <2>3. ShellsInScope' /\ PostInScope'
    BY <1>1, <1>2, <2>1, <2>2, ShellsScopeKept DEF PostInScope
  <2>4. CASE PostInstall
    BY <1>1, <2>3, <2>4, PostInstallInScope DEF ScopeInv
  <2>5. CASE PostInstallFails
    BY <1>a, <2>3, <2>5 DEF ScopeInv, PostInstallFails, Exit, Growing
  <2>6. QED
    BY <1>10, <2>4, <2>5
<1>11. CASE EndLoop
  <2>1. pc = "loop" /\ UNCHANGED store /\ ~ Growing'
    BY <1>11 DEF EndLoop, Spawn, Exit, Growing
  <2>2. PICK plan, q : plan = Plan /\ q = inUse
    OBVIOUS
  <2>3. /\ Spawn(q) /\ q \in Seq(Hash) /\ Fulfilled(plan, q)
        /\ GoodPlan(plan, Base.employed, request)
    BY <1>1, <1>11, <2>2, LoopDone
  <2>4. Needed(plan, Here.env.employed, request)
    BY <1>1, <2>1, <2>2 DEF PlanNeeded, Growing
  <2>5. ShellsInScope'
    BY <1>1, <2>1, <2>3, <2>4, SpawnInScope
  <2>6. QED
    BY <1>a, <2>1, <2>5 DEF ScopeInv
<1>12. CASE UNCHANGED vars
  <2>1. UNCHANGED <<store, shells, request, soln, at, inUse, envs, pc>>
    BY <1>12 DEF vars, looping
  <2>2. ShellsInScope'
    BY <1>1, <1>2, <1>b, <2>1, ShellsScopeKept
  <2>3. PostInScope'
    <3>1. PICK X : X = Base.employed \cup Generators \cup {Host}
      OBVIOUS
    <3>2. /\ Top' = Top /\ X = (Base.employed \cup Generators \cup {Host})'
          /\ Closure(X)' = Closure(X)
      BY <2>1, <3>1, StoreUntouched DEF Top, Base, Host
    <3>3. QED
      BY <1>1, <2>1, <3>1, <3>2 DEF PostInScope
  <2>4. PlanNeeded'
    <3>1. CASE ~ Growing'
      BY <1>a, <3>1
    <3>2. CASE Growing'
      <4>1. Growing
        BY <2>1, <3>2 DEF Growing
      <4>2. Plan' = Plan
        BY <1>1, <1>b, <2>1, <4>1, PlanKept DEF IInv
      <4>3. QED
        BY <1>1, <1>2, <1>b, <2>1, <4>1, <4>2, SamePlanNeeded
    <3>3. QED
      BY <3>1, <3>2
  <2>5. QED
    BY <2>2, <2>3, <2>4 DEF ScopeInv
<1>13. QED
  BY <1>4, <1>5, <1>6, <1>7, <1>8, <1>9, <1>10, <1>11, <1>12 DEF Next

(* Nothing leaks: a shell adds to the one around it only what was asked    *)
(* for, Spock, the code generator, and what these depend on; and a script  *)
(* runs with what is in use and the closure of its package.                *)
THEOREM NothingEverLeaks == ASSUME WellFormed PROVE Spec => []NothingLeaks
<1>1. Init => ScopeInv
  <2> SUFFICES ASSUME Init PROVE ScopeInv
    OBVIOUS
  <2>1. pc = "prompt" /\ DOMAIN shells = {1}
    BY DEF Init
  <2>2. QED
    BY <2>1 DEF ScopeInv, PlanNeeded, ShellsInScope, ShellInScope, PostInScope, Growing
<1>2. (IInv /\ BuildEnvironment) /\ ScopeInv /\ [Next]_vars => ScopeInv'
  BY ScopeStep
<1>3. ScopeInv => NothingLeaks
  BY DEF ScopeInv, ShellsInScope, ShellInScope, Scope, PostInScope, NothingLeaks
<1>4. QED
  BY <1>1, <1>2, <1>3, SessionInvariant, PTL DEF Spec

-----------------------------------------------------------------------------
(* Whatever is installed can be used *)

(* What h depends on agrees with it and with Spock.                        *)
Usable(h) == Consistent(Closure({SpockItself, h}))

(* What h depends on provides what its definition asks for.                *)
Supplied(h) ==
    store[h].name \in DOMAIN Defs => ProvidesAll(store[h].deps, Defs[store[h].name].install)

(* The host agrees with the code generator; what its definition does not   *)
(* ask for, it does not depend on.                                         *)
HostFits ==
    pc = "post" =>
        /\ Consistent(Closure({SpockItself, Host} \cup Generators))
        /\ Defs[soln[at].name].install = {} => store[Host].deps \subseteq {SpockItself}

(* The closure of part of a set without contradictions that lacks nothing. *)
LEMMA PartsAreConsistent ==
  StoreOK => \A C \in SUBSET Hash : \A X : Consistent(C) /\ X \subseteq C =>
      Closure(X) \subseteq C /\ Consistent(Closure(X))
<1> SUFFICES ASSUME StoreOK, NEW C \in SUBSET Hash, NEW X, Consistent(C), X \subseteq C
             PROVE  Closure(X) \subseteq C /\ Consistent(Closure(X))
  OBVIOUS
<1>1. Closure(X) \subseteq C /\ Closed(Closure(X))
  BY ClosureFacts DEF Consistent
<1>2. QED
  BY <1>1 DEF Consistent, Apart, Employable

(* The same after a step.                                                  *)
LEMMA NextPartsAreConsistent ==
  (StoreOK => \A C \in SUBSET Hash : \A X : Consistent(C) /\ X \subseteq C =>
      Closure(X) \subseteq C /\ Consistent(Closure(X)))'
  BY PartsAreConsistent, PTL

(* The installed packages of a plan.                                       *)
InstalledOf(plan) == {h \in Hash : \E i \in DOMAIN plan : plan[i].hash = h}

(* In a good plan these lack nothing, and none excludes another.           *)
LEMMA InstalledAgree ==
  StoreOK => \A plan, E, W : GoodPlan(plan, E, W) => Consistent(InstalledOf(plan))
<1> SUFFICES ASSUME StoreOK, NEW plan, NEW E, NEW W, GoodPlan(plan, E, W)
             PROVE  Consistent(InstalledOf(plan))
  OBVIOUS
<1> DEFINE H == InstalledOf(plan)
<1>1. H \subseteq Hash /\ \A h \in H : \E i \in DOMAIN plan : plan[i].hash = h
  BY DEF InstalledOf
<1>2. Hash \subseteq Nat \ {0} /\ Hash = 1 .. Len(store)
  BY HashType
<1>3. \A h \in E \cup Generators : \E i \in DOMAIN plan : plan[i].hash = h
  BY DEF GoodPlan
<1>4. ASSUME NEW h \in H, NEW d \in store[h].deps PROVE d \in H
  <2>1. PICK i \in DOMAIN plan : plan[i].hash = h
    BY <1>1
  <2>2. IsInstalled(plan[i])
    BY <1>1, <1>2, <2>1 DEF IsInstalled, NoHash
  <2>3. d \in E \cup Generators \/ \E j \in DOMAIN plan : j < i /\ plan[j].hash = d
    BY <2>1, <2>2 DEF GoodPlan
  <2>4. \E j \in DOMAIN plan : plan[j].hash = d
    BY <1>3, <2>3
  <2>5. d \in 1 .. (h - 1) /\ h \in 1 .. Len(store)
    BY <1>1, <1>2 DEF StoreOK
  <2>6. d \in Hash
    BY <1>2, <2>5, HashType
  <2>7. QED
    BY <2>4, <2>6 DEF InstalledOf
<1>5. ASSUME NEW g \in H, NEW h \in H, g # h PROVE NamesOf(g) \cap NamesOf(h) = {}
  <2>1. PICK i \in DOMAIN plan, j \in DOMAIN plan : plan[i].hash = g /\ plan[j].hash = h
    BY <1>1
  <2>2. IsInstalled(plan[i]) /\ IsInstalled(plan[j])
    BY <1>1, <1>2, <2>1 DEF IsInstalled, NoHash
  <2>3. Known(plan[i]) /\ Known(plan[j])
    BY PackagesAreKnown DEF GoodPlan
  <2>4. Names(plan[i]) = NamesOf(g) /\ Names(plan[j]) = NamesOf(h)
    BY <2>1, <2>2, <2>3 DEF Known
  <2>5. i # j
    BY <1>5, <2>1
  <2>6. QED
    BY <2>4, <2>5 DEF GoodPlan
<1>6. Apart(Employable(H))
  <2>1. \A h \in H : Names(Installed(h)) = NamesOf(h)
    BY <1>1, HashesAreInstalled
  <2>2. QED
    BY <1>5, <2>1 DEF Apart, Employable
<1>7. QED
  BY <1>4, <1>6 DEF Consistent, Closed

(* The same after a step.                                                  *)
LEMMA NextInstalledAgree ==
  (StoreOK => \A plan, E, W : GoodPlan(plan, E, W) => Consistent(InstalledOf(plan)))'
  BY InstalledAgree, PTL

(* What can be used, can be used when more is installed.                   *)
LEMMA UsableKept ==
  ASSUME StoreOK, StoreOK', StoreGrows, NEW h \in Hash, Usable(h)
  PROVE  Usable(h)'
<1>1. PICK X, C : X = {SpockItself, h} /\ C = Closure(X)
  OBVIOUS
<1>2. X \in SUBSET Hash
  BY <1>1, SpockIsInstalled
<1>3. X \subseteq C /\ C \in SUBSET Hash /\ Consistent(C)
  BY <1>1, <1>2, ClosureFacts DEF Usable
<1>4. Consistent(C)' /\ C \in SUBSET Hash'
  BY <1>3, GrowthOfSets, Growth
<1>5. Consistent(Closure(X))'
  BY <1>3, <1>4, NextPartsAreConsistent
<1>6. QED
  BY <1>1, <1>5 DEF Usable

(* What is supplied, stays supplied.                                       *)
LEMMA SuppliedKept ==
  ASSUME StoreOK, StoreOK', StoreGrows, NEW h \in Hash, Supplied(h)
  PROVE  Supplied(h)'
<1>1. PICK r : r = store[h]
  OBVIOUS
<1>2. store'[h] = r
  BY <1>1, Growth
<1>3. r.deps \in SUBSET Hash
  <2>1. r.deps \subseteq 1 .. (h - 1) /\ Hash = 1 .. Len(store) /\ Len(store) \in Nat
    BY <1>1, HashType DEF StoreOK
  <2>2. QED
    BY <2>1
<1>4. ASSUME r.name \in DOMAIN Defs PROVE ProvidesAll(r.deps, Defs[r.name].install)'
  <2>1. ProvidesAll(r.deps, Defs[r.name].install)
    BY <1>1, <1>4 DEF Supplied
  <2>2. PICK W : W = Defs[r.name].install
    OBVIOUS
  <2>3. ProvidesAll(r.deps, W)'
    BY <1>3, <2>1, <2>2, GrowthOfSets
  <2>4. QED
    BY <2>2, <2>3
<1>5. QED
  BY <1>2, <1>4 DEF Supplied
(* A package that is published fits in with the plan it was built for, and *)
(* so can be used.                                                         *)
LEMMA PublishUsable ==
  ASSUME WellFormed, IInv, StoreUsable, Publish
  PROVE  StoreUsable' /\ HostFits'
<1>1. pc = "build" /\ UNCHANGED <<soln, at, inUse>> /\ WellFormed
  BY DEF Publish, looping
<1>2. PICK n, h, E, W, p, k : /\ n = soln[at].name /\ h = Len(store) + 1 /\ E = Base.employed
                              /\ W = request /\ p = Plan /\ k = at
  OBVIOUS
<1>3. /\ StoreOK /\ StoreOK' /\ StoreGrows /\ Len(store') = h
      /\ store'[h] = [name |-> n, aliases |-> Defs[n].aliases, deps |-> RecordedDeps(n)]
      /\ RecordedDeps(n) \subseteq ToSet(inUse) \cup {SpockItself}
  BY <1>1, <1>2, PublishAdds DEF IInv, WellFormed
<1>4. Hash' = Hash \cup {h} /\ h \notin Hash /\ h \in Nat \ {0} /\ Generators' = Generators
      /\ Generators \subseteq Hash
  <2>1. Hash = 1 .. Len(store) /\ Len(store) \in Nat /\ Hash' = 1 .. h
    BY <1>3, HashType, NextHashType
  <2>2. Generators' = Generators /\ Generators \subseteq Hash
    BY <1>1, <1>3, Growth, GeneratorsAreAlike DEF WellFormed
  <2>3. QED
    BY <1>2, <2>1, <2>2
<1>5. Host' = h
  BY <1>3 DEF Host
<1>6. E \in SUBSET Hash /\ SpockItself \in E /\ ToSet(inUse) \subseteq E
  BY <1>1, <1>2 DEF IInv, ContextOK, BuildOK, Installing, Sound, Env
<1>7. /\ iDeps \in SUBSET Packages /\ \A q \in iDeps : IsInstalled(q)
      /\ \A q \in iDeps : Names(q) \cap Needs(n) # {} => q.hash \in ToSet(inUse) \cup {SpockItself}
      /\ \A m \in Defs[n].install : \E q \in iDeps : m \in Names(q)
      /\ k \in DOMAIN soln /\ ~ IsInstalled(soln[k]) /\ n \in DOMAIN Defs
  BY <1>1, <1>2 DEF IInv, BuildOK, Installing
<1>8. GoodPlan(p, E, W) /\ DOMAIN p = DOMAIN soln /\ p[k] = soln[k] /\ k \in DOMAIN p
  <2>1. GoodPlan(p, E, W) /\ k \in Nat
    BY <1>1, <1>2 DEF IInv, LoopOK, Growing
  <2>2. QED
    BY <1>2, <1>7, <2>1 DEF Plan
<1>9. \A q \in iDeps : q.hash \in Hash /\ q = Installed(q.hash) /\ Names(q) = NamesOf(q.hash)
  BY <1>3, <1>7, PackagesAreKnown DEF Known
<1>10. PICK r : r = [i \in DOMAIN p |-> IF i = k THEN [name |-> n, hash |-> h] ELSE p[i]]
  OBVIOUS
<1>11. Advances(p, r, k, E)
  <2>1. /\ DOMAIN r = DOMAIN p /\ r[k] = [name |-> n, hash |-> h]
        /\ \A i \in DOMAIN p \ {k} : r[i] = p[i]
    BY <1>8, <1>10
  <2>2. p[k].name = n /\ ~ IsInstalled(p[k])
    BY <1>2, <1>7, <1>8
  <2>3. r[k].hash = h /\ r[k] = [name |-> n, hash |-> r[k].hash]
    BY <2>1
  <2>4. /\ store'[h].name = n /\ store'[h].aliases = Defs[n].aliases
        /\ store'[h].deps \subseteq E /\ h \in Hash'
    BY <1>3, <1>4, <1>6
  <2>5. QED
    BY <1>7, <1>8, <2>1, <2>2, <2>3, <2>4 DEF Advances
<1>12. GoodPlan(r, E, W)'
  BY <1>1, <1>3, <1>6, <1>8, <1>11, PlanAdvances DEF WellFormed
<1>13. PICK H : H = InstalledOf(r)'
  OBVIOUS
<1>14. H \in SUBSET Hash' /\ Consistent(H)' /\ h \in H /\ SpockItself \in H /\ Generators \subseteq H
  <2>1. Consistent(H)'
    BY <1>3, <1>12, <1>13, NextInstalledAgree
  <2>2. H = {g \in Hash' : \E i \in DOMAIN r : r[i].hash = g}
    BY <1>13 DEF InstalledOf
  <2>3. r[k].hash = h /\ k \in DOMAIN r
    BY <1>8, <1>10
  <2>4. \A g \in E \cup Generators : \E i \in DOMAIN r : r[i].hash = g
    BY <1>4, <1>12 DEF GoodPlan
  <2>5. QED
    BY <1>4, <1>6, <2>1, <2>2, <2>3, <2>4
<1>15. Consistent(Closure({SpockItself, h}))' /\ Consistent(Closure({SpockItself, h} \cup Generators))'
  <2>1. PICK X, Y : X = {SpockItself, h} /\ Y = X \cup Generators
    OBVIOUS
  <2>2. X \subseteq H /\ Y \subseteq H
    BY <1>14, <2>1
  <2>3. Consistent(Closure(X))' /\ Consistent(Closure(Y))'
    BY <1>3, <1>14, <2>2, NextPartsAreConsistent
  <2>4. Y = ({SpockItself, h} \cup Generators)'
    BY <1>4, <2>1
  <2>5. QED
    BY <2>1, <2>3, <2>4
<1>16. Supplied(h)'
  <2>1. ASSUME NEW m \in Defs[n].install PROVE \E d \in RecordedDeps(n) : m \in NamesOf(d)'
    <3>1. PICK q \in iDeps : m \in Names(q)
      BY <1>7, <2>1
    <3>2. m \in Needs(n)
      BY <1>7, <2>1 DEF Needs, IsParasite
    <3>3. q.hash \in RecordedDeps(n)
      BY <3>1, <3>2 DEF RecordedDeps
    <3>4. PICK d : d = q.hash
      OBVIOUS
    <3>5. d \in Hash /\ NamesOf(d) = Names(q)
      BY <1>9, <3>4
    <3>6. NamesOf(d)' = NamesOf(d)
      BY <1>3, <3>5, Growth
    <3>7. QED
      BY <3>1, <3>3, <3>4, <3>5, <3>6
  <2>2. store'[h].name = n /\ store'[h].deps = RecordedDeps(n)
    BY <1>3
  <2>3. PICK D : D = RecordedDeps(n)
    OBVIOUS
  <2>4. ProvidesAll(D, Defs[n].install)'
    BY <2>1, <2>3 DEF ProvidesAll
  <2>5. QED
    BY <2>2, <2>3, <2>4 DEF Supplied
<1>17. Defs[n].install = {} => RecordedDeps(n) \subseteq {SpockItself}
  <2>1. SUFFICES ASSUME Defs[n].install = {}, NEW d \in RecordedDeps(n), d # SpockItself PROVE FALSE
    OBVIOUS
  <2>2. PICK q \in iDeps : q.hash = d /\ Names(q) \cap Needs(n) # {}
    BY <2>1 DEF RecordedDeps
  <2>3. Needs(n) = {Spock}
    BY <1>7, <2>1 DEF Needs, IsParasite
  <2>4. d \in E /\ d \in Hash /\ Spock \in NamesOf(d)
    BY <1>6, <1>7, <1>9, <2>1, <2>2, <2>3
  <2>5. Spock \in NamesOf(SpockItself) /\ SpockItself \in Hash
    <3>1. SpockItself \in Hash /\ SpockItself \in DOMAIN Initial
      BY <1>3, SpockIsInstalled
    <3>2. store[1] = Initial[1]
      BY <1>3, <3>1 DEF StoreOK, SpockItself
    <3>3. Initial[1] = [name |-> Spock, aliases |-> {}, deps |-> {}]
      BY ConstantsOK
    <3>4. store[1].name = Spock
      BY <3>2, <3>3
    <3>5. QED
      BY <3>1, <3>4 DEF NamesOf, SpockItself
  <2>6. Consistent(InstalledOf(p))
    BY <1>3, <1>8, InstalledAgree
  <2>7. d \in InstalledOf(p) /\ SpockItself \in InstalledOf(p)
    BY <1>6, <1>8, <2>4, <2>5 DEF GoodPlan, InstalledOf
  <2>8. Installed(d) # Installed(SpockItself) /\ Names(Installed(d)) = NamesOf(d)
        /\ Names(Installed(SpockItself)) = NamesOf(SpockItself)
    BY <1>3, <2>1, <2>4, <2>5, HashesAreInstalled
  <2>9. QED
    BY <2>4, <2>5, <2>6, <2>7, <2>8 DEF Consistent, Apart, Employable
<1>18. StoreUsable'
  <2>1. ASSUME NEW g \in Hash PROVE Usable(g)'
    BY <1>3, UsableKept DEF StoreUsable, Usable
  <2>2. ASSUME NEW g \in Hash \ DOMAIN Initial PROVE Supplied(g)'
    BY <1>3, SuppliedKept DEF StoreUsable, Supplied
  <2>3. Usable(h)'
    BY <1>15 DEF Usable
  <2>4. \A g \in Hash' : Usable(g)'
    BY <1>4, <2>1, <2>3
  <2>5. \A g \in Hash' \ DOMAIN Initial : Supplied(g)'
    BY <1>4, <1>16, <2>2
  <2>6. QED
    BY <2>4, <2>5 DEF StoreUsable, Usable, Supplied
<1>19. HostFits'
  <2>1. soln'[at'].name = n /\ store'[h].deps = RecordedDeps(n)
    BY <1>1, <1>2, <1>3
  <2>2. PICK Y : Y = {SpockItself, h} \cup Generators
    OBVIOUS
  <2>3. Y = ({SpockItself, Host} \cup Generators)' /\ Consistent(Closure(Y))'
    BY <1>4, <1>5, <1>15, <2>2
  <2>4. QED
    BY <1>5, <1>17, <2>1, <2>3 DEF HostFits
<1>20. QED
  BY <1>18, <1>19
(* A parasite agrees with its host, which needs nothing but Spock, and     *)
(* with the code generator.                                                *)
LEMMA ParasitesUsable ==
  ASSUME WellFormed, ParasitesFit, IInv, StoreUsable, HostFits, pc = "post",
         NEW s \in Installable(soln[at].name), store' = store \o ParasiteRecords(s)
  PROVE  StoreUsable'
<1>1. PICK n, g : n = soln[at].name /\ g = Host
  OBVIOUS
<1>2. /\ StoreOK /\ StoreOK' /\ StoreGrows /\ Len(store') = g + Len(s) /\ Len(store) = g
      /\ \A i \in DOMAIN s :
            store'[g + i] = [name |-> s[i].name, aliases |-> s[i].aliases,
                             deps |-> {SpockItself, g} \cup Generators]
  BY <1>1, ParasitesAdded DEF IInv, WellFormed, Host
<1>3. /\ n \in DOMAIN Defs /\ store[g].name = n /\ store[g].aliases = Defs[n].aliases
      /\ g \notin DOMAIN Initial
  BY <1>1 DEF IInv, BuildOK, PostOK, Installing
<1>4. /\ s \in Seq(Parasite)
      /\ \A i \in DOMAIN s :
           /\ s[i] \in ParasitesOf(n) /\ s[i] \in Parasite
           /\ s[i].name \in GhostName \ DOMAIN Defs /\ Hosts(s[i].name) = {n}
           /\ GhostNames(s[i].name) = {s[i].name} \cup s[i].aliases
  BY <1>1, <1>3, ParasitesInstalled DEF WellFormed
<1>5. /\ g \in Hash /\ Hash \subseteq Hash' /\ Generators' = Generators /\ Generators \subseteq Hash
      /\ SpockItself \in Hash
      /\ \A h \in Hash' \ Hash : \E i \in DOMAIN s : h = g + i
  <2>1. Hash = 1 .. g /\ g \in Nat /\ Hash' = 1 .. (g + Len(s)) /\ SpockItself \in Hash
    BY <1>2, HashType, NextHashType, SpockIsInstalled
  <2>2. DOMAIN s = 1 .. Len(s) /\ Len(s) \in Nat
    BY <1>4
  <2>3. ASSUME NEW h \in Hash' \ Hash PROVE \E i \in DOMAIN s : h = g + i
    <3>1. h - g \in 1 .. Len(s) /\ h = g + (h - g)
      BY <2>1, <2>2, <2>3
    <3>2. QED
      BY <2>2, <3>1
  <2>4. g \in Hash
    BY <2>1 DEF SpockItself
  <2>5. Generators' = Generators /\ Generators \subseteq Hash
    BY <1>2, Growth, GeneratorsAreAlike DEF WellFormed
  <2>6. QED
    BY <1>2, <2>1, <2>3, <2>4, <2>5, Growth
<1>6. PICK K : K = Closure({SpockItself, g} \cup Generators)
  OBVIOUS
<1>7. K \in SUBSET Hash /\ {SpockItself, g} \cup Generators \subseteq K /\ Consistent(K)
  BY <1>1, <1>2, <1>5, <1>6, ClosureFacts DEF HostFits
<1>8. PICK C \in SUBSET DOMAIN Initial :
         /\ SelfContained(C)
         /\ \A h \in DOMAIN Initial : CodeGeneration \in InitialNames(h) => h \in C
         /\ \A h \in C, m \in Name : Hosts(m) # {} => GhostNames(m) \cap InitialNames(h) = {}
  BY DEF ParasitesFit
<1>9. C \in SUBSET Hash /\ \A h \in C : store[h] = Initial[h] /\ NamesOf(h) = InitialNames(h)
  <2>1. \A h \in DOMAIN Initial : store[h] = Initial[h]
    BY <1>2 DEF StoreOK
  <2>2. DOMAIN Initial \subseteq Hash
    <3>1. DOMAIN Initial = 1 .. Len(Initial) /\ Len(Initial) \in Nat
      BY ConstantsOK
    <3>2. QED
      BY <1>2, <3>1, HashType DEF StoreOK
  <2>3. QED
    BY <2>1, <2>2 DEF NamesOf, InitialNames
<1>10. ASSUME NEW i \in DOMAIN s PROVE K \subseteq C \cup {g}
  <2>1. Defs[n].install = {}
    BY <1>3, <1>4 DEF ParasitesFit
  <2>2. store[g].deps \subseteq {SpockItself}
    BY <1>1, <2>1 DEF HostFits
  <2>3. Generators \subseteq C
    BY <1>2, <1>8, GeneratorsAreInitial
  <2>4. Closed(C \cup {g}) /\ SpockItself \in C
    <3>1. SpockItself \in C /\ \A h \in C : store[h].deps \subseteq C
      BY <1>8, <1>9 DEF SelfContained
    <3>2. QED
      BY <2>2, <3>1 DEF Closed
  <2>5. PICK X, Z : X = {SpockItself, g} \cup Generators /\ Z = C \cup {g}
    OBVIOUS
  <2>6. X \in SUBSET Hash /\ Z \in SUBSET Hash /\ X \subseteq Z /\ Closed(Z) /\ K = Closure(X)
    BY <1>5, <1>6, <1>9, <2>3, <2>4, <2>5
  <2>7. K \subseteq Z
    BY <1>2, <2>6, ClosureFacts
  <2>8. QED
    BY <2>5, <2>7
<1>11. ASSUME NEW i \in DOMAIN s, NEW h \in K
       PROVE  ({s[i].name} \cup s[i].aliases) \cap NamesOf(h) = {}
  <2>1. PICK m : m = s[i].name
    OBVIOUS
  <2>2. GhostNames(m) = {s[i].name} \cup s[i].aliases /\ m \in Name /\ Hosts(m) # {}
        /\ m \in GhostName \ {n}
    BY <1>3, <1>4, <2>1 DEF Parasite
  <2>3. CASE h \in C
    BY <1>8, <1>9, <2>2, <2>3
  <2>4. CASE h = g
    <3>1. NamesOf(g) = {n} \cup Defs[n].aliases
      BY <1>3 DEF NamesOf
    <3>2. n \notin {s[i].name} \cup s[i].aliases
      BY <1>3, <1>4, <2>1, <2>2 DEF ParasitesFit
    <3>3. Defs[n].aliases \cap GhostNames(m) = {}
      BY <1>3, <2>2 DEF WellFormed, PrivateAliases
    <3>4. QED
      BY <2>2, <2>4, <3>1, <3>2, <3>3
  <2>5. QED
    BY <1>10, <2>3, <2>4
<1>12. ASSUME NEW i \in DOMAIN s, NEW t, t = g + i PROVE Usable(t)' /\ Supplied(t)'
  <2>1. /\ store'[t].name = s[i].name /\ store'[t].aliases = s[i].aliases
        /\ store'[t].deps = {SpockItself, g} \cup Generators
    <3>1. store'[g + i] = [name |-> s[i].name, aliases |-> s[i].aliases,
                           deps |-> {SpockItself, g} \cup Generators]
      BY <1>2
    <3>2. QED
      BY <1>12, <3>1
  <2>2. t \in Hash' /\ t \notin K
    <3>1. Hash = 1 .. g /\ g \in Nat /\ Hash' = 1 .. (g + Len(s))
      BY <1>2, HashType, NextHashType
    <3>2. DOMAIN s = 1 .. Len(s) /\ Len(s) \in Nat
      BY <1>4
    <3>3. t \in 1 .. (g + Len(s)) /\ t \notin 1 .. g
      BY <1>12, <3>1, <3>2
    <3>4. QED
      BY <1>7, <3>1, <3>3
  <2>3. K \in SUBSET Hash' /\ Consistent(K)' /\ \A h \in K : NamesOf(h)' = NamesOf(h)
    BY <1>2, <1>5, <1>7, GrowthOfSets, Growth
  <2>4. PICK H : H = K \cup {t}
    OBVIOUS
  <2>5. Closed(H)'
    BY <1>7, <2>1, <2>3, <2>4 DEF Closed, Consistent
  <2>6. \A x, y \in H : x # y => NamesOf(x)' \cap NamesOf(y)' = {}
    <3>1. NamesOf(t)' = {s[i].name} \cup s[i].aliases
      BY <2>1 DEF NamesOf
    <3>2. \A h \in K : NamesOf(t)' \cap NamesOf(h)' = {}
      BY <1>11, <2>3, <3>1
    <3>3. ASSUME NEW x \in K, NEW y \in K, x # y PROVE NamesOf(x)' \cap NamesOf(y)' = {}
      <4>1. /\ Names(Installed(x)) = NamesOf(x) /\ Names(Installed(y)) = NamesOf(y)
            /\ Installed(x) # Installed(y)
        BY <1>2, <1>7, <3>3, HashesAreInstalled
      <4>2. NamesOf(x) \cap NamesOf(y) = {}
        BY <1>7, <3>3, <4>1 DEF Consistent, Apart, Employable
      <4>3. QED
        BY <2>3, <4>2
    <3>4. QED
      BY <2>4, <3>2, <3>3
  <2>7. Consistent(H)'
    <3>1. H \in SUBSET Hash'
      BY <2>2, <2>3, <2>4
    <3>2. \A h \in H : Names(Installed(h))' = NamesOf(h)'
      BY <1>2, <3>1, NextHashesAreInstalled
    <3>3. \A x, y \in H : x # y => Names(Installed(x))' \cap Names(Installed(y))' = {}
      BY <2>6, <3>2
    <3>4. Apart(Employable(H))'
      BY <3>3 DEF Apart, Employable
    <3>5. QED
      BY <2>5, <3>4 DEF Consistent
  <2>8. Consistent(Closure({SpockItself, t}))'
    <3>1. PICK X : X = {SpockItself, t}
      OBVIOUS
    <3>2. X \subseteq H /\ H \in SUBSET Hash'
      BY <1>7, <2>2, <2>3, <2>4, <3>1
    <3>3. Consistent(Closure(X))'
      BY <1>2, <2>7, <3>2, NextPartsAreConsistent
    <3>4. QED
      BY <3>1, <3>3
  <2>9. QED
    BY <1>4, <2>1, <2>8 DEF Usable, Supplied
<1>13. ASSUME NEW h \in Hash' PROVE Usable(h)' /\ (h \notin DOMAIN Initial => Supplied(h)')
  <2>1. CASE h \in Hash
    BY <1>2, <2>1, UsableKept, SuppliedKept DEF StoreUsable, Usable, Supplied
  <2>2. CASE h \notin Hash
    BY <1>5, <1>12, <1>13, <2>2
  <2>3. QED
    BY <2>1, <2>2
<1>14. QED
  BY <1>13 DEF StoreUsable, Usable, Supplied

(* Steps that install nothing.                                             *)
LEMMA StillUsable ==
  ASSUME StoreOK, StoreUsable, UNCHANGED store
  PROVE  StoreUsable'
<1>1. StoreOK' /\ StoreGrows /\ Hash' = Hash
  BY StoreKept, StoreUntouched
<1>2. \A h \in Hash : Usable(h)'
  BY <1>1, UsableKept DEF StoreUsable, Usable
<1>3. \A h \in Hash \ DOMAIN Initial : Supplied(h)'
  BY <1>1, SuppliedKept DEF StoreUsable, Supplied
<1>4. QED
  BY <1>1, <1>2, <1>3 DEF StoreUsable, Usable, Supplied

(* What is installed at first can be used.                                 *)
LEMMA InitUsable ==
  ASSUME WellFormed, UsableAtFirst, Init
  PROVE  StoreUsable /\ HostFits
<1>1. StoreOK /\ store = Initial /\ pc = "prompt" /\ Hash = DOMAIN Initial
  BY InitOK DEF IInv, Init, WellFormed, Hash
<1>2. ASSUME NEW h \in Hash PROVE Usable(h)
  <2>1. PICK C \in SUBSET DOMAIN Initial : SelfContained(C) /\ h \in C
    BY <1>1 DEF UsableAtFirst
  <2>2. /\ C \in SUBSET Hash /\ SpockItself \in C /\ \A g \in C : store[g].deps \subseteq C
        /\ \A g, k \in C : g # k => NamesOf(g) \cap NamesOf(k) = {}
    BY <1>1, <2>1 DEF SelfContained, NamesOf, InitialNames
  <2>3. \A g \in C : Names(Installed(g)) = NamesOf(g)
    BY <1>1, <2>2, HashesAreInstalled
  <2>4. Consistent(C)
    BY <2>2, <2>3 DEF Consistent, Closed, Apart, Employable
  <2>5. {SpockItself, h} \subseteq C
    BY <2>1, <2>2
  <2>6. QED
    BY <1>1, <2>2, <2>4, <2>5, PartsAreConsistent DEF Usable
<1>3. QED
  BY <1>1, <1>2 DEF StoreUsable, HostFits, Usable

(* Each step keeps what is installed usable.                               *)
LEMMA UsableStep ==
  ASSUME WellFormed, ParasitesFit, IInv, StoreUsable, HostFits, [Next]_vars
  PROVE  StoreUsable' /\ HostFits'
<1>1. StoreOK
  BY DEF IInv
<1>2. pc' # "post" => HostFits'
  BY DEF HostFits
<1>3. CASE \/ Start \/ LeaveShell \/ NoSolution \/ Solve \/ RemoveHead \/ UseInstalled
           \/ BeginLoop \/ TakeInstalled \/ GiveUp \/ BeginInstall \/ AbortBuild
           \/ BuildFails \/ EndLoop
  <2>1. UNCHANGED store /\ pc' # "post"
    BY <1>3 DEF Start, LeaveShell, NoSolution, Solve, RemoveHead, UseInstalled, BeginLoop,
                TakeInstalled, GiveUp, BeginInstall, AbortBuild, BuildFails, EndLoop, Missing,
                Spawn, Exit
  <2>2. QED
    BY <1>1, <1>2, <2>1, StillUsable
<1>4. CASE Publish
  BY <1>4, PublishUsable
<1>5. CASE PostInstall \/ PostInstallFails
  <2>1. pc = "post" /\ pc' # "post"
    BY <1>5 DEF PostInstall, PostInstallFails, Exit
  <2>2. PICK s \in Installable(soln[at].name) : store' = store \o ParasiteRecords(s)
    BY <1>5 DEF PostInstall, PostInstallFails
  <2>3. QED
    BY <1>2, <2>1, <2>2, ParasitesUsable
<1>6. CASE UNCHANGED vars
  <2>1. UNCHANGED store /\ pc' = pc /\ soln' = soln /\ at' = at
    BY <1>6 DEF vars, looping
  <2>2. StoreUsable'
    BY <1>1, <2>1, StillUsable
  <2>3. PICK g, Y : g = Host /\ Y = {SpockItself, Host} \cup Generators
    OBVIOUS
  <2>4. g = Host' /\ Y = ({SpockItself, Host} \cup Generators)'
    BY <2>1, <2>3, StoreUntouched DEF Host
  <2>5. Consistent(Closure(Y)) <=> Consistent(Closure(Y))'
    <3>1. PICK C : C = Closure(Y)
      OBVIOUS
    <3>2. C = Closure(Y)' /\ (Consistent(C)' <=> Consistent(C))
      BY <2>1, <3>1, StoreUntouched
    <3>3. QED
      BY <3>1, <3>2
  <2>6. HostFits'
    <3>1. SUFFICES ASSUME pc = "post" PROVE HostFits'
      BY <1>2, <2>1
    <3>2. Consistent(Closure(Y)) /\ (Defs[soln[at].name].install = {} => store[g].deps \subseteq {SpockItself})
      BY <2>3, <3>1 DEF HostFits
    <3>3. Consistent(Closure({SpockItself, Host} \cup Generators))'
      BY <2>4, <2>5, <3>2
    <3>4. QED
      BY <2>1, <2>4, <3>2, <3>3 DEF HostFits
  <2>7. QED
    BY <2>2, <2>6
<1>7. QED
  BY <1>3, <1>4, <1>5, <1>6 DEF Next

(* Whatever commands have installed, those included that failed or were    *)
(* given up on the way, can be used, if what was there at first could.     *)
THEOREM StoreStaysUsable ==
  ASSUME WellFormed, UsableAtFirst, ParasitesFit PROVE Spec => []StoreUsable
<1>1. Init => StoreUsable /\ HostFits
  BY InitUsable
<1>2. (IInv /\ BuildEnvironment) /\ (StoreUsable /\ HostFits) /\ [Next]_vars
        => (StoreUsable /\ HostFits)'
  BY UsableStep
<1>3. QED
  BY <1>1, <1>2, SessionInvariant, PTL DEF Spec
=============================================================================
