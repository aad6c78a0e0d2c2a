--------------------------- MODULE Session_proofs ---------------------------
(***************************************************************************)
(* Shells are consistent and hold what was asked for, builds run in an     *)
(* environment without contradictions, and the sort by dependency ends,    *)
(* for any well-formed set of definitions, any packages installed at       *)
(* first, and any sequence of commands, failed ones included.              *)
(***************************************************************************)
EXTENDS Session, FiniteSetTheorems, WellFoundedInduction, NaturalsInduction, TLAPS

Growing == pc \in {"loop", "build", "post"}
Installing == pc \in {"build", "post"}

(* The store: what is installed stays as it was, depends on what was there *)
(* before, and carries the secondary names of its own definition only.     *)
StoreOK ==
    /\ store \in Seq(Record(Nat))
    /\ \A h \in Hash : store[h].deps \subseteq 1 .. (h - 1)
    /\ Len(Initial) <= Len(store) /\ \A h \in DOMAIN Initial : store[h] = Initial[h]
    /\ \A h \in Hash \ DOMAIN Initial : CodeGeneration \notin NamesOf(h)
    /\ \A h \in Hash, n \in DOMAIN Defs :
          NamesOf(h) \cap Defs[n].aliases # {} => store[h].name = n

(* The search paths of an environment hold what it employs, and each       *)
(* package before those it depends on.                                     *)
Sound(env) ==
    /\ env \in Env
    /\ ToSet(env.path) = env.employed
    /\ \A h \in env.employed : store[h].deps \ Generators \subseteq env.employed
    /\ \A j, k \in DOMAIN env.path :
          env.path[k] \in store[env.path[j]].deps \ Generators => j < k

AnyEnv == [employed : SUBSET Nat, path : Seq(Nat)]

ShellOK(i) ==
    /\ Sound(shells[i].env)
    /\ Consistent(shells[i].env.employed)
    /\ shells[i].env.employed = {} \/ SpockItself \in shells[i].env.employed
    /\ i # 1 => /\ shells[i - 1].env.employed \subseteq shells[i].env.employed
                /\ ProvidesAll(shells[i].env.employed, shells[i].request)

ShellsOK ==
    /\ shells \in Seq([env : AnyEnv, request : SUBSET Name])
    /\ shells # <<>>
    /\ \A i \in DOMAIN shells : ShellOK(i)

ContextOK ==
    /\ pc \in {"prompt", "solve", "sort", "loop", "build", "post"}
    /\ request \in SUBSET Name
    /\ envs \in Seq(AnyEnv)
    /\ Len(envs) = IF pc = "prompt" THEN 0 ELSE IF Installing THEN 3 ELSE 1
    /\ \A i \in DOMAIN envs : envs[i] \in Env
    /\ pc # "prompt" =>
          /\ Sound(Base)
          /\ SpockItself \in Base.employed
          /\ Here.env.employed \subseteq Base.employed
    /\ pc \in {"solve", "sort"} =>
          /\ Consistent(Base.employed)
          /\ Base.employed = Here.env.employed \cup {SpockItself}
    /\ Installing => envs[2] = envs[1]

(* S is a solution for W beside E, and nothing in it is superfluous.       *)
Minimal(S, E, W) ==
    /\ S \subseteq Packages
    /\ IsSolution(S, E, W)
    /\ \A T \in SUBSET S : IsSolution(T, E, W) => T = S

Sorted ==
    /\ Minimal(left \cup ToSet(order), Employable(Base.employed), request)
    /\ \A i \in DOMAIN order : order[i] \notin left
    /\ \A i, j \in DOMAIN order : order[i] = order[j] => i = j
    /\ \A i, j \in DOMAIN heads : heads[i] = heads[j] => i = j
    /\ ToSet(heads) = {p \in left : \A q \in left : ~ DependsOn(q, p)}
    /\ \A i, j \in DOMAIN order : i <= j => ~ DependsOn(order[j], order[i])
    /\ \A i \in DOMAIN order : \A q \in left : ~ DependsOn(q, order[i])

SortOK ==
    /\ left \subseteq Packages /\ heads \in Seq(left) /\ order \in Seq(Packages)
    /\ pc # "sort" => left = {} /\ order = <<>>
    /\ pc = "sort" => Sorted

(* The solution as it will be employed: what is in use of it so far, and   *)
(* what is still to come.                                                  *)
Plan == [i \in DOMAIN soln |-> IF i < at THEN Installed(inUse[i]) ELSE soln[i]]

(* A plan for W where E is employed: nothing in it excludes anything else, *)
(* and each package comes after those it depends on, unless these are      *)
(* employed already or the code generator.                                 *)
GoodPlan(plan, E, W) ==
    /\ \A i \in DOMAIN plan : plan[i] \in Packages
    /\ \A i, j \in DOMAIN plan : i # j => Names(plan[i]) \cap Names(plan[j]) = {}
    /\ \A h \in E \cup Generators : \E i \in DOMAIN plan : plan[i].hash = h
    /\ \A n \in W : \E i \in DOMAIN plan : n \in Names(plan[i])
    /\ \A i \in DOMAIN plan : IsInstalled(plan[i]) =>
          \A d \in store[plan[i].hash].deps :
             \/ d \in E \cup Generators
             \/ \E j \in DOMAIN plan : j < i /\ plan[j].hash = d
    /\ \A i \in DOMAIN plan : ~ IsInstalled(plan[i]) =>
          \A n \in Needs(plan[i].name) : \E j \in DOMAIN plan : j < i /\ n \in Names(plan[j])

LoopOK ==
    /\ soln \in Seq(Packages) /\ at \in Nat /\ inUse \in Seq(Hash)
    /\ IF Growing THEN at \in 1 .. (Len(soln) + 1) /\ Len(inUse) = at - 1
                  ELSE soln = <<>> /\ at = 0 /\ inUse = <<>>
    /\ Growing => GoodPlan(Plan, Base.employed, request)

BuildOK ==
    /\ iDeps \subseteq Packages
    /\ ~ Installing => iDeps = {}
    /\ Installing =>
          /\ at \in DOMAIN soln /\ ~ IsInstalled(soln[at]) /\ soln[at].name \in DOMAIN Defs
          /\ ToSet(inUse) \subseteq Base.employed
          /\ \A p \in iDeps : IsInstalled(p)
          /\ Employable(Base.employed) \subseteq iDeps
          /\ HashesOf(iDeps) \subseteq Closure(Base.employed \cup Generators)
          /\ \A p \in iDeps : Names(p) \cap Needs(soln[at].name) # {} =>
                p.hash \in ToSet(inUse) \cup {SpockItself}
          /\ \A n \in Defs[soln[at].name].install : \E p \in iDeps : n \in Names(p)

PostOK ==
    pc = "post" =>
        /\ Host \notin DOMAIN Initial
        /\ store[Host].name = soln[at].name
        /\ store[Host].aliases = Defs[soln[at].name].aliases
        /\ store[Host].deps \subseteq ToSet(inUse) \cup {SpockItself}
        /\ \A j \in DOMAIN inUse :
              NamesOf(inUse[j]) \cap Needs(soln[at].name) # {} => inUse[j] \in store[Host].deps

-----------------------------------------------------------------------------
(* Induction over the natural numbers, by least counterexamples *)

(* A set of natural numbers that is not empty has a least element.         *)
LEMMA NatMin ==
  ASSUME NEW T \in SUBSET Nat, T # {}
  PROVE  \E x \in T : \A y \in T : x <= y
<1> DEFINE R == {ss \in Nat \X Nat : ss[1] < ss[2]}
<1>1. IsWellFoundedOn(R, Nat)
  BY NatLessThanWellFounded DEF OpToRel
<1> HIDE DEF R
<1>2. \E x \in T : \A y \in T : <<y, x>> \notin R
  BY <1>1, WFMin
<1>3. \A x, y \in Nat : <<y, x>> \notin R => x <= y
  BY DEF R
<1>4. QED
  BY <1>2, <1>3

(* A set of numbers up to n that has 0, and with each number before n the  *)
(* next one, has all of them.                                              *)
LEMMA UpTo ==
  ASSUME NEW n \in Nat, NEW T, 0 \in T, \A i \in 1 .. n : i - 1 \in T => i \in T
  PROVE  0 .. n \subseteq T
<1> DEFINE M == (0 .. n) \ T
<1>1. SUFFICES ASSUME M # {} PROVE FALSE
  OBVIOUS
<1>a. M \in SUBSET Nat
  OBVIOUS
<1> HIDE DEF M
<1>2. PICK x \in M : \A y \in M : x <= y
  BY <1>1, <1>a, NatMin
<1> USE DEF M
<1>3. x # 0 /\ x \in 1 .. n
  BY <1>2
<1>4. x - 1 \notin M /\ x - 1 \in 0 .. n
  BY <1>2, <1>3
<1>5. x \in T
  BY <1>3, <1>4
<1>6. QED
  BY <1>2, <1>5

(* f begins with b, and goes on as g has it.                               *)
Iterates(f, n, S, b, g) ==
    /\ f \in [0 .. n -> S]
    /\ f[0] = b /\ \A i \in 1 .. n : f[i] = g[<<i, f[i - 1]>>]

(* A function of 0 .. n is defined by its first value and by how each      *)
(* value follows from the one before it.                                   *)
LEMMA DefinedByRecursion ==
  ASSUME NEW n \in Nat, NEW S, NEW b \in S, NEW g \in [(1 .. n) \X S -> S]
  PROVE  \E f : Iterates(f, n, S, b, g)
<1> DEFINE P(m) == \E f \in [0 .. m -> S] : f[0] = b /\ \A i \in 1 .. m : f[i] = g[<<i, f[i - 1]>>]
           T == {m \in 0 .. n : P(m)}
<1>1. P(0)
  <2> DEFINE c == [i \in 0 .. 0 |-> b]
  <2>1. c \in [0 .. 0 -> S] /\ c[0] = b /\ 1 .. 0 = {}
    OBVIOUS
  <2> HIDE DEF c
  <2>2. QED
    BY <2>1
<1>2. ASSUME NEW m \in 1 .. n, P(m - 1) PROVE P(m)
  <2>1. PICK f \in [0 .. (m - 1) -> S] :
            f[0] = b /\ \A i \in 1 .. (m - 1) : f[i] = g[<<i, f[i - 1]>>]
    BY <1>2
  <2> DEFINE h == [i \in 0 .. m |-> IF i = m THEN g[<<m, f[m - 1]>>] ELSE f[i]]
  <2>2. g[<<m, f[m - 1]>>] \in S
    <3>1. <<m, f[m - 1]>> \in (1 .. n) \X S
      OBVIOUS
    <3>2. QED
      BY <3>1
  <2>3. h \in [0 .. m -> S]
    BY <2>2
  <2>4. h[0] = b
    BY <2>1
  <2>5. ASSUME NEW i \in 1 .. m PROVE h[i] = g[<<i, h[i - 1]>>]
    <3>1. h[i - 1] = f[i - 1]
      OBVIOUS
    <3>2. CASE i = m
      <4>1. h[m] = g[<<m, f[m - 1]>>]
        OBVIOUS
      <4> HIDE DEF h
      <4>2. QED
        BY <3>1, <3>2, <4>1
    <3>3. CASE i # m
      <4>1. i \in 1 .. (m - 1) /\ h[i] = f[i]
        BY <3>3
      <4>2. QED
        BY <2>1, <3>1, <4>1
    <3>4. QED
      BY <3>2, <3>3
  <2>6. QED
    BY <2>3, <2>4, <2>5
<1> HIDE DEF P
<1>3. 0 \in T /\ \A i \in 1 .. n : i - 1 \in T => i \in T
  BY <1>1, <1>2
<1> HIDE DEF T
<1>4. 0 .. n \subseteq T
  BY <1>3, UpTo
<1>5. P(n)
  BY <1>4 DEF T
<1>6. QED
  BY <1>5 DEF P, Iterates

-----------------------------------------------------------------------------
(* Sequences and environments *)

(* The search paths of an environment that employs more packages, one      *)
(* package after the other.                                                *)
LEMMA EmployStepwise ==
  ASSUME NEW H, NEW env, env.path \in Seq(H), NEW q \in Seq(H)
  PROVE  \E f \in [0 .. Len(q) -> Seq(H)] :
            /\ f[0] = env.path
            /\ \A i \in 1 .. Len(q) :
                  f[i] = IF q[i] \in env.employed \cup {q[j] : j \in 1 .. (i - 1)}
                         THEN f[i - 1] ELSE <<q[i]>> \o f[i - 1]
            /\ Employ(env, q) = [employed |-> env.employed \cup ToSet(q), path |-> f[Len(q)]]
<1> DEFINE n == Len(q)
           Known(i) == env.employed \cup {q[j] : j \in 1 .. (i - 1)}
           Path[i \in 0 .. Len(q)] ==
             IF i = 0 THEN env.path
             ELSE IF q[i] \in env.employed \cup {q[j] : j \in 1 .. (i - 1)} THEN Path[i - 1]
             ELSE <<q[i]>> \o Path[i - 1]
           Steps(f) == [i \in 0 .. Len(q) |->
                          IF i = 0 THEN env.path
                          ELSE IF q[i] \in env.employed \cup {q[j] : j \in 1 .. (i - 1)} THEN f[i - 1]
                          ELSE <<q[i]>> \o f[i - 1]]
           g == [x \in (1 .. n) \X Seq(H) |->
                   IF q[x[1]] \in Known(x[1]) THEN x[2] ELSE <<q[x[1]]>> \o x[2]]
<1>1. g \in [(1 .. n) \X Seq(H) -> Seq(H)]
  <2>1. ASSUME NEW x \in (1 .. n) \X Seq(H)
        PROVE  (IF q[x[1]] \in Known(x[1]) THEN x[2] ELSE <<q[x[1]]>> \o x[2]) \in Seq(H)
    <3>1. q[x[1]] \in H /\ x[2] \in Seq(H)
      OBVIOUS
    <3>2. <<q[x[1]]>> \in Seq(H)
      BY <3>1
    <3>3. QED
      BY <3>1, <3>2
  <2>2. QED
    BY <2>1
<1>2. n \in Nat
  OBVIOUS
<1>3. \A i \in 1 .. n, s \in Seq(H) : g[<<i, s>>] = IF q[i] \in Known(i) THEN s ELSE <<q[i]>> \o s
  OBVIOUS
<1>a. \A i \in 1 .. n : q[i] \in H /\ <<q[i]>> \in Seq(H)
  OBVIOUS
<1> HIDE DEF g, n, Known
<1>4. PICK f \in [0 .. n -> Seq(H)] : f[0] = env.path /\ \A i \in 1 .. n : f[i] = g[<<i, f[i - 1]>>]
  <2>1. PICK S : S = Seq(H)
    OBVIOUS
  <2>2. PICK b \in S : b = env.path
    BY <2>1
  <2>3. g \in [(1 .. n) \X S -> S]
    BY <1>1, <2>1
  <2>4. \E f : Iterates(f, n, S, b, g)
    BY <1>2, <2>3, DefinedByRecursion
  <2>5. QED
    BY <2>1, <2>2, <2>4 DEF Iterates
<1>d. \A i \in 1 .. n : i \in 0 .. n /\ i - 1 \in 0 .. n /\ i # 0
  BY <1>2
<1>5. \A i \in 1 .. n : f[i] = IF q[i] \in Known(i) THEN f[i - 1] ELSE <<q[i]>> \o f[i - 1]
  <2>1. \A i \in 1 .. n : f[i - 1] \in Seq(H)
    BY <1>4, <1>d
  <2>2. QED
    BY <1>3, <1>4, <2>1
<1>6. f = Steps(f)
  <2>1. f = [i \in 0 .. n |-> IF i = 0 THEN env.path
                              ELSE IF q[i] \in Known(i) THEN f[i - 1] ELSE <<q[i]>> \o f[i - 1]]
    <3>1. ASSUME NEW i \in 0 .. n
          PROVE  f[i] = IF i = 0 THEN env.path
                        ELSE IF q[i] \in Known(i) THEN f[i - 1] ELSE <<q[i]>> \o f[i - 1]
      <4>1. i = 0 \/ i \in 1 .. n
        BY <1>2
      <4>2. QED
        BY <1>4, <1>5, <1>d, <4>1
    <3>2. QED
      BY <3>1
  <2>2. QED
    BY <2>1 DEF n, Known
<1>7. Path = Steps(Path)
  BY <1>6
<1> HIDE DEF Path
<1>b. Path = [i \in 0 .. n |-> IF i = 0 THEN env.path
                              ELSE IF q[i] \in Known(i) THEN Path[i - 1] ELSE <<q[i]>> \o Path[i - 1]]
  BY <1>7 DEF n, Known
<1>8. DOMAIN Path = 0 .. n /\ Path = [i \in 0 .. n |-> Path[i]]
  BY <1>b
<1>9. Path[0] = env.path
  BY <1>2, <1>b
<1>10. ASSUME NEW i \in 1 .. n
       PROVE  Path[i] = IF q[i] \in Known(i) THEN Path[i - 1] ELSE <<q[i]>> \o Path[i - 1]
  BY <1>b, <1>d
<1> DEFINE T == {i \in 0 .. n : Path[i] \in Seq(H)}
<1>11. 0 \in T
  BY <1>2, <1>9
<1>12. ASSUME NEW i \in 1 .. n, i - 1 \in T PROVE i \in T
  <2>1. q[i] \in H /\ <<q[i]>> \in Seq(H) /\ Path[i - 1] \in Seq(H) /\ i \in 0 .. n
    BY <1>2, <1>12, <1>a
  <2>2. (IF q[i] \in Known(i) THEN Path[i - 1] ELSE <<q[i]>> \o Path[i - 1]) \in Seq(H)
    BY <2>1
  <2>3. QED
    BY <1>10, <2>1, <2>2
<1> HIDE DEF T
<1>13. 0 .. n \subseteq T
  BY <1>2, <1>11, <1>12, UpTo
<1>14. Path \in [0 .. n -> Seq(H)]
  BY <1>8, <1>13 DEF T
<1>15. Employ(env, q) = [employed |-> env.employed \cup ToSet(q), path |-> Path[Len(q)]]
  BY DEF Employ, Path
<1>16. QED
  BY <1>9, <1>10, <1>14, <1>15 DEF Known, n

(* One element put before a sequence.                                      *)
LEMMA PrependFacts ==
  ASSUME NEW H, NEW s \in Seq(H), NEW e \in H
  PROVE  /\ <<e>> \o s \in Seq(H)
         /\ ToSet(<<e>> \o s) = {e} \cup ToSet(s)
         /\ (<<e>> \o s)[1] = e
         /\ \A i \in DOMAIN (<<e>> \o s) :
               i # 1 => i - 1 \in DOMAIN s /\ (<<e>> \o s)[i] = s[i - 1]
         /\ DOMAIN (<<e>> \o s) \subseteq Nat \ {0}
<1> DEFINE t == <<e>> \o s
<1>1. <<e>> \in Seq(H)
  OBVIOUS
<1>2. t \in Seq(H) /\ Len(t) = Len(s) + 1 /\ t[1] = e
  BY <1>1
<1>3. \A i \in 1 .. (Len(s) + 1) : i # 1 => t[i] = s[i - 1] /\ i - 1 \in DOMAIN s
  BY <1>1
<1>4. DOMAIN t = 1 .. (Len(s) + 1) /\ DOMAIN s = 1 .. Len(s)
  BY <1>2
<1>5. \A i \in DOMAIN s : i + 1 \in DOMAIN t /\ t[i + 1] = s[i]
  BY <1>3, <1>4
<1> HIDE DEF t
<1>6. 1 \in DOMAIN t
  BY <1>4
<1>7. ToSet(t) = {e} \cup ToSet(s)
  <2>1. ASSUME NEW x \in ToSet(t) PROVE x \in {e} \cup ToSet(s)
    <3>1. PICK i \in DOMAIN t : x = t[i]
      BY DEF ToSet
    <3>2. QED
      BY <1>2, <1>3, <1>4, <3>1 DEF ToSet
  <2>2. ASSUME NEW x \in ToSet(s) PROVE x \in ToSet(t)
    <3>1. PICK i \in DOMAIN s : x = s[i]
      BY DEF ToSet
    <3>2. QED
      BY <1>5, <3>1 DEF ToSet
  <2>3. e \in ToSet(t)
    BY <1>2, <1>6 DEF ToSet
  <2>4. QED
    BY <2>1, <2>2, <2>3
<1>8. DOMAIN t \subseteq Nat \ {0}
  BY <1>4
<1>9. QED
  BY <1>2, <1>3, <1>4, <1>7, <1>8 DEF t

(* What an environment employs after q, and that its type is kept.         *)
LEMMA EmployType ==
  ASSUME NEW H, NEW env \in [employed : SUBSET H, path : Seq(H)], NEW q \in Seq(H)
  PROVE  /\ Employ(env, q) \in [employed : SUBSET H, path : Seq(H)]
         /\ Employ(env, q).employed = env.employed \cup ToSet(q)
<1>1. PICK f \in [0 .. Len(q) -> Seq(H)] :
         Employ(env, q) = [employed |-> env.employed \cup ToSet(q), path |-> f[Len(q)]]
  BY EmployStepwise
<1>2. f[Len(q)] \in Seq(H)
  OBVIOUS
<1>3. ToSet(q) \subseteq H
  BY DEF ToSet
<1>4. QED
  BY <1>1, <1>2, <1>3

(* A package goes before all that are employed already.                    *)
LEMMA PrependSound ==
  ASSUME NEW env, Sound(env), NEW h \in Hash, h \notin env.employed,
         store[h].deps \ Generators \subseteq env.employed
  PROVE  Sound([employed |-> env.employed \cup {h}, path |-> <<h>> \o env.path])
<1> DEFINE p == env.path
           t == <<h>> \o p
           D(g) == store[g].deps \ Generators
<1>1. env \in Env /\ p \in Seq(Hash) /\ ToSet(p) = env.employed /\ env.employed \subseteq Hash
  BY DEF Sound, Env
<1>2. /\ \A g \in env.employed : D(g) \subseteq env.employed
      /\ \A j, k \in DOMAIN p : p[k] \in D(p[j]) => j < k
      /\ D(h) \subseteq env.employed
  BY DEF Sound
<1>3. /\ t \in Seq(Hash) /\ ToSet(t) = env.employed \cup {h} /\ t[1] = h
      /\ \A i \in DOMAIN t : i # 1 => i - 1 \in DOMAIN p /\ t[i] = p[i - 1]
      /\ DOMAIN t \subseteq Nat \ {0}
  BY <1>1, PrependFacts
<1>4. \A i \in DOMAIN p : p[i] \in env.employed
  BY <1>1 DEF ToSet
<1> HIDE DEF t, D, p
<1>5. ASSUME NEW j \in DOMAIN t, NEW k \in DOMAIN t, t[k] \in D(t[j]) PROVE j < k
  <2>1. CASE j = 1 /\ k = 1
    BY <1>2, <1>3, <1>5, <2>1
  <2>2. CASE j = 1 /\ k # 1
    BY <1>3, <2>2
  <2>3. CASE j # 1 /\ k = 1
    <3>1. t[j] \in env.employed
      BY <1>3, <1>4, <2>3
    <3>2. QED
      BY <1>2, <1>3, <1>5, <2>3, <3>1
  <2>4. CASE j # 1 /\ k # 1
    <3>1. j - 1 < k - 1
      BY <1>2, <1>3, <1>5, <2>4
    <3>2. j \in Nat /\ k \in Nat
      BY <1>3
    <3>3. QED
      BY <3>1, <3>2
  <2>5. QED
    BY <2>1, <2>2, <2>3, <2>4
<1> DEFINE new == [employed |-> env.employed \cup {h}, path |-> t]
<1>6. new \in Env
  BY <1>1, <1>3 DEF Env
<1>7. \A g \in new.employed : D(g) \subseteq new.employed
  BY <1>2
<1>8. QED
  BY <1>3, <1>5, <1>6, <1>7 DEF Sound, t, D, p

(* An environment stays sound when packages are employed after those they  *)
(* depend on.                                                              *)
LEMMA EmploySound ==
  ASSUME NEW env, Sound(env), NEW q \in Seq(Hash),
         \A i \in DOMAIN q :
            store[q[i]].deps \ Generators \subseteq env.employed \cup {q[j] : j \in 1 .. (i - 1)}
  PROVE  Sound(Employ(env, q)) /\ Employ(env, q).employed = env.employed \cup ToSet(q)
<1> DEFINE n == Len(q)
           Known(k) == env.employed \cup {q[j] : j \in 1 .. k}
           E(f, k) == [employed |-> Known(k), path |-> f[k]]
<1>1. env \in Env /\ env.path \in Seq(Hash)
  BY DEF Sound, Env
<1>2. PICK f \in [0 .. n -> Seq(Hash)] :
         /\ f[0] = env.path
         /\ \A i \in 1 .. n : f[i] = IF q[i] \in Known(i - 1) THEN f[i - 1] ELSE <<q[i]>> \o f[i - 1]
         /\ Employ(env, q) = [employed |-> env.employed \cup ToSet(q), path |-> f[n]]
  BY <1>1, EmployStepwise
<1>3. n \in Nat /\ DOMAIN q = 1 .. n /\ \A i \in 1 .. n : q[i] \in Hash
  OBVIOUS
<1> DEFINE T == {k \in 0 .. n : Sound(E(f, k))}
<1>4. 0 \in T
  <2>1. E(f, 0) = env
    <3>1. Known(0) = env.employed
      OBVIOUS
    <3>2. env = [employed |-> env.employed, path |-> env.path]
      BY <1>1 DEF Env
    <3>3. QED
      BY <1>2, <3>1, <3>2
  <2> HIDE DEF E
  <2>2. Sound(E(f, 0))
    BY <2>1
  <2>3. QED
    BY <1>3, <2>2
<1>5. ASSUME NEW k \in 1 .. n, k - 1 \in T PROVE k \in T
  <2>1. Sound(E(f, k - 1))
    BY <1>5
  <2>2. Known(k) = Known(k - 1) \cup {q[k]}
    BY <1>3
  <2>3. store[q[k]].deps \ Generators \subseteq Known(k - 1)
    BY <1>3
  <2>4. E(f, k - 1).employed = Known(k - 1) /\ E(f, k - 1).path = f[k - 1]
    OBVIOUS
  <2>5. f[k] = IF q[k] \in Known(k - 1) THEN f[k - 1] ELSE <<q[k]>> \o f[k - 1]
    BY <1>2
  <2>6. q[k] \in Hash
    BY <1>3
  <2> DEFINE e == E(f, k - 1)
  <2> HIDE DEF Known
  <2>7. E(f, k) = IF q[k] \in e.employed THEN e
                  ELSE [employed |-> e.employed \cup {q[k]}, path |-> <<q[k]>> \o e.path]
    BY <2>2, <2>4, <2>5
  <2>8. store[q[k]].deps \ Generators \subseteq e.employed
    BY <2>3, <2>4
  <2> HIDE DEF e, E
  <2>9. Sound(e)
    BY <2>1 DEF e
  <2>10. Sound(E(f, k))
    BY <2>6, <2>7, <2>8, <2>9, PrependSound
  <2>11. QED
    BY <1>3, <2>10
<1> HIDE DEF T
<1>6. 0 .. n \subseteq T
  BY <1>3, <1>4, <1>5, UpTo
<1>7. Sound(E(f, n))
  BY <1>3, <1>6 DEF T
<1>8. Known(n) = env.employed \cup ToSet(q)
  BY <1>3 DEF ToSet
<1>9. E(f, n) = Employ(env, q)
  BY <1>2, <1>8
<1> HIDE DEF E
<1>10. Sound(Employ(env, q))
  BY <1>7, <1>9
<1>11. QED
  BY <1>2, <1>10

-----------------------------------------------------------------------------
(* Packages, and what stays as it was when the store grows *)

(* What is known of a package: it is an installed one, or a ghost.         *)
Known(p) ==
    /\ p.name \in Names(p)
    /\ IsInstalled(p) => p.hash \in Hash /\ p = Installed(p.hash) /\ Names(p) = NamesOf(p.hash)
    /\ ~ IsInstalled(p) => p.name \in GhostName /\ p = Ghost(p.name) /\ Names(p) = GhostNames(p.name)

(* The hash of an installed package is a positive number.                  *)
LEMMA HashType ==
  StoreOK => Hash \subseteq Nat \ {0} /\ Hash = 1 .. Len(store) /\ Len(store) \in Nat
  BY DEF StoreOK, Hash

(* Each hash of the store is an installed package.                         *)
LEMMA HashesAreInstalled ==
  StoreOK => \A h \in Hash :
      /\ Installed(h) \in Packages /\ IsInstalled(Installed(h)) /\ Installed(h).hash = h
      /\ Names(Installed(h)) = NamesOf(h) /\ store[h].name \in NamesOf(h)
<1> SUFFICES ASSUME StoreOK, NEW h \in Hash
             PROVE  /\ Installed(h) \in Packages /\ IsInstalled(Installed(h)) /\ Installed(h).hash = h
                    /\ Names(Installed(h)) = NamesOf(h) /\ store[h].name \in NamesOf(h)
  OBVIOUS
<1>1. h # 0 /\ h \in DOMAIN store
  BY HashType DEF Hash
<1>2. Installed(h).hash = h
  BY DEF Installed
<1>3. IsInstalled(Installed(h))
  BY <1>1, <1>2 DEF IsInstalled, NoHash
<1>4. Installed(h) \in Packages
  BY <1>1 DEF Packages, Employable
<1>5. QED
  BY <1>2, <1>3, <1>4 DEF Names, NamesOf

(* A ghost of each name that has a definition or a host.                   *)
LEMMA GhostsArePackages ==
  \A n \in GhostName :
      Ghost(n) \in Packages /\ ~ IsInstalled(Ghost(n)) /\ Ghost(n).name = n
      /\ Names(Ghost(n)) = GhostNames(n)
  BY DEF Ghost, Ghosts, Packages, IsInstalled, NoHash, Names

(* There is nothing else.                                                  *)
LEMMA PackagesAreKnown == StoreOK => \A p \in Packages : Known(p)
<1> SUFFICES ASSUME StoreOK, NEW p \in Packages PROVE Known(p)
  OBVIOUS
<1>1. CASE p \in Employable(DOMAIN store)
  <2>1. PICK h \in Hash : p = Installed(h)
    BY <1>1 DEF Employable, Hash
  <2>2. p.name = store[h].name
    BY <2>1 DEF Installed
  <2>3. QED
    BY <2>1, <2>2, HashesAreInstalled DEF Known
<1>2. CASE p \in Ghosts
  <2>1. PICK n \in GhostName : p = Ghost(n)
    BY <1>2 DEF Ghosts
  <2>2. n \in GhostNames(n)
    BY DEF GhostNames
  <2>3. QED
    BY <2>1, <2>2, GhostsArePackages DEF Known
<1>3. QED
  BY <1>1, <1>2 DEF Packages

(* The same of the store after a step.                                     *)
LEMMA NextPackagesAreKnown == (StoreOK => \A p \in Packages : Known(p))'
  BY PackagesAreKnown, PTL

(* The same of the hashes after a step.                                    *)
LEMMA NextHashesAreInstalled ==
  (StoreOK => \A h \in Hash :
      /\ Installed(h) \in Packages /\ IsInstalled(Installed(h)) /\ Installed(h).hash = h
      /\ Names(Installed(h)) = NamesOf(h) /\ store[h].name \in NamesOf(h))'
  BY HashesAreInstalled, PTL

(* Hashes after a step are numbers, as before.                             *)
LEMMA NextHashType ==
  (StoreOK => Hash \subseteq Nat \ {0} /\ Hash = 1 .. Len(store) /\ Len(store) \in Nat)'
  BY HashType, PTL

StoreGrows == DOMAIN store \subseteq DOMAIN store' /\ \A h \in DOMAIN store : store'[h] = store[h]

(* The code generators are those that were there at first.                 *)
LEMMA GeneratorsAreInitial ==
  StoreOK => Generators = {h \in DOMAIN Initial : CodeGeneration \in InitialNames(h)}
<1> SUFFICES ASSUME StoreOK
             PROVE  Generators = {h \in DOMAIN Initial : CodeGeneration \in InitialNames(h)}
  OBVIOUS
<1>1. DOMAIN Initial \subseteq Hash
  <2>1. Initial \in Seq(Record(Nat)) /\ store \in Seq(Record(Nat))
    BY ConstantsOK DEF StoreOK
  <2>2. \A h \in DOMAIN Initial : h \in DOMAIN store
    BY <2>1 DEF StoreOK
  <2>3. QED
    BY <2>2 DEF Hash
<1>2. \A h \in DOMAIN Initial : NamesOf(h) = InitialNames(h)
  BY DEF StoreOK, NamesOf, InitialNames
<1>3. \A h \in Hash \ DOMAIN Initial : CodeGeneration \notin NamesOf(h)
  BY DEF StoreOK
<1>4. QED
  BY <1>1, <1>2, <1>3 DEF Generators, Hash

(* After a step as before it.                                              *)
LEMMA NextGeneratorsAreInitial ==
  (StoreOK => Generators = {h \in DOMAIN Initial : CodeGeneration \in InitialNames(h)})'
  BY GeneratorsAreInitial, PTL

(* A store that grows keeps what was true of the packages in it.           *)
LEMMA Growth ==
  ASSUME StoreOK, StoreOK', StoreGrows
  PROVE  /\ Hash \subseteq Hash'
         /\ Generators' = Generators
         /\ Packages \subseteq Packages'
         /\ \A h \in Hash : NamesOf(h)' = NamesOf(h) /\ Installed(h)' = Installed(h)
                            /\ store'[h] = store[h]
         /\ \A p \in Packages : Names(p)' = Names(p)
<1>1. Hash \subseteq Hash' /\ \A h \in Hash : store'[h] = store[h]
  BY DEF StoreGrows, Hash
<1>2. Generators' = Generators
  BY GeneratorsAreInitial, NextGeneratorsAreInitial
<1>3. \A h \in Hash : NamesOf(h)' = NamesOf(h) /\ Installed(h)' = Installed(h)
  BY <1>1 DEF NamesOf, Installed
<1>4. Packages \subseteq Packages'
  BY <1>1, <1>3 DEF Packages, Employable, Hash
<1>5. ASSUME NEW p \in Packages PROVE Names(p)' = Names(p)
  BY <1>3, PackagesAreKnown DEF Known, Names
<1>6. QED
  BY <1>1, <1>2, <1>3, <1>4, <1>5

(* The same of sets of packages.                                           *)
LEMMA GrowthOfSets ==
  ASSUME StoreOK, StoreOK', StoreGrows, NEW H \in SUBSET Hash
  PROVE  /\ Employable(H)' = Employable(H) /\ Employable(H) \subseteq Packages
         /\ Closed(H) => Closed(H)'
         /\ Consistent(H) => Consistent(H)'
         /\ Closure(H) \subseteq Closure(H)'
         /\ \A W : ProvidesAll(H, W) => ProvidesAll(H, W)'
<1>1. /\ Hash \subseteq Hash'
      /\ \A h \in Hash : NamesOf(h)' = NamesOf(h) /\ Installed(h)' = Installed(h) /\ store'[h] = store[h]
      /\ \A p \in Packages : Names(p)' = Names(p)
  BY Growth
<1>2. Employable(H)' = Employable(H)
  BY <1>1 DEF Employable
<1>3. Employable(H) \subseteq Packages
  BY DEF Employable, Packages, Hash
<1>4. Closed(H) => Closed(H)'
  BY <1>1 DEF Closed
<1>5. Apart(Employable(H)) => Apart(Employable(H))'
  BY <1>1, <1>2, <1>3 DEF Apart
<1>6. ASSUME NEW h \in Closure(H) PROVE h \in Closure(H)'
  <2>1. h \in Hash /\ \A S \in SUBSET Hash : H \subseteq S /\ Closed(S) => h \in S
    BY <1>6 DEF Closure
  <2>2. ASSUME NEW S \in SUBSET Hash', H \subseteq S, Closed(S)' PROVE h \in S
    <3> DEFINE S0 == S \cap Hash
    <3>1. Closed(S0)
      <4>1. ASSUME NEW g \in S0, NEW d \in store[g].deps PROVE d \in S0
        <5>1. d \in S
          BY <1>1, <2>2 DEF Closed
        <5>2. d \in Hash
          <6>1. d \in 1 .. (g - 1)
            BY DEF StoreOK
          <6>2. QED
            BY <6>1, HashType
        <5>3. QED
          BY <5>1, <5>2
      <4>2. QED
        BY <4>1 DEF Closed
    <3>2. QED
      BY <2>1, <2>2, <3>1
  <2>3. QED
    BY <1>1, <2>1, <2>2 DEF Closure
<1>7. \A W : ProvidesAll(H, W) => ProvidesAll(H, W)'
  BY <1>1 DEF ProvidesAll
<1>8. QED
  BY <1>2, <1>3, <1>4, <1>5, <1>6, <1>7 DEF Consistent

(* The same of environments.                                               *)
LEMMA GrowthOfEnvironments ==
  ASSUME StoreOK, StoreOK', StoreGrows
  PROVE  /\ Env \subseteq Env'
         /\ \A env : Sound(env) => Sound(env)'
<1>1. Hash \subseteq Hash' /\ Generators' = Generators /\ \A h \in Hash : store'[h] = store[h]
  BY Growth
<1>2. Env \subseteq Env'
  <2>1. Seq(Hash) \subseteq Seq(Hash')
    BY <1>1
  <2>2. QED
    BY <1>1, <2>1 DEF Env
<1>3. ASSUME NEW env, Sound(env) PROVE Sound(env)'
  <2>1. env \in Env /\ env \in Env'
    BY <1>2, <1>3 DEF Sound
  <2>2. env.employed \subseteq Hash /\ env.path \in Seq(Hash)
    BY <2>1 DEF Env
  <2>3. \A h \in env.employed : (store[h].deps \ Generators)' = store[h].deps \ Generators
    BY <1>1, <2>2
  <2>4. \A j \in DOMAIN env.path : env.path[j] \in env.employed
    BY <1>3 DEF Sound, ToSet
  <2>5. QED
    BY <1>3, <2>1, <2>3, <2>4 DEF Sound
<1>4. QED
  BY <1>2, <1>3

-----------------------------------------------------------------------------
(* Dependencies and solutions *)

(* The closure of X is the least closed set that contains X.               *)
LEMMA ClosureFacts ==
  StoreOK => \A X \in SUBSET Hash :
      /\ X \subseteq Closure(X) /\ Closure(X) \subseteq Hash /\ Closed(Closure(X))
      /\ \A S \in SUBSET Hash : X \subseteq S /\ Closed(S) => Closure(X) \subseteq S
<1> SUFFICES ASSUME StoreOK, NEW X \in SUBSET Hash
             PROVE  /\ X \subseteq Closure(X) /\ Closure(X) \subseteq Hash /\ Closed(Closure(X))
                    /\ \A S \in SUBSET Hash : X \subseteq S /\ Closed(S) => Closure(X) \subseteq S
  OBVIOUS
<1>1. X \subseteq Closure(X) /\ Closure(X) \subseteq Hash
  BY DEF Closure
<1>2. ASSUME NEW h \in Closure(X), NEW d \in store[h].deps PROVE d \in Closure(X)
  <2>1. h \in Hash /\ \A S \in SUBSET Hash : X \subseteq S /\ Closed(S) => h \in S
    BY DEF Closure
  <2>2. d \in Hash
    <3>1. d \in 1 .. (h - 1)
      BY <2>1 DEF StoreOK
    <3>2. QED
      BY <2>1, <3>1, HashType
  <2>3. \A S \in SUBSET Hash : X \subseteq S /\ Closed(S) => d \in S
    BY <2>1 DEF Closed
  <2>4. QED
    BY <2>2, <2>3 DEF Closure
<1>3. \A S \in SUBSET Hash : X \subseteq S /\ Closed(S) => Closure(X) \subseteq S
  BY DEF Closure
<1>4. QED
  BY <1>1, <1>2, <1>3 DEF Closed

(* The same of closures after a step.                                      *)
LEMMA NextClosureFacts ==
  (StoreOK => \A X \in SUBSET Hash :
      /\ X \subseteq Closure(X) /\ Closure(X) \subseteq Hash /\ Closed(Closure(X))
      /\ \A S \in SUBSET Hash : X \subseteq S /\ Closed(S) => Closure(X) \subseteq S)'
  BY ClosureFacts, PTL

(* What the solver returns is a minimal solution.                          *)
LEMMA SolutionsAreMinimal ==
  ASSUME NEW E \in SUBSET Packages, NEW W, NEW S \in Solutions(E, W)
  PROVE  Minimal(S, E, W)
<1> DEFINE New == {p \in Packages \cap Relevant(W) :
                      p \notin E /\ \A e \in E : Names(p) \cap Names(e) = {}}
           Sol == {K \in {E \cup T : T \in SUBSET New} : IsSolution(K, E, W)}
<1>1. S \in Covers(E, W)
  BY DEF Solutions
<1>2. Covers(E, W) = {K \in Sol : \A T \in Sol : T \subseteq K => T = K}
  BY DEF Covers
<1>3. S \in Sol /\ \A T \in Sol : T \subseteq S => T = S
  BY <1>1, <1>2
<1>4. PICK T0 \in SUBSET New : S = E \cup T0
  BY <1>3
<1>5. S \subseteq Packages
  BY <1>4
<1>6. ASSUME NEW T \in SUBSET S, IsSolution(T, E, W) PROVE T = S
  <2>1. E \subseteq T
    BY <1>6 DEF IsSolution
  <2>2. T \ E \in SUBSET New /\ T = E \cup (T \ E)
    BY <1>4, <2>1
  <2>3. T \in Sol
    BY <1>6, <2>2
  <2>4. QED
    BY <1>3, <2>3
<1>7. IsSolution(S, E, W)
  BY <1>3
<1>8. QED
  BY <1>5, <1>6, <1>7 DEF Minimal

(* There is at most one code generator, and no ghost is one.               *)
LEMMA GeneratorsAreAlike ==
  ASSUME StoreOK, OneGenerator
  PROVE  /\ Generators \subseteq Hash
         /\ \A g, h \in Generators : g = h
         /\ \A n \in GhostName : CodeGeneration \notin GhostNames(n)
<1>1. Generators \subseteq Hash
  BY DEF Generators, Hash
<1>2. QED
  BY <1>1, GeneratorsAreInitial DEF OneGenerator

(* A solution contains the code generator.                                 *)
LEMMA GeneratorIncluded ==
  ASSUME StoreOK, OneGenerator, NEW S \in SUBSET Packages, NEW E, NEW W, IsSolution(S, E, W),
         NEW g \in Generators
  PROVE  Installed(g) \in S
<1>1. CodeGeneration \in Wanted(W)
  BY DEF Wanted
<1>2. PICK p \in S : CodeGeneration \in Names(p)
  BY <1>1 DEF IsSolution, Provided
<1>3. Known(p)
  BY PackagesAreKnown
<1>4. IsInstalled(p)
  BY <1>2, <1>3, GeneratorsAreAlike DEF Known
<1>5. p.hash \in Generators /\ p = Installed(p.hash)
  BY <1>2, <1>3, <1>4 DEF Known, Generators, Hash
<1>6. QED
  BY <1>5, GeneratorsAreAlike

(* A minimal solution has nothing but X and what X depends on, if X has    *)
(* what is employed already, the code generator, and what was asked for.   *)
LEMMA NothingSuperfluous ==
  ASSUME StoreOK, OneGenerator, NEW X \in SUBSET Hash, NEW E \in SUBSET Employable(X), NEW W, NEW S,
         Minimal(S, E, W), Generators \subseteq X,
         \A n \in W : \E h \in X : Installed(h) \in S /\ n \in NamesOf(h)
  PROVE  \A p \in S : IsInstalled(p) /\ p.hash \in Closure(X)
<1> DEFINE T == {p \in S : IsInstalled(p) /\ p.hash \in Closure(X)}
<1>1. S \subseteq Packages /\ IsSolution(S, E, W)
  BY DEF Minimal
<1>2. X \subseteq Closure(X) /\ Closure(X) \subseteq Hash /\ Closed(Closure(X))
  BY ClosureFacts
<1>3. \A h \in X : Installed(h) \in S => Installed(h) \in T /\ Names(Installed(h)) = NamesOf(h)
  BY <1>2, HashesAreInstalled
<1>4. E \subseteq T
  <2>1. E \subseteq S
    BY <1>1 DEF IsSolution
  <2>2. \A p \in E : \E h \in X : p = Installed(h)
    BY DEF Employable
  <2> HIDE DEF T
  <2>3. QED
    BY <1>3, <2>1, <2>2
<1>5. Apart(T)
  BY <1>1 DEF IsSolution, Apart
<1>6. Provided(T, Wanted(W))
  <2>1. ASSUME NEW n \in W PROVE \E p \in T : n \in Names(p)
    <3>1. PICK h \in X : Installed(h) \in S /\ n \in NamesOf(h)
      OBVIOUS
    <3>2. QED
      BY <1>3, <3>1
  <2>2. ASSUME NEW g \in Generators PROVE \E p \in T : CodeGeneration \in Names(p)
    <3>1. Installed(g) \in S
      BY <1>1, GeneratorIncluded
    <3>2. CodeGeneration \in NamesOf(g)
      BY DEF Generators
    <3>3. QED
      BY <1>3, <3>1, <3>2
  <2> HIDE DEF T
  <2>3. QED
    BY <2>1, <2>2 DEF Provided, Wanted
<1>7. ASSUME NEW p \in T \ E PROVE DependenciesMet(p, T)
  <2>1. IsInstalled(p) /\ p.hash \in Closure(X) /\ p \in S \ E
    OBVIOUS
  <2>2. DependenciesMet(p, S)
    BY <1>1, <2>1 DEF IsSolution
  <2>3. ASSUME NEW d \in store[p.hash].deps PROVE Installed(d) \in T
    <3>1. Installed(d) \in S
      BY <2>1, <2>2 DEF DependenciesMet
    <3>2. d \in Closure(X)
      BY <1>2, <2>1 DEF Closed
    <3>3. IsInstalled(Installed(d)) /\ Installed(d).hash = d
      BY <1>2, <3>2, HashesAreInstalled
    <3>4. QED
      BY <3>1, <3>2, <3>3
  <2> HIDE DEF T
  <2>4. QED
    BY <2>1, <2>3 DEF DependenciesMet
<1> HIDE DEF T
<1>8. IsSolution(T, E, W)
  BY <1>4, <1>5, <1>6, <1>7 DEF IsSolution
<1>9. T = S
  <2>1. T \in SUBSET S
    BY DEF T
  <2>2. QED
    BY <1>8, <2>1 DEF Minimal
<1>10. QED
  BY <1>9 DEF T

-----------------------------------------------------------------------------
(* Sequences without repetition *)

Distinct(s) == \A i, j \in DOMAIN s : s[i] = s[j] => i = j

(* The image of a finite set under a function is finite.                   *)
LEMMA FiniteImage ==
  ASSUME NEW S, IsFiniteSet(S), NEW f, DOMAIN f = S
  PROVE  IsFiniteSet({f[x] : x \in S})
<1> DEFINE T == {f[x] : x \in S}
           g == [x \in S |-> f[x]]
<1>1. g \in Surjection(S, T)
  BY DEF Surjection
<1> HIDE DEF T, g
<1>2. IsFiniteSet(T)
  BY <1>1, FS_Surjection
<1>3. QED
  BY <1>2 DEF T

(* There are finitely many packages.                                       *)
LEMMA FinitePackages == ASSUME StoreOK, IsFiniteSet(Name) PROVE IsFiniteSet(Packages)
<1> DEFINE f == [h \in Hash |-> Installed(h)]
           g == [n \in GhostName |-> Ghost(n)]
<1>1. IsFiniteSet(Hash)
  BY HashType, FS_Interval
<1>2. IsFiniteSet(GhostName)
  <2>1. GhostName \subseteq Name
    BY ConstantsOK DEF GhostName
  <2>2. QED
    BY <2>1, FS_Subset
<1>3. Packages = {f[h] : h \in Hash} \cup {g[n] : n \in GhostName}
  BY DEF Packages, Employable, Ghosts, Hash
<1>4. DOMAIN f = Hash /\ DOMAIN g = GhostName
  OBVIOUS
<1> HIDE DEF f, g
<1>5. IsFiniteSet({f[h] : h \in Hash}) /\ IsFiniteSet({g[n] : n \in GhostName})
  BY <1>1, <1>2, <1>4, FiniteImage
<1>6. QED
  BY <1>3, <1>5, FS_Union

(* A listing of a set has each element once.                               *)
LEMMA Listing ==
  ASSUME NEW S, IsFiniteSet(S), NEW s \in SetToSeqs(S)
  PROVE  s \in Seq(S) /\ ToSet(s) = S /\ Distinct(s)
<1> DEFINE n == Cardinality(S)
<1>1. n \in Nat
  BY FS_CardinalityType
<1>2. s \in [1 .. n -> S] /\ \A i, j \in 1 .. n : i # j => s[i] # s[j]
  BY DEF SetToSeqs
<1> HIDE DEF n
<1>3. s \in Injection(1 .. n, S)
  BY <1>2 DEF Injection, IsInjective
<1>4. IsFiniteSet(1 .. n) /\ Cardinality(1 .. n) = n
  BY <1>1, FS_Interval
<1>5. s \in Surjection(1 .. n, S)
  BY <1>3, <1>4, FS_Injection DEF n
<1>6. \A x \in S : \E i \in 1 .. n : s[i] = x
  BY <1>5 DEF Surjection
<1>7. s \in Seq(S)
  BY <1>1, <1>2
<1>8. QED
  BY <1>2, <1>6, <1>7 DEF ToSet, Distinct

(* The first element of a sequence gives way to a listing of new ones.     *)
LEMMA HeadReplaced ==
  ASSUME NEW X, NEW s \in Seq(X), s # <<>>, Distinct(s),
         NEW r \in Seq(X), Distinct(r), ToSet(r) \cap ToSet(s) = {}
  PROVE  /\ r \o Tail(s) \in Seq(X) /\ Distinct(r \o Tail(s))
         /\ ToSet(r \o Tail(s)) = ToSet(r) \cup (ToSet(s) \ {Head(s)})
         /\ Head(s) \in ToSet(s)
<1> DEFINE t == Tail(s)
           c == r \o t
<1>1. /\ Len(s) \in Nat \ {0} /\ DOMAIN s = 1 .. Len(s) /\ Head(s) = s[1]
      /\ Len(r) \in Nat /\ DOMAIN r = 1 .. Len(r)
      /\ t \in Seq(X) /\ Len(t) = Len(s) - 1 /\ DOMAIN t = 1 .. Len(t)
      /\ \A i \in DOMAIN t : i + 1 \in DOMAIN s /\ t[i] = s[i + 1]
  OBVIOUS
<1>2. /\ c \in Seq(X) /\ Len(c) = Len(r) + Len(t) /\ DOMAIN c = 1 .. Len(c)
      /\ \A i \in DOMAIN c : IF i <= Len(r) THEN i \in DOMAIN r /\ c[i] = r[i]
                             ELSE i - Len(r) \in DOMAIN t /\ c[i] = t[i - Len(r)]
  BY <1>1
<1>3. \A i \in DOMAIN r : i \in DOMAIN c /\ c[i] = r[i]
  BY <1>1, <1>2
<1>4. \A i \in DOMAIN t : i + Len(r) \in DOMAIN c /\ c[i + Len(r)] = t[i]
  BY <1>1, <1>2
<1> HIDE DEF c, t
<1>5. Distinct(t)
  <2>1. ASSUME NEW i \in DOMAIN t, NEW j \in DOMAIN t, t[i] = t[j] PROVE i = j
    <3>1. i + 1 = j + 1
      BY <1>1, <2>1 DEF Distinct
    <3>2. i \in Nat /\ j \in Nat
      BY <1>1
    <3>3. QED
      BY <3>1, <3>2
  <2>2. QED
    BY <2>1 DEF Distinct
<1>6. ToSet(t) = ToSet(s) \ {Head(s)}
  <2>1. ASSUME NEW i \in DOMAIN t PROVE t[i] \in ToSet(s) \ {Head(s)}
    <3>1. i + 1 # 1 /\ 1 \in DOMAIN s /\ i + 1 \in DOMAIN s
      BY <1>1
    <3>2. t[i] # s[1]
      BY <1>1, <3>1 DEF Distinct
    <3>3. QED
      BY <1>1, <3>1, <3>2 DEF ToSet
  <2>2. ASSUME NEW i \in DOMAIN s, s[i] # Head(s) PROVE s[i] \in ToSet(t)
    <3>1. i # 1
      BY <1>1, <2>2
    <3>2. i - 1 \in DOMAIN t
      BY <1>1, <3>1
    <3>3. t[i - 1] = s[i]
      BY <1>1, <3>2
    <3>4. QED
      BY <3>2, <3>3 DEF ToSet
  <2>3. QED
    BY <2>1, <2>2 DEF ToSet
<1>7. ToSet(c) = ToSet(r) \cup ToSet(t)
  BY <1>2, <1>3, <1>4 DEF ToSet
<1>8. Distinct(c)
  <2>1. ASSUME NEW i \in DOMAIN c, NEW j \in DOMAIN c, c[i] = c[j] PROVE i = j
    <3>1. i \in Nat /\ j \in Nat /\ Len(r) \in Nat
      BY <1>1, <1>2
    <3>2. CASE i <= Len(r) /\ j <= Len(r)
      BY <1>2, <2>1, <3>2 DEF Distinct
    <3>3. CASE ~ (i <= Len(r)) /\ ~ (j <= Len(r))
      <4>1. i - Len(r) = j - Len(r)
        BY <1>2, <1>5, <2>1, <3>3 DEF Distinct
      <4>2. QED
        BY <3>1, <4>1
    <3>4. CASE i <= Len(r) /\ ~ (j <= Len(r))
      <4>1. c[i] \in ToSet(r) /\ c[j] \in ToSet(t)
        BY <1>2, <3>4 DEF ToSet
      <4>2. QED
        BY <1>6, <2>1, <4>1
    <3>5. CASE ~ (i <= Len(r)) /\ j <= Len(r)
      <4>1. c[j] \in ToSet(r) /\ c[i] \in ToSet(t)
        BY <1>2, <3>5 DEF ToSet
      <4>2. QED
        BY <1>6, <2>1, <4>1
    <3>6. QED
      BY <3>2, <3>3, <3>4, <3>5
  <2>2. QED
    BY <2>1 DEF Distinct
<1>9. Head(s) \in ToSet(s)
  BY <1>1 DEF ToSet
<1>10. QED
  BY <1>2, <1>6, <1>7, <1>8, <1>9 DEF c, t

(* A sequence read backwards.                                              *)
LEMMA Backwards ==
  ASSUME NEW X, NEW s \in Seq(X)
  PROVE  /\ Reverse(s) \in Seq(X) /\ DOMAIN Reverse(s) = DOMAIN s
         /\ ToSet(Reverse(s)) = ToSet(s)
         /\ \A i \in DOMAIN s : /\ Len(s) + 1 - i \in DOMAIN s
                                /\ Reverse(s)[i] = s[Len(s) + 1 - i]
<1>1. DOMAIN s = 1 .. Len(s) /\ Len(s) \in Nat /\ \A i \in DOMAIN s : s[i] \in X
  OBVIOUS
<1>2. \A i \in 1 .. Len(s) : Len(s) + 1 - i \in 1 .. Len(s) /\ (Len(s) - i) + 1 = Len(s) + 1 - i
  BY <1>1
<1>3. Reverse(s) = [i \in 1 .. Len(s) |-> s[(Len(s) - i) + 1]]
  BY DEF Reverse
<1>4. \A i \in DOMAIN s : Len(s) + 1 - i \in DOMAIN s /\ Reverse(s)[i] = s[Len(s) + 1 - i]
  BY <1>1, <1>2, <1>3
<1>5. DOMAIN Reverse(s) = DOMAIN s
  BY <1>1, <1>3
<1>6. Reverse(s) \in Seq(X)
  <2>1. Reverse(s) \in [1 .. Len(s) -> X]
    BY <1>1, <1>2, <1>3
  <2>2. QED
    BY <1>1, <2>1
<1>7. ToSet(Reverse(s)) = ToSet(s)
  <2>1. ToSet(Reverse(s)) \subseteq ToSet(s)
    BY <1>4, <1>5 DEF ToSet
  <2>2. ASSUME NEW i \in DOMAIN s PROVE s[i] \in ToSet(Reverse(s))
    <3>1. Len(s) + 1 - i \in DOMAIN s /\ Len(s) + 1 - (Len(s) + 1 - i) = i
      BY <1>1, <1>2
    <3>2. Reverse(s)[Len(s) + 1 - i] = s[i]
      BY <1>4, <3>1
    <3>3. QED
      BY <1>5, <3>1, <3>2 DEF ToSet
  <2>3. QED
    BY <2>1, <2>2 DEF ToSet
<1>8. QED
  BY <1>4, <1>5, <1>6, <1>7

-----------------------------------------------------------------------------
(* The sort by dependency *)

(* What depends on the store only stays as it is when the store does.      *)
LEMMA StoreUntouched ==
  ASSUME UNCHANGED store
  PROVE  /\ Hash' = Hash /\ Packages' = Packages /\ Generators' = Generators /\ Env' = Env
         /\ \A h : NamesOf(h)' = NamesOf(h) /\ Installed(h)' = Installed(h)
         /\ \A p : Names(p)' = Names(p)
         /\ \A p, q : DependsOn(p, q)' <=> DependsOn(p, q)
         /\ \A S, E, W : Minimal(S, E, W)' <=> Minimal(S, E, W)
         /\ \A H : Employable(H)' = Employable(H) /\ Closure(H)' = Closure(H)
                   /\ (Consistent(H)' <=> Consistent(H))
         /\ \A H, W : ProvidesAll(H, W)' <=> ProvidesAll(H, W)
         /\ \A env : Sound(env)' <=> Sound(env)
         /\ \A plan, E, W : GoodPlan(plan, E, W)' <=> GoodPlan(plan, E, W)
<1>1. Hash' = Hash /\ \A h : NamesOf(h)' = NamesOf(h) /\ Installed(h)' = Installed(h)
  BY DEF Hash, NamesOf, Installed
<1>2. \A p : Names(p)' = Names(p)
  BY <1>1 DEF Names
<1>3. \A H : Employable(H)' = Employable(H)
  BY <1>1 DEF Employable
<1>4. Packages' = Packages /\ Generators' = Generators
  BY <1>1, <1>3 DEF Packages, Generators
<1>5. \A p, q : DependsOn(p, q)' <=> DependsOn(p, q)
  BY <1>2 DEF DependsOn
<1>6. \A S, W : Provided(S, W)' <=> Provided(S, W)
  BY <1>2 DEF Provided
<1>7. \A p, S : DependenciesMet(p, S)' <=> DependenciesMet(p, S)
  BY <1>1, <1>6 DEF DependenciesMet
<1>8. \A S : Apart(S)' <=> Apart(S)
  BY <1>2 DEF Apart
<1>9. \A W : Wanted(W)' = Wanted(W)
  BY <1>4 DEF Wanted
<1>10. \A S, E, W : IsSolution(S, E, W)' <=> IsSolution(S, E, W)
  BY <1>6, <1>7, <1>8, <1>9 DEF IsSolution
<1>11. \A S, E, W : Minimal(S, E, W)' <=> Minimal(S, E, W)
  BY <1>4, <1>10 DEF Minimal
<1>12. \A H : Closed(H)' <=> Closed(H)
  BY DEF Closed
<1>13. \A H : (Consistent(H)' <=> Consistent(H)) /\ Closure(H)' = Closure(H)
  BY <1>1, <1>3, <1>8, <1>12 DEF Consistent, Closure
<1>14. \A H, W : ProvidesAll(H, W)' <=> ProvidesAll(H, W)
  BY <1>1 DEF ProvidesAll
<1>15. Env' = Env
  BY <1>1 DEF Env
<1>16. \A env : Sound(env)' <=> Sound(env)
  BY <1>4, <1>15 DEF Sound
<1>17. \A plan, E, W : GoodPlan(plan, E, W)' <=> GoodPlan(plan, E, W)
  BY <1>2, <1>4 DEF GoodPlan
<1>18. QED
  BY <1>1, <1>2, <1>3, <1>4, <1>5, <1>11, <1>13, <1>14, <1>15, <1>16, <1>17

(* What an installed package depends on is installed, before it.           *)
LEMMA InstalledDependOnInstalled ==
  ASSUME StoreOK, NEW p \in Packages, NEW q \in Packages, IsInstalled(p), DependsOn(p, q)
  PROVE  IsInstalled(q) /\ q.hash < p.hash
<1>1. Known(p) /\ Known(q) /\ q.hash \in store[p.hash].deps
  BY PackagesAreKnown DEF DependsOn
<1>2. p.hash \in Hash /\ q.hash \in 1 .. (p.hash - 1)
  BY <1>1 DEF Known, StoreOK
<1>3. QED
  BY <1>2, HashType DEF IsInstalled, NoHash

(* Among any packages there is one on which no other depends: a ghost, if  *)
(* there are any, or else what was installed last.                         *)
LEMMA SomeHead ==
  ASSUME StoreOK, NoCycle, NEW L \in SUBSET Packages, L # {}
  PROVE  \E p \in L : \A q \in L : ~ DependsOn(q, p)
<1>1. \A p \in L : Known(p)
  BY PackagesAreKnown
<1> DEFINE N == {n \in GhostName : Ghost(n) \in L}
<1>2. CASE N # {}
  <2>1. PICK n \in N : \A m \in N : GhostNames(n) \cap Needs(m) = {}
    BY <1>2 DEF NoCycle
  <2>2. Ghost(n) \in L /\ ~ IsInstalled(Ghost(n)) /\ Names(Ghost(n)) = GhostNames(n)
    BY GhostsArePackages
  <2>3. ASSUME NEW q \in L, DependsOn(q, Ghost(n)) PROVE FALSE
    <3>1. ~ IsInstalled(q)
      BY <2>2, <2>3, InstalledDependOnInstalled
    <3>2. q.name \in N
      BY <1>1, <3>1 DEF Known
    <3>3. Names(Ghost(n)) \cap Needs(q.name) # {}
      BY <2>3, <3>1 DEF DependsOn
    <3>4. QED
      BY <2>1, <2>2, <3>2, <3>3
  <2>4. QED
    BY <2>2, <2>3
<1>3. CASE N = {}
  <2>1. \A p \in L : IsInstalled(p) /\ p.hash \in Hash
    BY <1>1, <1>3 DEF Known
  <2> DEFINE T == {Len(store) - p.hash : p \in L}
  <2>2. \A p \in L : p.hash \in 1 .. Len(store)
    BY <2>1, HashType
  <2>3. T \in SUBSET Nat /\ T # {}
    BY <2>2, HashType
  <2> HIDE DEF T
  <2>4. PICK x \in T : \A y \in T : x <= y
    BY <2>3, NatMin
  <2>5. PICK p \in L : x = Len(store) - p.hash
    BY DEF T
  <2>6. ASSUME NEW q \in L, DependsOn(q, p) PROVE FALSE
    <3>1. p.hash < q.hash
      BY <2>1, <2>6, InstalledDependOnInstalled
    <3>2. Len(store) - q.hash \in T
      BY DEF T
    <3>3. Len(store) - p.hash <= Len(store) - q.hash
      BY <2>4, <2>5, <3>2
    <3>4. QED
      BY <2>2, <3>1, <3>3, HashType
  <2>7. QED
    BY <2>6
<1>4. QED
  BY <1>2, <1>3

(* When no head is left, no vertex is.                                     *)
LEMMA NoHeadNoVertex ==
  ASSUME StoreOK, NoCycle, SortOK, pc = "sort", heads = <<>>
  PROVE  left = {}
<1>1. ToSet(heads) = {}
  BY DEF ToSet
<1>2. {p \in left : \A q \in left : ~ DependsOn(q, p)} = {}
  BY <1>1 DEF SortOK, Sorted
<1>3. left \in SUBSET Packages
  BY DEF SortOK
<1>4. QED
  BY <1>2, <1>3, SomeHead

(* A solution as the sort begins with it.                                  *)
LEMMA SolveKeepsOrder ==
  ASSUME StoreOK, SortOK, ContextOK, IsFiniteSet(Name), Solve
  PROVE  SortOK'
<1>1. /\ pc = "solve" /\ pc' = "sort"
      /\ UNCHANGED <<store, shells, request, envs, order, looping, iDeps>>
  BY DEF Solve
<1>2. PICK S \in Solutions(Employable(Base.employed), request) :
        left' = S /\ heads' \in SetToSeqs({p \in S : \A q \in S : ~ DependsOn(q, p)})
  BY DEF Solve
<1>3. order = <<>> /\ order' = <<>>
  BY <1>1 DEF SortOK
<1>4. Employable(Base.employed) \in SUBSET Packages
  <2>1. Base.employed \subseteq Hash
    BY <1>1 DEF ContextOK, Sound, Env
  <2>2. QED
    BY <2>1 DEF Employable, Packages, Hash
<1>5. Minimal(S, Employable(Base.employed), request)
  BY <1>4, SolutionsAreMinimal
<1>6. S \subseteq Packages
  BY <1>5 DEF Minimal
<1> DEFINE H == {p \in S : \A q \in S : ~ DependsOn(q, p)}
<1>7. IsFiniteSet(H)
  <2>1. H \in SUBSET Packages
    BY <1>6
  <2>2. QED
    BY <2>1, FinitePackages, FS_Subset
<1>8. heads' \in Seq(H) /\ ToSet(heads') = H /\ Distinct(heads')
  <2> HIDE DEF H
  <2>1. heads' \in SetToSeqs(H)
    BY <1>2 DEF H
  <2>2. QED
    BY <1>7, <2>1, Listing
<1>9. /\ UNCHANGED store /\ UNCHANGED envs /\ UNCHANGED request
      /\ (Base.employed)' = Base.employed
  BY <1>1 DEF Base
<1>10. ToSet(<<>>) = {} /\ DOMAIN <<>> = {}
  BY DEF ToSet
<1>11. /\ Packages' = Packages /\ \A p, q : DependsOn(p, q)' <=> DependsOn(p, q)
       /\ \A T, E, W : Minimal(T, E, W)' <=> Minimal(T, E, W)
       /\ \A K : Employable(K)' = Employable(K)
  BY <1>9, StoreUntouched
<1>12. Sorted'
  <2>1. Minimal(left \cup ToSet(order), Employable(Base.employed), request)'
    <3>1. (left \cup ToSet(order))' = S
      BY <1>2, <1>3, <1>10
    <3>2. (Employable(Base.employed))' = Employable(Base.employed)
      BY <1>9, <1>11
    <3>3. QED
      BY <1>5, <1>9, <1>11, <3>1, <3>2
  <2>2. ToSet(heads)' = {p \in left' : \A q \in left' : ~ DependsOn(q, p)'}
    BY <1>2, <1>8, <1>11
  <2>3. QED
    BY <1>3, <1>8, <1>10, <2>1, <2>2 DEF Sorted, Distinct
<1>13. heads' \in Seq(left') /\ order' \in Seq(Packages') /\ left' \subseteq Packages'
  <2>1. Seq(H) \subseteq Seq(S)
    OBVIOUS
  <2>2. QED
    BY <1>2, <1>3, <1>6, <1>8, <1>11, <2>1
<1>14. QED
  BY <1>1, <1>12, <1>13 DEF SortOK

(* One element put after a sequence.                                       *)
LEMMA Appended ==
  ASSUME NEW X, NEW s \in Seq(X), NEW e \in X
  PROVE  /\ Append(s, e) \in Seq(X) /\ ToSet(Append(s, e)) = ToSet(s) \cup {e}
         /\ DOMAIN Append(s, e) = DOMAIN s \cup {Len(s) + 1} /\ DOMAIN s = 1 .. Len(s)
         /\ Len(s) \in Nat /\ Len(s) + 1 \notin DOMAIN s /\ Len(Append(s, e)) = Len(s) + 1
         /\ \A i \in DOMAIN s : Append(s, e)[i] = s[i]
         /\ Append(s, e)[Len(s) + 1] = e
<1> DEFINE t == Append(s, e)
<1>1. /\ t \in Seq(X) /\ Len(t) = Len(s) + 1 /\ Len(s) \in Nat
      /\ DOMAIN s = 1 .. Len(s) /\ DOMAIN t = 1 .. (Len(s) + 1)
      /\ \A i \in DOMAIN s : t[i] = s[i]
      /\ t[Len(s) + 1] = e
  OBVIOUS
<1> HIDE DEF t
<1>2. DOMAIN t = DOMAIN s \cup {Len(s) + 1} /\ Len(s) + 1 \notin DOMAIN s
  BY <1>1
<1>3. ToSet(t) = ToSet(s) \cup {e}
  BY <1>1, <1>2 DEF ToSet
<1>4. QED
  BY <1>1, <1>2, <1>3 DEF t

(* The sort takes a head out of the graph.                                 *)
LEMMA RemoveHeadKeepsOrder ==
  ASSUME StoreOK, SortOK, ContextOK, IsFiniteSet(Name), RemoveHead
  PROVE  SortOK'
<1> DEFINE p == Head(heads)
           freed == {q \in left : DependsOn(p, q) /\ \A r \in left \ {p} : ~ DependsOn(r, q)}
           H == {x \in left : \A q \in left : ~ DependsOn(q, x)}
<1>1. /\ pc = "sort" /\ heads # <<>> /\ left' = left \ {p} /\ order' = Append(order, p)
      /\ UNCHANGED <<store, shells, pc, request, envs, looping, iDeps>>
  BY DEF RemoveHead
<1>2. PICK s \in SetToSeqs(freed) : heads' = s \o Tail(heads)
  BY DEF RemoveHead
<1>3. /\ left \subseteq Packages /\ heads \in Seq(left) /\ order \in Seq(Packages)
      /\ Minimal(left \cup ToSet(order), Employable(Base.employed), request)
      /\ \A i \in DOMAIN order : order[i] \notin left
      /\ Distinct(order) /\ Distinct(heads) /\ ToSet(heads) = H
      /\ \A i, j \in DOMAIN order : i <= j => ~ DependsOn(order[j], order[i])
      /\ \A i \in DOMAIN order : \A q \in left : ~ DependsOn(q, order[i])
  BY <1>1 DEF SortOK, Sorted, Distinct
<1>4. /\ UNCHANGED store /\ UNCHANGED envs /\ UNCHANGED request /\ pc' = pc
      /\ (Base.employed)' = Base.employed
  BY <1>1 DEF Base
<1>5. /\ Packages' = Packages /\ \A x, y : DependsOn(x, y)' <=> DependsOn(x, y)
      /\ \A T, E, W : Minimal(T, E, W)' <=> Minimal(T, E, W)
      /\ \A K : Employable(K)' = Employable(K)
  BY <1>4, StoreUntouched
<1>6. IsFiniteSet(freed)
  <2>1. freed \in SUBSET Packages
    BY <1>3
  <2>2. QED
    BY <2>1, FinitePackages, FS_Subset
<1>7. s \in Seq(freed) /\ ToSet(s) = freed /\ Distinct(s)
  <2> HIDE DEF freed
  <2>1. QED
    BY <1>2, <1>6, Listing
<1>8. freed \cap H = {}
  <2>1. p \in left
    BY <1>1, <1>3
  <2>2. QED
    BY <2>1
<1>9. s \in Seq(left)
  <2>1. Seq(freed) \subseteq Seq(left)
    OBVIOUS
  <2>2. QED
    BY <1>7, <2>1
<1> DEFINE r == s \o Tail(heads)
<1> HIDE DEF r, freed, H, p
<1>10. r \in Seq(left) /\ Distinct(r) /\ ToSet(r) = freed \cup (H \ {p}) /\ p \in H
  <2>1. ToSet(s) \cap ToSet(heads) = {}
    BY <1>3, <1>7, <1>8
  <2>2. /\ r \in Seq(left) /\ Distinct(r) /\ ToSet(r) = ToSet(s) \cup (ToSet(heads) \ {p})
        /\ p \in ToSet(heads)
    BY <1>1, <1>3, <1>7, <1>9, <2>1, HeadReplaced DEF r, p
  <2>3. QED
    BY <1>3, <1>7, <2>2
<1>11. p \in left /\ \A q \in left : ~ DependsOn(q, p)
  BY <1>10 DEF H
<1>12. freed \cup (H \ {p}) = {x \in left' : \A q \in left' : ~ DependsOn(q, x)}
  BY <1>1, <1>11 DEF freed, H
<1>13. heads' = r
  BY <1>2 DEF r
<1>14. r \in Seq(left')
  <2>1. \A i \in DOMAIN r : r[i] \in left'
    BY <1>10, <1>12 DEF ToSet
  <2>2. DOMAIN r = 1 .. Len(r) /\ Len(r) \in Nat /\ r = [i \in 1 .. Len(r) |-> r[i]]
    BY <1>10
  <2>3. QED
    BY <2>1, <2>2
<1>15. p \in Packages
  BY <1>3, <1>11
<1> DEFINE o == Append(order, p)
<1>16. /\ o \in Seq(Packages) /\ ToSet(o) = ToSet(order) \cup {p}
       /\ DOMAIN o = DOMAIN order \cup {Len(order) + 1}
       /\ \A i \in DOMAIN order : o[i] = order[i]
       /\ o[Len(order) + 1] = p
       /\ DOMAIN order = 1 .. Len(order) /\ Len(order) \in Nat
  BY <1>3, <1>15, Appended
<1> HIDE DEF o
<1>17. order' = o
  BY <1>1 DEF o
<1>18. left' \cup ToSet(o) = left \cup ToSet(order)
  BY <1>1, <1>11, <1>16
<1>19. \A i \in DOMAIN o : o[i] \notin left'
  BY <1>1, <1>3, <1>16
<1>20. Distinct(o)
  BY <1>3, <1>11, <1>16 DEF Distinct
<1>21. \A i, j \in DOMAIN o : i <= j => ~ DependsOn(o[j], o[i])
  <2> SUFFICES ASSUME NEW i \in DOMAIN o, NEW j \in DOMAIN o, i <= j
               PROVE  ~ DependsOn(o[j], o[i])
    OBVIOUS
  <2>1. CASE i \in DOMAIN order /\ j \in DOMAIN order
    BY <1>3, <1>16, <2>1
  <2>2. CASE i \in DOMAIN order /\ j = Len(order) + 1
    BY <1>3, <1>11, <1>16, <2>2
  <2>3. CASE i = Len(order) + 1
    <3>1. j = Len(order) + 1
      BY <1>16, <2>3
    <3>2. QED
      BY <1>11, <1>16, <2>3, <3>1
  <2>4. QED
    BY <1>16, <2>1, <2>2, <2>3
<1>22. \A i \in DOMAIN o : \A q \in left' : ~ DependsOn(q, o[i])
  BY <1>1, <1>3, <1>11, <1>16
<1>23. Minimal(left \cup ToSet(order), Employable(Base.employed), request)'
  <2>1. (left \cup ToSet(order))' = left \cup ToSet(order)
    BY <1>17, <1>18
  <2>2. (Employable(Base.employed))' = Employable(Base.employed)
    BY <1>4, <1>5
  <2>3. QED
    BY <1>3, <1>4, <1>5, <2>1, <2>2
<1>24. ToSet(heads)' = {x \in left' : \A q \in left' : ~ DependsOn(q, x)'}
  BY <1>5, <1>10, <1>12, <1>13
<1>25. Sorted'
  BY <1>5, <1>10, <1>13, <1>17, <1>19, <1>20, <1>21, <1>22, <1>23, <1>24 DEF Sorted, Distinct
<1>26. left' \subseteq Packages' /\ heads' \in Seq(left') /\ order' \in Seq(Packages')
  BY <1>1, <1>3, <1>5, <1>13, <1>14, <1>16, <1>17
<1>27. QED
  BY <1>1, <1>4, <1>25, <1>26 DEF SortOK

-----------------------------------------------------------------------------
(* The plan of an installation *)

(* The sorted solution has each package after those it depends on.         *)
LEMMA SortedSolution ==
  ASSUME StoreOK, NoCycle, SortOK, pc = "sort", heads = <<>>, NEW r, r = Reverse(order)
  PROVE  /\ r \in Seq(Packages) /\ ToSet(r) = ToSet(order) /\ DOMAIN r = 1 .. Len(r)
         /\ Minimal(ToSet(r), Employable(Base.employed), request)
         /\ Distinct(r)
         /\ \A i, j \in DOMAIN r : DependsOn(r[i], r[j]) => j < i
<1>1. left = {}
  BY NoHeadNoVertex
<1>2. /\ order \in Seq(Packages)
      /\ Minimal(ToSet(order), Employable(Base.employed), request)
      /\ Distinct(order)
      /\ \A i, j \in DOMAIN order : i <= j => ~ DependsOn(order[j], order[i])
  <2>1. left \cup ToSet(order) = ToSet(order)
    BY <1>1
  <2>2. QED
    BY <2>1 DEF SortOK, Sorted, Distinct
<1>3. /\ r \in Seq(Packages) /\ DOMAIN r = DOMAIN order /\ ToSet(r) = ToSet(order)
      /\ \A i \in DOMAIN order : Len(order) + 1 - i \in DOMAIN order /\ r[i] = order[Len(order) + 1 - i]
  BY <1>2, Backwards
<1>4. DOMAIN order = 1 .. Len(order) /\ Len(order) \in Nat
  BY <1>2
<1>5. ASSUME NEW i \in DOMAIN r, NEW j \in DOMAIN r, DependsOn(r[i], r[j]) PROVE j < i
  <2> DEFINE a == Len(order) + 1 - j
             b == Len(order) + 1 - i
  <2>1. a \in DOMAIN order /\ b \in DOMAIN order /\ r[i] = order[b] /\ r[j] = order[a]
    BY <1>3
  <2>2. ~ (a <= b)
    <3> HIDE DEF a, b
    <3>1. QED
      BY <1>2, <1>5, <2>1
  <2>3. QED
    BY <1>3, <1>4, <2>2
<1>6. ASSUME NEW i \in DOMAIN r, NEW j \in DOMAIN r, r[i] = r[j] PROVE i = j
  <2>1. Len(order) + 1 - i = Len(order) + 1 - j
    BY <1>2, <1>3, <1>6 DEF Distinct
  <2>2. QED
    BY <1>3, <1>4, <2>1
<1>7. DOMAIN r = 1 .. Len(r)
  BY <1>3
<1>8. QED
  BY <1>2, <1>3, <1>5, <1>6, <1>7 DEF Distinct

(* A sorted solution is a good plan.                                       *)
LEMMA SolutionIsGoodPlan ==
  ASSUME StoreOK, OneGenerator, NEW r, NEW W, NEW B \in SUBSET Hash, Closed(B),
         ToSet(r) \subseteq Packages, Distinct(r), IsSolution(ToSet(r), Employable(B), W),
         \A i, j \in DOMAIN r : DependsOn(r[i], r[j]) => j < i
  PROVE  GoodPlan(r, B, W)
<1> DEFINE S == ToSet(r)
<1>1. \A p \in S : Known(p)
  BY PackagesAreKnown
<1>2. /\ Employable(B) \subseteq S /\ Apart(S) /\ Provided(S, Wanted(W))
      /\ \A p \in S \ Employable(B) : DependenciesMet(p, S)
  BY DEF IsSolution
<1>3. \A i \in DOMAIN r : r[i] \in S
  BY DEF ToSet
<1>4. \A p \in S : \E i \in DOMAIN r : r[i] = p
  BY DEF ToSet
<1> HIDE DEF S
<1>5. \A i \in DOMAIN r : r[i] \in Packages
  BY <1>3 DEF S
<1>6. \A i, j \in DOMAIN r : i # j => Names(r[i]) \cap Names(r[j]) = {}
  <2>1. \A i, j \in DOMAIN r : i # j => r[i] # r[j]
    BY DEF Distinct
  <2>2. QED
    BY <1>2, <1>3, <2>1 DEF Apart
<1>7. ASSUME NEW h \in B \cup Generators PROVE \E i \in DOMAIN r : r[i].hash = h
  <2>1. h \in Hash
    BY GeneratorsAreAlike
  <2>2. Installed(h).hash = h
    BY <2>1, HashesAreInstalled
  <2>3. Installed(h) \in S
    <3>1. CASE h \in B
      BY <1>2, <3>1 DEF Employable
    <3>2. CASE h \in Generators
      BY <3>2, GeneratorIncluded DEF S
    <3>3. QED
      BY <3>1, <3>2
  <2>4. QED
    BY <1>4, <2>2, <2>3
<1>8. \A n \in W : \E i \in DOMAIN r : n \in Names(r[i])
  <2>1. \A n \in W : \E p \in S : n \in Names(p)
    BY <1>2 DEF Provided, Wanted
  <2>2. QED
    BY <1>4, <2>1
<1>9. ASSUME NEW i \in DOMAIN r, IsInstalled(r[i]), NEW d \in store[r[i].hash].deps
      PROVE  d \in B \/ \E j \in DOMAIN r : j < i /\ r[j].hash = d
  <2>1. CASE r[i] \in Employable(B)
    <3>1. PICK h \in B : r[i] = Installed(h)
      BY <2>1 DEF Employable
    <3>2. r[i].hash = h
      BY <3>1, HashesAreInstalled
    <3>3. QED
      BY <1>9, <3>2 DEF Closed
  <2>2. CASE r[i] \notin Employable(B)
    <3>1. Installed(d) \in S
      BY <1>2, <1>3, <1>9, <2>2 DEF DependenciesMet
    <3>2. PICK j \in DOMAIN r : r[j] = Installed(d)
      BY <1>4, <3>1
    <3>3. r[j].hash = d
      BY <3>2 DEF Installed
    <3>4. DependsOn(r[i], r[j])
      BY <1>9, <3>3 DEF DependsOn
    <3>5. QED
      BY <3>3, <3>4
  <2>3. QED
    BY <2>1, <2>2
<1>10. ASSUME NEW i \in DOMAIN r, ~ IsInstalled(r[i]), NEW n \in Needs(r[i].name)
       PROVE  \E j \in DOMAIN r : j < i /\ n \in Names(r[j])
  <2>1. r[i] \notin Employable(B)
    BY <1>10, HashesAreInstalled DEF Employable
  <2>2. Provided(S, Needs(r[i].name))
    BY <1>2, <1>3, <1>10, <2>1 DEF DependenciesMet
  <2>3. PICK q \in S : n \in Names(q)
    BY <2>2 DEF Provided
  <2>4. PICK j \in DOMAIN r : r[j] = q
    BY <1>4
  <2>5. DependsOn(r[i], r[j])
    BY <1>10, <2>3, <2>4 DEF DependsOn
  <2>6. QED
    BY <2>3, <2>4, <2>5
<1>11. QED
  BY <1>5, <1>6, <1>7, <1>8, <1>9, <1>10 DEF GoodPlan

-----------------------------------------------------------------------------
(* The packages that installs add *)

(* A record that may be added to the store under h.                        *)
Addable(r, h) ==
    /\ r \in Record(Nat)
    /\ r.deps \subseteq 1 .. (h - 1)
    /\ CodeGeneration \notin {r.name} \cup r.aliases
    /\ \A n \in DOMAIN Defs : ({r.name} \cup r.aliases) \cap Defs[n].aliases # {} => r.name = n

(* What a store needs to stay in order when packages are added.            *)
LEMMA StoreExtended ==
  ASSUME StoreOK, store' \in Seq(Record(Nat)), Len(store) <= Len(store'),
         \A h \in Hash : store'[h] = store[h],
         \A h \in (Len(store) + 1) .. Len(store') : Addable(store'[h], h)
  PROVE  StoreOK' /\ StoreGrows
<1>1. /\ Hash = 1 .. Len(store) /\ Len(store) \in Nat /\ Hash' = 1 .. Len(store')
      /\ Len(store') \in Nat
  BY HashType DEF Hash
<1>2. Hash \subseteq Hash' /\ \A h \in Hash' : h \in Hash \/ h \in (Len(store) + 1) .. Len(store')
  BY <1>1
<1>3. \A h \in Hash' \ Hash : Addable(store'[h], h)
  BY <1>2
<1>4. StoreGrows
  BY <1>2 DEF StoreGrows, Hash
<1>5. /\ \A h \in Hash : store[h].deps \subseteq 1 .. (h - 1)
      /\ Len(Initial) <= Len(store) /\ \A h \in DOMAIN Initial : store[h] = Initial[h]
      /\ \A h \in Hash \ DOMAIN Initial : CodeGeneration \notin NamesOf(h)
      /\ \A h \in Hash, n \in DOMAIN Defs :
            NamesOf(h) \cap Defs[n].aliases # {} => store[h].name = n
  BY DEF StoreOK
<1>6. \A h \in Hash' : NamesOf(h)' = {store'[h].name} \cup store'[h].aliases
  BY DEF NamesOf
<1>7. \A h \in Hash : NamesOf(h)' = NamesOf(h)
  BY <1>6 DEF NamesOf
<1>8. \A h \in Hash' : store'[h].deps \subseteq 1 .. (h - 1)
  BY <1>3, <1>5 DEF Addable
<1>9. Len(Initial) <= Len(store') /\ \A h \in DOMAIN Initial : h \in Hash /\ store'[h] = Initial[h]
  <2>1. DOMAIN Initial = 1 .. Len(Initial) /\ Len(Initial) \in Nat
    BY ConstantsOK
  <2>2. QED
    BY <1>1, <1>5, <2>1
<1>10. \A h \in Hash' \ DOMAIN Initial : CodeGeneration \notin NamesOf(h)'
  BY <1>3, <1>5, <1>6, <1>7 DEF Addable
<1>11. \A h \in Hash', n \in DOMAIN Defs :
            NamesOf(h)' \cap Defs[n].aliases # {} => store'[h].name = n
  BY <1>3, <1>5, <1>6, <1>7 DEF Addable
<1>12. StoreOK'
  BY <1>8, <1>9, <1>10, <1>11 DEF StoreOK
<1>13. QED
  BY <1>4, <1>12

(* The parasites that a script installs are announced by the definition,   *)
(* and their ghosts have their names.                                      *)
LEMMA ParasitesInstalled ==
  ASSUME OneHost, NEW n \in DOMAIN Defs, NEW s \in Installable(n)
  PROVE  /\ s \in Seq(Parasite)
         /\ \A i \in DOMAIN s :
               /\ s[i] \in ParasitesOf(n) /\ s[i] \in Parasite
               /\ s[i].name \in GhostName \ DOMAIN Defs /\ Hosts(s[i].name) = {n}
               /\ GhostNames(s[i].name) = {s[i].name} \cup s[i].aliases
<1> DEFINE all == Defs[n].parasites
           Increasing(k) == {f \in [1 .. k -> DOMAIN all] : \A i, j \in 1 .. k : i < j => f[i] < f[j]}
<1>1. all \in Seq(Parasite)
  BY ConstantsOK DEF Definition
<1>a. PICK k \in 0 .. Len(all) : \E f \in Increasing(k) : s = [i \in 1 .. k |-> all[f[i]]]
  BY DEF Installable
<1>2. PICK f \in Increasing(k) : s = [i \in 1 .. k |-> all[f[i]]]
  BY <1>a
<1>3. \A i \in 1 .. k : f[i] \in DOMAIN all
  OBVIOUS
<1> HIDE DEF Increasing
<1>4. \A i \in 1 .. k : s[i] \in ParasitesOf(n) /\ s[i] \in Parasite
  BY <1>1, <1>2, <1>3 DEF ParasitesOf, ToSet
<1>5. DOMAIN s = 1 .. k /\ k \in Nat
  BY <1>1, <1>2
<1>6. s \in Seq(Parasite)
  <2>1. s = [i \in 1 .. k |-> s[i]]
    BY <1>2
  <2>2. QED
    BY <1>4, <1>5, <2>1
<1>7. ASSUME NEW p \in ParasitesOf(n), p \in Parasite
      PROVE  /\ p.name \in GhostName \ DOMAIN Defs /\ Hosts(p.name) = {n}
             /\ GhostNames(p.name) = {p.name} \cup p.aliases
  <2>1. p.name \in Name
    BY <1>7 DEF Parasite
  <2>2. n \in Hosts(p.name)
    BY DEF Hosts
  <2>3. p.name \notin DOMAIN Defs
    BY <2>1, <2>2 DEF OneHost
  <2>4. Hosts(p.name) = {n}
    <3>1. ASSUME NEW k2 \in Hosts(p.name) PROVE k2 = n
      <4>1. PICK q \in ParasitesOf(k2) : q.name = p.name
        BY DEF Hosts
      <4>2. QED
        BY <2>1, <2>2, <4>1 DEF OneHost
    <3>2. QED
      BY <2>2, <3>1
  <2>5. {q \in ParasitesOf(n) : q.name = p.name} = {p}
    BY <2>1, <2>2 DEF OneHost
  <2>6. GhostNames(p.name) = {p.name} \cup p.aliases
    BY <2>4, <2>5 DEF GhostNames
  <2>7. QED
    BY <2>1, <2>2, <2>3, <2>4, <2>6 DEF GhostName
<1>8. QED
  BY <1>4, <1>5, <1>6, <1>7

(* The package that a build publishes.                                     *)
LEMMA PublishAdds ==
  ASSUME StoreOK, LoopOK, BuildOK, PrivateAliases, OneGenerator, Publish
  PROVE  StoreOK' /\ StoreGrows /\ Len(store') = Len(store) + 1
         /\ store'[Len(store) + 1] =
              [name |-> soln[at].name, aliases |-> Defs[soln[at].name].aliases,
               deps |-> RecordedDeps(soln[at].name)]
         /\ RecordedDeps(soln[at].name) \subseteq ToSet(inUse) \cup {SpockItself}
         /\ SpockItself \in Hash
<1> DEFINE n == soln[at].name
           r == [name |-> n, aliases |-> Defs[n].aliases, deps |-> RecordedDeps(n)]
<1>1. pc = "build" /\ store' = Append(store, r)
  BY DEF Publish
<1>2. n \in DOMAIN Defs
  BY <1>1 DEF BuildOK, Installing
<1>3. RecordedDeps(n) \subseteq ToSet(inUse) \cup {SpockItself}
  BY <1>1 DEF BuildOK, Installing, RecordedDeps
<1>4. SpockItself \in Hash
  <2>1. 1 \in DOMAIN Initial
    BY ConstantsOK
  <2>2. DOMAIN Initial = 1 .. Len(Initial) /\ Len(Initial) \in Nat
    BY ConstantsOK
  <2>3. QED
    BY <2>1, <2>2, HashType DEF StoreOK, SpockItself
<1>5. RecordedDeps(n) \subseteq Hash
  <2>1. ToSet(inUse) \subseteq Hash
    BY DEF LoopOK, ToSet
  <2>2. QED
    BY <1>3, <1>4, <2>1
<1>6. store \in Seq(Record(Nat)) /\ Len(store) \in Nat /\ Hash = 1 .. Len(store)
  BY HashType DEF StoreOK
<1>7. r \in Record(Nat)
  <2>1. n \in Name /\ Defs[n].aliases \in SUBSET Name
    BY <1>2, ConstantsOK DEF Definition
  <2>2. RecordedDeps(n) \in SUBSET Nat
    BY <1>5, <1>6
  <2>3. QED
    BY <2>1, <2>2 DEF Record
<1>8. n \in GhostName /\ n \in GhostNames(n)
  BY <1>2 DEF GhostName, GhostNames
<1>9. CodeGeneration \notin {n} \cup Defs[n].aliases
  BY <1>2, <1>8 DEF OneGenerator
<1>10. ASSUME NEW m \in DOMAIN Defs, ({n} \cup Defs[n].aliases) \cap Defs[m].aliases # {} PROVE n = m
  BY <1>2, <1>8, <1>10 DEF PrivateAliases
<1>11. Addable(r, Len(store) + 1)
  BY <1>5, <1>6, <1>7, <1>9, <1>10 DEF Addable
<1> HIDE DEF r
<1>12. /\ store' \in Seq(Record(Nat)) /\ Len(store') = Len(store) + 1
       /\ \A h \in Hash : store'[h] = store[h]
       /\ store'[Len(store) + 1] = r
  BY <1>1, <1>6, <1>7
<1>13. StoreOK' /\ StoreGrows
  <2>1. \A h \in (Len(store) + 1) .. Len(store') : h = Len(store) + 1
    BY <1>6, <1>12
  <2>2. \A h \in (Len(store) + 1) .. Len(store') : Addable(store'[h], h)
    BY <1>11, <1>12, <2>1
  <2>3. Len(store) <= Len(store')
    BY <1>6, <1>12
  <2>4. QED
    BY <1>12, <2>2, <2>3, StoreExtended
<1>14. QED
  BY <1>3, <1>4, <1>12, <1>13 DEF r

(* A sequence put after another.                                           *)
LEMMA Concatenated ==
  ASSUME NEW R, NEW a \in Seq(R), NEW b \in Seq(R)
  PROVE  /\ a \o b \in Seq(R) /\ Len(a \o b) = Len(a) + Len(b)
         /\ \A i \in 1 .. Len(a) : (a \o b)[i] = a[i]
         /\ \A i \in 1 .. Len(b) : (a \o b)[Len(a) + i] = b[i]
OBVIOUS

(* The packages that a post-install script adds.                           *)
LEMMA ParasitesAdded ==
  ASSUME StoreOK, LoopOK, BuildOK, PrivateAliases, OneHost, OneGenerator, pc = "post",
         NEW s \in Installable(soln[at].name), store' = store \o ParasiteRecords(s)
  PROVE  /\ StoreOK' /\ StoreGrows
         /\ Len(store') = Len(store) + Len(s)
         /\ \A i \in DOMAIN s :
               store'[Host + i] = [name |-> s[i].name, aliases |-> s[i].aliases,
                                   deps |-> {SpockItself, Host} \cup Generators]
<1> DEFINE n == soln[at].name
           x == ParasiteRecords(s)
<1>1. n \in DOMAIN Defs
  BY DEF BuildOK, Installing
<1>2. /\ s \in Seq(Parasite)
      /\ \A i \in DOMAIN s :
            /\ s[i] \in Parasite
            /\ s[i].name \in GhostName \ DOMAIN Defs
            /\ GhostNames(s[i].name) = {s[i].name} \cup s[i].aliases
  BY <1>1, ParasitesInstalled
<1>3. store \in Seq(Record(Nat)) /\ Len(store) \in Nat /\ Hash = 1 .. Len(store)
  BY HashType DEF StoreOK
<1>4. SpockItself \in Hash /\ Host \in Hash
  <2>1. 1 \in DOMAIN Initial
    BY ConstantsOK
  <2>2. DOMAIN Initial = 1 .. Len(Initial) /\ Len(Initial) \in Nat
    BY ConstantsOK
  <2>3. QED
    BY <1>3, <2>1, <2>2 DEF StoreOK, SpockItself, Host
<1>5. {SpockItself, Host} \cup Generators \subseteq Hash
  BY <1>4 DEF Generators, Hash
<1>6. /\ DOMAIN x = DOMAIN s
      /\ \A i \in DOMAIN s : x[i] = [name |-> s[i].name, aliases |-> s[i].aliases,
                                     deps |-> {SpockItself, Host} \cup Generators]
  BY DEF ParasiteRecords
<1> HIDE DEF x
<1>7. ASSUME NEW i \in DOMAIN s PROVE Addable(x[i], Len(store) + i)
  <2>1. i \in Nat \ {0}
    BY <1>2
  <2>2. {SpockItself, Host} \cup Generators \subseteq 1 .. ((Len(store) + i) - 1)
    <3>1. \A h \in 1 .. Len(store) : h \in 1 .. ((Len(store) + i) - 1)
      BY <1>3, <2>1
    <3>2. QED
      BY <1>3, <1>5, <3>1
  <2>3. {SpockItself, Host} \cup Generators \in SUBSET Nat
    BY <1>3, <1>5
  <2>4. x[i] \in Record(Nat)
    BY <1>2, <1>6, <2>3 DEF Record, Parasite
  <2>5. CodeGeneration \notin GhostNames(s[i].name)
    BY <1>2 DEF OneGenerator
  <2>6. \A m \in DOMAIN Defs : GhostNames(s[i].name) \cap Defs[m].aliases = {}
    BY <1>2 DEF PrivateAliases
  <2>8. /\ x[i].name = s[i].name /\ x[i].aliases = s[i].aliases
        /\ x[i].deps = {SpockItself, Host} \cup Generators
    BY <1>6
  <2>7. GhostNames(s[i].name) = {x[i].name} \cup x[i].aliases
    BY <1>2, <2>8
  <2>9. QED
    BY <2>2, <2>4, <2>5, <2>6, <2>7, <2>8 DEF Addable
<1>8. x \in Seq(Record(Nat)) /\ Len(x) = Len(s) /\ Len(s) \in Nat /\ DOMAIN s = 1 .. Len(s)
  <2>1. DOMAIN s = 1 .. Len(s) /\ Len(s) \in Nat
    BY <1>2
  <2>2. \A i \in 1 .. Len(s) : x[i] \in Record(Nat)
    BY <1>7, <2>1 DEF Addable
  <2>3. x = [i \in 1 .. Len(s) |-> x[i]]
    BY <1>6, <2>1 DEF x, ParasiteRecords
  <2>4. x \in Seq(Record(Nat))
    BY <2>1, <2>2, <2>3
  <2>5. Len(x) = Len(s)
    BY <1>6, <2>1, <2>4
  <2>6. QED
    BY <2>1, <2>4, <2>5
<1>9. store' = store \o x
  BY DEF x
<1>10. /\ store' \in Seq(Record(Nat)) /\ Len(store') = Len(store) + Len(s)
       /\ \A h \in Hash : store'[h] = store[h]
       /\ \A i \in DOMAIN s : store'[Len(store) + i] = x[i]
  <2>1. PICK R : R = Record(Nat)
    OBVIOUS
  <2>2. store \in Seq(R) /\ x \in Seq(R)
    BY <1>3, <1>8, <2>1
  <2>3. /\ store \o x \in Seq(R) /\ Len(store \o x) = Len(store) + Len(x)
        /\ \A h \in 1 .. Len(store) : (store \o x)[h] = store[h]
        /\ \A i \in 1 .. Len(x) : (store \o x)[Len(store) + i] = x[i]
    BY <2>2, Concatenated
  <2>4. QED
    BY <1>3, <1>8, <1>9, <2>1, <2>3
<1>11. ASSUME NEW h \in (Len(store) + 1) .. Len(store') PROVE Addable(store'[h], h)
  <2>1. h - Len(store) \in DOMAIN s /\ Len(store) + (h - Len(store)) = h
    BY <1>3, <1>8, <1>10
  <2>2. QED
    BY <1>7, <1>10, <2>1
<1>12. Len(store) <= Len(store')
  BY <1>3, <1>8, <1>10
<1>13. StoreOK' /\ StoreGrows
  BY <1>10, <1>11, <1>12, StoreExtended
<1>14. QED
  BY <1>6, <1>10, <1>13 DEF Host

-----------------------------------------------------------------------------
(* The inductive invariant, and each step *)

IInv ==
    StoreOK /\ ShellsOK /\ ContextOK /\ SortOK /\ LoopOK /\ BuildOK /\ PostOK

(* At the prompt there is nothing left of a command.                       *)
LEMMA AtThePrompt ==
  ASSUME StoreOK', ShellsOK', Exit
  PROVE  IInv'
<1>1. /\ pc' = "prompt" /\ request' = {} /\ envs' = <<>>
      /\ left' = {} /\ heads' = <<>> /\ order' = <<>>
      /\ soln' = <<>> /\ at' = 0 /\ inUse' = <<>> /\ iDeps' = {}
  BY DEF Exit
<1>2. ContextOK'
  <2>1. envs' \in Seq(AnyEnv) /\ Len(envs') = 0 /\ DOMAIN envs' = {}
    BY <1>1
  <2>2. QED
    BY <1>1, <2>1 DEF ContextOK, Installing
<1>3. SortOK'
  BY <1>1 DEF SortOK
<1>4. LoopOK'
  BY <1>1 DEF LoopOK, Growing
<1>5. BuildOK'
  BY <1>1 DEF BuildOK, Installing
<1>6. PostOK'
  BY <1>1 DEF PostOK
<1>7. QED
  BY <1>2, <1>3, <1>4, <1>5, <1>6 DEF IInv

(* An environment stays what it is when packages are installed.            *)
LEMMA ShellKept ==
  ASSUME StoreOK, StoreOK', StoreGrows, ShellsOK, NEW i \in DOMAIN shells, shells'[i] = shells[i],
         i # 1 => shells'[i - 1] = shells[i - 1]
  PROVE  ShellOK(i)'
<1>1. ShellOK(i)
  BY DEF ShellsOK
<1>2. PICK env : env = shells[i].env
  OBVIOUS
<1>3. PICK H : H = env.employed
  OBVIOUS
<1>4. Sound(env) /\ H \in SUBSET Hash /\ Consistent(H)
  BY <1>1, <1>2, <1>3 DEF ShellOK, Sound, Env
<1>5. Sound(env)'
  BY <1>4, GrowthOfEnvironments
<1>6. Consistent(H)' /\ \A W : ProvidesAll(H, W) => ProvidesAll(H, W)'
  BY <1>4, GrowthOfSets
<1>7. i # 1 => ProvidesAll(H, shells[i].request)'
  <2>1. PICK W : W = shells[i].request
    OBVIOUS
  <2>2. i # 1 => ProvidesAll(H, W)
    BY <1>1, <1>2, <1>3, <2>1 DEF ShellOK
  <2>3. i # 1 => ProvidesAll(H, W)'
    BY <1>6, <2>2
  <2>4. W = shells'[i].request
    BY <2>1
  <2>5. QED
    BY <2>3, <2>4
<1>8. env = shells'[i].env /\ H = shells'[i].env.employed
  BY <1>2, <1>3
<1>9. Sound(shells[i].env)' /\ Consistent(shells[i].env.employed)'
  BY <1>5, <1>6, <1>8
<1>10. QED
  BY <1>1, <1>2, <1>3, <1>7, <1>9 DEF ShellOK

(* The shells stay what they are when packages are installed.              *)
LEMMA ShellsKept ==
  ASSUME StoreOK, StoreOK', StoreGrows, ShellsOK, UNCHANGED shells
  PROVE  ShellsOK'
<1>1. \A i \in DOMAIN shells : ShellOK(i)'
  BY ShellKept
<1>2. QED
  BY <1>1 DEF ShellsOK

(* A step that leaves the store alone.                                     *)
LEMMA StoreKept ==
  ASSUME StoreOK, UNCHANGED store
  PROVE  StoreOK' /\ StoreGrows
<1>1. Hash' = Hash /\ \A h : NamesOf(h)' = NamesOf(h)
  BY StoreUntouched
<1>2. QED
  BY <1>1 DEF StoreOK, StoreGrows

(* Spock is installed, and depends on nothing.                             *)
LEMMA SpockIsInstalled ==
  StoreOK => SpockItself \in Hash /\ SpockItself \in DOMAIN Initial /\ store[SpockItself].deps = {}
<1> SUFFICES ASSUME StoreOK PROVE SpockItself \in Hash /\ SpockItself \in DOMAIN Initial
                                  /\ store[SpockItself].deps = {}
  OBVIOUS
<1>1. Initial \in Seq(Record(Nat)) /\ Initial # <<>> /\ Initial[1].deps = {}
  BY ConstantsOK
<1>2. DOMAIN Initial = 1 .. Len(Initial) /\ Len(Initial) \in Nat /\ 1 \in DOMAIN Initial
  BY <1>1
<1>3. Hash = 1 .. Len(store) /\ Len(store) \in Nat /\ Len(Initial) <= Len(store)
      /\ store[1] = Initial[1]
  BY <1>2, HashType DEF StoreOK
<1>4. QED
  BY <1>1, <1>2, <1>3 DEF SpockItself

(* And is so after a step.                                                 *)
LEMMA NextSpockIsInstalled ==
  (StoreOK => SpockItself \in Hash /\ SpockItself \in DOMAIN Initial /\ store[SpockItself].deps = {})'
BY SpockIsInstalled, PTL

(* Environments hold numbers.                                              *)
LEMMA EnvironmentsHoldNumbers ==
  StoreOK => Env \subseteq AnyEnv
<1> SUFFICES ASSUME StoreOK PROVE Env \subseteq AnyEnv
  OBVIOUS
<1>1. PICK H : H = Hash
  OBVIOUS
<1>2. H \subseteq Nat
  BY <1>1, HashType
<1>3. \A e \in [employed : SUBSET H, path : Seq(H)] : e \in [employed : SUBSET Nat, path : Seq(Nat)]
  <2>1. ASSUME NEW s \in Seq(H) PROVE s \in Seq(Nat)
    <3>1. Len(s) \in Nat /\ s = [i \in 1 .. Len(s) |-> s[i]]
      OBVIOUS
    <3>a. \A i \in 1 .. Len(s) : s[i] \in H
      OBVIOUS
    <3>2. \A i \in 1 .. Len(s) : s[i] \in Nat
      BY <1>2, <3>a
    <3>3. QED
      BY <3>1, <3>2
  <2>2. SUBSET H \subseteq SUBSET Nat
    BY <1>2
  <2>3. TAKE e \in [employed : SUBSET H, path : Seq(H)]
  <2>4. e.employed \in SUBSET Nat /\ e.path \in Seq(Nat)
        /\ e = [employed |-> e.employed, path |-> e.path]
    BY <2>1, <2>2
  <2>5. QED
    BY <2>4
<1>4. QED
  BY <1>1, <1>3 DEF Env, AnyEnv

(* After a step as well.                                                   *)
LEMMA NextEnvironmentsHoldNumbers == (StoreOK => Env \subseteq AnyEnv)'
BY EnvironmentsHoldNumbers, PTL

(* Before and after the loop, its part of the invariant says little.       *)
LEMMA OutsideOfTheLoop ==
  ASSUME LoopOK, BuildOK, UNCHANGED <<store, looping, iDeps>>, ~ Growing, ~ Growing'
  PROVE  LoopOK' /\ BuildOK' /\ PostOK'
<1>1. Hash' = Hash /\ Packages' = Packages
  BY StoreUntouched
<1>2. UNCHANGED <<soln, at, inUse>>
  BY DEF looping
<1>3. LoopOK'
  BY <1>1, <1>2 DEF LoopOK
<1>4. ~ Installing /\ ~ Installing'
  BY DEF Growing, Installing
<1>5. BuildOK'
  BY <1>1, <1>4 DEF BuildOK
<1>6. PostOK'
  BY <1>4 DEF PostOK, Installing
<1>7. QED
  BY <1>3, <1>5, <1>6

(* Outside of the sort, its part of the invariant says little.             *)
LEMMA OutsideOfTheSort ==
  ASSUME SortOK, UNCHANGED sorting, pc # "sort", pc' # "sort", Packages \subseteq Packages'
  PROVE  SortOK'
<1>1. UNCHANGED <<left, heads, order>> /\ left = {} /\ order = <<>> /\ heads \in Seq(left)
  BY DEF sorting, SortOK
<1>2. heads' \in Seq(left')
  BY <1>1
<1>3. order' \in Seq(Packages')
  BY <1>1
<1>4. QED
  BY <1>1, <1>2, <1>3 DEF SortOK

(* The innermost shell is one of the shells.                               *)
LEMMA HereIsAShell ==
  ASSUME ShellsOK
  PROVE  /\ Len(shells) \in DOMAIN shells /\ Here = shells[Len(shells)] /\ ShellOK(Len(shells))
         /\ DOMAIN shells = 1 .. Len(shells) /\ Len(shells) \in Nat \ {0}
<1>1. /\ shells \in Seq([env : AnyEnv, request : SUBSET Name]) /\ shells # <<>>
      /\ \A i \in DOMAIN shells : ShellOK(i)
  BY DEF ShellsOK
<1>2. Len(shells) \in Nat \ {0} /\ DOMAIN shells = 1 .. Len(shells)
  BY <1>1
<1>3. Len(shells) \in DOMAIN shells
  BY <1>2
<1>4. QED
  BY <1>1, <1>2, <1>3 DEF Here, Last

(* A command takes up the environment of its shell.                        *)
LEMMA StartStep == ASSUME IInv, Start PROVE IInv'
<1>a. PICK b : b = Employ(Here.env, <<SpockItself>>)
  OBVIOUS
<1>1. /\ pc = "prompt" /\ pc' = "solve" /\ request' \in SUBSET Name /\ envs' = <<b>>
      /\ UNCHANGED <<store, shells, sorting, looping, iDeps>>
  BY <1>a, ConstantsOK DEF Start
<1>2. StoreOK' /\ StoreGrows /\ ShellsOK'
  BY <1>1, StoreKept, ShellsKept DEF IInv
<1>3. ShellOK(Len(shells)) /\ Here = shells[Len(shells)]
  BY HereIsAShell DEF IInv
<1>4. Sound(Here.env) /\ Consistent(Here.env.employed)
      /\ (Here.env.employed = {} \/ SpockItself \in Here.env.employed)
  BY <1>3 DEF ShellOK
<1>5. SpockItself \in Hash /\ store[SpockItself].deps = {}
  BY SpockIsInstalled DEF IInv
<1>6. Sound(b) /\ b.employed = Here.env.employed \cup {SpockItself}
  <2>1. PICK env : env = Here.env
    OBVIOUS
  <2>2. PICK q : q = <<SpockItself>>
    OBVIOUS
  <2>3. q \in Seq(Hash) /\ Len(q) = 1 /\ DOMAIN q = {1} /\ q[1] = SpockItself
        /\ ToSet(q) = {SpockItself}
    BY <1>5, <2>2 DEF ToSet
  <2>4. \A i \in DOMAIN q :
            store[q[i]].deps \ Generators \subseteq env.employed \cup {q[j] : j \in 1 .. (i - 1)}
    BY <1>5, <2>3
  <2>5. Sound(Employ(env, q)) /\ Employ(env, q).employed = env.employed \cup ToSet(q)
    BY <1>4, <2>1, <2>3, <2>4, EmploySound
  <2>6. QED
    BY <1>a, <2>1, <2>2, <2>3, <2>5
<1>7. Consistent(b.employed)
  <2>1. CASE SpockItself \in Here.env.employed
    <3>1. b.employed = Here.env.employed
      BY <1>6, <2>1
    <3>2. QED
      BY <1>4, <3>1
  <2>2. CASE Here.env.employed = {}
    <3>1. b.employed = {SpockItself}
      BY <1>6, <2>2
    <3>2. Closed({SpockItself})
      BY <1>5 DEF Closed
    <3>3. Apart(Employable({SpockItself}))
      BY DEF Apart, Employable
    <3>4. QED
      BY <3>1, <3>2, <3>3 DEF Consistent
  <2>3. QED
    BY <1>4, <2>1, <2>2
<1>8. /\ Env' = Env /\ Sound(b)' /\ Consistent(b.employed)' /\ Packages' = Packages
  <2>1. /\ Env' = Env /\ Packages' = Packages
        /\ \A env : Sound(env)' <=> Sound(env)
        /\ \A H : Consistent(H)' <=> Consistent(H)
    BY <1>1, StoreUntouched
  <2>2. QED
    BY <1>6, <1>7, <2>1
<1>9. envs' \in Seq(AnyEnv) /\ Len(envs') = 1 /\ DOMAIN envs' = {1} /\ envs'[1] = b /\ b \in Env
  <2>1. b \in Env /\ b \in AnyEnv
    BY <1>6, EnvironmentsHoldNumbers DEF Sound, IInv
  <2>2. QED
    BY <1>1, <2>1
<1>10. ContextOK'
  <2>1. Base' = b /\ Here' = Here
    BY <1>1, <1>9 DEF Base, Here
  <2>2. Sound(Base)' /\ Consistent(Base.employed)'
    BY <1>6, <1>7, <1>8, <2>1
  <2>3. QED
    BY <1>1, <1>6, <1>8, <1>9, <2>1, <2>2 DEF ContextOK, Installing
<1>11. LoopOK' /\ BuildOK' /\ PostOK'
  BY <1>1, OutsideOfTheLoop DEF IInv, Growing
<1>12. SortOK'
  BY <1>1, <1>8, OutsideOfTheSort DEF IInv
<1>13. QED
  BY <1>2, <1>10, <1>11, <1>12 DEF IInv

(* The innermost shell is left.                                            *)
LEMMA LeaveShellStep == ASSUME IInv, LeaveShell PROVE IInv'
<1>1. /\ pc = "prompt" /\ Len(shells) > 1 /\ shells' = Front(shells)
      /\ UNCHANGED <<store, pc, request, envs, sorting, looping, iDeps>>
  BY DEF LeaveShell
<1>2. StoreOK' /\ StoreGrows
  BY <1>1, StoreKept DEF IInv
<1>3. shells \in Seq([env : AnyEnv, request : SUBSET Name]) /\ Len(shells) \in Nat
      /\ DOMAIN shells = 1 .. Len(shells)
  BY HereIsAShell DEF IInv, ShellsOK
<1>4. /\ shells' \in Seq([env : AnyEnv, request : SUBSET Name]) /\ Len(shells') = Len(shells) - 1
      /\ DOMAIN shells' = 1 .. (Len(shells) - 1)
      /\ \A i \in 1 .. (Len(shells) - 1) : shells'[i] = shells[i]
  <2>1. shells' = SubSeq(shells, 1, Len(shells) - 1) /\ Len(shells) - 1 \in 1 .. Len(shells)
    BY <1>1, <1>3 DEF Front
  <2>2. PICK X : X = [env : AnyEnv, request : SUBSET Name]
    OBVIOUS
  <2>3. shells \in Seq(X)
    BY <1>3, <2>2
  <2>4. \A m \in 1 .. Len(shells) :
           /\ SubSeq(shells, 1, m) \in Seq(X) /\ Len(SubSeq(shells, 1, m)) = m
           /\ DOMAIN SubSeq(shells, 1, m) = 1 .. m
           /\ \A i \in 1 .. m : SubSeq(shells, 1, m)[i] = shells[i]
    BY <2>3
  <2>5. QED
    BY <2>1, <2>2, <2>4
<1>5. ASSUME NEW i \in DOMAIN shells' PROVE ShellOK(i)'
  <2>1. i \in DOMAIN shells /\ shells'[i] = shells[i]
    BY <1>1, <1>3, <1>4
  <2>2. i # 1 => shells'[i - 1] = shells[i - 1]
    BY <1>1, <1>3, <1>4
  <2>3. QED
    BY <1>2, <2>1, <2>2, ShellKept DEF IInv
<1>6. ShellsOK'
  <2>1. shells' # <<>>
    BY <1>1, <1>3, <1>4
  <2>2. QED
    BY <1>4, <1>5, <2>1 DEF ShellsOK
<1>7. Env' = Env /\ Packages' = Packages
  BY <1>1, StoreUntouched
<1>8. ContextOK'
  BY <1>1, <1>7 DEF IInv, ContextOK, Installing
<1>9. LoopOK' /\ BuildOK' /\ PostOK'
  BY <1>1, OutsideOfTheLoop DEF IInv, Growing
<1>10. SortOK'
  BY <1>1, <1>7, OutsideOfTheSort DEF IInv
<1>11. QED
  BY <1>2, <1>6, <1>8, <1>9, <1>10 DEF IInv

(* A command ends with nothing done.                                       *)
LEMMA ExitStep == ASSUME IInv, Exit, UNCHANGED <<store, shells>> PROVE IInv'
<1>1. StoreOK' /\ StoreGrows
  BY StoreKept DEF IInv
<1>2. ShellsOK'
  BY <1>1, ShellsKept DEF IInv
<1>3. QED
  BY <1>1, <1>2, AtThePrompt

(* A command ends when the script of a package has failed.                 *)
LEMMA PostInstallFailsStep ==
  ASSUME IInv, PrivateAliases, OneHost, OneGenerator, PostInstallFails PROVE IInv'
<1>1. PICK s \in Installable(soln[at].name) : store' = store \o ParasiteRecords(s)
  BY DEF PostInstallFails
<1>2. StoreOK' /\ StoreGrows
  BY <1>1, ParasitesAdded DEF IInv, PostInstallFails
<1>3. ShellsOK'
  BY <1>2, ShellsKept DEF IInv, PostInstallFails
<1>4. QED
  BY <1>2, <1>3, AtThePrompt DEF PostInstallFails

(* A step that neither installs nor enters the stack of environments.      *)
LEMMA ContextKept ==
  ASSUME StoreOK, ContextOK, UNCHANGED <<store, shells, request, envs>>,
         pc \in {"solve", "sort", "loop"}, pc' \in {"solve", "sort", "loop"},
         pc' = "loop" \/ pc # "loop"
  PROVE  ContextOK' /\ Base' = Base
<1>1. Base' = Base /\ Here' = Here
  BY DEF Base, Here
<1>2. PICK b : b = Base
  OBVIOUS
<1>3. Sound(b)' <=> Sound(b)
  BY StoreUntouched
<1>4. Consistent(b.employed)' <=> Consistent(b.employed)
  BY StoreUntouched
<1>5. Env' = Env
  BY StoreUntouched
<1>6. Sound(Base)' /\ (pc # "loop" => Consistent(Base.employed)')
  BY <1>1, <1>2, <1>3, <1>4 DEF ContextOK
<1>7. ContextOK'
  BY <1>1, <1>5, <1>6 DEF ContextOK, Installing
<1>8. QED
  BY <1>1, <1>7

(* A solution is found.                                                    *)
LEMMA SolveStep == ASSUME IInv, IsFiniteSet(Name), Solve PROVE IInv'
<1>1. /\ pc = "solve" /\ pc' = "sort"
      /\ UNCHANGED <<store, shells, request, envs, order, looping, iDeps>>
  BY DEF Solve
<1>2. StoreOK' /\ ShellsOK'
  BY <1>1, StoreKept, ShellsKept DEF IInv
<1>3. ContextOK'
  BY <1>1, ContextKept DEF IInv
<1>4. SortOK'
  BY SolveKeepsOrder DEF IInv
<1>5. LoopOK' /\ BuildOK' /\ PostOK'
  BY <1>1, OutsideOfTheLoop DEF IInv, Growing
<1>6. QED
  BY <1>2, <1>3, <1>4, <1>5 DEF IInv

(* A vertex is removed.                                                    *)
LEMMA RemoveHeadStep == ASSUME IInv, IsFiniteSet(Name), RemoveHead PROVE IInv'
<1>1. /\ pc = "sort" /\ pc' = "sort"
      /\ UNCHANGED <<store, shells, request, envs, looping, iDeps>>
  BY DEF RemoveHead
<1>2. StoreOK' /\ ShellsOK'
  BY <1>1, StoreKept, ShellsKept DEF IInv
<1>3. ContextOK'
  BY <1>1, ContextKept DEF IInv
<1>4. SortOK'
  BY RemoveHeadKeepsOrder DEF IInv
<1>5. LoopOK' /\ BuildOK' /\ PostOK'
  BY <1>1, OutsideOfTheLoop DEF IInv, Growing
<1>6. QED
  BY <1>2, <1>3, <1>4, <1>5 DEF IInv

(* The loop begins with the sorted solution for its plan.                  *)
LEMMA BeginLoopStep ==
  ASSUME IInv, NoCycle, OneGenerator, BeginLoop PROVE IInv' /\ Plan' = Reverse(order)
<1>1. /\ pc = "sort" /\ pc' = "loop" /\ heads = <<>> /\ soln' = Reverse(order)
      /\ at' = 1 /\ left' = {} /\ order' = <<>>
      /\ UNCHANGED <<store, shells, request, envs, heads, inUse, iDeps>>
  BY DEF BeginLoop
<1>2. StoreOK' /\ ShellsOK'
  BY <1>1, StoreKept, ShellsKept DEF IInv
<1>3. ContextOK' /\ Base' = Base
  BY <1>1, ContextKept DEF IInv
<1>4. SortOK'
  BY <1>1 DEF SortOK
<1>5. PICK r : r = Reverse(order)
  OBVIOUS
<1>6. /\ r \in Seq(Packages) /\ ToSet(r) = ToSet(order) /\ DOMAIN r = 1 .. Len(r)
      /\ Minimal(ToSet(r), Employable(Base.employed), request)
      /\ Distinct(r)
      /\ \A i, j \in DOMAIN r : DependsOn(r[i], r[j]) => j < i
  BY <1>1, <1>5, SortedSolution DEF IInv
<1>7. Base.employed \in SUBSET Hash /\ Closed(Base.employed)
  BY <1>1 DEF IInv, ContextOK, Sound, Env, Consistent
<1>8. PICK B, W : B = Base.employed /\ W = request
  OBVIOUS
<1>9. GoodPlan(r, B, W)
  <2>1. ToSet(r) \subseteq Packages /\ IsSolution(ToSet(r), Employable(B), W)
    BY <1>6, <1>8 DEF Minimal
  <2>2. QED
    BY <1>6, <1>7, <1>8, <2>1, SolutionIsGoodPlan DEF IInv
<1>10. inUse = <<>> /\ Hash' = Hash /\ Packages' = Packages
       /\ (GoodPlan(r, B, W)' <=> GoodPlan(r, B, W))
  BY <1>1, StoreUntouched DEF IInv, LoopOK, Growing
<1>11. Plan' = r
  <2>1. Plan' = [i \in DOMAIN r |-> IF i < 1 THEN Installed(inUse[i])' ELSE r[i]]
    BY <1>1, <1>5 DEF Plan
  <2>2. \A i \in DOMAIN r : ~ (i < 1)
    BY <1>6
  <2>3. r = [i \in DOMAIN r |-> r[i]]
    BY <1>6
  <2>4. QED
    BY <2>1, <2>2, <2>3
<1>12. LoopOK'
  <2>1. GoodPlan(Plan, Base.employed, request)'
    BY <1>1, <1>3, <1>8, <1>9, <1>10, <1>11
  <2>2. soln' \in Seq(Packages') /\ Len(soln') \in Nat
    BY <1>1, <1>5, <1>6, <1>10
  <2>3. /\ at' \in Nat /\ at' \in 1 .. (Len(soln') + 1) /\ Len(inUse') = at' - 1
        /\ inUse' \in Seq(Hash')
    BY <1>1, <1>10, <2>2
  <2>4. QED
    BY <1>1, <2>1, <2>2, <2>3 DEF LoopOK, Growing
<1>13. BuildOK' /\ PostOK'
  BY <1>1, <1>10 DEF IInv, BuildOK, PostOK, Installing
<1>14. QED
  BY <1>2, <1>3, <1>4, <1>5, <1>11, <1>12, <1>13 DEF IInv

(* A package of the solution that is installed already is taken up.        *)
LEMMA TakeInstalledStep == ASSUME IInv, TakeInstalled PROVE IInv' /\ Plan' = Plan
<1>1. /\ pc = "loop" /\ pc' = "loop" /\ at <= Len(soln) /\ IsInstalled(soln[at])
      /\ inUse' = Append(inUse, soln[at].hash) /\ at' = at + 1
      /\ UNCHANGED <<store, shells, request, envs, sorting, soln, iDeps>>
  BY DEF TakeInstalled
<1>2. StoreOK' /\ ShellsOK'
  BY <1>1, StoreKept, ShellsKept DEF IInv
<1>3. ContextOK' /\ Base' = Base
  BY <1>1, ContextKept DEF IInv
<1>4. Hash' = Hash /\ Packages' = Packages
  BY <1>1, StoreUntouched
<1>5. SortOK'
  BY <1>1, <1>4, OutsideOfTheSort DEF IInv
<1>6. /\ soln \in Seq(Packages) /\ Len(soln) \in Nat /\ DOMAIN soln = 1 .. Len(soln)
      /\ at \in DOMAIN soln /\ at \in Nat \ {0} /\ inUse \in Seq(Hash) /\ Len(inUse) = at - 1
      /\ GoodPlan(Plan, Base.employed, request)
  BY <1>1 DEF IInv, LoopOK, Growing
<1>7. soln[at].hash \in Hash /\ soln[at] = Installed(soln[at].hash)
  <2>1. soln[at] \in Packages
    BY <1>6
  <2>2. QED
    BY <1>1, <2>1, PackagesAreKnown DEF IInv, Known
<1>8. /\ inUse' \in Seq(Hash) /\ Len(inUse') = at /\ inUse'[at] = soln[at].hash
      /\ \A i \in 1 .. (at - 1) : inUse'[i] = inUse[i]
  BY <1>1, <1>6, <1>7
<1>9. Plan' = Plan
  <2>1. Plan' = [i \in DOMAIN soln |-> IF i < at + 1 THEN [name |-> store[inUse'[i]].name, hash |-> inUse'[i]]
                                      ELSE soln[i]]
    BY <1>1 DEF Plan, Installed
  <2>2. ASSUME NEW i \in DOMAIN soln
        PROVE  (IF i < at + 1 THEN [name |-> store[inUse'[i]].name, hash |-> inUse'[i]] ELSE soln[i])
                 = (IF i < at THEN Installed(inUse[i]) ELSE soln[i])
    <3>1. CASE i = at
      BY <1>6, <1>7, <1>8, <3>1 DEF Installed
    <3>2. CASE i < at
      <4>1. inUse'[i] = inUse[i]
        BY <1>6, <1>8, <3>2
      <4>2. QED
        BY <1>6, <3>2, <4>1 DEF Installed
    <3>3. CASE i > at
      BY <1>6, <3>3
    <3>4. QED
      BY <1>6, <3>1, <3>2, <3>3
  <2>3. QED
    BY <2>1, <2>2 DEF Plan
<1>10. LoopOK'
  <2>1. PICK p, B, W : p = Plan /\ B = Base.employed /\ W = request
    OBVIOUS
  <2>2. GoodPlan(p, B, W)'
    BY <1>1, <1>6, <2>1, StoreUntouched
  <2>3. GoodPlan(Plan, Base.employed, request)'
    BY <1>1, <1>3, <1>9, <2>1, <2>2
  <2>4. at' \in 1 .. (Len(soln') + 1) /\ at' \in Nat /\ Len(inUse') = at' - 1
    BY <1>1, <1>6, <1>8
  <2>5. QED
    BY <1>1, <1>4, <1>6, <1>8, <2>3, <2>4 DEF LoopOK, Growing
<1>11. BuildOK' /\ PostOK'
  BY <1>1, <1>4 DEF IInv, BuildOK, PostOK, Installing
<1>12. QED
  BY <1>2, <1>3, <1>5, <1>9, <1>10, <1>11 DEF IInv
(* All of a plan is installed, under the hashes q.                         *)
Fulfilled(plan, q) ==
    DOMAIN plan = DOMAIN q /\ \A i \in DOMAIN plan : IsInstalled(plan[i]) /\ plan[i].hash = q[i]

(* Where B is employed, q can be employed in its order, and provides W.    *)
Employs(q, B, W) ==
    /\ B \subseteq ToSet(q)
    /\ Consistent(ToSet(q)) /\ ProvidesAll(ToSet(q), W)
    /\ \A i \in DOMAIN q :
          store[q[i]].deps \ Generators \subseteq B \cup {q[j] : j \in 1 .. (i - 1)}

(* When all of a plan is installed, it can be employed in its order.       *)
LEMMA PlanFulfilled ==
  ASSUME StoreOK, OneGenerator, NEW plan, NEW B \in SUBSET Hash, NEW W, NEW q \in Seq(Hash),
         GoodPlan(plan, B, W), Fulfilled(plan, q)
  PROVE  Employs(q, B, W)
<1> USE DEF Fulfilled
<1> DEFINE H == ToSet(q)
<1>1. /\ \A i \in DOMAIN q : plan[i] = Installed(q[i]) /\ Names(plan[i]) = NamesOf(q[i])
      /\ \A i \in DOMAIN q : q[i] \in Hash
      /\ DOMAIN q = 1 .. Len(q) /\ Len(q) \in Nat
  <2>1. ASSUME NEW i \in DOMAIN q PROVE Known(plan[i])
    BY PackagesAreKnown DEF GoodPlan
  <2>2. QED
    BY <2>1 DEF Known
<1>2. H = {q[i] : i \in DOMAIN q}
  BY DEF ToSet
<1>a. (\A i \in DOMAIN q : q[i] \in H) /\ \A h \in H : \E i \in DOMAIN q : q[i] = h
  BY <1>2
<1> HIDE DEF H
<1>3. B \cup Generators \subseteq H
  <2>1. ASSUME NEW h \in B \cup Generators PROVE h \in H
    <3>1. PICK i \in DOMAIN plan : plan[i].hash = h
      BY DEF GoodPlan
    <3>2. QED
      BY <1>a, <3>1
  <2>2. QED
    BY <2>1
<1>4. ASSUME NEW i \in DOMAIN q, NEW d \in store[q[i]].deps
      PROVE  d \in B \cup Generators \/ \E j \in DOMAIN q : j < i /\ q[j] = d
  BY DEF GoodPlan
<1>5. Closed(H)
  <2>1. ASSUME NEW h \in H, NEW d \in store[h].deps PROVE d \in H
    <3>1. PICK i \in DOMAIN q : q[i] = h
      BY <1>a
    <3>2. d \in B \cup Generators \/ \E j \in DOMAIN q : q[j] = d
      BY <1>4, <3>1
    <3>3. QED
      BY <1>3, <1>a, <3>2
  <2>2. QED
    BY <2>1 DEF Closed
<1>6. Apart(Employable(H))
  <2>1. ASSUME NEW p \in Employable(H), NEW s \in Employable(H), p # s PROVE Names(p) \cap Names(s) = {}
    <3>1. PICK g \in H, h \in H : p = Installed(g) /\ s = Installed(h)
      BY DEF Employable
    <3>2. PICK i \in DOMAIN q, j \in DOMAIN q : q[i] = g /\ q[j] = h
      BY <1>a
    <3>3. plan[i] = p /\ plan[j] = s
      BY <1>1, <3>1, <3>2
    <3>4. i # j
      BY <2>1, <3>3
    <3>5. QED
      BY <3>3, <3>4 DEF GoodPlan
  <2>2. QED
    BY <2>1 DEF Apart
<1>7. ProvidesAll(H, W)
  <2>1. ASSUME NEW n \in W PROVE \E h \in H : n \in NamesOf(h)
    <3>1. PICK i \in DOMAIN plan : n \in Names(plan[i])
      BY DEF GoodPlan
    <3>2. QED
      BY <1>1, <1>a, <3>1
  <2>2. QED
    BY <2>1 DEF ProvidesAll
<1>8. ASSUME NEW i \in DOMAIN q, NEW d \in store[q[i]].deps \ Generators
      PROVE  d \in B \cup {q[j] : j \in 1 .. (i - 1)}
  <2>1. CASE d \in B
    BY <2>1
  <2>2. CASE \E j \in DOMAIN q : j < i /\ q[j] = d
    <3>1. PICK j \in DOMAIN q : j < i /\ q[j] = d
      BY <2>2
    <3>2. j \in 1 .. (i - 1)
      BY <1>1, <3>1
    <3>3. QED
      BY <3>1, <3>2
  <2>3. QED
    BY <1>4, <2>1, <2>2
<1>9. QED
  BY <1>3, <1>5, <1>6, <1>7, <1>8 DEF H, Consistent, Employs

(* A subshell that employs, beside what the Context does, q in its order.  *)
LEMMA SpawnStep ==
  ASSUME IInv, UNCHANGED store, pc # "prompt", NEW q \in Seq(Hash), Spawn(q),
         Employs(q, Base.employed, request)
  PROVE  IInv'
<1>a. PICK base, W : base = Base /\ W = request
  OBVIOUS
<1>b. PICK e : e = Employ(base, q)
  OBVIOUS
<1>1. shells' = Append(shells, [env |-> e, request |-> W]) /\ Exit
  BY <1>a, <1>b DEF Spawn
<1>2. StoreOK' /\ StoreGrows
  BY StoreKept DEF IInv
<1>3. Sound(base) /\ SpockItself \in base.employed /\ Here.env.employed \subseteq base.employed
      /\ W \in SUBSET Name
  BY <1>a DEF IInv, ContextOK
<1>c. /\ base.employed \subseteq ToSet(q) /\ Consistent(ToSet(q)) /\ ProvidesAll(ToSet(q), W)
      /\ \A i \in DOMAIN q :
            store[q[i]].deps \ Generators \subseteq base.employed \cup {q[j] : j \in 1 .. (i - 1)}
  BY <1>a DEF Employs
<1>4. Sound(e) /\ e.employed = ToSet(q)
  <2>1. Sound(Employ(base, q)) /\ Employ(base, q).employed = base.employed \cup ToSet(q)
    BY <1>c, <1>3, EmploySound
  <2>2. QED
    BY <1>b, <1>c, <2>1
<1>5. Sound(e)' /\ Consistent(e.employed)' /\ ProvidesAll(e.employed, W)'
  <2>1. \A env : Sound(env)' <=> Sound(env)
    BY StoreUntouched
  <2>2. \A H : Consistent(H)' <=> Consistent(H)
    BY StoreUntouched
  <2>3. \A H, V : ProvidesAll(H, V)' <=> ProvidesAll(H, V)
    BY StoreUntouched
  <2>4. Consistent(e.employed) /\ ProvidesAll(e.employed, W)
    BY <1>c, <1>4
  <2>5. QED
    BY <1>4, <2>1, <2>2, <2>3, <2>4
<1>6. /\ Len(shells) \in DOMAIN shells /\ Here = shells[Len(shells)]
      /\ DOMAIN shells = 1 .. Len(shells) /\ Len(shells) \in Nat \ {0}
      /\ shells \in Seq([env : AnyEnv, request : SUBSET Name])
  BY HereIsAShell DEF IInv, ShellsOK
<1>7. e \in AnyEnv
  BY <1>4, EnvironmentsHoldNumbers DEF Sound, IInv
<1>8. PICK X, x : X = [env : AnyEnv, request : SUBSET Name] /\ x = [env |-> e, request |-> W]
  OBVIOUS
<1>9. x \in X /\ shells \in Seq(X) /\ shells' = Append(shells, x) /\ x.env = e /\ x.request = W
  BY <1>1, <1>3, <1>6, <1>7, <1>8
<1>10. /\ shells' \in Seq(X) /\ DOMAIN shells' = DOMAIN shells \cup {Len(shells) + 1}
       /\ \A i \in DOMAIN shells : shells'[i] = shells[i]
       /\ shells'[Len(shells) + 1] = x /\ shells' # <<>>
  <2>1. /\ Append(shells, x) \in Seq(X)
        /\ DOMAIN Append(shells, x) = DOMAIN shells \cup {Len(shells) + 1}
        /\ \A i \in DOMAIN shells : Append(shells, x)[i] = shells[i]
        /\ Append(shells, x)[Len(shells) + 1] = x
    BY <1>9, Appended
  <2>2. QED
    BY <1>6, <1>9, <2>1
<1>11. ASSUME NEW i \in DOMAIN shells PROVE ShellOK(i)'
  <2>1. i # 1 => i - 1 \in DOMAIN shells
    BY <1>6
  <2>2. shells'[i] = shells[i] /\ (i # 1 => shells'[i - 1] = shells[i - 1])
    BY <1>10, <2>1
  <2>3. QED
    BY <1>2, <2>2, ShellKept DEF IInv
<1>d. PICK k : k = Len(shells) + 1
  OBVIOUS
<1>12. ShellOK(k)'
  <2>2. shells'[k].env = e /\ shells'[k].request = W
    BY <1>9, <1>10, <1>d
  <2>3. shells'[k - 1].env.employed \subseteq e.employed
    <3>1. shells'[k - 1] = Here
      BY <1>6, <1>10, <1>d
    <3>2. QED
      BY <1>3, <1>4, <1>a, <1>c, <3>1
  <2>4. Sound(shells[k].env)' /\ Consistent(shells[k].env.employed)'
        /\ ProvidesAll(shells[k].env.employed, shells[k].request)'
    BY <1>5, <2>2
  <2>5. SpockItself \in e.employed
    BY <1>3, <1>4, <1>a, <1>c
  <2>6. QED
    BY <2>2, <2>3, <2>4, <2>5 DEF ShellOK
<1>13. ShellsOK'
  BY <1>8, <1>10, <1>11, <1>12, <1>d DEF ShellsOK
<1>14. QED
  BY <1>1, <1>2, <1>13, AtThePrompt

(* All of a solution was installed already.                                *)
LEMMA AllInstalled ==
  ASSUME IInv, NoCycle, OneGenerator, UseInstalled
  PROVE  \E r, q : /\ Spawn(q) /\ q \in Seq(Hash) /\ Fulfilled(r, q)
                   /\ GoodPlan(r, Base.employed, request) /\ Distinct(r)
                   /\ Minimal(ToSet(r), Employable(Base.employed), request)
<1>1. /\ pc = "sort" /\ heads = <<>> /\ \A i \in DOMAIN order : IsInstalled(order[i])
      /\ Spawn(Hashes(Reverse(order))) /\ UNCHANGED store
  BY DEF UseInstalled
<1>2. PICK r : r = Reverse(order)
  OBVIOUS
<1>3. PICK q : q = Hashes(r)
  OBVIOUS
<1>4. PICK B, W : B = Base.employed /\ W = request
  OBVIOUS
<1>5. /\ r \in Seq(Packages) /\ ToSet(r) = ToSet(order) /\ DOMAIN r = 1 .. Len(r)
      /\ Minimal(ToSet(r), Employable(Base.employed), request)
      /\ Distinct(r)
      /\ \A i, j \in DOMAIN r : DependsOn(r[i], r[j]) => j < i
  BY <1>1, <1>2, SortedSolution DEF IInv
<1>6. Base.employed \in SUBSET Hash /\ Closed(Base.employed)
  BY <1>1 DEF IInv, ContextOK, Sound, Env, Consistent
<1>7. GoodPlan(r, B, W)
  <2>1. ToSet(r) \subseteq Packages /\ IsSolution(ToSet(r), Employable(B), W)
    BY <1>4, <1>5 DEF Minimal
  <2>2. QED
    BY <1>4, <1>5, <1>6, <2>1, SolutionIsGoodPlan DEF IInv
<1>8. \A i \in DOMAIN r : IsInstalled(r[i])
  <2>1. \A i \in DOMAIN r : r[i] \in ToSet(order)
    BY <1>5 DEF ToSet
  <2>2. QED
    BY <1>1, <2>1 DEF ToSet
<1>9. q \in Seq(Hash) /\ Fulfilled(r, q)
  <2>1. DOMAIN q = DOMAIN r /\ (\A i \in DOMAIN r : q[i] = r[i].hash) /\ Len(r) \in Nat
    BY <1>3, <1>5 DEF Hashes
  <2>2. \A i \in DOMAIN r : r[i].hash \in Hash
    BY <1>7, <1>8, PackagesAreKnown DEF GoodPlan, Known, IInv
  <2>3. q = [i \in 1 .. Len(r) |-> q[i]]
    BY <1>3, <1>5 DEF Hashes
  <2>4. QED
    BY <1>5, <1>8, <2>1, <2>2, <2>3 DEF Fulfilled
<1>10. Spawn(q)
  BY <1>1, <1>2, <1>3
<1>11. QED
  BY <1>4, <1>5, <1>7, <1>9, <1>10

(* The subshell employs it.                                                *)
LEMMA UseInstalledStep == ASSUME IInv, NoCycle, OneGenerator, UseInstalled PROVE IInv'
<1>1. PICK B, W : B = Base.employed /\ W = request
  OBVIOUS
<1>2. PICK r, q : Spawn(q) /\ q \in Seq(Hash) /\ Fulfilled(r, q) /\ GoodPlan(r, B, W)
  BY <1>1, AllInstalled
<1>3. StoreOK /\ B \in SUBSET Hash /\ pc # "prompt" /\ UNCHANGED store
  BY <1>1 DEF UseInstalled, IInv, ContextOK, Sound, Env
<1>4. Employs(q, B, W)
  BY <1>2, <1>3, PlanFulfilled
<1>5. QED
  BY <1>1, <1>2, <1>3, <1>4, SpawnStep

(* The loop is over; all of the plan is in use.                            *)
LEMMA LoopDone ==
  ASSUME IInv, EndLoop
  PROVE  /\ Spawn(inUse) /\ inUse \in Seq(Hash) /\ Fulfilled(Plan, inUse)
         /\ GoodPlan(Plan, Base.employed, request)
<1>1. pc = "loop" /\ at > Len(soln) /\ Spawn(inUse) /\ UNCHANGED store
  BY DEF EndLoop
<1>2. PICK plan, q : plan = Plan /\ q = inUse
  OBVIOUS
<1>3. PICK B, W : B = Base.employed /\ W = request
  OBVIOUS
<1>4. /\ soln \in Seq(Packages) /\ at \in Nat /\ at = Len(soln) + 1 /\ q \in Seq(Hash)
      /\ Len(q) = Len(soln) /\ GoodPlan(plan, B, W) /\ DOMAIN soln = 1 .. Len(soln)
      /\ DOMAIN q = 1 .. Len(q) /\ Len(soln) \in Nat
  BY <1>1, <1>2, <1>3 DEF IInv, LoopOK, Growing
<1>6. /\ DOMAIN plan = DOMAIN q
      /\ \A i \in DOMAIN plan : plan[i] = Installed(q[i])
  BY <1>2, <1>4 DEF Plan
<1>7. Fulfilled(plan, q)
  <2>1. \A i \in DOMAIN q : q[i] \in Hash
    BY <1>4
  <2>2. QED
    BY <1>6, <2>1, HashesAreInstalled DEF IInv, Fulfilled
<1>8. QED
  BY <1>1, <1>2, <1>3, <1>4, <1>7

(* The subshell employs it.                                                *)
LEMMA EndLoopStep == ASSUME IInv, OneGenerator, EndLoop PROVE IInv'
<1>1. PICK plan, q, B, W : plan = Plan /\ q = inUse /\ B = Base.employed /\ W = request
  OBVIOUS
<1>2. Spawn(q) /\ q \in Seq(Hash) /\ Fulfilled(plan, q) /\ GoodPlan(plan, B, W)
  BY <1>1, LoopDone
<1>3. StoreOK /\ B \in SUBSET Hash /\ pc # "prompt" /\ UNCHANGED store
  BY <1>1 DEF EndLoop, IInv, ContextOK, Sound, Env
<1>4. Employs(q, B, W)
  BY <1>2, <1>3, PlanFulfilled
<1>5. QED
  BY <1>1, <1>2, <1>3, <1>4, SpawnStep

(* What is in use of the plan can be employed in its order.                *)
LEMMA InUseFacts ==
  ASSUME IInv, pc = "loop"
  PROVE  /\ Sound(InUse) /\ InUse.employed = Base.employed \cup ToSet(inUse)
         /\ GoodPlan(Plan, InUse.employed, request)
         /\ Missing => \A n \in Needs(soln[at].name) : \E h \in ToSet(inUse) : n \in NamesOf(h)
<1>1. PICK base, q, plan, W : base = Base /\ q = inUse /\ plan = Plan /\ W = request
  OBVIOUS
<1>2. /\ soln \in Seq(Packages) /\ at \in 1 .. (Len(soln) + 1) /\ q \in Seq(Hash)
      /\ Len(q) = at - 1 /\ GoodPlan(plan, base.employed, W) /\ DOMAIN soln = 1 .. Len(soln)
      /\ DOMAIN q = 1 .. (at - 1) /\ Len(soln) \in Nat
  BY <1>1 DEF IInv, LoopOK, Growing
<1>3. /\ DOMAIN plan = DOMAIN soln
      /\ \A i \in DOMAIN soln : plan[i] = IF i < at THEN Installed(q[i]) ELSE soln[i]
  BY <1>1 DEF Plan
<1>4. /\ DOMAIN q \subseteq DOMAIN plan
      /\ \A i \in DOMAIN plan : i < at <=> i \in DOMAIN q
      /\ \A i, j \in DOMAIN plan : i \in DOMAIN q /\ j < i => j \in DOMAIN q
      /\ \A i \in DOMAIN q : q[i] \in Hash /\ q[i] \in ToSet(q)
  <2>1. DOMAIN q \subseteq DOMAIN plan /\ \A i \in DOMAIN plan : i < at <=> i \in DOMAIN q
    BY <1>2, <1>3
  <2>2. \A i, j \in DOMAIN plan : i \in DOMAIN q /\ j < i => j \in DOMAIN q
    BY <1>2, <1>3
  <2>3. \A i \in DOMAIN q : q[i] \in Hash /\ q[i] \in ToSet(q)
    BY <1>2 DEF ToSet
  <2>4. QED
    BY <2>1, <2>2, <2>3
<1>5. \A i \in DOMAIN q : /\ IsInstalled(plan[i]) /\ plan[i].hash = q[i]
                          /\ Names(plan[i]) = NamesOf(q[i])
  BY <1>3, <1>4, HashesAreInstalled DEF IInv
<1>6. ASSUME NEW i \in DOMAIN q
      PROVE  store[q[i]].deps \ Generators \subseteq base.employed \cup {q[j] : j \in 1 .. (i - 1)}
  <2>1. ASSUME NEW d \in store[q[i]].deps \ Generators
        PROVE  d \in base.employed \cup {q[j] : j \in 1 .. (i - 1)}
    <3>1. d \in base.employed \/ \E j \in DOMAIN plan : j < i /\ plan[j].hash = d
      BY <1>2, <1>4, <1>5 DEF GoodPlan
    <3>2. CASE \E j \in DOMAIN plan : j < i /\ plan[j].hash = d
      <4>1. PICK j \in DOMAIN plan : j < i /\ plan[j].hash = d
        BY <3>2
      <4>2. j \in DOMAIN q /\ j \in 1 .. (i - 1)
        BY <1>2, <1>4, <4>1
      <4>3. q[j] = d
        BY <1>5, <4>1, <4>2
      <4>4. QED
        BY <4>2, <4>3
    <3>3. QED
      BY <3>1, <3>2
  <2>2. QED
    BY <2>1
<1>7. Sound(base)
  BY <1>1 DEF IInv, ContextOK
<1>8. Sound(InUse) /\ InUse.employed = base.employed \cup ToSet(q)
  <2>1. Sound(Employ(base, q)) /\ Employ(base, q).employed = base.employed \cup ToSet(q)
    BY <1>2, <1>6, <1>7, EmploySound
  <2>2. QED
    BY <1>1, <2>1 DEF InUse
<1>9. GoodPlan(plan, InUse.employed, W)
  <2>1. PICK E : E = InUse.employed
    OBVIOUS
  <2>2. \A h \in E \cup Generators : \E i \in DOMAIN plan : plan[i].hash = h
    <3>1. \A h \in base.employed \cup Generators : \E i \in DOMAIN plan : plan[i].hash = h
      BY <1>2 DEF GoodPlan
    <3>2. \A h \in ToSet(q) : \E i \in DOMAIN plan : plan[i].hash = h
      BY <1>4, <1>5 DEF ToSet
    <3>3. QED
      BY <1>8, <2>1, <3>1, <3>2
  <2>3. \A i \in DOMAIN plan : IsInstalled(plan[i]) =>
          \A d \in store[plan[i].hash].deps :
             \/ d \in E \cup Generators
             \/ \E j \in DOMAIN plan : j < i /\ plan[j].hash = d
    BY <1>2, <1>8, <2>1 DEF GoodPlan
  <2>4. GoodPlan(plan, E, W)
    BY <1>2, <2>2, <2>3 DEF GoodPlan
  <2>5. QED
    BY <2>1, <2>4
<1>10. ASSUME Missing, NEW n \in Needs(soln[at].name) PROVE \E h \in ToSet(q) : n \in NamesOf(h)
  <2>1. at \in DOMAIN plan /\ plan[at] = soln[at] /\ ~ IsInstalled(soln[at])
    BY <1>2, <1>3, <1>10 DEF Missing
  <2>2. PICK j \in DOMAIN plan : j < at /\ n \in Names(plan[j])
    BY <1>2, <2>1 DEF GoodPlan
  <2>3. j \in DOMAIN q
    BY <1>4, <2>2
  <2>4. QED
    BY <1>4, <1>5, <2>2, <2>3
<1>11. QED
  BY <1>1, <1>8, <1>9, <1>10

(* An installed solution is made of hashes.                                *)
LEMMA HashesOfSolutions ==
  ASSUME StoreOK, NEW S \in SUBSET Packages, \A p \in S : IsInstalled(p)
  PROVE  HashesOf(S) \subseteq Hash /\ Employable(HashesOf(S)) = S /\ IsFiniteSet(HashesOf(S))
<1>1. \A p \in S : p.hash \in Hash /\ p = Installed(p.hash)
  BY PackagesAreKnown DEF Known
<1>2. HashesOf(S) \subseteq Hash
  BY <1>1 DEF HashesOf
<1>3. Employable(HashesOf(S)) = S
  <2>1. \A p \in S : p \in Employable(HashesOf(S))
    BY <1>1 DEF Employable, HashesOf
  <2>2. \A p \in Employable(HashesOf(S)) : p \in S
    <3>1. TAKE p \in Employable(HashesOf(S))
    <3>2. PICK h \in HashesOf(S) : p = Installed(h)
      BY DEF Employable
    <3>3. PICK r \in S : h = r.hash
      BY <3>2 DEF HashesOf
    <3>4. QED
      BY <1>1, <3>2, <3>3
  <2>3. QED
    BY <2>1, <2>2
<1>4. IsFiniteSet(Hash)
  BY HashType, FS_Interval
<1>5. QED
  BY <1>2, <1>3, <1>4, FS_Subset
(* What the install dependencies of the package at hand bring in: nothing  *)
(* that is not installed, and nothing but what is in use, the code         *)
(* generator, and what these depend on.                                    *)
LEMMA InstallDependencies ==
  ASSUME IInv, OneGenerator, Missing, soln[at].name \in DOMAIN Defs, NEW I \in InstallSolutions
  PROVE  /\ I \in SUBSET Packages /\ \A p \in I : IsInstalled(p)
         /\ Employable(InUse.employed) \subseteq I
         /\ HashesOf(I) \subseteq Closure(InUse.employed \cup Generators)
         /\ \A p \in I : Names(p) \cap Needs(soln[at].name) # {} => p.hash \in ToSet(inUse)
         /\ \A n \in Defs[soln[at].name].install : \E p \in I : n \in Names(p)
<1>1. PICK U, Q, n : U = InUse.employed /\ Q = ToSet(inUse) /\ n = soln[at].name
  OBVIOUS
<1>2. StoreOK /\ U \in SUBSET Hash /\ Q \subseteq U
      /\ \A m \in Needs(n) : \E h \in Q : m \in NamesOf(h)
  <2>1. pc = "loop"
    BY DEF Missing
  <2>2. QED
    BY <1>1, <2>1, InUseFacts DEF Sound, Env, IInv
<1>3. Employable(U) \in SUBSET Packages
  BY <1>2 DEF Employable, Packages, Hash
<1>4. Minimal(I, Employable(U), Defs[n].install)
  BY <1>1, <1>3, SolutionsAreMinimal DEF InstallSolutions
<1>5. /\ I \in SUBSET Packages /\ Employable(U) \subseteq I /\ Apart(I)
      /\ \A m \in Defs[n].install : \E p \in I : m \in Names(p)
  BY <1>4 DEF Minimal, IsSolution, Provided, Wanted
<1>6. \A h \in Q : Installed(h) \in I
  BY <1>2, <1>5 DEF Employable
<1>7. PICK X : X = U \cup Generators
  OBVIOUS
<1>8. X \in SUBSET Hash /\ Generators \subseteq X /\ Employable(U) \in SUBSET Employable(X)
  BY <1>2, <1>7, GeneratorsAreAlike DEF Employable
<1>9. \A m \in Defs[n].install : \E h \in X : Installed(h) \in I /\ m \in NamesOf(h)
  <2>1. Defs[n].install = {} \/ Needs(n) = Defs[n].install
    BY <1>1 DEF Needs, IsParasite
  <2>2. QED
    BY <1>2, <1>6, <1>7, <2>1
<1>10. \A p \in I : IsInstalled(p) /\ p.hash \in Closure(X)
  BY <1>2, <1>4, <1>8, <1>9, NothingSuperfluous
<1>11. ASSUME NEW p \in I, Names(p) \cap Needs(n) # {} PROVE p.hash \in Q
  <2>1. PICK m \in Needs(n) : m \in Names(p)
    BY <1>11
  <2>2. PICK h \in Q : m \in NamesOf(h)
    BY <1>2
  <2>3. Installed(h).hash = h /\ Names(Installed(h)) = NamesOf(h) /\ Installed(h) \in I
    BY <1>2, <1>6, HashesAreInstalled
  <2>4. p = Installed(h)
    BY <1>5, <2>1, <2>2, <2>3 DEF Apart
  <2>5. QED
    BY <2>3, <2>4
<1>12. HashesOf(I) \subseteq Closure(X)
  BY <1>10 DEF HashesOf
<1>13. QED
  BY <1>1, <1>5, <1>7, <1>10, <1>11, <1>12

(* A build is given an environment without contradictions, with all that   *)
(* the definition asks for.                                                *)
LEMMA BuildDependencies ==
  ASSUME IInv, OneGenerator, Missing, NEW B \in BuildSolutions, ~ HasGhost(B)
  PROVE  /\ HashesOf(B) \subseteq Hash /\ IsFiniteSet(HashesOf(B))
         /\ InUse.employed \subseteq HashesOf(B)
         /\ Consistent(HashesOf(B))
         /\ ProvidesAll(HashesOf(B), Defs[soln[at].name].install \cup Defs[soln[at].name].build)
<1>1. PICK U, W, H : U = InUse.employed /\ H = HashesOf(B)
                     /\ W = Defs[soln[at].name].install \cup Defs[soln[at].name].build
  OBVIOUS
<1>2. /\ StoreOK /\ U \in SUBSET Hash
      /\ \A h \in U : store[h].deps \ Generators \subseteq U
  <2>1. pc = "loop"
    BY DEF Missing
  <2>2. QED
    BY <1>1, <2>1, InUseFacts DEF Sound, Env, IInv
<1>3. Employable(U) \in SUBSET Packages
  BY <1>2 DEF Employable, Packages, Hash
<1>4. Minimal(B, Employable(U), W)
  BY <1>1, <1>3, SolutionsAreMinimal DEF BuildSolutions
<1>5. /\ B \in SUBSET Packages /\ Employable(U) \subseteq B /\ Apart(B)
      /\ IsSolution(B, Employable(U), W)
      /\ \A m \in W : \E p \in B : m \in Names(p)
      /\ \A p \in B \ Employable(U) : DependenciesMet(p, B)
  BY <1>4 DEF Minimal, IsSolution, Provided, Wanted
<1>6. \A p \in B : IsInstalled(p)
  BY DEF HasGhost
<1>7. H \subseteq Hash /\ Employable(H) = B /\ IsFiniteSet(H)
  BY <1>1, <1>2, <1>5, <1>6, HashesOfSolutions
<1>8. \A h \in Hash : Installed(h) \in B => h \in H
  BY <1>1, <1>2, HashesAreInstalled DEF HashesOf
<1>9. U \subseteq H /\ Generators \subseteq H
  <2>1. U \subseteq H
    BY <1>2, <1>5, <1>8 DEF Employable
  <2>2. ASSUME NEW g \in Generators PROVE g \in H
    <3>1. Installed(g) \in B
      BY <1>2, <1>5, GeneratorIncluded
    <3>2. g \in Hash
      BY <1>2, GeneratorsAreAlike
    <3>3. QED
      BY <1>8, <3>1, <3>2
  <2>3. QED
    BY <2>1, <2>2
<1>10. ASSUME NEW h \in H, NEW d \in store[h].deps PROVE d \in H
  <2>1. CASE h \in U
    BY <1>2, <1>9, <2>1
  <2>2. CASE h \notin U
    <3>1. h \in Hash /\ Installed(h) \in B
      BY <1>7 DEF Employable
    <3>2. Installed(h).hash = h /\ IsInstalled(Installed(h))
      BY <1>2, <3>1, HashesAreInstalled
    <3>3. Installed(h) \notin Employable(U)
      <4>1. ASSUME NEW g \in U, Installed(g) = Installed(h) PROVE FALSE
        <5>1. Installed(g).hash = g
          BY <1>2, HashesAreInstalled
        <5>2. QED
          BY <2>2, <3>2, <4>1, <5>1
      <4>2. QED
        BY <4>1 DEF Employable
    <3>4. Installed(d) \in B
      BY <1>5, <3>1, <3>2, <3>3 DEF DependenciesMet
    <3>5. d \in Hash
      <4>1. store[h].deps \subseteq Hash
        BY <1>2, <3>1, HashType DEF StoreOK
      <4>2. QED
        BY <4>1
    <3>6. QED
      BY <1>8, <3>4, <3>5
  <2>3. QED
    BY <2>1, <2>2
<1>11. Consistent(H)
  BY <1>5, <1>7, <1>10 DEF Consistent, Closed
<1>12. ProvidesAll(H, W)
  <2>1. ASSUME NEW m \in W PROVE \E h \in H : m \in NamesOf(h)
    <3>1. PICK p \in B : m \in Names(p)
      BY <1>5
    <3>2. p.hash \in H /\ Names(p) = NamesOf(p.hash)
      BY <1>1, <1>2, <1>5, <1>6, PackagesAreKnown DEF Known, HashesOf
    <3>3. QED
      BY <3>1, <3>2
  <2>2. QED
    BY <2>1 DEF ProvidesAll
<1>13. QED
  BY <1>1, <1>7, <1>9, <1>11, <1>12

(* A package is about to be built.                                         *)
LEMMA BeginInstallStep ==
  ASSUME IInv, OneGenerator, BeginInstall
  PROVE  IInv' /\ BuildEnvironment' /\ Plan' = Plan
<1>1. Missing /\ pc = "loop" /\ pc' = "build" /\ soln[at].name \in DOMAIN Defs
  BY DEF BeginInstall, Missing, IsParasite
<1>2. UNCHANGED <<store, shells, request, sorting, looping>> /\ UNCHANGED <<soln, at, inUse>>
  BY DEF BeginInstall, looping
<1>a. PICK I \in InstallSolutions, B \in BuildSolutions :
         /\ ~ HasGhost(B)
         /\ iDeps' = I
         /\ \E q \in SetToSeqs(HashesOf(B) \ InUse.employed) :
               envs' = <<InUse, InUse, Employ(InUse, q)>>
  BY DEF BeginInstall
<1>3. PICK q \in SetToSeqs(HashesOf(B) \ InUse.employed) :
         envs' = <<InUse, InUse, Employ(InUse, q)>>
  BY <1>a
<1>b. PICK u, e, H : u = InUse /\ e = Employ(u, q) /\ H = HashesOf(B)
  OBVIOUS
<1>4. /\ H \subseteq Hash /\ IsFiniteSet(H) /\ u.employed \subseteq H /\ Consistent(H)
      /\ ProvidesAll(H, Defs[soln[at].name].install \cup Defs[soln[at].name].build)
  BY <1>1, <1>a, <1>b, BuildDependencies
<1>5. /\ Sound(u) /\ u.employed = Base.employed \cup ToSet(inUse)
      /\ GoodPlan(Plan, u.employed, request)
  BY <1>1, <1>b, InUseFacts
<1>6. e \in Env /\ e.employed = H
  <2>1. IsFiniteSet(H \ u.employed)
    BY <1>4, FS_Subset
  <2>2. q \in Seq(H \ u.employed) /\ ToSet(q) = H \ u.employed
    BY <1>b, <2>1, Listing
  <2>3. PICK X : X = Hash
    OBVIOUS
  <2>4. q \in Seq(X)
    BY <1>4, <2>2, <2>3
  <2>5. u \in [employed : SUBSET X, path : Seq(X)]
    BY <1>5, <2>3 DEF Sound, Env
  <2>6. /\ Employ(u, q) \in [employed : SUBSET X, path : Seq(X)]
        /\ Employ(u, q).employed = u.employed \cup ToSet(q)
    BY <2>4, <2>5, EmployType
  <2>7. QED
    BY <1>4, <1>b, <2>2, <2>3, <2>6 DEF Env
<1>7. /\ envs' = <<u, u, e>> /\ envs' \in Seq(AnyEnv) /\ Len(envs') = 3 /\ DOMAIN envs' = 1 .. 3
      /\ envs'[1] = u /\ envs'[2] = u /\ envs'[3] = e /\ u \in Env
  <2>1. u \in Env /\ u \in AnyEnv /\ e \in AnyEnv
    BY <1>5, <1>6, EnvironmentsHoldNumbers DEF Sound, IInv
  <2>2. QED
    BY <1>3, <1>b, <2>1
<1>8. Base' = u /\ Here' = Here /\ Top' = e
  BY <1>2, <1>7 DEF Base, Here, Top, Last
<1>9. StoreOK' /\ ShellsOK'
  BY <1>2, StoreKept, ShellsKept DEF IInv
<1>10. /\ Env' = Env /\ Packages' = Packages /\ Hash' = Hash /\ Generators' = Generators
       /\ Sound(u)' /\ Consistent(H)'
       /\ \A S : Closure(S)' = Closure(S)
       /\ \A p : Names(p)' = Names(p)
       /\ \A S : Employable(S)' = Employable(S)
  <2>1. /\ Env' = Env /\ Packages' = Packages /\ Hash' = Hash /\ Generators' = Generators
    BY <1>2, StoreUntouched
  <2>2. (\A env : Sound(env)' <=> Sound(env)) /\ \A S : Consistent(S)' <=> Consistent(S)
    BY <1>2, StoreUntouched
  <2>3. (\A S : Closure(S)' = Closure(S)) /\ (\A p : Names(p)' = Names(p))
        /\ \A S : Employable(S)' = Employable(S)
    BY <1>2, StoreUntouched
  <2>4. QED
    BY <1>4, <1>5, <2>1, <2>2, <2>3
<1>11. ContextOK'
  <2>1. /\ pc' = "build" /\ request' \in SUBSET Name /\ \A i \in DOMAIN envs' : envs'[i] \in Env
    BY <1>1, <1>2, <1>6, <1>7 DEF IInv, ContextOK
  <2>2. Sound(Base)'
    BY <1>8, <1>10
  <2>3. SpockItself \in u.employed /\ Here.env.employed \subseteq u.employed
    BY <1>1, <1>5 DEF IInv, ContextOK
  <2>4. QED
    BY <1>7, <1>8, <1>10, <2>1, <2>2, <2>3 DEF ContextOK, Installing
<1>12. SortOK'
  BY <1>1, <1>2, <1>10, OutsideOfTheSort DEF IInv
<1>c. Plan' = Plan
  <2>1. \A h : Installed(h)' = Installed(h)
    BY <1>2, StoreUntouched
  <2>2. QED
    BY <1>2, <2>1 DEF Plan, Installed
<1>13. LoopOK'
  <2>1. PICK plan, E, W : plan = Plan /\ E = u.employed /\ W = request
    OBVIOUS
  <2>2. \A p, X, Y : GoodPlan(p, X, Y)' <=> GoodPlan(p, X, Y)
    BY <1>2, StoreUntouched
  <2>3. GoodPlan(plan, E, W)'
    BY <1>5, <2>1, <2>2
  <2>5. GoodPlan(Plan, Base.employed, request)'
    BY <1>2, <1>8, <1>c, <2>1, <2>3
  <2>6. QED
    BY <1>1, <1>2, <1>10, <2>5 DEF IInv, LoopOK, Growing
<1>14. BuildOK'
  <2>1. /\ I \in SUBSET Packages /\ \A p \in I : IsInstalled(p)
        /\ Employable(u.employed) \subseteq I
        /\ HashesOf(I) \subseteq Closure(u.employed \cup Generators)
        /\ \A p \in I : Names(p) \cap Needs(soln[at].name) # {} => p.hash \in ToSet(inUse)
        /\ \A n \in Defs[soln[at].name].install : \E p \in I : n \in Names(p)
    BY <1>1, <1>b, InstallDependencies
  <2>2. at \in DOMAIN soln /\ ~ IsInstalled(soln[at])
    BY <1>1 DEF Missing, IInv, LoopOK, Growing
  <2>3. Employable(Base.employed)' \subseteq iDeps'
    BY <1>8, <1>10, <1>a, <2>1
  <2>4. HashesOf(iDeps)' \subseteq Closure(Base.employed \cup Generators)'
    <3>1. PICK X : X = u.employed \cup Generators
      OBVIOUS
    <3>2. X = (Base.employed \cup Generators)' /\ HashesOf(iDeps)' = HashesOf(I)
      BY <1>8, <1>10, <1>a, <3>1 DEF HashesOf
    <3>3. HashesOf(I) \subseteq Closure(X)'
      BY <1>10, <2>1, <3>1
    <3>4. QED
      BY <3>2, <3>3
  <2>5. \A p \in iDeps' : Names(p)' \cap Needs(soln'[at'].name) # {} =>
                              p.hash \in ToSet(inUse') \cup {SpockItself}
    BY <1>2, <1>10, <1>a, <2>1
  <2>6. \A n \in Defs[soln'[at'].name].install : \E p \in iDeps' : n \in Names(p)'
    BY <1>2, <1>10, <1>a, <2>1
  <2>7. iDeps' \subseteq Packages' /\ \A p \in iDeps' : IsInstalled(p)
    BY <1>10, <1>a, <2>1
  <2>8. ToSet(inUse') \subseteq Base'.employed
    BY <1>2, <1>5, <1>8
  <2>9. at' \in DOMAIN soln' /\ ~ IsInstalled(soln'[at']) /\ soln'[at'].name \in DOMAIN Defs
    BY <1>1, <1>2, <2>2
  <2>10. QED
    BY <1>1, <2>3, <2>4, <2>5, <2>6, <2>7, <2>8, <2>9 DEF BuildOK, Installing
<1>15. PostOK'
  BY <1>1 DEF PostOK
<1>16. BuildEnvironment'
  <2>1. PICK W : W = Defs[soln[at].name].install \cup Defs[soln[at].name].build
    OBVIOUS
  <2>2. \A S, V : ProvidesAll(S, V)' <=> ProvidesAll(S, V)
    BY <1>2, StoreUntouched
  <2>3. ProvidesAll(H, W)'
    BY <1>4, <2>1, <2>2
  <2>4. H = Top'.employed /\ W = (Defs[soln[at].name].install \cup Defs[soln[at].name].build)'
    BY <1>2, <1>6, <1>8, <2>1
  <2>5. Consistent(Top.employed)' /\
        ProvidesAll(Top.employed, Defs[soln[at].name].install \cup Defs[soln[at].name].build)'
    BY <1>10, <2>3, <2>4
  <2>6. QED
    BY <2>5 DEF BuildEnvironment
<1>17. QED
  BY <1>9, <1>11, <1>12, <1>13, <1>14, <1>15, <1>16, <1>c DEF IInv

(* A plan stays good when packages are installed.                          *)
LEMMA PlanGrows ==
  ASSUME StoreOK, StoreOK', StoreGrows, NEW plan, NEW E \in SUBSET Hash, NEW W, GoodPlan(plan, E, W)
  PROVE  GoodPlan(plan, E, W)'
<1>1. /\ Packages \subseteq Packages' /\ Generators' = Generators
      /\ \A p \in Packages : Names(p)' = Names(p)
      /\ \A h \in Hash : store'[h] = store[h]
  BY Growth
<1>2. \A i \in DOMAIN plan : plan[i] \in Packages /\ plan[i] \in Packages' /\ Names(plan[i])' = Names(plan[i])
  BY <1>1 DEF GoodPlan
<1>3. \A i \in DOMAIN plan : IsInstalled(plan[i]) => store'[plan[i].hash] = store[plan[i].hash]
  BY <1>1, <1>2, PackagesAreKnown DEF Known
<1>4. \A i, j \in DOMAIN plan : i # j => Names(plan[i])' \cap Names(plan[j])' = {}
  BY <1>2 DEF GoodPlan
<1>5. \A i \in DOMAIN plan : ~ IsInstalled(plan[i]) =>
          \A n \in Needs(plan[i].name) : \E j \in DOMAIN plan : j < i /\ n \in Names(plan[j])'
  BY <1>2 DEF GoodPlan
<1>6. \A n \in W : \E i \in DOMAIN plan : n \in Names(plan[i])'
  BY <1>2 DEF GoodPlan
<1>7. \A h \in E \cup Generators' : \E i \in DOMAIN plan : plan[i].hash = h
  BY <1>1 DEF GoodPlan
<1>8. \A i \in DOMAIN plan : IsInstalled(plan[i]) =>
          \A d \in store'[plan[i].hash].deps :
             \/ d \in E \cup Generators'
             \/ \E j \in DOMAIN plan : j < i /\ plan[j].hash = d
  BY <1>1, <1>3 DEF GoodPlan
<1>9. QED
  BY <1>2, <1>4, <1>5, <1>6, <1>7, <1>8 DEF GoodPlan

(* The plan stays the same when packages are installed.                    *)
LEMMA PlanKept ==
  ASSUME StoreOK, LoopOK, Growing, StoreGrows, UNCHANGED <<soln, at, inUse>>
  PROVE  Plan' = Plan
<1>1. /\ soln \in Seq(Packages) /\ at \in 1 .. (Len(soln) + 1) /\ inUse \in Seq(Hash)
      /\ Len(inUse) = at - 1 /\ Len(soln) \in Nat
  BY DEF LoopOK
<1>2. \A i \in DOMAIN soln : i < at => inUse[i] \in Hash
  BY <1>1
<1>3. \A h \in Hash : store'[h] = store[h]
  BY DEF StoreGrows, Hash
<1>4. ASSUME NEW i \in DOMAIN soln
      PROVE  (IF i < at THEN [name |-> store'[inUse[i]].name, hash |-> inUse[i]] ELSE soln[i])
               = (IF i < at THEN [name |-> store[inUse[i]].name, hash |-> inUse[i]] ELSE soln[i])
  BY <1>2, <1>3
<1>5. QED
  BY <1>4 DEF Plan, Installed

(* A package has been built, and is published.                             *)
LEMMA PublishStep ==
  ASSUME IInv, PrivateAliases, OneGenerator, Publish
  PROVE  IInv'
<1>1. pc = "build" /\ pc' = "post" /\ UNCHANGED <<shells, request, sorting, looping, iDeps>>
      /\ UNCHANGED <<soln, at, inUse>>
  BY DEF Publish, looping
<1>2. PICK q \in SetToSeqs(HashesOf(iDeps) \ Base.employed) :
         envs' = <<envs[1], envs[2], Employ(envs[2], Append(q, NewHash))>>
  BY DEF Publish
<1>3. PICK u, e : u = Base /\ e = Employ(u, Append(q, NewHash))
  OBVIOUS
<1>4. PICK n, h : n = soln[at].name /\ h = Len(store) + 1
  OBVIOUS
<1>5. /\ StoreOK /\ StoreOK' /\ StoreGrows /\ Len(store') = h
      /\ store'[h] = [name |-> n, aliases |-> Defs[n].aliases, deps |-> RecordedDeps(n)]
      /\ RecordedDeps(n) \subseteq ToSet(inUse) \cup {SpockItself}
      /\ SpockItself \in Hash
  BY <1>4, PublishAdds DEF IInv
<1>6. ShellsOK'
  BY <1>1, <1>5, ShellsKept DEF IInv
<1>7. /\ Hash \subseteq Hash' /\ Packages \subseteq Packages' /\ Generators' = Generators
      /\ \A g \in Hash : NamesOf(g)' = NamesOf(g)
      /\ \A p \in Packages : Names(p)' = Names(p)
  BY <1>5, Growth
<1>8. /\ Sound(u) /\ envs[1] = u /\ envs[2] = u /\ u \in Env /\ u.employed \in SUBSET Hash
      /\ SpockItself \in u.employed /\ Here.env.employed \subseteq u.employed
      /\ request \in SUBSET Name
  BY <1>1, <1>3 DEF IInv, ContextOK, Installing, Base, Sound, Env
<1>9. /\ iDeps \in SUBSET Packages /\ \A p \in iDeps : IsInstalled(p)
      /\ Employable(u.employed) \subseteq iDeps /\ ToSet(inUse) \subseteq u.employed
      /\ HashesOf(iDeps) \subseteq Closure(u.employed \cup Generators)
      /\ \A p \in iDeps : Names(p) \cap Needs(n) # {} => p.hash \in ToSet(inUse) \cup {SpockItself}
      /\ \A m \in Defs[n].install : \E p \in iDeps : m \in Names(p)
      /\ at \in DOMAIN soln /\ ~ IsInstalled(soln[at]) /\ n \in DOMAIN Defs
  BY <1>1, <1>3, <1>4 DEF IInv, BuildOK, Installing
<1>10. h \in Hash' /\ h \notin DOMAIN Initial /\ h \in Nat
  <2>1. Hash' = 1 .. Len(store') /\ Len(store) \in Nat
    BY <1>5, HashType, NextHashType
  <2>2. Len(Initial) <= Len(store) /\ DOMAIN Initial = 1 .. Len(Initial) /\ Len(Initial) \in Nat
    BY <1>5, ConstantsOK DEF StoreOK
  <2>3. QED
    BY <1>4, <1>5, <2>1, <2>2
<1>11. e \in Env'
  <2>1. HashesOf(iDeps) \subseteq Hash /\ IsFiniteSet(HashesOf(iDeps))
    BY <1>5, <1>9, HashesOfSolutions
  <2>2. IsFiniteSet(HashesOf(iDeps) \ u.employed)
    BY <2>1, FS_Subset
  <2>3. q \in Seq(HashesOf(iDeps) \ u.employed)
    BY <1>3, <2>2, Listing
  <2>4. PICK X : X = Hash'
    OBVIOUS
  <2>a. PICK Y : Y = HashesOf(iDeps) \ u.employed
    OBVIOUS
  <2>b. Y \subseteq X /\ h \in X
    BY <1>7, <1>10, <2>1, <2>4, <2>a
  <2>c. q \in Seq(Y)
    BY <2>3, <2>a
  <2>5. q \in Seq(X) /\ h \in X
    BY <2>b, <2>c
  <2>6. Append(q, h) \in Seq(X)
    BY <2>5
  <2>7. u \in [employed : SUBSET X, path : Seq(X)]
    <3>1. Env \subseteq Env'
      BY <1>5, GrowthOfEnvironments
    <3>2. QED
      BY <1>8, <2>4, <3>1 DEF Env
  <2>8. Employ(u, Append(q, h)) \in [employed : SUBSET X, path : Seq(X)]
    BY <2>6, <2>7, EmployType
  <2>9. QED
    BY <1>3, <1>4, <2>4, <2>8 DEF Env, NewHash
<1>12. Sound(u)' /\ u \in Env'
  BY <1>5, <1>8, GrowthOfEnvironments
<1>13. /\ envs' \in Seq(AnyEnv) /\ Len(envs') = 3 /\ DOMAIN envs' = 1 .. 3
       /\ envs'[1] = u /\ envs'[2] = u /\ envs'[3] = e
  <2>1. u \in AnyEnv /\ e \in AnyEnv
    BY <1>5, <1>11, <1>12, NextEnvironmentsHoldNumbers
  <2>2. envs' = <<u, u, e>>
    BY <1>2, <1>3, <1>8
  <2>3. QED
    BY <2>1, <2>2
<1>14. Base' = u /\ Here' = Here
  BY <1>1, <1>13 DEF Base, Here
<1>15. ContextOK'
  <2>1. Sound(Base)'
    BY <1>12, <1>14
  <2>2. QED
    BY <1>1, <1>8, <1>11, <1>12, <1>13, <1>14, <2>1 DEF ContextOK, Installing
<1>16. SortOK'
  BY <1>1, <1>7, OutsideOfTheSort DEF IInv
<1>17. LoopOK'
  <2>1. PICK plan, E, W : plan = Plan /\ E = u.employed /\ W = request
    OBVIOUS
  <2>2. GoodPlan(plan, E, W)
    BY <1>1, <1>3, <2>1 DEF IInv, LoopOK, Growing
  <2>3. GoodPlan(plan, E, W)'
    BY <1>5, <1>8, <2>1, <2>2, PlanGrows
  <2>4. Plan' = Plan
    BY <1>1, <1>5, PlanKept DEF IInv, Growing
  <2>5. GoodPlan(Plan, Base.employed, request)'
    BY <1>1, <1>14, <2>1, <2>3, <2>4
  <2>6. soln' \in Seq(Packages') /\ inUse' \in Seq(Hash')
    BY <1>1, <1>7 DEF IInv, LoopOK
  <2>7. QED
    BY <1>1, <2>5, <2>6 DEF IInv, LoopOK, Growing
<1>18. BuildOK'
  <2>1. Employable(u.employed)' = Employable(u.employed)
    BY <1>5, <1>8, GrowthOfSets
  <2>2. PICK X : X = u.employed \cup Generators
    OBVIOUS
  <2>3. Closure(X) \subseteq Closure(X)'
    <3>1. X \in SUBSET Hash
      BY <1>5, <1>8, <2>2, GeneratorsAreAlike
    <3>2. QED
      BY <1>5, <3>1, GrowthOfSets
  <2>4. X = (Base.employed \cup Generators)' /\ HashesOf(iDeps)' = HashesOf(iDeps)
    BY <1>1, <1>7, <1>14, <2>2 DEF HashesOf
  <2>5. HashesOf(iDeps)' \subseteq Closure(Base.employed \cup Generators)'
    BY <1>9, <2>2, <2>3, <2>4
  <2>6. Employable(Base.employed)' \subseteq iDeps'
    BY <1>1, <1>9, <1>14, <2>1
  <2>7. /\ \A p \in iDeps' : Names(p)' \cap Needs(soln'[at'].name) # {} =>
                                p.hash \in ToSet(inUse') \cup {SpockItself}
        /\ \A m \in Defs[soln'[at'].name].install : \E p \in iDeps' : m \in Names(p)'
    BY <1>1, <1>4, <1>7, <1>9
  <2>8. /\ iDeps' \subseteq Packages' /\ \A p \in iDeps' : IsInstalled(p)
        /\ ToSet(inUse') \subseteq Base'.employed
        /\ at' \in DOMAIN soln' /\ ~ IsInstalled(soln'[at']) /\ soln'[at'].name \in DOMAIN Defs
    BY <1>1, <1>4, <1>7, <1>9, <1>14
  <2>9. QED
    BY <1>1, <2>5, <2>6, <2>7, <2>8 DEF BuildOK, Installing
<1>19. PostOK'
  <2>1. ASSUME NEW j \in DOMAIN inUse, NamesOf(inUse[j])' \cap Needs(n) # {}
        PROVE  inUse[j] \in RecordedDeps(n)
    <3>1. PICK g : g = inUse[j]
      OBVIOUS
    <3>2. g \in u.employed /\ g \in Hash
      BY <1>8, <1>9, <3>1 DEF ToSet
    <3>3. NamesOf(g) \cap Needs(n) # {}
      BY <1>1, <1>7, <2>1, <3>1, <3>2
    <3>4. Installed(g) \in iDeps /\ Installed(g).hash = g /\ Names(Installed(g)) = NamesOf(g)
      BY <1>5, <1>9, <3>2, HashesAreInstalled DEF Employable
    <3>5. QED
      BY <3>1, <3>3, <3>4 DEF RecordedDeps
  <2>2. Host' = h
    BY <1>5 DEF Host
  <2>3. /\ store'[h].name = n /\ store'[h].aliases = Defs[n].aliases
        /\ store'[h].deps = RecordedDeps(n)
    BY <1>5
  <2>4. \A j \in DOMAIN inUse' : NamesOf(inUse[j])' \cap Needs(n) # {} => inUse'[j] \in RecordedDeps(n)
    BY <1>1, <2>1
  <2>5. QED
    BY <1>1, <1>4, <1>5, <1>10, <2>2, <2>3, <2>4 DEF PostOK
<1>20. QED
  BY <1>5, <1>6, <1>15, <1>16, <1>17, <1>18, <1>19 DEF IInv
(* In plan r, the ghost that p has at i has given way to a parasite of the *)
(* package at k.                                                           *)
StandsIn(p, r, i, k) ==
    /\ k < i /\ ~ IsInstalled(p[i])
    /\ r[i] = [name |-> p[i].name, hash |-> r[i].hash] /\ r[i].hash \in Hash'
    /\ store'[r[i].hash].name = p[i].name
    /\ {store'[r[i].hash].name} \cup store'[r[i].hash].aliases = GhostNames(p[i].name)
    /\ store'[r[i].hash].deps = {SpockItself, r[k].hash} \cup Generators
    /\ Needs(p[i].name) = {p[k].name}

(* Plan r is p with the ghost at k, and of its parasites' ghosts some,     *)
(* installed.                                                              *)
Advances(p, r, k, E) ==
    /\ DOMAIN r = DOMAIN p /\ k \in DOMAIN p
    /\ ~ IsInstalled(p[k]) /\ p[k].name \in DOMAIN Defs
    /\ r[k] = [name |-> p[k].name, hash |-> r[k].hash] /\ r[k].hash \in Hash'
    /\ store'[r[k].hash].name = p[k].name
    /\ store'[r[k].hash].aliases = Defs[p[k].name].aliases
    /\ store'[r[k].hash].deps \subseteq E
    /\ \A i \in DOMAIN p \ {k} : r[i] = p[i] \/ StandsIn(p, r, i, k)

(* A good plan stays good as it advances.                                  *)
LEMMA PlanAdvances ==
  ASSUME StoreOK, StoreOK', StoreGrows, PrivateAliases, OneHost, OneGenerator,
         NEW p, NEW r, NEW k, NEW E \in SUBSET Hash, NEW W,
         SpockItself \in E, GoodPlan(p, E, W), Advances(p, r, k, E)
  PROVE  /\ GoodPlan(r, E, W)'
         /\ \A i \in DOMAIN p : Names(p[i]) \subseteq Names(r[i])' /\ (IsInstalled(p[i]) => r[i] = p[i])
<1> DEFINE n == p[k].name
<1>1. /\ Hash \subseteq Hash' /\ Packages \subseteq Packages' /\ Generators' = Generators
      /\ \A x \in Packages : Names(x)' = Names(x)
      /\ \A h \in Hash : NamesOf(h)' = NamesOf(h) /\ store'[h] = store[h]
  BY Growth
<1>2. /\ DOMAIN r = DOMAIN p /\ k \in DOMAIN p /\ ~ IsInstalled(p[k]) /\ n \in DOMAIN Defs
      /\ \A i \in DOMAIN p \ {k} : r[i] = p[i] \/ StandsIn(p, r, i, k)
  BY DEF Advances
<1>3. \A i \in DOMAIN p : p[i] \in Packages /\ Known(p[i])
  BY PackagesAreKnown DEF GoodPlan
<1>4. ASSUME NEW i \in DOMAIN p, IsInstalled(p[i]) PROVE r[i] = p[i]
  BY <1>2, <1>4 DEF StandsIn
<1>5. ASSUME NEW x, x.hash \in Hash', x = [name |-> store'[x.hash].name, hash |-> x.hash]
      PROVE  /\ x \in Packages' /\ IsInstalled(x)
             /\ Names(x)' = {store'[x.hash].name} \cup store'[x.hash].aliases
  <2>1. PICK h : h = x.hash
    OBVIOUS
  <2>2. Installed(h)' = x
    BY <1>5, <2>1 DEF Installed
  <2>3. Installed(h)' \in Packages' /\ IsInstalled(Installed(h))'
    BY <1>5, <2>1, NextHashesAreInstalled
  <2>4. IsInstalled(x)
    BY <1>5, NextHashType DEF IsInstalled, NoHash
  <2>5. Names(x)' = {store'[x.hash].name} \cup store'[x.hash].aliases
    BY <2>4 DEF Names, NamesOf
  <2>6. QED
    BY <2>2, <2>3, <2>4, <2>5
<1>6. /\ r[k] \in Packages' /\ IsInstalled(r[k]) /\ Names(r[k])' = {n} \cup Defs[n].aliases
  BY <1>5 DEF Advances
<1>7. ASSUME NEW i \in DOMAIN p \ {k} PROVE r[i] \in Packages' /\ Names(r[i])' = Names(p[i])
  <2>1. CASE r[i] = p[i]
    BY <1>1, <1>3, <2>1
  <2>2. CASE StandsIn(p, r, i, k)
    <3>1. r[i] \in Packages' /\ Names(r[i])' = GhostNames(p[i].name)
      BY <1>5, <2>2 DEF StandsIn
    <3>2. Names(p[i]) = GhostNames(p[i].name)
      BY <1>3, <2>2 DEF StandsIn, Known
    <3>3. QED
      BY <3>1, <3>2
  <2>3. QED
    BY <1>2, <2>1, <2>2
<1>8. Names(p[k]) = {n}
  <2>1. Names(p[k]) = GhostNames(n)
    BY <1>2, <1>3 DEF Known
  <2>2. Hosts(n) = {}
    <3>1. n \in Name
      BY <1>2, ConstantsOK
    <3>2. QED
      BY <1>2, <3>1 DEF OneHost
  <2>3. QED
    BY <2>1, <2>2 DEF GhostNames
<1>9. \A i \in DOMAIN p : Names(p[i]) \subseteq Names(r[i])'
  BY <1>6, <1>7, <1>8
<1>10. ASSUME NEW j \in DOMAIN p \ {k} PROVE Names(r[k])' \cap Names(r[j])' = {}
  <2>1. n \notin Names(p[j])
    BY <1>2, <1>8 DEF GoodPlan
  <2>2. ASSUME NEW a \in Defs[n].aliases, a \in Names(p[j]) PROVE FALSE
    <3>1. CASE IsInstalled(p[j])
      <4>1. p[j].hash \in Hash /\ Names(p[j]) = NamesOf(p[j].hash)
        BY <1>3, <3>1 DEF Known
      <4>2. store[p[j].hash].name = n
        BY <1>2, <2>2, <4>1 DEF StoreOK
      <4>3. QED
        BY <2>1, <4>1, <4>2 DEF NamesOf
    <3>2. CASE ~ IsInstalled(p[j])
      <4>1. p[j].name \in GhostName /\ p[j].name \in Names(p[j]) /\ Names(p[j]) = GhostNames(p[j].name)
        BY <1>3, <3>2 DEF Known
      <4>2. p[j].name # n
        BY <2>1, <4>1
      <4>3. QED
        BY <1>2, <2>2, <4>1, <4>2 DEF PrivateAliases
    <3>3. QED
      BY <3>1, <3>2
  <2>3. QED
    BY <1>6, <1>7, <2>1, <2>2
<1>11. ASSUME NEW i \in DOMAIN p, NEW j \in DOMAIN p, i # j
       PROVE  Names(r[i])' \cap Names(r[j])' = {}
  <2>1. CASE i = k
    BY <1>10, <1>11, <2>1
  <2>2. CASE j = k
    BY <1>10, <1>11, <2>2
  <2>3. CASE i # k /\ j # k
    BY <1>7, <1>11, <2>3 DEF GoodPlan
  <2>4. QED
    BY <2>1, <2>2, <2>3
<1>12. ASSUME NEW h \in Hash, NEW i \in DOMAIN p, p[i].hash = h PROVE r[i].hash = h
  <2>1. IsInstalled(p[i])
    BY <1>12, HashType DEF IsInstalled, NoHash
  <2>2. QED
    BY <1>4, <1>12, <2>1
<1>13. ASSUME NEW h \in E \cup Generators' PROVE \E i \in DOMAIN r : r[i].hash = h
  <2>1. h \in Hash /\ h \in E \cup Generators
    BY <1>1, <1>13, GeneratorsAreAlike
  <2>2. PICK i \in DOMAIN p : p[i].hash = h
    BY <2>1 DEF GoodPlan
  <2>3. QED
    BY <1>2, <1>12, <2>1, <2>2
<1>14. ASSUME NEW m \in W PROVE \E i \in DOMAIN r : m \in Names(r[i])'
  <2>1. PICK i \in DOMAIN p : m \in Names(p[i])
    BY DEF GoodPlan
  <2>2. QED
    BY <1>2, <1>9, <2>1
<1>15. ASSUME NEW i \in DOMAIN r, IsInstalled(r[i]), NEW d \in store'[r[i].hash].deps
       PROVE  d \in E \cup Generators' \/ \E j \in DOMAIN r : j < i /\ r[j].hash = d
  <2>1. CASE i = k
    BY <1>15, <2>1 DEF Advances
  <2>2. CASE i # k /\ StandsIn(p, r, i, k)
    <3>1. d \in {SpockItself, r[k].hash} \cup Generators /\ k < i
      BY <1>15, <2>2 DEF StandsIn
    <3>2. QED
      BY <1>1, <1>2, <3>1
  <2>3. CASE r[i] = p[i]
    <3>1. IsInstalled(p[i]) /\ p[i].hash \in Hash
      BY <1>2, <1>3, <1>15, <2>3 DEF Known
    <3>2. d \in store[p[i].hash].deps
      BY <1>1, <1>15, <2>3, <3>1
    <3>3. d \in Hash
      <4>1. store[p[i].hash].deps \subseteq Hash
        BY <3>1, HashType DEF StoreOK
      <4>2. QED
        BY <3>2, <4>1
    <3>4. d \in E \cup Generators \/ \E j \in DOMAIN p : j < i /\ p[j].hash = d
      BY <1>2, <3>1, <3>2 DEF GoodPlan
    <3>5. QED
      BY <1>1, <1>2, <1>12, <3>3, <3>4
  <2>4. QED
    BY <1>2, <2>1, <2>2, <2>3
<1>16. ASSUME NEW i \in DOMAIN r, ~ IsInstalled(r[i]), NEW m \in Needs(r[i].name)
       PROVE  \E j \in DOMAIN r : j < i /\ m \in Names(r[j])'
  <2>1. i # k
    BY <1>6, <1>16
  <2>2. ~ StandsIn(p, r, i, k)
    BY <1>5, <1>16 DEF StandsIn
  <2>3. r[i] = p[i]
    BY <1>2, <2>1, <2>2
  <2>4. PICK j \in DOMAIN p : j < i /\ m \in Names(p[j])
    BY <1>2, <1>16, <2>3 DEF GoodPlan
  <2>5. QED
    BY <1>2, <1>9, <2>4
<1>17. \A i \in DOMAIN r : r[i] \in Packages'
  BY <1>2, <1>6, <1>7
<1>18. GoodPlan(r, E, W)'
  BY <1>2, <1>11, <1>13, <1>14, <1>15, <1>16, <1>17 DEF GoodPlan
<1>19. QED
  BY <1>4, <1>9, <1>18
(* The place of the first parasite of a name.                              *)
FirstNamed(s, m) == SelectInSeq(s, LAMBDA p : p.name = m)

(* The first parasite of a name is one of that name.                       *)
LEMMA FirstOfItsName ==
  ASSUME NEW s \in Seq(Parasite), NEW m, \E i \in DOMAIN s : s[i].name = m
  PROVE  FirstNamed(s, m) \in DOMAIN s /\ s[FirstNamed(s, m)].name = m
<1> DEFINE I == {i \in 1 .. Len(s) : s[i].name = m}
<1>1. DOMAIN s = 1 .. Len(s) /\ Len(s) \in Nat
  OBVIOUS
<1>2. I # {} /\ I \in SUBSET Nat /\ \A i \in I : i \in DOMAIN s /\ s[i].name = m
  BY <1>1
<1>3. FirstNamed(s, m) = IF I # {} THEN Min(I) ELSE 0
  BY DEF FirstNamed, SelectInSeq
<1> HIDE DEF I
<1>4. Min(I) \in I
  <2>1. \E x \in I : \A y \in I : x <= y
    BY <1>2, NatMin
  <2>2. QED
    BY <2>1 DEF Min
<1>5. QED
  BY <1>2, <1>3, <1>4

(* A sequence over a set is one over any larger set.                       *)
LEMMA SequenceWidened ==
  ASSUME NEW X, NEW Y \in SUBSET X, NEW s \in Seq(Y)
  PROVE  s \in Seq(X)
<1>1. s = [i \in 1 .. Len(s) |-> s[i]] /\ Len(s) \in Nat
  OBVIOUS
<1>2. \A i \in 1 .. Len(s) : s[i] \in Y
  OBVIOUS
<1>3. \A i \in 1 .. Len(s) : s[i] \in X
  BY <1>2
<1>4. QED
  BY <1>1, <1>3

(* A package and its parasites are installed; the loop goes on.            *)
LEMMA PostInstallStep ==
  ASSUME IInv, PrivateAliases, OneHost, OneGenerator, PostInstall
  PROVE  IInv' /\ Base' = Base /\ Advances(Plan, Plan', at, Base.employed)
         /\ Plan'[at].hash = Host
<1>1. PICK s \in Installable(soln[at].name) :
         store' = store \o ParasiteRecords(s) /\ soln' = Replaced(s)
  BY DEF PostInstall
<1>2. /\ pc = "post" /\ pc' = "loop" /\ envs' = <<Base>> /\ inUse' = Append(inUse, Host)
      /\ at' = at + 1 /\ iDeps' = {} /\ UNCHANGED <<shells, request, sorting>>
  BY DEF PostInstall
<1>3. PICK n, g, k, u : n = soln[at].name /\ g = Host /\ k = at /\ u = Base
  OBVIOUS
<1>4. /\ StoreOK /\ StoreOK' /\ StoreGrows /\ Len(store') = g + Len(s)
      /\ \A i \in DOMAIN s : store'[g + i] = [name |-> s[i].name, aliases |-> s[i].aliases,
                                              deps |-> {SpockItself, g} \cup Generators]
  BY <1>1, <1>2, <1>3, ParasitesAdded DEF IInv, Host
<1>5. ShellsOK'
  BY <1>2, <1>4, ShellsKept DEF IInv
<1>6. /\ n \in DOMAIN Defs /\ k \in DOMAIN soln /\ ~ IsInstalled(soln[k])
      /\ ToSet(inUse) \subseteq u.employed
      /\ store[g].name = n /\ store[g].aliases = Defs[n].aliases
      /\ store[g].deps \subseteq ToSet(inUse) \cup {SpockItself}
  BY <1>2, <1>3 DEF IInv, BuildOK, PostOK, Installing
<1>7. /\ s \in Seq(Parasite)
      /\ \A i \in DOMAIN s : /\ GhostNames(s[i].name) = {s[i].name} \cup s[i].aliases
                             /\ Needs(s[i].name) = {n}
  <2>1. /\ s \in Seq(Parasite)
        /\ \A i \in DOMAIN s : /\ GhostNames(s[i].name) = {s[i].name} \cup s[i].aliases
                               /\ s[i].name \notin DOMAIN Defs /\ Hosts(s[i].name) = {n}
    <3>1. n \in DOMAIN Defs /\ s \in Installable(n)
      BY <1>1, <1>3, <1>6
    <3>2. /\ s \in Seq(Parasite)
          /\ \A i \in DOMAIN s :
               /\ s[i] \in ParasitesOf(n) /\ s[i] \in Parasite
               /\ s[i].name \in GhostName \ DOMAIN Defs /\ Hosts(s[i].name) = {n}
               /\ GhostNames(s[i].name) = {s[i].name} \cup s[i].aliases
      BY <3>1, ParasitesInstalled
    <3>3. QED
      BY <3>2
  <2>2. \A m : m \notin DOMAIN Defs => Needs(m) = Hosts(m)
    BY DEF Needs, IsParasite
  <2>3. QED
    BY <2>1, <2>2
<1>8. /\ g \in Hash /\ g \in Hash' /\ g \in Nat /\ store'[g] = store[g]
      /\ \A i \in DOMAIN s : g + i \in Hash'
  <2>1. Hash' = 1 .. (g + Len(s)) /\ Hash = 1 .. g /\ g \in Nat
    BY <1>3, <1>4, HashType, NextHashType DEF Host
  <2>2. Hash # {}
    BY <1>4, SpockIsInstalled
  <2>3. g \in Hash
    BY <2>1, <2>2
  <2>4. DOMAIN s = 1 .. Len(s) /\ Len(s) \in Nat
    BY <1>7
  <2>5. \A i \in DOMAIN s : g + i \in Hash'
    BY <2>1, <2>4
  <2>6. QED
    BY <1>4, <2>1, <2>3, <2>5 DEF StoreGrows, Hash
<1>9. /\ Hash \subseteq Hash' /\ Packages \subseteq Packages'
      /\ \A h \in Hash : store'[h] = store[h]
  BY <1>4, Growth
<1>10. /\ Sound(u) /\ u \in Env /\ u.employed \in SUBSET Hash /\ SpockItself \in u.employed
       /\ Here.env.employed \subseteq u.employed /\ request \in SUBSET Name
  BY <1>2, <1>3 DEF IInv, ContextOK, Sound, Env
<1>11. /\ soln \in Seq(Packages) /\ DOMAIN soln = 1 .. Len(soln) /\ Len(soln) \in Nat
       /\ k \in 1 .. Len(soln) /\ inUse \in Seq(Hash) /\ Len(inUse) = k - 1
       /\ GoodPlan(Plan, u.employed, request)
  BY <1>2, <1>3, <1>6 DEF IInv, LoopOK, Growing
<1>12. /\ inUse' \in Seq(Hash') /\ Len(inUse') = k /\ inUse'[k] = g
       /\ \A i \in 1 .. (k - 1) : inUse'[i] = inUse[i] /\ inUse[i] \in Hash
  <2>1. PICK X : X = Hash'
    OBVIOUS
  <2>a. PICK Y : Y = Hash
    OBVIOUS
  <2>b. inUse \in Seq(Y) /\ Y \subseteq X
    BY <1>9, <1>11, <2>1, <2>a
  <2>2. inUse \in Seq(X) /\ g \in X
    BY <1>8, <2>1, <2>b, SequenceWidened
  <2>3. inUse' = Append(inUse, g)
    BY <1>2, <1>3
  <2>4. /\ inUse' \in Seq(X) /\ Len(inUse') = k /\ inUse'[k] = g
        /\ \A i \in 1 .. (k - 1) : inUse'[i] = inUse[i]
    BY <1>11, <2>2, <2>3
  <2>5. \A i \in 1 .. (k - 1) : inUse[i] \in Hash
    BY <1>11
  <2>6. QED
    BY <2>1, <2>4, <2>5
<1>13. PICK p, r, E, W : p = Plan /\ r = Plan' /\ E = u.employed /\ W = request
  OBVIOUS
<1>14. /\ DOMAIN p = DOMAIN soln
       /\ \A i \in DOMAIN soln : p[i] = IF i < k THEN [name |-> store[inUse[i]].name, hash |-> inUse[i]]
                                                 ELSE soln[i]
  BY <1>3, <1>13 DEF Plan, Installed
<1>15. DOMAIN soln' = DOMAIN soln
  BY <1>1 DEF Replaced
<1>16. /\ DOMAIN r = DOMAIN soln
       /\ \A i \in DOMAIN soln : r[i] = IF i < k + 1 THEN [name |-> store'[inUse'[i]].name, hash |-> inUse'[i]]
                                                     ELSE soln'[i]
  BY <1>2, <1>3, <1>13, <1>15 DEF Plan, Installed
<1>17. r[k] = [name |-> n, hash |-> g] /\ p[k] = soln[k]
  BY <1>6, <1>8, <1>11, <1>12, <1>14, <1>16
<1>18. ASSUME NEW i \in DOMAIN soln \ {k} PROVE r[i] = p[i] \/ StandsIn(p, r, i, k)
  <2>1. CASE i < k
    <3>1. inUse'[i] = inUse[i] /\ inUse[i] \in Hash
      BY <1>11, <1>12, <2>1
    <3>2. store'[inUse[i]] = store[inUse[i]]
      BY <1>9, <3>1
    <3>3. i < k + 1
      BY <1>11, <2>1
    <3>4. QED
      BY <1>14, <1>16, <2>1, <3>1, <3>2, <3>3
  <2>2. CASE k < i
    <3>1. r[i] = soln'[i] /\ p[i] = soln[i]
      BY <1>11, <1>14, <1>16, <2>2
    <3>2. CASE ~ IsInstalled(soln[i]) /\ \E j \in DOMAIN s : s[j].name = soln[i].name
      <4>1. PICK m : m = soln[i].name
        OBVIOUS
      <4>2. PICK j : j = FirstNamed(s, m)
        OBVIOUS
      <4>3. j \in DOMAIN s /\ s[j].name = m
        BY <1>7, <3>2, <4>1, <4>2, FirstOfItsName
      <4>4. soln'[i] = [name |-> m, hash |-> g + j]
        BY <1>1, <1>3, <2>2, <3>2, <4>1, <4>2 DEF Replaced, FirstNamed
      <4>5. /\ store'[g + j].name = m /\ store'[g + j].aliases = s[j].aliases
            /\ store'[g + j].deps = {SpockItself, g} \cup Generators
            /\ g + j \in Hash'
        <5>1. store'[g + j] = [name |-> s[j].name, aliases |-> s[j].aliases,
                               deps |-> {SpockItself, g} \cup Generators]
          BY <1>4, <4>3
        <5>2. QED
          BY <1>8, <4>3, <5>1
      <4>6. {m} \cup s[j].aliases = GhostNames(m) /\ Needs(m) = {n} /\ p[k].name = n
        BY <1>3, <1>7, <1>17, <4>3
      <4>7. r[i].hash = g + j /\ r[i] = [name |-> m, hash |-> r[i].hash] /\ r[k].hash = g
        BY <1>17, <3>1, <4>4
      <4>8. QED
        BY <2>2, <3>1, <3>2, <4>1, <4>5, <4>6, <4>7 DEF StandsIn
    <3>3. CASE ~ (~ IsInstalled(soln[i]) /\ \E j \in DOMAIN s : s[j].name = soln[i].name)
      <4>1. soln'[i] = soln[i]
        BY <1>1, <3>3 DEF Replaced
      <4>2. QED
        BY <3>1, <4>1
    <3>4. QED
      BY <3>2, <3>3
  <2>3. QED
    BY <1>11, <2>1, <2>2
<1>19. Advances(p, r, k, E)
  <2>1. r[k].hash = g /\ p[k].name = n /\ ~ IsInstalled(p[k])
    BY <1>3, <1>6, <1>17
  <2>2. store[g].deps \subseteq E
    BY <1>6, <1>10, <1>13
  <2>3. QED
    BY <1>6, <1>8, <1>14, <1>16, <1>17, <1>18, <2>1, <2>2 DEF Advances
<1>20. GoodPlan(r, E, W)'
  <2>1. GoodPlan(p, E, W) /\ E \in SUBSET Hash /\ SpockItself \in E
    BY <1>10, <1>11, <1>13
  <2>2. QED
    BY <1>4, <1>19, <2>1, PlanAdvances
<1>21. /\ envs' = <<u>> /\ envs' \in Seq(AnyEnv) /\ Len(envs') = 1 /\ DOMAIN envs' = {1}
       /\ envs'[1] = u
  <2>1. u \in AnyEnv
    BY <1>4, <1>10, EnvironmentsHoldNumbers
  <2>2. QED
    BY <1>2, <1>3, <2>1
<1>22. Base' = u /\ Here' = Here
  BY <1>2, <1>21 DEF Base, Here
<1>23. Sound(u)' /\ u \in Env'
  BY <1>4, <1>10, GrowthOfEnvironments
<1>24. ContextOK'
  <2>1. Sound(Base)'
    BY <1>22, <1>23
  <2>2. QED
    BY <1>2, <1>10, <1>21, <1>22, <1>23, <2>1 DEF ContextOK, Installing
<1>25. LoopOK'
  <2>1. \A i \in DOMAIN soln : soln'[i] \in Packages'
    <3>1. ASSUME NEW i \in DOMAIN soln PROVE soln'[i] \in Packages'
      <4>1. CASE i <= k
        <5>1. soln'[i] = soln[i]
          BY <1>1, <1>3, <1>11, <4>1 DEF Replaced
        <5>2. QED
          BY <1>9, <1>11, <5>1
      <4>2. CASE ~ (i <= k)
        <5>1. soln'[i] = r[i]
          BY <1>11, <1>16, <4>2
        <5>2. QED
          BY <1>16, <1>20, <5>1 DEF GoodPlan
      <4>3. QED
        BY <4>1, <4>2
    <3>2. QED
      BY <3>1
  <2>2. soln' \in Seq(Packages') /\ Len(soln') = Len(soln)
    <3>1. soln' = [i \in 1 .. Len(soln) |-> soln'[i]]
      BY <1>1, <1>11 DEF Replaced
    <3>2. PICK X : X = Packages'
      OBVIOUS
    <3>3. \A i \in 1 .. Len(soln) : soln'[i] \in X
      BY <1>11, <2>1, <3>2
    <3>4. QED
      BY <1>11, <3>1, <3>2, <3>3
  <2>3. at' \in 1 .. (Len(soln') + 1) /\ at' \in Nat /\ Len(inUse') = at' - 1
    BY <1>2, <1>3, <1>11, <1>12, <2>2
  <2>4. GoodPlan(Plan, Base.employed, request)'
    BY <1>2, <1>13, <1>20, <1>22
  <2>5. QED
    BY <1>2, <1>12, <2>2, <2>3, <2>4 DEF LoopOK, Growing
<1>26. BuildOK' /\ PostOK'
  BY <1>2 DEF BuildOK, PostOK, Installing
<1>27. SortOK'
  BY <1>2, <1>9, OutsideOfTheSort DEF IInv
<1>28. QED
  <2>1. Plan'[at].hash = Host /\ Advances(Plan, Plan', at, Base.employed)
    BY <1>3, <1>13, <1>17, <1>19
  <2>2. QED
    BY <1>3, <1>4, <1>5, <1>22, <1>24, <1>25, <1>26, <1>27, <2>1 DEF IInv

-----------------------------------------------------------------------------
(* The theorems *)

(* The login shell employs nothing.                                        *)
LEMMA InitOK == ASSUME PrivateAliases, Init PROVE IInv /\ BuildEnvironment
<1>1. /\ store = Initial /\ shells = <<[env |-> NoEnv, request |-> {}]>>
      /\ pc = "prompt" /\ request = {} /\ envs = <<>>
      /\ left = {} /\ heads = <<>> /\ order = <<>>
      /\ soln = <<>> /\ at = 0 /\ inUse = <<>> /\ iDeps = {}
  BY DEF Init
<1>2. StoreOK
  <2>1. Initial \in Seq(Record(Nat)) /\ Len(Initial) \in Nat
    BY ConstantsOK
  <2>2. \A h \in DOMAIN Initial : Initial[h].deps \subseteq 1 .. (h - 1)
    BY ConstantsOK DEF Record
  <2>3. \A h \in Hash : NamesOf(h) = InitialNames(h)
    BY <1>1 DEF NamesOf, InitialNames
  <2>4. \A h \in Hash, n \in DOMAIN Defs :
          NamesOf(h) \cap Defs[n].aliases # {} => store[h].name = n
    BY <1>1, <2>3 DEF PrivateAliases, Hash
  <2>5. QED
    BY <1>1, <2>1, <2>2, <2>4 DEF StoreOK, Hash
<1>3. ShellsOK
  <2>1. NoEnv \in Env /\ NoEnv \in AnyEnv /\ NoEnv.employed = {} /\ NoEnv.path = <<>>
    BY DEF NoEnv, Env, AnyEnv
  <2>2. Sound(NoEnv)
    BY <2>1 DEF Sound, ToSet
  <2>3. Consistent({})
    BY DEF Consistent, Apart, Closed, Employable
  <2>4. DOMAIN shells = {1} /\ shells # <<>> /\ shells[1] = [env |-> NoEnv, request |-> {}]
    BY <1>1
  <2>5. shells \in Seq([env : AnyEnv, request : SUBSET Name])
    BY <1>1, <2>1
  <2>6. Sound(shells[1].env) /\ Consistent(shells[1].env.employed) /\ shells[1].env.employed = {}
    <3>1. shells[1].env = NoEnv /\ shells[1].env.employed = {}
      BY <2>1, <2>4
    <3>2. QED
      BY <2>2, <2>3, <3>1
  <2>7. ShellOK(1)
    BY <2>6 DEF ShellOK
  <2>8. QED
    BY <2>4, <2>5, <2>7 DEF ShellsOK
<1>4. ContextOK
  <2>1. envs \in Seq(AnyEnv) /\ Len(envs) = 0 /\ DOMAIN envs = {}
    BY <1>1
  <2>2. QED
    BY <1>1, <2>1 DEF ContextOK, Installing
<1>5. SortOK
  BY <1>1 DEF SortOK
<1>6. LoopOK
  BY <1>1 DEF LoopOK, Growing
<1>7. BuildOK /\ PostOK /\ BuildEnvironment
  BY <1>1 DEF BuildOK, PostOK, BuildEnvironment, Installing
<1>8. QED
  BY <1>2, <1>3, <1>4, <1>5, <1>6, <1>7 DEF IInv

(* A step that changes nothing.                                            *)
LEMMA StutteringStep == ASSUME IInv /\ BuildEnvironment, UNCHANGED vars PROVE IInv' /\ BuildEnvironment'
<1>1. UNCHANGED <<store, shells, pc, request, envs, left, heads, order, soln, at, inUse, iDeps>>
  BY DEF vars, sorting, looping
<1>2. /\ Hash' = Hash /\ Packages' = Packages /\ Generators' = Generators /\ Env' = Env
      /\ StoreOK' /\ ShellsOK'
  BY <1>1, StoreUntouched, StoreKept, ShellsKept DEF IInv
<1>3. /\ Base' = Base /\ Here' = Here /\ Top' = Top
  BY <1>1 DEF Base, Here, Top
<1>4. /\ \A h : NamesOf(h)' = NamesOf(h) /\ Installed(h)' = Installed(h)
      /\ \A p : Names(p)' = Names(p)
      /\ \A p, q : DependsOn(p, q)' <=> DependsOn(p, q)
  BY <1>1, StoreUntouched
<1>5. /\ \A S, E, W : Minimal(S, E, W)' <=> Minimal(S, E, W)
      /\ \A H : Employable(H)' = Employable(H) /\ Closure(H)' = Closure(H)
      /\ \A H : Consistent(H)' <=> Consistent(H)
      /\ \A H, W : ProvidesAll(H, W)' <=> ProvidesAll(H, W)
  BY <1>1, StoreUntouched
<1>6. /\ \A env : Sound(env)' <=> Sound(env)
      /\ \A plan, E, W : GoodPlan(plan, E, W)' <=> GoodPlan(plan, E, W)
  BY <1>1, StoreUntouched
<1>7. PICK base, W, plan, L : base = Base /\ W = request /\ plan = Plan /\ L = left \cup ToSet(order)
  OBVIOUS
<1>8. ContextOK'
  <2>1. (Sound(Base)' <=> Sound(Base)) /\ (Consistent(Base.employed)' <=> Consistent(Base.employed))
    BY <1>3, <1>5, <1>6, <1>7
  <2>2. QED
    BY <1>1, <1>2, <1>3, <2>1 DEF IInv, ContextOK, Installing
<1>9. SortOK'
  <2>1. Minimal(left \cup ToSet(order), Employable(Base.employed), request)'
          <=> Minimal(left \cup ToSet(order), Employable(Base.employed), request)
    <3>1. PICK E : E = Employable(base.employed)
      OBVIOUS
    <3>2. E = Employable(Base.employed)' /\ L = (left \cup ToSet(order))' /\ W = request'
      BY <1>1, <1>3, <1>5, <1>7, <3>1
    <3>3. QED
      BY <1>5, <1>7, <3>1, <3>2
  <2>2. Sorted' <=> Sorted
    BY <1>1, <1>4, <2>1 DEF Sorted
  <2>3. QED
    BY <1>1, <1>2, <2>2 DEF IInv, SortOK
<1>10. LoopOK'
  <2>1. Plan' = Plan
    BY <1>1, <1>4 DEF Plan, Installed
  <2>2. GoodPlan(Plan, Base.employed, request)' <=> GoodPlan(Plan, Base.employed, request)
    BY <1>1, <1>3, <1>6, <1>7, <2>1
  <2>3. QED
    BY <1>1, <1>2, <2>2 DEF IInv, LoopOK, Growing
<1>11. BuildOK'
  <2>1. Employable(Base.employed)' = Employable(Base.employed)
    BY <1>3, <1>5, <1>7
  <2>2. Closure(Base.employed \cup Generators)' = Closure(Base.employed \cup Generators)
    <3>1. PICK X : X = Base.employed \cup Generators
      OBVIOUS
    <3>2. QED
      BY <1>2, <1>3, <1>5, <3>1
  <2>3. HashesOf(iDeps)' = HashesOf(iDeps)
    BY <1>1 DEF HashesOf
  <2>4. QED
    BY <1>1, <1>2, <1>3, <1>4, <2>1, <2>2, <2>3 DEF IInv, BuildOK, Installing
<1>12. PostOK'
  <2>1. \A j \in DOMAIN inUse : NamesOf(inUse[j])' = NamesOf(inUse[j])
    BY <1>1 DEF NamesOf
  <2>2. QED
    BY <1>1, <2>1 DEF IInv, PostOK, Host
<1>13. BuildEnvironment'
  BY <1>1, <1>3, <1>5 DEF BuildEnvironment
<1>14. QED
  BY <1>2, <1>8, <1>9, <1>10, <1>11, <1>12, <1>13 DEF IInv

(* Each step keeps the invariant.                                          *)
LEMMA NextOK ==
  ASSUME WellFormed, IInv /\ BuildEnvironment, [Next]_vars
  PROVE  IInv' /\ BuildEnvironment'
<1>1. IInv /\ IsFiniteSet(Name) /\ PrivateAliases /\ OneHost /\ OneGenerator /\ NoCycle
  BY DEF WellFormed
<1>a. pc' # "build" => BuildEnvironment'
  BY DEF BuildEnvironment
<1>2. CASE Start
  BY <1>1, <1>2, <1>a, StartStep DEF Start
<1>3. CASE LeaveShell
  BY <1>1, <1>3, <1>a, LeaveShellStep DEF LeaveShell
<1>4. CASE NoSolution
  BY <1>1, <1>4, <1>a, ExitStep DEF NoSolution, Exit
<1>5. CASE Solve
  BY <1>1, <1>5, <1>a, SolveStep DEF Solve
<1>6. CASE RemoveHead
  BY <1>1, <1>6, <1>a, RemoveHeadStep DEF RemoveHead
<1>7. CASE UseInstalled
  BY <1>1, <1>7, <1>a, UseInstalledStep DEF UseInstalled, Spawn, Exit
<1>8. CASE BeginLoop
  BY <1>1, <1>8, <1>a, BeginLoopStep DEF BeginLoop
<1>9. CASE TakeInstalled
  BY <1>1, <1>9, <1>a, TakeInstalledStep DEF TakeInstalled
<1>10. CASE GiveUp
  BY <1>1, <1>10, <1>a, ExitStep DEF GiveUp, Exit
<1>11. CASE BeginInstall
  BY <1>1, <1>11, BeginInstallStep
<1>12. CASE AbortBuild
  BY <1>1, <1>12, <1>a, ExitStep DEF AbortBuild, Exit
<1>13. CASE BuildFails
  BY <1>1, <1>13, <1>a, ExitStep DEF BuildFails, Exit
<1>14. CASE Publish
  BY <1>1, <1>14, <1>a, PublishStep DEF Publish
<1>15. CASE PostInstall
  BY <1>1, <1>15, <1>a, PostInstallStep DEF PostInstall
<1>16. CASE PostInstallFails
  BY <1>1, <1>16, <1>a, PostInstallFailsStep DEF PostInstallFails, Exit
<1>17. CASE EndLoop
  BY <1>1, <1>17, <1>a, EndLoopStep DEF EndLoop, Spawn, Exit
<1>18. CASE UNCHANGED vars
  BY <1>18, StutteringStep
<1>19. QED
  BY <1>2, <1>3, <1>4, <1>5, <1>6, <1>7, <1>8, <1>9, <1>10, <1>11, <1>12, <1>13, <1>14, <1>15,
     <1>16, <1>17, <1>18 DEF Next
(* The invariant holds.                                                    *)
THEOREM SessionInvariant ==
  ASSUME WellFormed PROVE Spec => [](IInv /\ BuildEnvironment)
<1>1. Init => IInv /\ BuildEnvironment
  BY InitOK DEF WellFormed
<1>2. (IInv /\ BuildEnvironment) /\ [Next]_vars => (IInv /\ BuildEnvironment)'
  BY NextOK
<1>3. QED
  BY <1>1, <1>2, PTL DEF Spec

(* The state has its types: in particular the solution that the loop goes  *)
(* through has no package whose hash stands for another, also where a      *)
(* parasite has replaced its ghost, and the stack of environments is one   *)
(* deep but during an install.                                             *)
THEOREM SessionTypes == ASSUME WellFormed PROVE Spec => []SessionTypeOK
<1>1. IInv => SessionTypeOK
  <2> SUFFICES ASSUME IInv PROVE SessionTypeOK
    OBVIOUS
  <2>1. \A h \in Hash : store[h] \in Record(Hash)
    <3>1. ASSUME NEW h \in Hash PROVE store[h] \in Record(Hash)
      <4>1. store[h] \in Record(Nat) /\ store[h].deps \subseteq 1 .. (h - 1)
        BY <3>1 DEF IInv, StoreOK, Hash
      <4>2. store[h].deps \subseteq Hash
        BY <3>1, <4>1, HashType DEF IInv
      <4>3. QED
        BY <4>1, <4>2 DEF Record
    <3>2. QED
      BY <3>1
  <2>2. shells # <<>> /\ \A i \in DOMAIN shells : shells[i].env \in Env
    BY DEF IInv, ShellsOK, ShellOK, Sound
  <2>3. /\ pc \in {"prompt", "solve", "sort", "loop", "build", "post"}
        /\ Len(envs) = CASE pc = "prompt" -> 0 [] pc \in {"build", "post"} -> 3 [] OTHER -> 1
        /\ \A i \in DOMAIN envs : envs[i] \in Env
    BY DEF IInv, ContextOK, Installing
  <2>4. left \subseteq Packages /\ ToSet(order) \subseteq Packages /\ ToSet(heads) \subseteq left
    BY DEF IInv, SortOK, ToSet
  <2>5. ToSet(soln) \subseteq Packages /\ at \in 0 .. (Len(soln) + 1) /\ ToSet(inUse) \subseteq Hash
    <3>1. soln \in Seq(Packages) /\ Len(soln) \in Nat /\ inUse \in Seq(Hash)
      BY DEF IInv, LoopOK
    <3>2. at \in 0 .. (Len(soln) + 1)
      BY <3>1 DEF IInv, LoopOK
    <3>3. QED
      BY <3>1, <3>2 DEF ToSet
  <2>6. iDeps \subseteq Packages
    BY DEF IInv, BuildOK
  <2>7. QED
    BY <2>1, <2>2, <2>3, <2>4, <2>5, <2>6 DEF SessionTypeOK
<1>2. QED
  BY <1>1, SessionInvariant, PTL

(* In no shell are two packages in use that have a name in common, and     *)
(* none lacks what one of its packages was installed with: neither the     *)
(* packages that were installed on the way, nor the environments these     *)
(* were built in, nor failures disturb what a shell was given.             *)
THEOREM ShellsStayConsistent == ASSUME WellFormed PROVE Spec => []ShellsConsistent
<1>1. IInv => ShellsConsistent
  BY DEF IInv, ShellsOK, ShellOK, ShellsConsistent
<1>2. QED
  BY <1>1, SessionInvariant, PTL

(* Each shell provides what was asked for, also what was installed during  *)
(* the command, and all of the shell around it.                            *)
THEOREM RequestsAreMet == ASSUME WellFormed PROVE Spec => []RequestMet
<1>1. IInv => RequestMet
  BY DEF IInv, ShellsOK, ShellOK, RequestMet
<1>2. QED
  BY <1>1, SessionInvariant, PTL

(* In the search paths of every shell a package comes before those it      *)
(* depends on.                                                             *)
THEOREM PathsAreOrdered == ASSUME WellFormed PROVE Spec => []PathOrder
<1>1. IInv => PathOrder
  BY DEF IInv, ShellsOK, ShellOK, Sound, PathOrder
<1>2. QED
  BY <1>1, SessionInvariant, PTL

(* The sort by dependency reaches every package of the solution: as long   *)
(* as a package is left, one that no other left depends on is in the list  *)
(* of heads.                                                               *)
THEOREM SortReachesAll == ASSUME WellFormed PROVE Spec => []LatticeEmptied
<1>1. IInv => LatticeEmptied
  BY NoHeadNoVertex DEF IInv, LatticeEmptied, WellFormed
<1>2. QED
  BY <1>1, SessionInvariant, PTL

(* Whatever is built is built in an environment without contradictions     *)
(* that provides the install and the build dependencies.                   *)
THEOREM BuildsAreSupplied == ASSUME WellFormed PROVE Spec => []BuildEnvironment
BY SessionInvariant, PTL
=============================================================================
