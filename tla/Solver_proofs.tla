---------------------------- MODULE Solver_proofs ----------------------------
(***************************************************************************)
(* The constraints of every level of the search are compatible, the levels *)
(* keep their types, the solutions offered are valid, and none is missed:  *)
(* for any worlds and any number of solutions looked for.  Versions whose  *)
(* parts are alike are ordered as the last of these takes them to be.      *)
(***************************************************************************)
EXTENDS Solver, FiniteSetTheorems, WellFoundedInduction, NaturalsInduction, TLAPS

(* A sequence, of whatever it may be.                                      *)
IsSequence(s) == \E X : s \in Seq(X)

(* What the search needs to know of a level to go on with it.              *)
FrameOK(f) ==
    /\ f = [constraints |-> f.constraints, next |-> f.next, size |-> f.size]
    /\ IsSequence(f.constraints)
    /\ Compatible(f.constraints)

SearchInv ==
    /\ world \in Worlds
    /\ IsSequence(frames)
    /\ pc = "search" => frames # <<>>
    /\ \A k \in DOMAIN frames : FrameOK(frames[k])

-----------------------------------------------------------------------------
(* Sequences *)

(* Appending to a sequence.                                                *)
LEMMA AppendKeepsSequence ==
  ASSUME NEW s, NEW e, IsSequence(s)
  PROVE  /\ IsSequence(Append(s, e))
         /\ DOMAIN Append(s, e) = DOMAIN s \cup {Len(s) + 1}
         /\ \A i \in DOMAIN s : Append(s, e)[i] = s[i]
         /\ Append(s, e)[Len(s) + 1] = e
         /\ Len(s) \in Nat /\ DOMAIN s = 1 .. Len(s)
<1>1. PICK X : s \in Seq(X)
  BY DEF IsSequence
<1>2. s \in Seq(X \cup {e}) /\ e \in X \cup {e}
  BY <1>1
<1>3. Append(s, e) \in Seq(X \cup {e})
  BY <1>2
<1>4. QED
  BY <1>2, <1>3 DEF IsSequence

(* A function with the domain of a sequence is one.                        *)
LEMMA SameDomainSequence ==
  ASSUME NEW s, IsSequence(s), NEW g, g = [i \in DOMAIN s |-> g[i]]
  PROVE  IsSequence(g)
<1>1. PICK X : s \in Seq(X)
  BY DEF IsSequence
<1> DEFINE Y == {g[i] : i \in DOMAIN s}
<1>2. Len(s) \in Nat /\ DOMAIN s = 1 .. Len(s)
  BY <1>1
<1>3. g \in [1 .. Len(s) -> Y]
  BY <1>2
<1>4. g \in Seq(Y)
  BY <1>2, <1>3
<1>5. QED
  BY <1>4 DEF IsSequence

(* Front drops the last element.                                           *)
LEMMA FrontOfSequence ==
  ASSUME NEW s, IsSequence(s), s # <<>>
  PROVE  /\ IsSequence(Front(s))
         /\ Len(s) \in Nat \ {0}
         /\ Len(Front(s)) = Len(s) - 1
         /\ DOMAIN Front(s) = 1 .. (Len(s) - 1)
         /\ DOMAIN s = 1 .. Len(s)
         /\ \A i \in 1 .. (Len(s) - 1) : Front(s)[i] = s[i]
<1>1. PICK X : s \in Seq(X)
  BY DEF IsSequence
<1>2. Len(s) \in Nat \ {0} /\ DOMAIN s = 1 .. Len(s)
  BY <1>1
<1>3. SubSeq(s, 1, Len(s) - 1) \in Seq(X)
  BY <1>1, <1>2
<1>4. QED
  BY <1>1, <1>2, <1>3 DEF Front, IsSequence

-----------------------------------------------------------------------------
(* Constraints *)

(* A tightened constraint has no names that neither of the two had.        *)
LEMMA TightenedNames ==
  ASSUME NEW c, NEW x
  PROVE  Tightened(c, x) = c \/ Tightened(c, x) = x \/ Names(Tightened(c, x)) \subseteq Names(c)
<1>1. CASE ~ IsInstalled(c) /\ ~ IsInstalled(x)
  BY <1>1 DEF Tightened, Ghost, Names
<1>2. QED
  BY <1>1 DEF Tightened

(* A package that fits leaves the constraints compatible.                  *)
LEMMA ConstrainKeepsCompatible ==
  ASSUME NEW C, NEW x, IsSequence(C), Compatible(C), Fits(C, x)
  PROVE  IsSequence(Constrain(C, x)) /\ Compatible(Constrain(C, x))
<1>1. CASE Position(C, x) = {}
  <2>1. Constrain(C, x) = Append(C, x)
    BY <1>1 DEF Constrain
  <2>2. \A j \in DOMAIN C : Names(C[j]) \cap Names(x) = {}
    BY <1>1 DEF Fits, Apart, NamesInCommon
  <2>3. Compatible(Append(C, x))
    BY <2>2, AppendKeepsSequence DEF Compatible
  <2>4. QED
    BY <2>1, <2>3, AppendKeepsSequence
<1>2. CASE Position(C, x) # {}
  <2>1. PICK i \in DOMAIN C : C[i].name = x.name
    BY <1>2 DEF Position
  <2> DEFINE t == Tightened(C[i], x)
  <2>2. \A j \in DOMAIN C : C[j].name = x.name => j = i
    BY <2>1 DEF Compatible, Names
  <2>3. Constrain(C, x) = [j \in DOMAIN C |-> IF j = i THEN t ELSE C[j]]
    BY <1>2, <2>1, <2>2 DEF Constrain
  <2>4. /\ \A j \in 1 .. (i - 1) : Names(C[j]) \cap Names(x) = {}
        /\ \A j \in (i + 1) .. Len(C) : Names(C[j]) \cap Names(t) = {}
    BY <1>2, <2>1 DEF Fits, Apart, NamesInCommon, Position
  <2>5. Len(C) \in Nat /\ DOMAIN C = 1 .. Len(C)
    BY AppendKeepsSequence
  <2>6. \A j \in DOMAIN C : j # i => Names(C[j]) \cap Names(t) = {}
    <3> SUFFICES ASSUME NEW j \in DOMAIN C, j # i
                 PROVE  Names(C[j]) \cap Names(t) = {}
      OBVIOUS
    <3>1. Names(C[j]) \cap Names(C[i]) = {}
      BY <2>1 DEF Compatible
    <3>2. CASE j \in 1 .. (i - 1)
      BY <3>1, <3>2, <2>4, TightenedNames
    <3>3. CASE j \in (i + 1) .. Len(C)
      BY <3>3, <2>4
    <3>4. QED
      BY <3>2, <3>3, <2>1, <2>5
  <2>7. Compatible(Constrain(C, x))
    BY <2>1, <2>3, <2>6 DEF Compatible
  <2>8. IsSequence(Constrain(C, x))
    <3>1. Constrain(C, x) = [j \in DOMAIN C |-> Constrain(C, x)[j]]
      BY <2>3
    <3>2. QED
      BY <3>1, SameDomainSequence
  <2>9. QED
    BY <2>7, <2>8
<1>3. QED
  BY <1>1, <1>2

(* Employed packages that do not exclude each other are compatible.        *)
LEMMA EmployedCompatible ==
  ASSUME NEW w \in Worlds,
         \A i, j \in DOMAIN w.employed : i # j => ~ Excludes(w.employed[i], w.employed[j])
  PROVE  IsSequence(w.employed) /\ Compatible(w.employed)
<1> DEFINE C == w.employed
<1>1. C \in Seq(w.installed) /\ \A i \in DOMAIN C : IsInstalled(C[i])
  BY WorldsOK DEF IsInstalled
<1>2. \A i, j \in DOMAIN C : i # j => C[i].hash # C[j].hash
  BY WorldsOK
<1>3. \A i, j \in DOMAIN C : i # j => NamesInCommon(C[i], C[j]) = {}
  BY <1>1, <1>2 DEF Excludes
<1>4. QED
  BY <1>1, <1>3 DEF IsSequence, Compatible, NamesInCommon

-----------------------------------------------------------------------------
(* The search *)

(* The level below goes on.                                                *)
LEMMA AdvanceKeepsFrames ==
  ASSUME NEW F, IsSequence(F), \A k \in DOMAIN F : FrameOK(F[k])
  PROVE  IsSequence(Advance(F)) /\ \A k \in DOMAIN Advance(F) : FrameOK(Advance(F)[k])
<1> DEFINE n == Len(F)
<1> DEFINE g(k) == IF k = n THEN [F[n] EXCEPT !.next = @ + 1] ELSE F[k]
<1>1. Advance(F) = [k \in DOMAIN F |-> g(k)]
  BY DEF Advance
<1>2. IsSequence(Advance(F))
  <2>1. Advance(F) = [k \in DOMAIN F |-> Advance(F)[k]]
    BY <1>1
  <2>2. QED
    BY <2>1, SameDomainSequence
<1>3. ASSUME NEW k \in DOMAIN F
      PROVE  FrameOK(g(k))
  <2>1. CASE k # n
    BY <1>3, <2>1
  <2>2. CASE k = n
    <3>1. g(k) = [constraints |-> F[k].constraints, next |-> F[k].next + 1, size |-> F[k].size]
      BY <1>3, <2>2 DEF FrameOK
    <3>2. QED
      BY <3>1, <1>3 DEF FrameOK
  <2>3. QED
    BY <2>1, <2>2
<1>4. QED
  BY <1>1, <1>2, <1>3

(* A return drops a level.                                                 *)
LEMMA ReturnKeepsSearchInv ==
  ASSUME SearchInv, pc = "search", Return, UNCHANGED world
  PROVE  SearchInv'
<1>1. CASE Level = 1
  BY <1>1 DEF Return, SearchInv
<1>2. CASE Level # 1
  <2>1. frames' = Advance(Front(frames)) /\ pc' = pc
    BY <1>2 DEF Return
  <2>2. IsSequence(frames) /\ frames # <<>>
    BY DEF SearchInv
  <2>3. IsSequence(Front(frames)) /\ \A k \in DOMAIN Front(frames) : FrameOK(Front(frames)[k])
    BY <2>2, FrontOfSequence DEF SearchInv
  <2>4. IsSequence(frames') /\ \A k \in DOMAIN frames' : FrameOK(frames'[k])
    BY <2>1, <2>3, AdvanceKeepsFrames
  <2>5. frames' # <<>>
    <3>1. 1 \in DOMAIN Front(frames)
      <4>1. Len(frames) \in Nat \ {0} /\ Len(frames) # 1
        BY <1>2, <2>2, FrontOfSequence DEF Level
      <4>2. DOMAIN Front(frames) = 1 .. (Len(frames) - 1)
        BY <2>2, FrontOfSequence
      <4>3. \A n \in Nat \ {0} : n # 1 => 1 \in 1 .. (n - 1)
        OBVIOUS
      <4>4. 1 \in 1 .. (Len(frames) - 1)
        BY <4>1, <4>3, Zenon
      <4>5. QED
        BY <4>2, <4>4, Zenon
    <3>2. DOMAIN frames' = DOMAIN Front(frames)
      BY <2>1 DEF Advance
    <3>3. QED
      BY <3>1, <3>2
  <2>6. QED
    BY <2>1, <2>4, <2>5 DEF SearchInv
<1>3. QED
  BY <1>1, <1>2

(* The inductive invariant of the search.                                  *)
THEOREM SearchInvariant == Spec => []SearchInv
<1>1. Init => SearchInv
  <2>1. <<>> \in Seq({})
    OBVIOUS
  <2>2. QED
    BY <2>1 DEF Init, SearchInv, IsSequence
<1>2. SearchInv /\ [Next]_vars => SearchInv'
  <2> SUFFICES ASSUME SearchInv, [Next]_vars PROVE SearchInv'
    OBVIOUS
  <2>1. CASE Begin
    <3>1. CASE pc' = "done" /\ UNCHANGED frames
      BY <2>1, <3>1 DEF Begin, SearchInv
    <3>2. CASE ~ (pc' = "done" /\ UNCHANGED frames)
      <4>1. PICK L : frames' = <<Enter(world.employed, L)>>
        BY <2>1, <3>2 DEF Begin
      <4>2. \A i, j \in DOMAIN world.employed :
               i # j => ~ Excludes(world.employed[i], world.employed[j])
        BY <2>1, <3>2 DEF Begin
      <4>3. FrameOK(Enter(world.employed, L))
        BY <4>2, EmployedCompatible DEF SearchInv, FrameOK, Enter
      <4>4. frames' \in Seq({Enter(world.employed, L)}) /\ frames' # <<>>
        BY <4>1
      <4>5. \A k \in DOMAIN frames' : FrameOK(frames'[k])
        BY <4>1, <4>3
      <4>6. QED
        BY <4>4, <4>5, <2>1 DEF SearchInv, Begin, IsSequence
    <3>3. QED
      BY <3>1, <3>2
  <2>2. CASE Found
    <3>1. CASE pc' = "done" /\ UNCHANGED frames
      BY <2>2, <3>1 DEF Found, SearchInv
    <3>2. CASE Return
      BY <2>2, <3>2, ReturnKeepsSearchInv DEF Found, AtEnd
    <3>3. QED
      BY <2>2, <3>1, <3>2 DEF Found
  <2>3. CASE AssertionFails
    BY <2>3 DEF AssertionFails, SearchInv
  <2>4. CASE Reject
    <3>1. frames' = Advance(frames) /\ frames # <<>> /\ UNCHANGED <<world, pc>>
      BY <2>4 DEF Reject, HasCandidate, SearchInv
    <3>2. IsSequence(frames') /\ \A k \in DOMAIN frames' : FrameOK(frames'[k])
      BY <3>1, AdvanceKeepsFrames DEF SearchInv
    <3>3. frames' # <<>>
      <4>1. DOMAIN frames' = DOMAIN frames
        BY <3>1 DEF Advance
      <4>2. 1 \in DOMAIN frames
        BY <3>1, FrontOfSequence DEF SearchInv
      <4>3. QED
        BY <4>1, <4>2
    <3>4. QED
      BY <3>1, <3>2, <3>3 DEF SearchInv
  <2>5. CASE Accept
    <3> DEFINE C == Top.constraints
    <3> DEFINE f == Enter(Constrain(C, Candidate), Extended)
    <3>1. /\ frames' = Append(frames, f) /\ frames # <<>>
          /\ Fits(C, Candidate) /\ UNCHANGED <<world, pc>>
      BY <2>5 DEF Accept, HasCandidate, SearchInv
    <3>2. FrameOK(Top)
      BY <3>1, FrontOfSequence DEF Top, Last, SearchInv
    <3>3. FrameOK(f)
      BY <3>1, <3>2, ConstrainKeepsCompatible DEF FrameOK, Enter
    <3>4. IsSequence(frames') /\ \A k \in DOMAIN frames' : FrameOK(frames'[k])
      <4> HIDE DEF f
      <4> QED
        BY <3>1, <3>3, AppendKeepsSequence DEF SearchInv
    <3>5. frames' # <<>>
      <4> HIDE DEF f
      <4>1. Len(frames) + 1 \in DOMAIN frames'
        BY <3>1, AppendKeepsSequence DEF SearchInv
      <4>2. QED
        BY <4>1
    <3>6. QED
      BY <3>1, <3>4, <3>5 DEF SearchInv
  <2>6. CASE Exhaust
    BY <2>6, ReturnKeepsSearchInv DEF Exhaust
  <2>7. CASE UNCHANGED vars
    BY <2>7 DEF vars, SearchInv
  <2>8. QED
    BY <2>1, <2>2, <2>3, <2>4, <2>5, <2>6, <2>7 DEF Next
<1>3. QED
  BY <1>1, <1>2, PTL DEF Spec

(* No level of the search works with packages that rule each other out     *)
(* (Solver::appendConstraint).                                             *)
THEOREM ConstraintsStayCompatible == Spec => []ConstraintsCompatible
<1>1. SearchInv => ConstraintsCompatible
  BY DEF SearchInv, FrameOK, ConstraintsCompatible
<1>2. QED
  BY <1>1, SearchInvariant, PTL

-----------------------------------------------------------------------------
(* Induction over the natural numbers, by least counterexamples *)

(* A set of natural numbers that is not empty has a least element.         *)
LEMMA NatMin ==
  ASSUME NEW T \in SUBSET Nat, T # {}
  PROVE  \E x \in T : \A y \in T : x <= y
<1> DEFINE R == {ss \in Nat \X Nat : ss[1] < ss[2]}
<1>1. IsWellFoundedOn(R, Nat)
  BY NatLessThanWellFounded DEF OpToRel
<1> HIDE DEF R
<1>2. \E x \in T : \A y \in T : <<y, x>> \notin R
  BY <1>1, WFMin
<1>3. \A x, y \in Nat : <<y, x>> \notin R => x <= y
  BY DEF R
<1>4. QED
  BY <1>2, <1>3

(* A set of numbers up to n that has 0, and with each number before n the  *)
(* next one, has all of them.                                              *)
LEMMA UpTo ==
  ASSUME NEW n \in Nat, NEW T, 0 \in T, \A i \in 1 .. n : i - 1 \in T => i \in T
  PROVE  0 .. n \subseteq T
<1> DEFINE M == (0 .. n) \ T
<1>1. SUFFICES ASSUME M # {} PROVE FALSE
  OBVIOUS
<1>a. M \in SUBSET Nat
  OBVIOUS
<1> HIDE DEF M
<1>2. PICK x \in M : \A y \in M : x <= y
  BY <1>1, <1>a, NatMin
<1> USE DEF M
<1>3. x # 0 /\ x \in 1 .. n
  BY <1>2
<1>4. x - 1 \notin M /\ x - 1 \in 0 .. n
  BY <1>2, <1>3
<1>5. x \in T
  BY <1>3, <1>4
<1>6. QED
  BY <1>2, <1>5

(* f begins with b, and goes on as g has it.                               *)
Iterates(f, n, S, b, g) ==
    /\ f \in [0 .. n -> S]
    /\ f[0] = b /\ \A i \in 1 .. n : f[i] = g[<<i, f[i - 1]>>]

(* A function of 0 .. n is defined by its first value and by how each      *)
(* value follows from the one before it.                                   *)
LEMMA DefinedByRecursion ==
  ASSUME NEW n \in Nat, NEW S, NEW b \in S, NEW g \in [(1 .. n) \X S -> S]
  PROVE  \E f : Iterates(f, n, S, b, g)
<1> DEFINE P(m) == \E f \in [0 .. m -> S] : f[0] = b /\ \A i \in 1 .. m : f[i] = g[<<i, f[i - 1]>>]
           T == {m \in 0 .. n : P(m)}
<1>1. P(0)
  <2> DEFINE c == [i \in 0 .. 0 |-> b]
  <2>1. c \in [0 .. 0 -> S] /\ c[0] = b /\ 1 .. 0 = {}
    OBVIOUS
  <2> HIDE DEF c
  <2>2. QED
    BY <2>1
<1>2. ASSUME NEW m \in 1 .. n, P(m - 1) PROVE P(m)
  <2>1. PICK f \in [0 .. (m - 1) -> S] :
            f[0] = b /\ \A i \in 1 .. (m - 1) : f[i] = g[<<i, f[i - 1]>>]
    BY <1>2
  <2> DEFINE h == [i \in 0 .. m |-> IF i = m THEN g[<<m, f[m - 1]>>] ELSE f[i]]
  <2>2. g[<<m, f[m - 1]>>] \in S
    <3>1. <<m, f[m - 1]>> \in (1 .. n) \X S
      OBVIOUS
    <3>2. QED
      BY <3>1
  <2>3. h \in [0 .. m -> S]
    BY <2>2
  <2>4. h[0] = b
    BY <2>1
  <2>5. ASSUME NEW i \in 1 .. m PROVE h[i] = g[<<i, h[i - 1]>>]
    <3>1. h[i - 1] = f[i - 1]
      OBVIOUS
    <3>2. CASE i = m
      <4>1. h[m] = g[<<m, f[m - 1]>>]
        OBVIOUS
      <4> HIDE DEF h
      <4>2. QED
        BY <3>1, <3>2, <4>1
    <3>3. CASE i # m
      <4>1. i \in 1 .. (m - 1) /\ h[i] = f[i]
        BY <3>3
      <4>2. QED
        BY <2>1, <3>1, <4>1
    <3>4. QED
      BY <3>2, <3>3
  <2>6. QED
    BY <2>3, <2>4, <2>5
<1> HIDE DEF P
<1>3. 0 \in T /\ \A i \in 1 .. n : i - 1 \in T => i \in T
  BY <1>1, <1>2
<1> HIDE DEF T
<1>4. 0 .. n \subseteq T
  BY <1>3, UpTo
<1>5. P(n)
  BY <1>4 DEF T
<1>6. QED
  BY <1>5 DEF P, Iterates

-----------------------------------------------------------------------------
(* Versions *)

(* Versions whose parts are numbers where those of others are, and that    *)
(* are written in one way only: not 1.1 and 1.01, nor 1.2 and 1.2a.        *)
Plain(V) ==
    /\ \A v \in V : IsVersion(v)
    /\ \A u, v \in V : \A i \in DOMAIN u \cap DOMAIN v :
          /\ u[i].number = NotWhole <=> v[i].number = NotWhole
          /\ SamePart(u[i], v[i]) => u[i] = v[i]

(* Parts that are all numbers, or all texts, are ordered.                  *)
LEMMA PartsOrdered ==
  ASSUME NEW x \in Part, NEW y \in Part, NEW z \in Part,
         x.number = NotWhole <=> y.number = NotWhole,
         y.number = NotWhole <=> z.number = NotWhole
  PROVE  /\ PartLess(x, y) => ~ PartLess(y, x) /\ ~ SamePart(x, y) /\ x # y
         /\ PartLess(x, y) \/ PartLess(y, x) \/ SamePart(x, y)
         /\ PartLess(x, y) /\ PartLess(y, z) => PartLess(x, z)
BY DEF Part, PartLess, SamePart, Whole, NotWhole

(* The part that decides between two versions.                             *)
Decides(u, v, i) ==
    /\ i \in DOMAIN u \cap DOMAIN v /\ PartLess(u[i], v[i])
    /\ \A j \in 1 .. (i - 1) : u[j] = v[j]

Precedes(u, v) == Len(u) < Len(v) /\ \A i \in DOMAIN u : u[i] = v[i]

(* Of plain versions, the first part that differs decides.                 *)
LEMMA PlainLess ==
  ASSUME NEW V, Plain(V), NEW u \in V, NEW v \in V
  PROVE  Less(u, v) <=> (\E i \in Nat : Decides(u, v, i)) \/ Precedes(u, v)
<1>1. /\ DOMAIN u = 1 .. Len(u) /\ Len(u) \in Nat /\ \A i \in DOMAIN u : u[i] \in Part
      /\ DOMAIN v = 1 .. Len(v) /\ Len(v) \in Nat /\ \A i \in DOMAIN v : v[i] \in Part
  BY DEF Plain, IsVersion
<1>2. \A i \in DOMAIN u \cap DOMAIN v : SamePart(u[i], v[i]) <=> u[i] = v[i]
  <2>1. \A p \in Part : SamePart(p, p)
    BY DEF SamePart
  <2>2. QED
    BY <1>1, <2>1 DEF Plain
<1>3. \A i \in DOMAIN u \cap DOMAIN v : i \in Nat /\ \A j \in 1 .. (i - 1) : j \in DOMAIN u \cap DOMAIN v
  BY <1>1
<1>4. ASSUME NEW i \in DOMAIN u \cap DOMAIN v
      PROVE  (\A j \in 1 .. (i - 1) : SamePart(u[j], v[j])) <=> (\A j \in 1 .. (i - 1) : u[j] = v[j])
  BY <1>2, <1>3
<1>5. Len(u) < Len(v) => \A i \in DOMAIN u : i \in DOMAIN u \cap DOMAIN v
  BY <1>1
<1>6. Len(u) < Len(v) /\ (\A i \in DOMAIN u : SamePart(u[i], v[i])) <=> Precedes(u, v)
  BY <1>2, <1>5 DEF Precedes
<1>7. (\E i \in DOMAIN u \cap DOMAIN v : PartLess(u[i], v[i]) /\ \A j \in 1 .. (i - 1) : SamePart(u[j], v[j]))
         <=> \E i \in Nat : Decides(u, v, i)
  BY <1>3, <1>4 DEF Decides
<1>8. QED
  BY <1>6, <1>7 DEF Less

(* Plain versions are totally ordered.                                     *)
LEMMA PlainOrdered ==
  ASSUME NEW V, Plain(V), NEW u \in V, NEW v \in V, NEW w \in V
  PROVE  /\ Less(u, v) => ~ Less(v, u)
         /\ u # v => Less(u, v) \/ Less(v, u)
         /\ Less(u, v) /\ Less(v, w) => Less(u, w)
<1>1. \A a \in V : /\ DOMAIN a = 1 .. Len(a) /\ Len(a) \in Nat /\ a \in Seq(Part)
                   /\ \A i \in DOMAIN a : a[i] \in Part
  BY DEF Plain, IsVersion
<1>2. \A a, b, c \in V : \A i \in DOMAIN a \cap DOMAIN b \cap DOMAIN c :
         /\ PartLess(a[i], b[i]) => ~ PartLess(b[i], a[i]) /\ a[i] # b[i]
         /\ a[i] # b[i] => PartLess(a[i], b[i]) \/ PartLess(b[i], a[i])
         /\ PartLess(a[i], b[i]) /\ PartLess(b[i], c[i]) => PartLess(a[i], c[i])
  <2> TAKE a, b, c \in V
  <2> TAKE i \in DOMAIN a \cap DOMAIN b \cap DOMAIN c
  <2>1. PICK x, y, z : x = a[i] /\ y = b[i] /\ z = c[i]
    OBVIOUS
  <2>2. /\ x \in Part /\ y \in Part /\ z \in Part
        /\ x.number = NotWhole <=> y.number = NotWhole
        /\ y.number = NotWhole <=> z.number = NotWhole
        /\ SamePart(x, y) => x = y
    BY <1>1, <2>1 DEF Plain
  <2>3. QED
    BY <2>1, <2>2, PartsOrdered
<1>3. \A a, b \in V : Less(a, b) <=> (\E i \in Nat : Decides(a, b, i)) \/ Precedes(a, b)
  BY PlainLess
<1>4. \A a, b \in V : ~ (Less(a, b) /\ Less(b, a))
  <2> SUFFICES ASSUME NEW a \in V, NEW b \in V, Less(a, b), Less(b, a) PROVE FALSE
    OBVIOUS
  <2>0. DOMAIN a = 1 .. Len(a) /\ Len(a) \in Nat /\ DOMAIN b = 1 .. Len(b) /\ Len(b) \in Nat
    BY <1>1
  <2>1. ASSUME NEW c \in V, NEW d \in V, NEW i \in Nat, Decides(c, d, i), Precedes(d, c) PROVE FALSE
    <3>1. i \in DOMAIN c \cap DOMAIN d \cap DOMAIN d /\ d[i] = c[i] /\ PartLess(c[i], d[i])
      BY <2>1 DEF Decides, Precedes
    <3>2. QED
      BY <1>2, <3>1
  <2>2. ASSUME NEW c \in V, NEW d \in V, NEW i \in Nat, Decides(c, d, i), Precedes(c, d) PROVE FALSE
    <3>1. i \in DOMAIN c \cap DOMAIN d \cap DOMAIN d /\ d[i] = c[i] /\ PartLess(c[i], d[i])
      BY <2>2 DEF Decides, Precedes
    <3>2. QED
      BY <1>2, <3>1
  <2>3. ASSUME NEW c \in V, NEW d \in V, NEW i \in Nat, NEW k \in Nat, Decides(c, d, i), Decides(d, c, k), i <= k
        PROVE  FALSE
    <3>1. i \in DOMAIN c \cap DOMAIN d \cap DOMAIN d /\ PartLess(c[i], d[i])
      BY <2>3 DEF Decides
    <3>2. CASE i = k
      <4>1. PartLess(d[i], c[i])
        BY <2>3, <3>2 DEF Decides
      <4>2. QED
        BY <1>2, <3>1, <4>1
    <3>3. CASE i < k
      <4>1. i \in 1 .. (k - 1)
        BY <1>1, <3>1, <3>3
      <4>2. d[i] = c[i]
        BY <2>3, <4>1 DEF Decides
      <4>3. QED
        BY <1>2, <3>1, <4>2
    <3>4. QED
      BY <2>3, <3>2, <3>3
  <2>4. CASE Precedes(a, b) /\ Precedes(b, a)
    BY <2>0, <2>4 DEF Precedes
  <2>5. CASE \E i, k \in Nat : Decides(a, b, i) /\ Decides(b, a, k)
    BY <2>3, <2>5
  <2>6. QED
    BY <1>3, <2>1, <2>2, <2>4, <2>5
<1>5. ASSUME u # v PROVE Less(u, v) \/ Less(v, u)
  <2>0. /\ DOMAIN u = 1 .. Len(u) /\ Len(u) \in Nat /\ DOMAIN v = 1 .. Len(v) /\ Len(v) \in Nat
        /\ u \in Seq(Part) /\ v \in Seq(Part)
    BY <1>1
  <2> DEFINE D == {i \in DOMAIN u \cap DOMAIN v : u[i] # v[i]}
  <2>1. CASE D # {}
    <3>1. D \in SUBSET Nat
      BY <2>0
    <3>2. PICK i \in D : \A j \in D : i <= j
      BY <2>1, <3>1, NatMin
    <3>3. i \in DOMAIN u \cap DOMAIN v \cap DOMAIN v /\ u[i] # v[i] /\ i \in Nat
      BY <3>1
    <3>4. \A j \in 1 .. (i - 1) : u[j] = v[j]
      <4> TAKE j \in 1 .. (i - 1)
      <4>1. j \in DOMAIN u \cap DOMAIN v /\ ~ i <= j
        BY <2>0, <3>3
      <4>2. QED
        BY <3>2, <4>1
    <3>5. PartLess(u[i], v[i]) \/ PartLess(v[i], u[i])
      BY <1>2, <3>3
    <3>6. Decides(u, v, i) \/ Decides(v, u, i)
      BY <3>3, <3>4, <3>5 DEF Decides
    <3>7. QED
      BY <1>3, <3>3, <3>6
  <2>2. CASE D = {}
    <3>1. \A i \in DOMAIN u \cap DOMAIN v : u[i] = v[i]
      BY <2>2
    <3>2. CASE Len(u) = Len(v)
      BY <1>5, <2>0, <3>1, <3>2
    <3>3. CASE Len(u) < Len(v)
      <4>1. Precedes(u, v)
        BY <2>0, <3>1, <3>3 DEF Precedes
      <4>2. QED
        BY <1>3, <4>1
    <3>4. CASE Len(v) < Len(u)
      <4>1. Precedes(v, u)
        BY <2>0, <3>1, <3>4 DEF Precedes
      <4>2. QED
        BY <1>3, <4>1
    <3>5. \A a, b \in Nat : a = b \/ a < b \/ b < a
      OBVIOUS
    <3>6. QED
      BY <2>0, <3>2, <3>3, <3>4, <3>5
  <2>3. QED
    BY <2>1, <2>2
<1>6. ASSUME Less(u, v), Less(v, w) PROVE Less(u, w)
  <2>0. /\ DOMAIN u = 1 .. Len(u) /\ Len(u) \in Nat /\ DOMAIN v = 1 .. Len(v) /\ Len(v) \in Nat
        /\ DOMAIN w = 1 .. Len(w) /\ Len(w) \in Nat
    BY <1>1
  <2>1. ASSUME NEW i \in Nat, Decides(u, v, i), NEW k \in Nat, Decides(v, w, k) PROVE Less(u, w)
    <3>1. /\ i \in DOMAIN u \cap DOMAIN v /\ k \in DOMAIN v \cap DOMAIN w
          /\ PartLess(u[i], v[i]) /\ PartLess(v[k], w[k])
          /\ \A j \in 1 .. (i - 1) : u[j] = v[j]
          /\ \A j \in 1 .. (k - 1) : v[j] = w[j]
      BY <2>1 DEF Decides
    <3>2. CASE i < k
      <4>1. i \in DOMAIN w /\ v[i] = w[i] /\ \A j \in 1 .. (i - 1) : j \in 1 .. (k - 1)
        BY <2>0, <3>1, <3>2
      <4>2. Decides(u, w, i)
        BY <3>1, <4>1 DEF Decides
      <4>3. QED
        BY <1>3, <4>2
    <3>3. CASE i = k
      <4>1. i \in DOMAIN u \cap DOMAIN v \cap DOMAIN w
        BY <3>1, <3>3
      <4>2. PartLess(u[i], w[i])
        BY <1>2, <3>1, <3>3, <4>1
      <4>3. Decides(u, w, i)
        BY <3>1, <3>3, <4>1, <4>2 DEF Decides
      <4>4. QED
        BY <1>3, <4>3
    <3>4. CASE k < i
      <4>1. k \in DOMAIN u /\ u[k] = v[k] /\ \A j \in 1 .. (k - 1) : j \in 1 .. (i - 1)
        BY <2>0, <3>1, <3>4
      <4>2. Decides(u, w, k)
        BY <3>1, <4>1 DEF Decides
      <4>3. QED
        BY <1>3, <4>2
    <3>5. QED
      BY <2>1, <3>2, <3>3, <3>4
  <2>2. ASSUME NEW i \in Nat, Decides(u, v, i), Precedes(v, w) PROVE Less(u, w)
    <3>1. i \in DOMAIN w /\ v[i] = w[i] /\ \A j \in 1 .. (i - 1) : v[j] = w[j]
      BY <2>0, <2>2 DEF Decides, Precedes
    <3>2. Decides(u, w, i)
      BY <2>2, <3>1 DEF Decides
    <3>3. QED
      BY <1>3, <3>2
  <2>3. ASSUME Precedes(u, v), NEW k \in Nat, Decides(v, w, k) PROVE Less(u, w)
    <3>1. CASE k \in DOMAIN u
      <4>1. u[k] = v[k] /\ \A j \in 1 .. (k - 1) : u[j] = v[j]
        BY <2>0, <2>3, <3>1 DEF Precedes
      <4>2. Decides(u, w, k)
        BY <2>3, <3>1, <4>1 DEF Decides
      <4>3. QED
        BY <1>3, <4>2
    <3>2. CASE k \notin DOMAIN u
      <4>1. Len(u) < k /\ k <= Len(w)
        BY <2>0, <2>3, <3>2 DEF Decides
      <4>2. \A j \in DOMAIN u : j \in 1 .. (k - 1)
        BY <2>0, <4>1
      <4>3. Precedes(u, w)
        BY <2>0, <2>3, <4>1, <4>2 DEF Precedes, Decides
      <4>4. QED
        BY <1>3, <4>3
    <3>3. QED
      BY <3>1, <3>2
  <2>4. ASSUME Precedes(u, v), Precedes(v, w) PROVE Less(u, w)
    <3>1. Precedes(u, w)
      BY <2>0, <2>4 DEF Precedes
    <3>2. QED
      BY <1>3, <3>1
  <2>5. QED
    BY <1>3, <1>6, <2>1, <2>2, <2>3, <2>4
<1>7. QED
  BY <1>4, <1>5, <1>6

(* Versions that are written alike are ordered, as the solver needs.       *)
THEOREM PlainVersionsAreOrdered ==
  ASSUME NEW w, \A n \in Name : Plain(VersionsNamed(w, n))
  PROVE  VersionsOrdered(w)
<1>1. ASSUME NEW n \in Name, NEW u \in VersionsNamed(w, n), NEW v \in VersionsNamed(w, n)
      PROVE  /\ Less(u, v) => ~ Less(v, u)
             /\ u # v => Less(u, v) \/ Less(v, u)
             /\ \A x \in VersionsNamed(w, n) : Less(u, v) /\ Less(v, x) => Less(u, x)
  <2>1. PICK V : V = VersionsNamed(w, n)
    OBVIOUS
  <2>2. Plain(V) /\ u \in V /\ v \in V
    BY <2>1
  <2>3. QED
    BY <2>1, <2>2, PlainOrdered
<1>2. QED
  BY <1>1 DEF VersionsOrdered

-----------------------------------------------------------------------------
(* The order of a list of alternatives *)

(* A set that a relation orders, if only in part.                          *)
OrderedBy(R, T) ==
    /\ \A a \in T : <<a, a>> \notin R
    /\ \A a, b, c \in T : <<a, b>> \in R /\ <<b, c>> \in R => <<a, c>> \in R

(* A finite set with an order has an element that none comes before.       *)
LEMMA MinimalExists ==
  ASSUME NEW T, IsFiniteSet(T), T # {}, NEW R, OrderedBy(R, T)
  PROVE  \E x \in T : \A q \in T : <<q, x>> \notin R
<1> DEFINE below(p) == {q \in T : <<q, p>> \in R}
           N == {Cardinality(below(p)) : p \in T}
<1>1. \A p \in T : IsFiniteSet(below(p)) /\ Cardinality(below(p)) \in Nat
  <2> SUFFICES ASSUME NEW p \in T PROVE IsFiniteSet(below(p)) /\ Cardinality(below(p)) \in Nat
    OBVIOUS
  <2>1. below(p) \in SUBSET T
    OBVIOUS
  <2> HIDE DEF below
  <2>2. QED
    BY <2>1, FS_Subset, FS_CardinalityType
<1>2. N \in SUBSET Nat /\ N # {}
  BY <1>1
<1>3. PICK m \in N : \A n \in N : m <= n
  <2> HIDE DEF N
  <2> QED
    BY <1>2, NatMin
<1>4. PICK p \in T : m = Cardinality(below(p))
  BY <1>3
<1>5. ASSUME NEW q \in T, <<q, p>> \in R PROVE FALSE
  <2>1. below(q) \in SUBSET below(p)
    BY <1>5 DEF OrderedBy
  <2>2. q \in below(p) /\ q \notin below(q)
    BY <1>5 DEF OrderedBy
  <2>3. below(q) # below(p) /\ Cardinality(below(q)) \in N
    BY <2>2
  <2>4. m \in Nat /\ Cardinality(below(q)) \in Nat /\ m <= Cardinality(below(q))
    BY <1>2, <1>3, <2>3
  <2> HIDE DEF below, N
  <2>5. Cardinality(below(q)) <= Cardinality(below(p)) /\ Cardinality(below(p)) # Cardinality(below(q))
    BY <1>1, <2>1, <2>3, FS_Subset
  <2>6. QED
    BY <1>4, <2>4, <2>5
<1>6. QED
  BY <1>5

Orders(T) ==
    /\ \A a \in T : ~ Before(a, a)
    /\ \A a, b, c \in T : Before(a, b) /\ Before(b, c) => Before(a, c)

(* A finite set of packages has one that none comes before.                *)
LEMMA FirstIsMember ==
  ASSUME NEW T, IsFiniteSet(T), T # {}, Orders(T)
  PROVE  First(T) \in T
<1> DEFINE R == {x \in T \X T : Before(x[1], x[2])}
<1>1. \A a, b \in T : <<a, b>> \in R <=> Before(a, b)
  OBVIOUS
<1> HIDE DEF R
<1>2. OrderedBy(R, T)
  BY <1>1 DEF OrderedBy, Orders
<1>3. \E x \in T : \A q \in T : <<q, x>> \notin R
  BY <1>2, MinimalExists
<1>4. \E x \in T : \A q \in T : ~ Before(q, x)
  BY <1>1, <1>3
<1>5. QED
  BY <1>4 DEF First

(* A finite set of versions has a greatest one.                            *)
LEMMA GreatestIsMember ==
  ASSUME NEW V, IsFiniteSet(V), V # {},
         \A u, v \in V : /\ Less(u, v) => ~ Less(v, u)
                         /\ u # v => Less(u, v) \/ Less(v, u)
                         /\ \A x \in V : Less(u, v) /\ Less(v, x) => Less(u, x)
  PROVE  Greatest(V) \in V
<1> DEFINE R == {x \in V \X V : Less(x[2], x[1])}
<1>1. \A a, b \in V : <<a, b>> \in R <=> Less(b, a)
  OBVIOUS
<1> HIDE DEF R
<1>2. OrderedBy(R, V)
  BY <1>1 DEF OrderedBy
<1>3. PICK x \in V : \A q \in V : <<q, x>> \notin R
  BY <1>2, MinimalExists
<1>4. \A w \in V \ {x} : Less(w, x)
  BY <1>1, <1>3
<1>5. QED
  BY <1>4 DEF Greatest

(* What is left after the first n packages have been listed.               *)
LEMMA SortedStepwise ==
  ASSUME NEW T, IsFiniteSet(T)
  PROVE  \E f \in [0 .. Cardinality(T) -> SUBSET T] :
            /\ f[0] = T
            /\ \A i \in 1 .. Cardinality(T) : f[i] = f[i - 1] \ {First(f[i - 1])}
            /\ Sorted(T) = [i \in 1 .. Cardinality(T) |-> First(f[i - 1])]
<1> DEFINE n == Cardinality(T)
           S == SUBSET T
           left[i \in 0 .. Cardinality(T)] == IF i = 0 THEN T ELSE left[i - 1] \ {First(left[i - 1])}
           Steps(f) == [i \in 0 .. Cardinality(T) |->
                          IF i = 0 THEN T ELSE f[i - 1] \ {First(f[i - 1])}]
           g == [x \in (1 .. n) \X S |-> x[2] \ {First(x[2])}]
<1>1. n \in Nat
  BY FS_CardinalityType
<1>2. g \in [(1 .. n) \X S -> S] /\ T \in S
  OBVIOUS
<1>3. \A i \in 1 .. n, s \in S : g[<<i, s>>] = s \ {First(s)}
  OBVIOUS
<1> HIDE DEF g, n, S
<1>4. PICK f \in [0 .. n -> S] : f[0] = T /\ \A i \in 1 .. n : f[i] = g[<<i, f[i - 1]>>]
  <2>1. \E f : Iterates(f, n, S, T, g)
    BY <1>1, <1>2, DefinedByRecursion
  <2>2. QED
    BY <2>1 DEF Iterates
<1>5. \A i \in 1 .. n : i \in 0 .. n /\ i - 1 \in 0 .. n /\ i # 0
  BY <1>1
<1>6. \A i \in 1 .. n : f[i] = f[i - 1] \ {First(f[i - 1])}
  BY <1>3, <1>4, <1>5
<1>7. f = Steps(f)
  <2>1. f = [i \in 0 .. n |-> IF i = 0 THEN T ELSE f[i - 1] \ {First(f[i - 1])}]
    <3>1. ASSUME NEW i \in 0 .. n
          PROVE  f[i] = IF i = 0 THEN T ELSE f[i - 1] \ {First(f[i - 1])}
      <4>1. i = 0 \/ i \in 1 .. n
        BY <1>1
      <4>2. QED
        BY <1>4, <1>5, <1>6, <4>1
    <3>2. QED
      BY <3>1
  <2>2. QED
    BY <2>1 DEF n
<1>8. left = Steps(left)
  BY <1>7
<1>9. Sorted(T) = [i \in 1 .. Cardinality(T) |-> First(left[i - 1])]
  BY DEF Sorted
<1> HIDE DEF left
<1>10. left = [i \in 0 .. n |-> IF i = 0 THEN T ELSE left[i - 1] \ {First(left[i - 1])}]
  BY <1>8 DEF n
<1>11. left[0] = T
  BY <1>1, <1>10
<1>12. ASSUME NEW i \in 1 .. n
       PROVE  left[i] = left[i - 1] \ {First(left[i - 1])}
  BY <1>5, <1>10
<1> DEFINE M == {i \in 0 .. n : left[i] \in S}
<1>13. 0 \in M
  BY <1>1, <1>2, <1>11
<1>14. ASSUME NEW i \in 1 .. n, i - 1 \in M PROVE i \in M
  BY <1>5, <1>12, <1>14 DEF S
<1> HIDE DEF M
<1>15. 0 .. n \subseteq M
  BY <1>1, <1>13, <1>14, UpTo
<1>16. left \in [0 .. n -> S]
  <2>1. left = [i \in 0 .. n |-> left[i]]
    BY <1>10
  <2>2. \A i \in 0 .. n : left[i] \in S
    BY <1>15 DEF M
  <2>3. QED
    BY <2>1, <2>2
<1>17. QED
  BY <1>9, <1>11, <1>12, <1>16 DEF n, S

(* Sorting a finite set lists its packages and no others.                  *)
LEMMA SortedLists ==
  ASSUME NEW T, IsFiniteSet(T), Orders(T)
  PROVE  /\ Sorted(T) \in Seq(T)
         /\ \A p \in T : \E i \in DOMAIN Sorted(T) : Sorted(T)[i] = p
<1> DEFINE n == Cardinality(T)
<1>1. n \in Nat
  BY FS_CardinalityType
<1>2. PICK f \in [0 .. n -> SUBSET T] :
            /\ f[0] = T
            /\ \A i \in 1 .. n : f[i] = f[i - 1] \ {First(f[i - 1])}
            /\ Sorted(T) = [i \in 1 .. n |-> First(f[i - 1])]
  BY SortedStepwise
<1> HIDE DEF n
<1>3. \A i \in 1 .. n : i \in 0 .. n /\ i - 1 \in 0 .. n
  BY <1>1
<1>4. ASSUME NEW U \in SUBSET T, U # {} PROVE First(U) \in U
  <2>1. IsFiniteSet(U)
    BY FS_Subset
  <2>2. Orders(U)
    BY DEF Orders
  <2>3. QED
    BY <1>4, <2>1, <2>2, FirstIsMember
<1> DEFINE M == {i \in 0 .. n : Cardinality(f[i]) = n - i}
<1>5. 0 \in M
  BY <1>1, <1>2 DEF n
<1>6. ASSUME NEW i \in 1 .. n, i - 1 \in M PROVE i \in M
  <2>1. PICK U \in SUBSET T : U = f[i - 1]
    BY <1>2, <1>3
  <2>2. IsFiniteSet(U) /\ Cardinality(U) = n - i + 1
    BY <1>1, <1>6, <2>1, FS_Subset
  <2>3. U # {}
    BY <1>1, <2>2, FS_EmptySet
  <2>4. First(U) \in U
    BY <2>3, <1>4
  <2>5. Cardinality(U \ {First(U)}) = n - i
    <3>1. PICK x : x = First(U)
      OBVIOUS
    <3>2. Cardinality(U \ {x}) = Cardinality(U) - 1
      BY <2>2, <2>4, <3>1, FS_RemoveElement
    <3>3. QED
      BY <1>1, <2>2, <3>1, <3>2
  <2>6. QED
    BY <1>2, <1>3, <2>1, <2>5
<1> HIDE DEF M
<1>7. 0 .. n \subseteq M
  BY <1>1, <1>5, <1>6, UpTo
<1>8. ASSUME NEW i \in 1 .. n PROVE First(f[i - 1]) \in f[i - 1] /\ f[i - 1] \in SUBSET T
  <2>1. f[i - 1] \in SUBSET T /\ Cardinality(f[i - 1]) = n - (i - 1)
    BY <1>2, <1>3, <1>7 DEF M
  <2>2. f[i - 1] # {}
    <3>1. n - (i - 1) # 0
      BY <1>1
    <3>2. QED
      BY <2>1, <3>1, FS_EmptySet
  <2>3. QED
    BY <2>1, <2>2, <1>4
<1>9. Sorted(T) \in Seq(T)
  BY <1>1, <1>2, <1>8
<1>10. f[n] = {}
  <2>1. f[n] \in SUBSET T /\ Cardinality(f[n]) = 0
    BY <1>1, <1>2, <1>7 DEF M
  <2>2. IsFiniteSet(f[n])
    BY <2>1, FS_Subset
  <2>3. QED
    BY <2>1, <2>2, FS_EmptySet
<1>11. ASSUME NEW p \in T PROVE \E i \in 1 .. n : First(f[i - 1]) = p
  <2> DEFINE D == {i \in 0 .. n : p \notin f[i]}
  <2>1. D \in SUBSET Nat /\ D # {}
    BY <1>1, <1>10
  <2> HIDE DEF D
  <2>2. PICK i \in D : \A j \in D : i <= j
    BY <2>1, NatMin
  <2> USE DEF D
  <2>3. i \in 1 .. n
    BY <1>1, <1>2, <2>2
  <2>4. p \in f[i - 1]
    <3>1. i - 1 \in 0 .. n /\ i - 1 < i
      BY <1>3, <2>3
    <3>2. QED
      BY <2>2, <3>1
  <2>5. p \notin f[i] /\ f[i] = f[i - 1] \ {First(f[i - 1])}
    BY <1>2, <2>2, <2>3
  <2>6. QED
    BY <2>3, <2>4, <2>5
<1>12. DOMAIN Sorted(T) = 1 .. n /\ \A i \in 1 .. n : Sorted(T)[i] = First(f[i - 1])
  BY <1>2
<1>13. \A p \in T : \E i \in DOMAIN Sorted(T) : Sorted(T)[i] = p
  BY <1>11, <1>12
<1>14. QED
  BY <1>9, <1>13

-----------------------------------------------------------------------------
(* The packages of a world *)

(* p is some versions of section i of the definition of n.                 *)
IsGhostOf(p, n, i) ==
    /\ n \in DOMAIN world.defs /\ i \in DOMAIN world.defs[n].sections
    /\ p = Ghost(n, p.versions) /\ p.versions # {}
    /\ \A v \in p.versions : v \in world.defs[n].versions /\ InSection(world.defs[n].sections[i], v)

(* What is known of an installed package.                                  *)
LEMMA InstalledFacts ==
  ASSUME WellFormed, world \in Worlds, NEW p \in world.installed
  PROVE  /\ IsInstalled(p) /\ IsCandidate(p)
         /\ p.name \in Name /\ p.time \in Nat /\ IsList(p.depends)
         /\ \A q \in world.installed : p.hash = q.hash => p = q
         /\ \E v : /\ p.versions = {v}
                   /\ p = [name |-> p.name, aliases |-> p.aliases, hash |-> p.hash,
                           versions |-> {v}, time |-> p.time, depends |-> p.depends]
<1>1. InstalledPackages(world) /\ p.hash # NoHash
  BY WorldsOK DEF WellFormed
<1>2. PICK v \in p.versions :
         p = [name |-> p.name, aliases |-> p.aliases, hash |-> p.hash,
              versions |-> {v}, time |-> p.time, depends |-> p.depends]
  BY <1>1 DEF InstalledPackages
<1>3. p.versions = {v}
  BY <1>2
<1>4. QED
  BY <1>1, <1>2, <1>3 DEF InstalledPackages, IsInstalled, IsCandidate

(* What is known of a ghost.                                               *)
LEMMA GhostFacts ==
  ASSUME NEW p, NEW n, NEW i, IsGhostOf(p, n, i)
  PROVE  /\ p.name = n /\ p.aliases = {} /\ p.hash = NoHash /\ p.time = 0
         /\ ~ IsInstalled(p)
         /\ Names(p) = {n}
<1>1. p = Ghost(n, p.versions)
  BY DEF IsGhostOf
<1>2. p.name = n /\ p.aliases = {} /\ p.hash = NoHash /\ p.time = 0
  BY <1>1 DEF Ghost
<1>3. QED
  BY <1>2 DEF IsInstalled, Names

(* The ghosts that a definition makes.                                     *)
LEMMA GhostsOfDefinitions ==
  ASSUME WellFormed, world \in Worlds, NEW g \in AllPackages, ~ IsInstalled(g)
  PROVE  \E n, i : /\ IsGhostOf(g, n, i)
                   /\ \A v \in world.defs[n].versions :
                        InSection(world.defs[n].sections[i], v) => v \in g.versions
<1>1. g \notin world.installed
  BY InstalledFacts
<1>2. PICK n \in DOMAIN world.defs : \E V \in GhostVersions(world.defs[n]) : g = Ghost(n, V)
  BY <1>1 DEF AllPackages
<1> DEFINE d == world.defs[n]
<1>b. PICK V \in GhostVersions(d) : g = Ghost(n, V)
  BY <1>2
<1>3. PICK i \in DOMAIN d.sections :
         /\ V = {v \in d.versions : /\ InSection(d.sections[i], v)
                                    /\ \A j \in 1 .. (i - 1) : ~ InSection(d.sections[j], v)}
         /\ V # {}
  BY DEF GhostVersions
<1>4. g.versions = V /\ g.name = n
  BY <1>b DEF Ghost
<1>5. \A v \in V : v \in d.versions /\ InSection(d.sections[i], v)
  BY <1>3
<1>6. IsGhostOf(g, n, i)
  BY <1>b, <1>3, <1>4, <1>5 DEF IsGhostOf
<1>7. ASSUME NEW v \in d.versions, InSection(d.sections[i], v) PROVE v \in V
  <2>1. ASSUME NEW j \in 1 .. (i - 1), InSection(d.sections[j], v) PROVE FALSE
    <3>1. Definitions(world)
      BY DEF WellFormed
    <3>2. IsList(d.sections)
      BY <3>1 DEF Definitions
    <3>3. PICK X : d.sections \in Seq(X)
      BY <3>2 DEF IsList
    <3>4. j \in DOMAIN d.sections /\ j # i
      BY <2>1, <3>3
    <3>5. QED
      BY <1>7, <2>1, <3>1, <3>4 DEF Definitions
  <2>2. QED
    BY <1>3, <1>7, <2>1
<1>8. QED
  BY <1>4, <1>6, <1>7

(* The packages that a list or a constraint may hold.                      *)
LEMMA CandidateCases ==
  ASSUME WellFormed, world \in Worlds, NEW p
  PROVE  IsCandidate(p) <=> p \in world.installed \/ \E n, i : IsGhostOf(p, n, i)
<1>1. ASSUME IsCandidate(p), p \notin world.installed PROVE \E n, i : IsGhostOf(p, n, i)
  <2>1. PICK g \in AllPackages : /\ ~ IsInstalled(g) /\ p = Ghost(g.name, p.versions)
                                 /\ p.versions # {} /\ p.versions \subseteq g.versions
    BY <1>1 DEF IsCandidate
  <2>2. PICK n, i : IsGhostOf(g, n, i)
    BY <2>1, GhostsOfDefinitions
  <2>3. g.name = n
    BY <2>2, GhostFacts
  <2>4. IsGhostOf(p, n, i)
    BY <2>1, <2>2, <2>3 DEF IsGhostOf
  <2>5. QED
    BY <2>4
<1>2. ASSUME NEW n, NEW i, IsGhostOf(p, n, i) PROVE IsCandidate(p)
  <2> DEFINE d == world.defs[n]
             V == {v \in d.versions : /\ InSection(d.sections[i], v)
                                      /\ \A j \in 1 .. (i - 1) : ~ InSection(d.sections[j], v)}
  <2>1. ASSUME NEW v \in p.versions, NEW j \in 1 .. (i - 1), InSection(d.sections[j], v) PROVE FALSE
    <3>1. Definitions(world) /\ n \in DOMAIN world.defs
      BY <1>2 DEF WellFormed, IsGhostOf
    <3>2. IsList(d.sections)
      BY <3>1 DEF Definitions
    <3>3. PICK X : d.sections \in Seq(X)
      BY <3>2 DEF IsList
    <3>4. i \in DOMAIN d.sections /\ v \in d.versions /\ InSection(d.sections[i], v)
      BY <1>2, <2>1 DEF IsGhostOf
    <3>5. j \in DOMAIN d.sections /\ j # i
      BY <2>1, <3>3, <3>4
    <3>6. QED
      BY <2>1, <3>1, <3>4, <3>5 DEF Definitions
  <2>2. p.versions \subseteq V /\ V # {}
    BY <1>2, <2>1 DEF IsGhostOf
  <2>3. V \in GhostVersions(d)
    BY <1>2, <2>2 DEF GhostVersions, IsGhostOf
  <2>4. PICK W : W = V
    OBVIOUS
  <2>5. PICK g : g = Ghost(n, W)
    OBVIOUS
  <2>6. g \in AllPackages
    <3>1. W \in GhostVersions(world.defs[n]) /\ n \in DOMAIN world.defs
      BY <1>2, <2>3, <2>4 DEF IsGhostOf
    <3>2. g \in {Ghost(n, U) : U \in GhostVersions(world.defs[n])}
      BY <2>5, <3>1
    <3>3. QED
      BY <3>1, <3>2 DEF AllPackages
  <2>7. g.name = n /\ g.versions = W /\ ~ IsInstalled(g)
    BY <2>5 DEF Ghost, IsInstalled
  <2>8. p = Ghost(g.name, p.versions) /\ p.versions # {} /\ p.versions \subseteq g.versions
    BY <1>2, <2>2, <2>4, <2>7 DEF IsGhostOf
  <2>9. QED
    BY <2>6, <2>7, <2>8 DEF IsCandidate
<1>3. p \in world.installed => IsCandidate(p)
  BY DEF IsCandidate
<1>4. QED
  BY <1>1, <1>2, <1>3

(* The versions of a candidate are versions of its name, in order.         *)
LEMMA CandidateVersions ==
  ASSUME WellFormed, world \in Worlds, NEW p, IsCandidate(p)
  PROVE  /\ p.name \in Name /\ p.time \in Nat
         /\ IsFiniteSet(p.versions) /\ p.versions # {}
         /\ p.versions \subseteq VersionsNamed(world, p.name)
         /\ Greatest(p.versions) \in p.versions
<1>1. /\ p.name \in Name /\ p.time \in Nat
      /\ IsFiniteSet(p.versions) /\ p.versions # {}
      /\ p.versions \subseteq VersionsNamed(world, p.name)
  <2>1. CASE p \in world.installed
    <3>1. p.name \in Name /\ p.time \in Nat /\ \E v : p.versions = {v}
      BY <2>1, InstalledFacts
    <3>2. p.versions \subseteq VersionsNamed(world, p.name)
      BY <2>1 DEF VersionsNamed
    <3>3. IsFiniteSet(p.versions) /\ p.versions # {}
      BY <3>1, FS_Singleton
    <3>4. QED
      BY <3>1, <3>2, <3>3
  <2>2. CASE \E n, i : IsGhostOf(p, n, i)
    <3>1. PICK n, i : IsGhostOf(p, n, i)
      BY <2>2
    <3>2. p.name = n /\ p.time = 0
      BY <3>1, GhostFacts
    <3>3. n \in DOMAIN world.defs /\ p.versions # {} /\ p.versions \in SUBSET world.defs[n].versions
      BY <3>1 DEF IsGhostOf
    <3>4. n \in Name /\ IsFiniteSet(world.defs[n].versions)
      BY <3>3 DEF WellFormed, Definitions
    <3>5. IsFiniteSet(p.versions)
      BY <3>3, <3>4, FS_Subset
    <3>6. p.versions \subseteq VersionsNamed(world, n)
      <4>1. world.defs[n].versions \subseteq VersionsNamed(world, n)
        BY <3>3 DEF VersionsNamed
      <4>2. QED
        BY <3>3, <4>1
    <3>7. QED
      BY <3>2, <3>3, <3>4, <3>5, <3>6
  <2>3. QED
    BY <2>1, <2>2, CandidateCases
<1>2. PICK V : V = p.versions
  OBVIOUS
<1>3. \A u, v \in V : /\ Less(u, v) => ~ Less(v, u)
                      /\ u # v => Less(u, v) \/ Less(v, u)
                      /\ \A x \in V : Less(u, v) /\ Less(v, x) => Less(u, x)
  <2>1. VersionsOrdered(world)
    BY DEF WellFormed
  <2>2. \A v \in V : v \in VersionsNamed(world, p.name)
    BY <1>1, <1>2
  <2>3. QED
    BY <1>1, <2>1, <2>2 DEF VersionsOrdered
<1>4. Greatest(V) \in V
  BY <1>1, <1>2, <1>3, GreatestIsMember
<1>5. QED
  BY <1>1, <1>2, <1>4

(* Candidates can be sorted.                                               *)
LEMMA CandidatesOrdered ==
  ASSUME WellFormed, world \in Worlds, NEW T, \A p \in T : IsCandidate(p)
  PROVE  Orders(T)
<1> DEFINE g(p) == Greatest(p.versions)
<1>1. \A p \in T : p.name \in Name /\ p.time \in Nat /\ g(p) \in VersionsNamed(world, p.name)
  BY CandidateVersions
<1>2. \A n \in Name : Rank[n] \in Nat
  BY SolverConstantsOK
<1>3. \A n \in Name : \A u, v \in VersionsNamed(world, n) :
        /\ Less(u, v) => ~ Less(v, u)
        /\ \A x \in VersionsNamed(world, n) : Less(u, v) /\ Less(v, x) => Less(u, x)
  BY DEF WellFormed, VersionsOrdered
<1>4. \A a, b : Before(a, b) <=>
        (IF IsInstalled(a) # IsInstalled(b) THEN IsInstalled(a)
         ELSE IF a.name # b.name THEN Rank[a.name] < Rank[b.name]
         ELSE IF g(a) # g(b) THEN Less(g(b), g(a))
         ELSE b.time < a.time)
  BY DEF Before
<1> HIDE DEF g
<1>5. ASSUME NEW a \in T PROVE ~ Before(a, a)
  <2>1. ~ (a.time < a.time)
    BY <1>1
  <2>2. QED
    BY <1>4, <2>1
<1>6. ASSUME NEW a \in T, NEW b \in T, NEW c \in T, Before(a, b), Before(b, c) PROVE Before(a, c)
  <2>1. CASE IsInstalled(a) # IsInstalled(b) \/ IsInstalled(b) # IsInstalled(c)
    BY <1>4, <1>6, <2>1 DEF IsInstalled
  <2>2. CASE /\ IsInstalled(a) = IsInstalled(b) /\ IsInstalled(b) = IsInstalled(c)
             /\ a.name # b.name \/ b.name # c.name
    <3>1. Rank[a.name] \in Nat /\ Rank[b.name] \in Nat /\ Rank[c.name] \in Nat
      BY <1>1, <1>2
    <3>2. Rank[a.name] < Rank[b.name] \/ a.name = b.name
      BY <1>4, <1>6, <2>2
    <3>3. Rank[b.name] < Rank[c.name] \/ b.name = c.name
      BY <1>4, <1>6, <2>2
    <3>4. Rank[a.name] < Rank[c.name]
      BY <2>2, <3>1, <3>2, <3>3
    <3>5. a.name # c.name
      BY <3>1, <3>4
    <3>6. QED
      BY <1>4, <2>2, <3>4, <3>5
  <2>3. CASE /\ IsInstalled(a) = IsInstalled(b) /\ IsInstalled(b) = IsInstalled(c)
             /\ a.name = b.name /\ b.name = c.name
    <3>1. PICK n \in Name : n = a.name /\ n = b.name /\ n = c.name
      BY <1>1, <2>3
    <3>2. PICK u, v, w \in VersionsNamed(world, n) : u = g(a) /\ v = g(b) /\ w = g(c)
      BY <1>1, <3>1
    <3>3. /\ Before(a, b) <=> IF u # v THEN Less(v, u) ELSE b.time < a.time
          /\ Before(b, c) <=> IF v # w THEN Less(w, v) ELSE c.time < b.time
          /\ Before(a, c) <=> IF u # w THEN Less(w, u) ELSE c.time < a.time
      BY <1>4, <2>3, <3>1, <3>2
    <3>4. a.time \in Nat /\ b.time \in Nat /\ c.time \in Nat
      BY <1>1
    <3>5. CASE u = v /\ v = w
      BY <1>6, <3>3, <3>4, <3>5
    <3>6. CASE u # v /\ v = w
      BY <1>6, <3>3, <3>6
    <3>7. CASE u = v /\ v # w
      BY <1>6, <3>3, <3>7
    <3>8. CASE u # v /\ v # w
      <4>1. Less(v, u) /\ Less(w, v)
        BY <1>6, <3>3, <3>8
      <4>2. Less(w, u) /\ ~ Less(v, w)
        BY <1>3, <3>1, <3>2, <4>1
      <4>3. u # w
        BY <4>1, <4>2
      <4>4. QED
        BY <3>3, <4>2, <4>3
    <3>9. QED
      BY <3>5, <3>6, <3>7, <3>8
  <2>4. QED
    BY <2>1, <2>2, <2>3
<1>7. QED
  BY <1>5, <1>6 DEF Orders

(* The images of a finite set are finite.                                  *)
LEMMA ImageIsFinite ==
  ASSUME NEW S, IsFiniteSet(S), NEW f
  PROVE  IsFiniteSet({f[x] : x \in S})
<1> DEFINE T == {f[x] : x \in S}
           h == [x \in S |-> f[x]]
<1>1. h \in [S -> T] /\ \A t \in T : \E x \in S : h[x] = t
  OBVIOUS
<1>2. h \in Surjection(S, T)
  BY <1>1 DEF Surjection
<1> HIDE DEF h, T
<1>3. IsFiniteSet(T)
  BY <1>2, FS_Surjection
<1>4. QED
  BY <1>3 DEF T

(* There are finitely many candidates.                                     *)
LEMMA CandidatesFinite ==
  ASSUME WellFormed, world \in Worlds, NEW T, \A p \in T : IsCandidate(p)
  PROVE  IsFiniteSet(T)
<1> DEFINE N == DOMAIN world.defs
           f == [n \in N |-> world.defs[n].versions]
           F == {f[n] : n \in N}
           P == N \X SUBSET UNION F
           h == [x \in P |-> Ghost(x[1], x[2])]
           G == {h[x] : x \in P}
<1>1. IsFiniteSet(world.installed) /\ IsFiniteSet(N) /\ \A n \in N : IsFiniteSet(world.defs[n].versions)
  BY DEF WellFormed, InstalledPackages, Definitions
<1>2. IsFiniteSet(F) /\ \A V \in F : IsFiniteSet(V)
  <2>1. \A V \in F : IsFiniteSet(V)
    BY <1>1
  <2> HIDE DEF f
  <2>2. QED
    BY <1>1, <2>1, ImageIsFinite
<1>3. IsFiniteSet(P)
  <2> HIDE DEF F
  <2>1. IsFiniteSet(UNION F)
    BY <1>2, FS_UNION
  <2>2. IsFiniteSet(SUBSET UNION F)
    BY <2>1, FS_SUBSET
  <2>3. QED
    BY <1>1, <2>2, FS_Product
<1>4. IsFiniteSet(G)
  <2> HIDE DEF h, P
  <2>1. QED
    BY <1>3, ImageIsFinite
<1>5. T \in SUBSET (world.installed \cup G)
  <2>1. ASSUME NEW p \in T, NEW n, NEW i, IsGhostOf(p, n, i) PROVE p \in G
    <3>1. n \in N /\ p = Ghost(n, p.versions) /\ p.versions \subseteq f[n]
      BY <2>1 DEF IsGhostOf
    <3>2. <<n, p.versions>> \in P
      BY <3>1
    <3>3. h[<<n, p.versions>>] = Ghost(n, p.versions)
      BY <3>2
    <3> HIDE DEF h, P
    <3>4. QED
      BY <3>1, <3>2, <3>3
  <2> HIDE DEF G
  <2>2. \A p \in T : p \in world.installed \/ p \in G
    BY <2>1, CandidateCases
  <2>3. QED
    BY <2>2
<1> HIDE DEF G
<1>6. IsFiniteSet(world.installed \cup G)
  BY <1>1, <1>4, FS_Union
<1>7. QED
  BY <1>5, <1>6, FS_Subset

(* What a ghost depends on is what its section says.                       *)
LEMMA GhostDepends ==
  ASSUME WellFormed, world \in Worlds, NEW p, NEW n, NEW i, IsGhostOf(p, n, i)
  PROVE  DependencyPatterns(p) = world.defs[n].sections[i].install
<1> DEFINE d == world.defs[n]
<1>1. PICK v : v = Greatest(p.versions)
  OBVIOUS
<1>2. v \in d.versions /\ InSection(d.sections[i], v) /\ i \in DOMAIN d.sections /\ n \in DOMAIN world.defs
  <2>1. IsCandidate(p)
    BY CandidateCases
  <2>2. Greatest(p.versions) \in p.versions
    BY <2>1, CandidateVersions
  <2>3. QED
    BY <1>1, <2>2 DEF IsGhostOf
<1>3. \A j \in DOMAIN d.sections : InSection(d.sections[j], v) => j = i
  BY <1>2 DEF WellFormed, Definitions
<1>4. IsList(d.sections)
  BY <1>2 DEF WellFormed, Definitions
<1>5. i \in Nat
  BY <1>2, <1>4 DEF IsList
<1>6. SectionFor(d, v) = d.sections[i]
  <2>1. (CHOOSE k \in DOMAIN d.sections :
           /\ InSection(d.sections[k], v)
           /\ \A j \in DOMAIN d.sections : InSection(d.sections[j], v) => j <= k) = i
    <3>1. \A j \in DOMAIN d.sections : InSection(d.sections[j], v) => j <= i
      BY <1>3, <1>5
    <3>2. QED
      BY <1>2, <1>3, <3>1
  <2>2. QED
    BY <2>1 DEF SectionFor
<1>7. p.name = n /\ ~ IsInstalled(p)
  BY GhostFacts
<1>8. QED
  BY <1>1, <1>6, <1>7 DEF DependencyPatterns

-----------------------------------------------------------------------------
(* Patterns, and packages that tighten others *)

(* Every version of p is one that the pattern asks for.                    *)
Serves(p, pat) ==
    IF pat.hash # NoHash THEN p.hash = pat.hash
    ELSE pat.name \in Names(p) /\ \A v \in p.versions : Compare(v, pat.op, pat.version)

(* c is as tight a constraint as x, or tighter.                            *)
Refines(c, x) ==
    IF IsInstalled(x) THEN c = x
    ELSE c.name = x.name /\ c.versions # {} /\ c.versions \subseteq x.versions

(* A package that refines another refines what that refines.               *)
LEMMA RefinesTransitive ==
  ASSUME NEW a, NEW b, NEW c, Refines(a, b), Refines(b, c)
  PROVE  Refines(a, c)
BY DEF Refines

(* A package refines itself.                                               *)
LEMMA RefinesItself ==
  ASSUME WellFormed, world \in Worlds, NEW p, IsCandidate(p)
  PROVE  Refines(p, p)
BY CandidateVersions DEF Refines

(* What serves a pattern still does when it is tightened.                  *)
LEMMA ServesRefined ==
  ASSUME WellFormed, world \in Worlds, NEW c, NEW x, IsCandidate(x), Refines(c, x),
         NEW pat, Serves(x, pat)
  PROVE  Serves(c, pat)
<1>1. CASE IsInstalled(x)
  BY <1>1 DEF Refines
<1>2. CASE ~ IsInstalled(x)
  <2>1. PICK n, i : IsGhostOf(x, n, i)
    BY <1>2, CandidateCases, InstalledFacts
  <2>2. x.name = n /\ x.hash = NoHash /\ Names(x) = {n}
    BY <2>1, GhostFacts
  <2>3. c.name = x.name /\ c.versions \subseteq x.versions
    BY <1>2 DEF Refines
  <2>4. pat.hash # NoHash => x.hash = pat.hash
    <3>1. Serves(x, pat)
      OBVIOUS
    <3>2. QED
      BY <3>1 DEF Serves
  <2>5. pat.hash = NoHash
    BY <2>2, <2>4
  <2>6. pat.name = n /\ \A v \in x.versions : Compare(v, pat.op, pat.version)
    BY <2>2, <2>5 DEF Serves
  <2>7. pat.name \in Names(c)
    BY <2>2, <2>3, <2>6 DEF Names
  <2>8. QED
    BY <2>3, <2>5, <2>6, <2>7 DEF Serves
<1>3. QED
  BY <1>1, <1>2

(* A pattern finds packages that serve it, when they are narrowed.         *)
LEMMA NarrowedServes ==
  ASSUME WellFormed, world \in Worlds, NEW pat, NEW q \in FindPackages(pat)
  PROVE  IsCandidate(Narrowed(q, pat)) /\ Serves(Narrowed(q, pat), pat)
<1>1. q \in AllPackages
  BY DEF FindPackages
<1>2. IF pat.hash # NoHash THEN q.hash = pat.hash
      ELSE pat.name \in Names(q) /\ Matching(pat, q) # {}
  BY DEF FindPackages
<1>3. CASE IsInstalled(q)
  <2>1. q \in world.installed
    <3>1. ASSUME NEW n \in DOMAIN world.defs, NEW V, q = Ghost(n, V) PROVE FALSE
      BY <1>3, <3>1 DEF Ghost, IsInstalled
    <3>2. QED
      BY <1>1, <3>1 DEF AllPackages
  <2>2. Narrowed(q, pat) = q /\ IsCandidate(q)
    BY <1>3, <2>1 DEF Narrowed, IsCandidate
  <2>3. PICK v : q.versions = {v}
    BY <2>1, InstalledFacts
  <2>4. Serves(q, pat)
    BY <1>2, <2>3 DEF Serves, Matching
  <2>5. QED
    BY <2>2, <2>4
<1>4. CASE ~ IsInstalled(q)
  <2>1. PICK n, i : IsGhostOf(q, n, i)
    BY <1>1, <1>4, GhostsOfDefinitions
  <2>2. q.name = n /\ q.hash = NoHash /\ Names(q) = {n}
    BY <2>1, GhostFacts
  <2>3. pat.hash = NoHash /\ pat.name = n /\ Matching(pat, q) # {}
    BY <1>2, <2>2
  <2>4. PICK p : p = Ghost(n, Matching(pat, q))
    OBVIOUS
  <2>5. p.versions = Matching(pat, q)
    BY <2>4 DEF Ghost
  <2>6. \A v \in p.versions : v \in q.versions /\ Compare(v, pat.op, pat.version)
    BY <2>5 DEF Matching
  <2>7. IsGhostOf(p, n, i)
    BY <2>1, <2>3, <2>4, <2>5, <2>6 DEF IsGhostOf
  <2>8. Narrowed(q, pat) = p
    BY <1>4, <2>2, <2>4 DEF Narrowed
  <2>9. Names(p) = {n}
    BY <2>7, GhostFacts
  <2>10. Serves(p, pat) /\ IsCandidate(p)
    BY <2>3, <2>6, <2>7, <2>9, CandidateCases DEF Serves
  <2>11. QED
    BY <2>8, <2>10
<1>5. QED
  BY <1>3, <1>4

(* A tightened constraint refines both packages.                           *)
LEMMA TightenedRefines ==
  ASSUME WellFormed, world \in Worlds, NEW c, IsCandidate(c), NEW x, IsCandidate(x),
         c.name = x.name, Agree(c, x)
  PROVE  /\ IsCandidate(Tightened(c, x))
         /\ Refines(Tightened(c, x), c) /\ Refines(Tightened(c, x), x)
         /\ Tightened(c, x).name = x.name
<1>1. CASE IsInstalled(c) /\ IsInstalled(x)
  <2>1. c \in world.installed /\ x \in world.installed
    BY <1>1, CandidateCases, GhostFacts
  <2>2. c = x
    BY <1>1, <2>1, InstalledFacts DEF Agree
  <2>3. QED
    BY <1>1, <2>2, RefinesItself DEF Tightened
<1>2. CASE IsInstalled(c) /\ ~ IsInstalled(x)
  <2>1. c \in world.installed
    BY <1>2, CandidateCases, GhostFacts
  <2>2. PICK v : c.versions = {v}
    BY <2>1, InstalledFacts
  <2>3. c.versions \subseteq x.versions
    BY <1>2, <2>2 DEF Agree
  <2>4. Tightened(c, x) = c
    BY <1>2 DEF Tightened
  <2>5. Refines(c, x)
    BY <1>2, <2>2, <2>3 DEF Refines
  <2>6. QED
    BY <2>4, <2>5, RefinesItself
<1>3. CASE ~ IsInstalled(c) /\ IsInstalled(x)
  <2>1. x \in world.installed
    BY <1>3, CandidateCases, GhostFacts
  <2>2. PICK v : x.versions = {v}
    BY <2>1, InstalledFacts
  <2>3. x.versions \subseteq c.versions
    BY <1>3, <2>2 DEF Agree
  <2>4. Tightened(c, x) = x
    BY <1>3 DEF Tightened
  <2>5. Refines(x, c)
    BY <1>3, <2>2, <2>3 DEF Refines
  <2>6. QED
    BY <2>4, <2>5, RefinesItself
<1>4. CASE ~ IsInstalled(c) /\ ~ IsInstalled(x)
  <2>1. PICK n, i : IsGhostOf(c, n, i)
    BY <1>4, CandidateCases, InstalledFacts
  <2>2. PICK V : V = c.versions \cap x.versions
    OBVIOUS
  <2>3. PICK t : t = Ghost(c.name, V)
    OBVIOUS
  <2>4. Tightened(c, x) = t
    BY <1>4, <2>2, <2>3 DEF Tightened
  <2>5. c.name = n /\ t.name = c.name /\ t.versions = V
    BY <2>1, <2>3, GhostFacts DEF Ghost
  <2>6. V # {}
    BY <1>4, <2>2 DEF Agree
  <2>7. IsGhostOf(t, n, i)
    BY <2>1, <2>2, <2>3, <2>5, <2>6 DEF IsGhostOf
  <2>8. IsCandidate(t)
    BY <2>7, CandidateCases
  <2>9. Refines(t, c) /\ Refines(t, x)
    BY <1>4, <2>2, <2>5, <2>6 DEF Refines
  <2>10. QED
    BY <2>4, <2>5, <2>8, <2>9
<1>5. QED
  BY <1>1, <1>2, <1>3, <1>4

-----------------------------------------------------------------------------
(* Lists of alternatives *)

Candidates ==
    {p \in world.installed \cup
           {Ghost(n, V) : n \in DOMAIN world.defs,
                          V \in SUBSET UNION {world.defs[m].versions : m \in DOMAIN world.defs}} :
        IsCandidate(p)}

(* The set has every package that is a candidate.                          *)
LEMMA CandidatesAre ==
  ASSUME WellFormed, world \in Worlds, NEW p
  PROVE  p \in Candidates <=> IsCandidate(p)
<1>1. ASSUME NEW n, NEW i, IsGhostOf(p, n, i)
      PROVE  p \in {Ghost(m, V) : m \in DOMAIN world.defs,
                       V \in SUBSET UNION {world.defs[m].versions : m \in DOMAIN world.defs}}
  <2>1. n \in DOMAIN world.defs /\ p = Ghost(n, p.versions) /\ p.versions \subseteq world.defs[n].versions
    BY <1>1 DEF IsGhostOf
  <2>2. p.versions \in SUBSET UNION {world.defs[m].versions : m \in DOMAIN world.defs}
    BY <2>1
  <2>3. QED
    BY <2>1, <2>2
<1>2. QED
  BY <1>1, CandidateCases DEF Candidates

(* What a list of alternatives holds.                                      *)
LEMMA AlternativesList ==
  ASSUME WellFormed, world \in Worlds, NEW C, NEW pat
  PROVE  /\ Alternatives(C, pat) \in Seq(Candidates)
         /\ \A i \in DOMAIN Alternatives(C, pat) : Serves(Alternatives(C, pat)[i], pat)
         /\ \A p \in Matches(C, pat) :
               \E i \in DOMAIN Alternatives(C, pat) : Alternatives(C, pat)[i] = p
<1> DEFINE T == Matches(C, pat)
<1>1. \A p \in T : IsCandidate(p) /\ Serves(p, pat)
  BY NarrowedServes DEF Matches
<1>2. \A p \in T : p \in Candidates
  BY <1>1, CandidatesAre
<1> HIDE DEF T
<1>3. IsFiniteSet(T) /\ Orders(T)
  BY <1>1, CandidatesFinite, CandidatesOrdered
<1>4. PICK s : s = Sorted(T)
  OBVIOUS
<1>5. s \in Seq(T) /\ \A p \in T : \E i \in DOMAIN s : s[i] = p
  BY <1>3, <1>4, SortedLists
<1>6. s \in Seq(Candidates) /\ \A i \in DOMAIN s : Serves(s[i], pat)
  BY <1>1, <1>2, <1>5
<1>7. Alternatives(C, pat) = s
  BY <1>4 DEF Alternatives, T
<1>8. QED
  BY <1>5, <1>6, <1>7 DEF T

(* A list K that goes on where L ends.                                     *)
Continues(K, L) == Len(L) <= Len(K) /\ \A i \in 1 .. Len(L) : K[i] = L[i]

(* A pattern that a constraint serves, or each package of a list.          *)
Covered(C, lists, pat) ==
    \/ \E i \in DOMAIN C : Serves(C[i], pat)
    \/ \E i \in DOMAIN lists : \A p \in ToSet(lists[i]) : Serves(p, pat)

(* What is covered remains so when lists are added.                        *)
LEMMA CoveredContinues ==
  ASSUME NEW Z, NEW C, NEW L \in Seq(Z), NEW K \in Seq(Z), Continues(K, L), NEW pat,
         Covered(C, L, pat)
  PROVE  Covered(C, K, pat)
<1>1. CASE \E i \in DOMAIN C : Serves(C[i], pat)
  BY <1>1 DEF Covered
<1>2. CASE \E i \in DOMAIN L : \A p \in ToSet(L[i]) : Serves(p, pat)
  <2>1. PICK i \in DOMAIN L : \A p \in ToSet(L[i]) : Serves(p, pat)
    BY <1>2
  <2>2. i \in DOMAIN K /\ K[i] = L[i]
    BY DEF Continues
  <2>3. QED
    BY <2>1, <2>2 DEF Covered
<1>3. QED
  BY <1>1, <1>2 DEF Covered

(* A package identical to a candidate that serves a pattern does, too.     *)
LEMMA IdenticalServes ==
  ASSUME WellFormed, world \in Worlds, NEW a, IsCandidate(a), NEW b, IsCandidate(b),
         Identical(a, b), NEW pat, Serves(a, pat)
  PROVE  Serves(b, pat)
<1>1. Refines(b, a)
  <2>1. CASE IsInstalled(a)
    <3>1. a \in world.installed
      BY <2>1, CandidateCases, GhostFacts
    <3>2. a.hash = b.hash
      BY <2>1 DEF Identical
    <3>3. IsInstalled(b)
      BY <2>1, <3>2 DEF IsInstalled
    <3>4. b \in world.installed
      BY <3>3, CandidateCases, GhostFacts
    <3>5. a = b
      BY <3>1, <3>2, <3>4, InstalledFacts
    <3>6. QED
      BY <2>1, <3>5 DEF Refines
  <2>2. CASE ~ IsInstalled(a)
    <3>1. a.name = b.name /\ a.versions = b.versions
      BY <2>2 DEF Identical
    <3>2. b.versions # {}
      BY CandidateVersions
    <3>3. QED
      BY <2>2, <3>1, <3>2 DEF Refines
  <2>3. QED
    BY <2>1, <2>2
<1>2. QED
  BY <1>1, ServesRefined

(* A list that is redundant was not needed.                                *)
LEMMA RedundantIsCovered ==
  ASSUME WellFormed, world \in Worlds, NEW C \in Seq(Candidates), NEW K \in Seq(Seq(Candidates)),
         NEW L \in Seq(Candidates), NEW pat, \A i \in DOMAIN L : Serves(L[i], pat),
         IsRedundant(C, K, L)
  PROVE  Covered(C, K, pat)
<1>1. CASE Len(L) = 1 /\ \E i \in DOMAIN C : Identical(L[1], C[i])
  <2>1. PICK i \in DOMAIN C : Identical(L[1], C[i])
    BY <1>1
  <2>a. 1 \in DOMAIN L
    BY <1>1
  <2>2. L[1] \in Candidates /\ C[i] \in Candidates /\ Serves(L[1], pat)
    BY <2>a
  <2>3. IsCandidate(L[1]) /\ IsCandidate(C[i])
    BY <2>2, CandidatesAre
  <2>4. PICK a, b : a = L[1] /\ b = C[i]
    OBVIOUS
  <2>5. Serves(b, pat)
    BY <2>1, <2>2, <2>3, <2>4, IdenticalServes
  <2>6. QED
    BY <2>4, <2>5 DEF Covered
<1>2. CASE L # <<>> /\ \E i \in DOMAIN K : SameList(L, K[i])
  <2>1. PICK k \in DOMAIN K : SameList(L, K[k])
    BY <1>2
  <2>2. PICK M \in Seq(Candidates) : M = K[k]
    OBVIOUS
  <2>3. Len(L) = Len(M) /\ \A i \in DOMAIN L : Identical(L[i], M[i])
    BY <2>1, <2>2 DEF SameList
  <2>4. ASSUME NEW i \in DOMAIN M PROVE Serves(M[i], pat)
    <3>1. i \in DOMAIN L
      BY <2>3
    <3>2. L[i] \in Candidates /\ M[i] \in Candidates /\ Serves(L[i], pat) /\ Identical(L[i], M[i])
      BY <2>3, <3>1
    <3>3. PICK a, b : a = L[i] /\ b = M[i]
      OBVIOUS
    <3>4. IsCandidate(a) /\ IsCandidate(b)
      BY <3>2, <3>3, CandidatesAre
    <3>5. QED
      BY <3>2, <3>3, <3>4, IdenticalServes
  <2>5. \A p \in ToSet(M) : Serves(p, pat)
    BY <2>4 DEF ToSet
  <2>6. QED
    BY <2>2, <2>5 DEF Covered
<1>3. QED
  BY <1>1, <1>2 DEF IsRedundant

(* Adding the list of a pattern.                                           *)
LEMMA AddListCovers ==
  ASSUME WellFormed, world \in Worlds, NEW C \in Seq(Candidates), NEW L \in Seq(Seq(Candidates)),
         NEW pat
  PROVE  LET K == AddList(C, L, Alternatives(C, pat))
         IN  /\ K \in Seq(Seq(Candidates))
             /\ Continues(K, L)
             /\ Covered(C, K, pat)
             /\ \A i \in DOMAIN K : i \notin DOMAIN L => K[i] = Alternatives(C, pat)
<1>1. PICK A \in Seq(Candidates) :
         A = Alternatives(C, pat) /\ \A i \in DOMAIN A : Serves(A[i], pat)
  BY AlternativesList
<1>2. PICK K : K = AddList(C, L, A)
  OBVIOUS
<1>3. CASE IsRedundant(C, L, A)
  <2>1. K = L
    BY <1>2, <1>3 DEF AddList
  <2>2. Covered(C, L, pat)
    BY <1>1, <1>3, RedundantIsCovered
  <2>3. QED
    BY <1>1, <1>2, <2>1, <2>2 DEF Continues
<1>4. CASE ~ IsRedundant(C, L, A)
  <2>1. K = Append(L, A)
    BY <1>2, <1>4 DEF AddList
  <2>2. PICK S : S = Seq(Candidates)
    OBVIOUS
  <2>3. /\ K \in Seq(S) /\ Len(K) = Len(L) + 1 /\ K[Len(L) + 1] = A
        /\ \A i \in 1 .. Len(L) : K[i] = L[i]
    BY <1>1, <2>1, <2>2
  <2>4. Len(L) + 1 \in DOMAIN K /\ \A i \in DOMAIN K : i \notin DOMAIN L => i = Len(L) + 1
    BY <2>2, <2>3
  <2>5. \A p \in ToSet(A) : Serves(p, pat)
    BY <1>1 DEF ToSet
  <2>6. Covered(C, K, pat)
    BY <2>3, <2>4, <2>5 DEF Covered
  <2>7. Continues(K, L)
    <3>1. PICK n : n = Len(L)
      OBVIOUS
    <3>2. n \in Nat /\ Len(K) = n + 1
      BY <2>2, <2>3, <3>1
    <3>3. n <= Len(K)
      BY <3>2
    <3>4. QED
      BY <2>3, <3>1, <3>3 DEF Continues
  <2>8. QED
    BY <1>1, <1>2, <2>2, <2>3, <2>4, <2>6, <2>7
<1>5. QED
  BY <1>3, <1>4

(* The lists, as the patterns are taken one after the other.               *)
LEMMA ExtendListsStepwise ==
  ASSUME WellFormed, world \in Worlds, NEW C \in Seq(Candidates), NEW L \in Seq(Seq(Candidates)),
         NEW P, NEW pats \in Seq(P)
  PROVE  \E f \in [0 .. Len(pats) -> Seq(Seq(Candidates))] :
            /\ f[0] = L
            /\ \A i \in 1 .. Len(pats) :
                  f[i] = IF Len(f[i - 1]) > Len(L) /\ Last(f[i - 1]) = <<>> THEN f[i - 1]
                         ELSE AddList(C, f[i - 1], Alternatives(C, pats[i]))
            /\ ExtendLists(C, L, pats) = f[Len(pats)]
<1> DEFINE n == Len(pats)
           S == Seq(Seq(Candidates))
           G(i, M) == IF Len(M) > Len(L) /\ Last(M) = <<>> THEN M
                      ELSE AddList(C, M, Alternatives(C, pats[i]))
           K[i \in 0 .. Len(pats)] ==
             IF i = 0 THEN L
             ELSE IF Len(K[i - 1]) > Len(L) /\ Last(K[i - 1]) = <<>> THEN K[i - 1]
             ELSE AddList(C, K[i - 1], Alternatives(C, pats[i]))
           Steps(f) == [i \in 0 .. Len(pats) |->
             IF i = 0 THEN L
             ELSE IF Len(f[i - 1]) > Len(L) /\ Last(f[i - 1]) = <<>> THEN f[i - 1]
             ELSE AddList(C, f[i - 1], Alternatives(C, pats[i]))]
           g == [x \in (1 .. n) \X S |-> G(x[1], x[2])]
<1>1. n \in Nat
  OBVIOUS
<1>2. \A i \in 1 .. n, M \in S : G(i, M) \in S
  <2> SUFFICES ASSUME NEW i \in 1 .. n, NEW M \in S PROVE G(i, M) \in S
    OBVIOUS
  <2>1. PICK pat : pat = pats[i]
    OBVIOUS
  <2>2. AddList(C, M, Alternatives(C, pat)) \in S
    BY AddListCovers
  <2>3. QED
    BY <2>1, <2>2
<1>3. L \in S
  OBVIOUS
<1>4. ExtendLists(C, L, pats) = K[n]
  BY DEF ExtendLists
<1>5. \A f : Steps(f) = [i \in 0 .. n |-> IF i = 0 THEN L ELSE G(i, f[i - 1])]
  OBVIOUS
<1> HIDE DEF S, G
<1>6. g \in [(1 .. n) \X S -> S]
  BY <1>2
<1>7. \A i \in 1 .. n, M \in S : g[<<i, M>>] = G(i, M)
  OBVIOUS
<1> HIDE DEF g, n
<1>8. PICK f \in [0 .. n -> S] : f[0] = L /\ \A i \in 1 .. n : f[i] = g[<<i, f[i - 1]>>]
  <2>1. \E f : Iterates(f, n, S, L, g)
    BY <1>1, <1>3, <1>6, DefinedByRecursion
  <2>2. QED
    BY <2>1 DEF Iterates
<1>9. \A i \in 1 .. n : i \in 0 .. n /\ i - 1 \in 0 .. n /\ i # 0
  BY <1>1
<1>10. \A i \in 1 .. n : f[i] = G(i, f[i - 1])
  BY <1>7, <1>8, <1>9
<1>11. f = Steps(f)
  <2>1. f = [i \in 0 .. n |-> IF i = 0 THEN L ELSE G(i, f[i - 1])]
    <3>1. ASSUME NEW i \in 0 .. n
          PROVE  f[i] = IF i = 0 THEN L ELSE G(i, f[i - 1])
      <4>1. i = 0 \/ i \in 1 .. n
        BY <1>1
      <4>2. QED
        BY <1>8, <1>9, <1>10, <4>1
    <3>2. QED
      BY <3>1
  <2>2. QED
    BY <2>1, <1>5
<1>12. K = Steps(K)
  BY <1>11
<1> HIDE DEF K
<1>13. K = [i \in 0 .. n |-> IF i = 0 THEN L ELSE G(i, K[i - 1])]
  BY <1>5, <1>12
<1> HIDE DEF Steps
<1>14. K[0] = L
  BY <1>1, <1>13
<1>15. ASSUME NEW i \in 1 .. n
       PROVE  K[i] = G(i, K[i - 1])
  BY <1>9, <1>13
<1> DEFINE M == {i \in 0 .. n : K[i] \in S}
<1>16. 0 \in M
  BY <1>1, <1>3, <1>14
<1>17. ASSUME NEW i \in 1 .. n, i - 1 \in M PROVE i \in M
  BY <1>2, <1>9, <1>15, <1>17
<1> HIDE DEF M
<1>18. 0 .. n \subseteq M
  BY <1>1, <1>16, <1>17, UpTo
<1>19. K \in [0 .. n -> S]
  <2>1. K = [i \in 0 .. n |-> K[i]]
    BY <1>13
  <2>2. \A i \in 0 .. n : K[i] \in S
    BY <1>18 DEF M
  <2>3. QED
    BY <2>1, <2>2
<1>20. QED
  BY <1>4, <1>14, <1>15, <1>19 DEF n, S, G

(* A list that goes on where one ends that goes on where another ends.     *)
LEMMA ContinuesTransitive ==
  ASSUME NEW S, NEW A \in Seq(S), NEW B \in Seq(S), NEW C \in Seq(S),
         Continues(A, B), Continues(B, C)
  PROVE  Continues(A, C)
BY DEF Continues

(* K has the lists L, and then lists for patterns.                         *)
Extension(K, C, L, pats) ==
    /\ K \in Seq(Seq(Candidates))
    /\ Continues(K, L)
    /\ ~ IsAnyListEmpty(K) => \A j \in DOMAIN pats : Covered(C, K, pats[j])
    /\ \A i \in DOMAIN K : i \notin DOMAIN L =>
          \E j \in DOMAIN pats : K[i] = Alternatives(C, pats[j])

(* What lists are added for a list of patterns.                            *)
LEMMA ExtendListsCovers ==
  ASSUME WellFormed, world \in Worlds, NEW C \in Seq(Candidates), NEW L \in Seq(Seq(Candidates)),
         NEW P, NEW pats \in Seq(P)
  PROVE  Extension(ExtendLists(C, L, pats), C, L, pats)
<1> DEFINE n == Len(pats)
<1>1. n \in Nat /\ DOMAIN pats = 1 .. n
  OBVIOUS
<1>2. PICK S : S = Seq(Candidates)
  OBVIOUS
<1>3. PICK f \in [0 .. n -> Seq(S)] :
            /\ f[0] = L
            /\ \A i \in 1 .. n :
                  f[i] = IF Len(f[i - 1]) > Len(L) /\ Last(f[i - 1]) = <<>> THEN f[i - 1]
                         ELSE AddList(C, f[i - 1], Alternatives(C, pats[i]))
            /\ ExtendLists(C, L, pats) = f[n]
  <2> HIDE DEF n
  <2>1. \E f \in [0 .. Len(pats) -> Seq(Seq(Candidates))] :
            /\ f[0] = L
            /\ \A i \in 1 .. Len(pats) :
                  f[i] = IF Len(f[i - 1]) > Len(L) /\ Last(f[i - 1]) = <<>> THEN f[i - 1]
                         ELSE AddList(C, f[i - 1], Alternatives(C, pats[i]))
            /\ ExtendLists(C, L, pats) = f[Len(pats)]
    BY ExtendListsStepwise
  <2>2. QED
    BY <1>2, <2>1, Zenon DEF n
<1> HIDE DEF n
<1> DEFINE Good(K, i) ==
             /\ Continues(K, L)
             /\ ~ IsAnyListEmpty(K) => \A j \in 1 .. i : Covered(C, K, pats[j])
             /\ \A k \in DOMAIN K : k \notin DOMAIN L =>
                   \E j \in 1 .. n : K[k] = Alternatives(C, pats[j])
           M == {i \in 0 .. n : Good(f[i], i)}
<1>4. 0 \in M
  <2>1. Continues(L, L)
    BY DEF Continues
  <2>2. 1 .. 0 = {} /\ 0 \in 0 .. n
    BY <1>1
  <2>3. Good(L, 0)
    BY <2>1, <2>2
  <2> HIDE DEF Good
  <2>4. QED
    BY <1>3, <2>2, <2>3
<1>5. ASSUME NEW i \in 1 .. n, i - 1 \in M PROVE i \in M
  <2>1. PICK A \in Seq(S) : A = f[i - 1]
    BY <1>1, <1>3
  <2>2. Good(A, i - 1)
    BY <1>5, <2>1
  <2>3. CASE Len(A) > Len(L) /\ Last(A) = <<>>
    <3>1. f[i] = A
      BY <1>3, <2>1, <2>3
    <3>2. IsAnyListEmpty(A)
      <4>1. Len(A) \in DOMAIN A
        BY <1>2, <2>3
      <4>2. QED
        BY <2>3, <4>1 DEF Last, IsAnyListEmpty
    <3>3. Good(A, i)
      BY <2>2, <3>2
    <3> HIDE DEF Good
    <3>4. QED
      BY <1>1, <3>1, <3>3
  <2>4. CASE ~ (Len(A) > Len(L) /\ Last(A) = <<>>)
    <3>1. PICK pat : pat = pats[i]
      OBVIOUS
    <3>2. PICK K : K = AddList(C, A, Alternatives(C, pat))
      OBVIOUS
    <3>3. f[i] = K
      BY <1>3, <2>1, <2>4, <3>1, <3>2
    <3>4. /\ K \in Seq(S) /\ Continues(K, A) /\ Covered(C, K, pat)
          /\ \A k \in DOMAIN K : k \notin DOMAIN A => K[k] = Alternatives(C, pat)
      BY <1>2, <2>1, <3>2, AddListCovers
    <3>5. Continues(K, L)
      BY <1>2, <2>2, <3>4, ContinuesTransitive
    <3>6. ASSUME ~ IsAnyListEmpty(K), NEW j \in 1 .. i PROVE Covered(C, K, pats[j])
      <4>1. ~ IsAnyListEmpty(A)
        <5>1. \A k \in DOMAIN A : k \in DOMAIN K /\ K[k] = A[k]
          BY <3>4 DEF Continues
        <5>2. QED
          BY <3>6, <5>1 DEF IsAnyListEmpty
      <4>2. CASE j = i
        BY <3>1, <3>4, <4>2
      <4>3. CASE j # i
        <5>1. j \in 1 .. (i - 1)
          BY <1>1, <4>3
        <5>2. PICK q : q = pats[j]
          OBVIOUS
        <5>3. Covered(C, A, q)
          BY <2>2, <4>1, <5>1, <5>2
        <5>4. Covered(C, K, q)
          BY <3>4, <5>3, CoveredContinues
        <5>5. QED
          BY <5>2, <5>4
      <4>4. QED
        BY <4>2, <4>3
    <3>7. ASSUME NEW k \in DOMAIN K, k \notin DOMAIN L
          PROVE  \E j \in 1 .. n : K[k] = Alternatives(C, pats[j])
      <4>1. CASE k \in DOMAIN A
        <5>1. K[k] = A[k]
          BY <3>4, <4>1 DEF Continues
        <5>2. QED
          BY <2>2, <3>7, <4>1, <5>1
      <4>2. CASE k \notin DOMAIN A
        BY <3>1, <3>4, <4>2
      <4>3. QED
        BY <4>1, <4>2
    <3>8. Good(K, i)
      BY <3>5, <3>6, <3>7
    <3> HIDE DEF Good
    <3>9. QED
      BY <1>1, <3>3, <3>8
  <2>5. QED
    BY <2>3, <2>4
<1> HIDE DEF M
<1>6. 0 .. n \subseteq M
  BY <1>1, <1>4, <1>5, UpTo
<1>7. Good(f[n], n) /\ f[n] \in Seq(S)
  <2> HIDE DEF Good
  <2>1. n \in 0 .. n
    BY <1>1
  <2>2. QED
    BY <1>3, <1>6, <2>1 DEF M
<1>8. QED
  BY <1>1, <1>2, <1>3, <1>7 DEF Extension

-----------------------------------------------------------------------------
(* Constraints that cover patterns *)

(* A tighter ghost depends on the same packages.                           *)
LEMMA RefinedDepends ==
  ASSUME WellFormed, world \in Worlds, NEW c, IsCandidate(c), NEW x, IsCandidate(x),
         Refines(c, x), IsInstalled(c) = IsInstalled(x)
  PROVE  DependencyPatterns(c) = DependencyPatterns(x)
<1>1. CASE IsInstalled(x)
  BY <1>1 DEF Refines
<1>2. CASE ~ IsInstalled(x)
  <2>1. PICK n, i : IsGhostOf(x, n, i)
    BY <1>2, CandidateCases, InstalledFacts
  <2>2. PICK m, j : IsGhostOf(c, m, j)
    BY <1>2, CandidateCases, InstalledFacts
  <2>3. x.name = n /\ c.name = m /\ c.name = x.name /\ c.versions # {} /\ c.versions \subseteq x.versions
    BY <1>2, <2>1, <2>2, GhostFacts DEF Refines
  <2>4. IsGhostOf(c, n, i)
    BY <2>1, <2>2, <2>3 DEF IsGhostOf
  <2>5. QED
    BY <2>1, <2>4, GhostDepends
<1>3. QED
  BY <1>1, <1>2

(* D has a tighter version of each package of C.                           *)
Tightens(D, C) ==
    \A i \in DOMAIN C : i \in DOMAIN D /\ Refines(D[i], C[i])

(* What is covered remains so when the constraints are tightened.          *)
LEMMA CoveredTightens ==
  ASSUME WellFormed, world \in Worlds, NEW C \in Seq(Candidates), NEW D, Tightens(D, C),
         NEW L, NEW pat, Covered(C, L, pat)
  PROVE  Covered(D, L, pat)
<1>1. ASSUME NEW i \in DOMAIN C, Serves(C[i], pat) PROVE Serves(D[i], pat)
  <2>1. PICK c, d : c = C[i] /\ d = D[i]
    OBVIOUS
  <2>2. c \in Candidates /\ Refines(d, c)
    BY <2>1 DEF Tightens
  <2>3. IsCandidate(c)
    BY <2>2, CandidatesAre
  <2>4. QED
    BY <1>1, <2>1, <2>2, <2>3, ServesRefined
<1>2. QED
  BY <1>1 DEF Covered, Tightens

(* What a package that fits makes of the constraints.                      *)
LEMMA ConstrainTightens ==
  ASSUME WellFormed, world \in Worlds, NEW C \in Seq(Candidates), Compatible(C),
         NEW x \in Candidates, Fits(C, x)
  PROVE  LET D == Constrain(C, x)
         IN  /\ D \in Seq(Candidates)
             /\ Tightens(D, C)
             /\ \E i \in DOMAIN D : Refines(D[i], x)
             /\ \A i \in DOMAIN D :
                   \/ i \in DOMAIN C /\ DependencyPatterns(D[i]) = DependencyPatterns(C[i])
                   \/ NeedDeps(C, x) /\ DependencyPatterns(D[i]) = DependencyPatterns(x)
<1>1. IsCandidate(x) /\ \A i \in DOMAIN C : IsCandidate(C[i]) /\ C[i] \in Candidates
  <2>1. \A i \in DOMAIN C : C[i] \in Candidates
    OBVIOUS
  <2>2. QED
    BY <2>1, CandidatesAre
<1>2. PICK D : D = Constrain(C, x)
  OBVIOUS
<1>3. CASE Position(C, x) = {}
  <2>1. D = Append(C, x) /\ NeedDeps(C, x)
    BY <1>2, <1>3 DEF Constrain, NeedDeps
  <2>2. PICK Z : Z = Candidates
    OBVIOUS
  <2>3. /\ D \in Seq(Z) /\ Len(D) = Len(C) + 1 /\ D[Len(C) + 1] = x /\ Len(C) \in Nat
        /\ \A i \in DOMAIN C : i \in DOMAIN D /\ D[i] = C[i]
    BY <2>1, <2>2
  <2>4. Len(C) + 1 \in DOMAIN D /\ \A i \in DOMAIN D : i \notin DOMAIN C => i = Len(C) + 1
    BY <2>3
  <2>5. Refines(x, x) /\ \A i \in DOMAIN C : Refines(C[i], C[i])
    BY <1>1, RefinesItself
  <2>6. Tightens(D, C)
    BY <2>3, <2>5 DEF Tightens
  <2>7. QED
    BY <1>2, <2>1, <2>2, <2>3, <2>4, <2>5, <2>6
<1>4. CASE Position(C, x) # {}
  <2>1. PICK k \in DOMAIN C : C[k].name = x.name
    BY <1>4 DEF Position
  <2>2. PICK c, t : c = C[k] /\ t = Tightened(c, x)
    OBVIOUS
  <2>3. \A j \in DOMAIN C : C[j].name = x.name => j = k
    BY <2>1 DEF Compatible, Names
  <2>4. D = [j \in DOMAIN C |-> IF j = k THEN t ELSE C[j]]
    BY <1>2, <1>4, <2>1, <2>2, <2>3 DEF Constrain
  <2>5. Agree(c, x)
    BY <1>4, <2>1, <2>2 DEF Fits, Position
  <2>6. IsCandidate(t) /\ Refines(t, c) /\ Refines(t, x)
    BY <1>1, <2>1, <2>2, <2>5, TightenedRefines
  <2>7. t \in Candidates
    BY <2>6, CandidatesAre
  <2>8. D \in Seq(Candidates) /\ DOMAIN D = DOMAIN C
    BY <2>4, <2>7
  <2>9. \A j \in DOMAIN C : Refines(C[j], C[j])
    BY <1>1, RefinesItself
  <2>10. Tightens(D, C)
    BY <2>2, <2>4, <2>6, <2>9 DEF Tightens
  <2>11. \/ DependencyPatterns(t) = DependencyPatterns(c)
         \/ NeedDeps(C, x) /\ DependencyPatterns(t) = DependencyPatterns(x)
    <3>1. CASE IsInstalled(t) = IsInstalled(c)
      BY <1>1, <2>2, <2>6, <3>1, RefinedDepends
    <3>2. CASE IsInstalled(t) # IsInstalled(c)
      <4>1. ~ IsInstalled(c) /\ IsInstalled(x) /\ t = x
        BY <2>2, <3>2 DEF Tightened, IsInstalled, Ghost
      <4>2. NeedDeps(C, x)
        BY <2>2, <2>3, <4>1 DEF NeedDeps, Position
      <4>3. QED
        BY <4>1, <4>2
    <3>3. QED
      BY <3>1, <3>2
  <2>12. \A i \in DOMAIN D : D[i] = IF i = k THEN t ELSE C[i]
    BY <2>4, <2>8
  <2>13. QED
    BY <1>2, <2>1, <2>2, <2>6, <2>8, <2>10, <2>11, <2>12
<1>5. QED
  BY <1>3, <1>4

(* What is a candidate depends on the world alone.                         *)
LEMMA SameCandidates ==
  ASSUME world' = world
  PROVE  /\ Candidates' = Candidates
         /\ \A p : IsCandidate(p)' <=> IsCandidate(p)
         /\ \A p : DependencyPatterns(p)' = DependencyPatterns(p)
         /\ \A S : IsSolution(S)' <=> IsSolution(S)
<1>1. AllPackages' = AllPackages
  BY DEF AllPackages
<1>2. \A p : IsCandidate(p)' <=> IsCandidate(p)
  BY <1>1 DEF IsCandidate
<1>3. \A p : DependencyPatterns(p)' = DependencyPatterns(p)
  BY DEF DependencyPatterns
<1>4. Candidates' = Candidates
  BY <1>2 DEF Candidates
<1>5. Generators' = Generators
  BY <1>1 DEF Generators, FindPackages
<1>6. \A S : IsSolution(S)' <=> IsSolution(S)
  BY <1>3, <1>5 DEF IsSolution
<1>7. QED
  BY <1>2, <1>3, <1>4, <1>6

-----------------------------------------------------------------------------
(* The stack of levels *)

Frame == [constraints : Seq(Candidates), next : Nat \ {0}, size : Nat]

(* Of the levels of a stack F that works on the lists L, all but the last  *)
(* have chosen a package, and knew no fewer lists than the level before.   *)
Stacked(F, L) ==
    /\ F # <<>> /\ Len(F) <= Len(L) + 1 /\ F[Len(F)].size = Len(L)
    /\ \A k \in 1 .. (Len(F) - 1) : F[k].next \in DOMAIN L[k] /\ k <= F[k].size
    /\ \A k, l \in DOMAIN F : k <= l => F[k].size <= F[l].size

StackInv ==
    /\ world \in Worlds /\ pc \in {"start", "search", "done", "aborted"}
    /\ plists \in Seq(Seq(Candidates)) /\ frames \in Seq(Frame)
    /\ solutions \in Seq(SUBSET Candidates) /\ Len(solutions) <= MaxSolutions
    /\ pc \in {"start", "search"} => Len(solutions) < MaxSolutions
    /\ pc = "start" => frames = <<>> /\ plists = <<>>
    /\ pc = "search" => Stacked(frames, plists)

(* A sequence is empty if its length is zero.                              *)
LEMMA LengthPositive ==
  ASSUME NEW X, NEW s \in Seq(X)
  PROVE  Len(s) \in Nat /\ DOMAIN s = 1 .. Len(s) /\ (s # <<>> <=> Len(s) > 0)
OBVIOUS

(* The level on top goes on.                                               *)
LEMMA AdvancedFrames ==
  ASSUME NEW F \in Seq(Frame), F # <<>>
  PROVE  /\ Advance(F) \in Seq(Frame) /\ Len(Advance(F)) = Len(F) /\ Advance(F) # <<>>
         /\ \A k \in 1 .. Len(F) :
               /\ Advance(F)[k].constraints = F[k].constraints
               /\ Advance(F)[k].size = F[k].size
               /\ k # Len(F) => Advance(F)[k] = F[k]
               /\ k = Len(F) => Advance(F)[k].next = F[k].next + 1
<1> DEFINE n == Len(F)
           a == [constraints |-> F[n].constraints, next |-> F[n].next + 1, size |-> F[n].size]
<1>1. n \in Nat /\ n \in 1 .. n /\ DOMAIN F = 1 .. n /\ \A k \in 1 .. n : F[k] \in Frame
  OBVIOUS
<1>2. a \in Frame /\ F[n] = [constraints |-> F[n].constraints, next |-> F[n].next, size |-> F[n].size]
  <2>1. PICK f \in Frame : f = F[n]
    BY <1>1
  <2>2. PICK S : S = Seq(Candidates)
    OBVIOUS
  <2>3. f.constraints \in S /\ f.next \in Nat \ {0} /\ f.size \in Nat
    BY <2>2 DEF Frame
  <2>4. f = [constraints |-> f.constraints, next |-> f.next, size |-> f.size]
    BY <2>2 DEF Frame
  <2>5. [constraints |-> f.constraints, next |-> f.next + 1, size |-> f.size] \in Frame
    BY <2>2, <2>3 DEF Frame
  <2>6. QED
    BY <2>1, <2>4, <2>5
<1>3. Advance(F) = [k \in 1 .. n |-> IF k = n THEN a ELSE F[k]]
  <2>1. [F[n] EXCEPT !.next = @ + 1] = a
    <3>1. PICK c, x, s : F[n] = [constraints |-> c, next |-> x, size |-> s]
      BY <1>2
    <3>2. QED
      BY <3>1
  <2>2. Advance(F) = [F EXCEPT ![n] = [F[n] EXCEPT !.next = @ + 1]]
    BY DEF Advance
  <2>a. Advance(F) = [F EXCEPT ![n] = a]
    BY <2>1, <2>2
  <2> HIDE DEF a
  <2>3. F = [k \in 1 .. n |-> F[k]]
    OBVIOUS
  <2>4. QED
    BY <1>1, <2>a, <2>3
<1>4. PICK G : G = Advance(F)
  OBVIOUS
<1>b. n > 0
  BY LengthPositive
<1>5. a.constraints = F[n].constraints /\ a.next = F[n].next + 1 /\ a.size = F[n].size
  OBVIOUS
<1> HIDE DEF a, n
<1>6. /\ G \in Seq(Frame) /\ Len(G) = n /\ DOMAIN G = 1 .. n
      /\ \A k \in 1 .. n : G[k] = IF k = n THEN a ELSE F[k]
  BY <1>1, <1>2, <1>3, <1>4
<1>7. G # <<>>
  BY <1>b, <1>6, LengthPositive
<1>8. QED
  BY <1>1, <1>4, <1>5, <1>6, <1>7 DEF n

(* A return drops the level on top.                                        *)
Unstacked(G, K, F, L) ==
    G = Advance(Front(F)) /\ K = SubSeq(L, 1, F[Len(F) - 1].size)

(* What a return leaves of the stack and the lists.                        *)
LEMMA ReturnUnstacks ==
  ASSUME NEW Z, NEW L \in Seq(Z), NEW F \in Seq(Frame), Stacked(F, L), Len(F) # 1,
         NEW G, NEW K, Unstacked(G, K, F, L)
  PROVE  /\ G \in Seq(Frame) /\ K \in Seq(Z) /\ Stacked(G, K)
         /\ Len(G) = Len(F) - 1 /\ Len(F) \in Nat /\ Len(F) > 1
         /\ Len(K) = F[Len(F) - 1].size /\ Continues(L, K)
         /\ \A k \in 1 .. Len(G) :
               /\ G[k].constraints = F[k].constraints /\ G[k].size = F[k].size
               /\ k # Len(G) => G[k] = F[k]
               /\ k = Len(G) => G[k].next = F[k].next + 1
<1>1. Len(F) \in Nat /\ Len(F) > 1 /\ Len(L) \in Nat
  <2>1. F # <<>>
    BY DEF Stacked
  <2>2. Len(F) \in Nat /\ Len(F) > 0
    BY <2>1, LengthPositive, Zenon
  <2>3. Len(L) \in Nat
    BY LengthPositive, Zenon
  <2>4. PICK f : f = Len(F)
    OBVIOUS
  <2>5. f > 1
    BY <2>2, <2>4
  <2>6. QED
    BY <2>2, <2>3, <2>4, <2>5
<1> DEFINE n == Len(F)
           m == n - 1
           H == Front(F)
           s == F[m].size
<1>2. m \in Nat /\ m >= 1 /\ m \in DOMAIN F /\ n \in DOMAIN F /\ m <= n /\ n = Len(F)
  BY <1>1
<1>3. H \in Seq(Frame) /\ Len(H) = m /\ \A k \in 1 .. m : H[k] = F[k]
  BY <1>1 DEF Front
<1>4. H # <<>>
  BY <1>2, <1>3
<1>5. s \in Nat /\ F[m].next \in Nat /\ m <= s /\ s <= Len(L)
  <2>1. F[m] \in Frame /\ m \in 1 .. (Len(F) - 1) /\ F[n].size = Len(L)
    BY <1>1, <1>2 DEF Stacked
  <2>2. F[m].size <= F[n].size
    BY <1>2 DEF Stacked
  <2>3. QED
    BY <2>1, <2>2 DEF Stacked, Frame
<1> HIDE DEF H
<1>6. /\ G \in Seq(Frame) /\ Len(G) = m /\ G # <<>>
      /\ \A k \in 1 .. m :
            /\ G[k].constraints = F[k].constraints /\ G[k].size = F[k].size
            /\ k # m => G[k] = F[k]
            /\ k = m => G[k].next = F[k].next + 1
  <2>1. G = Advance(H)
    BY DEF H, Unstacked
  <2>2. QED
    <3>1. /\ Advance(H) \in Seq(Frame) /\ Len(Advance(H)) = Len(H) /\ Advance(H) # <<>>
          /\ \A k \in 1 .. Len(H) :
                /\ Advance(H)[k].constraints = H[k].constraints
                /\ Advance(H)[k].size = H[k].size
                /\ k # Len(H) => Advance(H)[k] = H[k]
                /\ k = Len(H) => Advance(H)[k].next = H[k].next + 1
      BY <1>3, <1>4, AdvancedFrames
    <3>2. QED
      BY <1>3, <2>1, <3>1
<1>7. K \in Seq(Z) /\ Len(K) = s /\ \A i \in 1 .. s : K[i] = L[i]
  BY <1>1, <1>5 DEF Unstacked
<1>8. Continues(L, K)
  BY <1>5, <1>7 DEF Continues
<1> HIDE DEF s, m, n
<1>9. Stacked(G, K)
  <2>1. Len(G) <= Len(K) + 1
    BY <1>2, <1>5, <1>6, <1>7
  <2>2. G[Len(G)].size = Len(K)
    BY <1>2, <1>6, <1>7 DEF s
  <2>3. ASSUME NEW k \in 1 .. (m - 1) PROVE G[k].next \in DOMAIN K[k] /\ k <= G[k].size
    <3>1. k \in 1 .. m /\ k # m /\ k \in 1 .. (n - 1) /\ k \in 1 .. s
      BY <1>2, <1>5 DEF m
    <3>2. F[k].next \in DOMAIN L[k] /\ k <= F[k].size
      BY <3>1 DEF Stacked, n
    <3>3. QED
      BY <1>6, <1>7, <3>1, <3>2
  <2>4. ASSUME NEW k \in 1 .. m, NEW l \in 1 .. m, k <= l PROVE G[k].size <= G[l].size
    <3>1. k \in DOMAIN F /\ l \in DOMAIN F
      BY <1>1, <1>2 DEF n, m
    <3>2. F[k].size <= F[l].size
      BY <2>4, <3>1 DEF Stacked
    <3>3. QED
      BY <1>6, <3>2
  <2>5. DOMAIN G = 1 .. m
    BY <1>6
  <2>6. QED
    BY <1>6, <2>1, <2>2, <2>3, <2>4, <2>5 DEF Stacked
<1>10. QED
  BY <1>1, <1>6, <1>7, <1>8, <1>9 DEF m, n, s

(* The patterns of what a candidate depends on.                            *)
LEMMA DependenciesAreListed ==
  ASSUME WellFormed, world \in Worlds, NEW p \in Candidates
  PROVE  \E P : DependencyPatterns(p) \in Seq(P)
<1>1. IsCandidate(p)
  BY CandidatesAre
<1>2. CASE p \in world.installed
  <2>1. IsInstalled(p) /\ IsList(p.depends)
    BY <1>2, InstalledFacts
  <2>2. QED
    BY <2>1 DEF DependencyPatterns, IsList
<1>3. CASE \E n, i : IsGhostOf(p, n, i)
  <2>1. PICK n, i : IsGhostOf(p, n, i)
    BY <1>3
  <2>2. DependencyPatterns(p) = world.defs[n].sections[i].install
    BY <2>1, GhostDepends
  <2>3. n \in DOMAIN world.defs /\ i \in DOMAIN world.defs[n].sections
    BY <2>1 DEF IsGhostOf
  <2>4. IsList(world.defs[n].sections[i].install)
    BY <2>3 DEF WellFormed, Definitions
  <2>5. QED
    BY <2>2, <2>4 DEF IsList
<1>4. QED
  BY <1>1, <1>2, <1>3, CandidateCases

(* The patterns that a request asks for, and the lists of the first level. *)
Asked == Generators \o world.request

FirstLists == ExtendLists(world.employed, ExtendLists(world.employed, <<>>, Generators), world.request)

(* What the lists of the first level are made of.                          *)
LEMMA FirstListsCover ==
  ASSUME WellFormed, world \in Worlds
  PROVE  /\ world.employed \in Seq(Candidates)
         /\ FirstLists \in Seq(Seq(Candidates))
         /\ ~ IsAnyListEmpty(FirstLists) =>
               \A pat \in ToSet(Asked) : Covered(world.employed, FirstLists, pat)
         /\ \A i \in DOMAIN FirstLists :
               \E pat \in ToSet(Asked) : FirstLists[i] = Alternatives(world.employed, pat)
<1>1. PICK C, Q, R : C = world.employed /\ Q = Generators /\ R = world.request
  OBVIOUS
<1>2. C \in Seq(Candidates)
  <2>1. C \in Seq(world.installed)
    BY <1>1, WorldsOK
  <2>2. \A p \in world.installed : p \in Candidates
    BY InstalledFacts, CandidatesAre
  <2>3. QED
    BY <2>1, <2>2
<1>3. PICK P : Q \in Seq(P) /\ R \in Seq(P)
  <2>1. PICK g : Q = <<g>> \/ Q = <<>>
    BY <1>1 DEF Generators
  <2>2. PICK X : R \in Seq(X)
    BY <1>1 DEF WellFormed, IsList
  <2>a. <<g>> \in Seq(X \cup {g}) /\ <<>> \in Seq(X \cup {g}) /\ R \in Seq(X \cup {g})
    BY <2>2
  <2>3. Q \in Seq(X \cup {g}) /\ R \in Seq(X \cup {g})
    BY <2>1, <2>a
  <2>4. QED
    BY <2>3
<1>4. PICK S : S = Seq(Candidates)
  OBVIOUS
<1>5. PICK A : A = ExtendLists(C, <<>>, Q)
  OBVIOUS
<1>6. PICK L : L = ExtendLists(C, A, R)
  OBVIOUS
<1>7. <<>> \in Seq(S) /\ DOMAIN <<>> = {}
  OBVIOUS
<1>8. /\ A \in Seq(S)
      /\ ~ IsAnyListEmpty(A) => \A j \in DOMAIN Q : Covered(C, A, Q[j])
      /\ \A i \in DOMAIN A : \E j \in DOMAIN Q : A[i] = Alternatives(C, Q[j])
  <2>1. PICK N : N = <<>>
    OBVIOUS
  <2>2. N \in Seq(Seq(Candidates)) /\ DOMAIN N = {}
    BY <1>4, <1>7, <2>1
  <2>3. /\ A \in Seq(Seq(Candidates))
        /\ ~ IsAnyListEmpty(A) => \A j \in DOMAIN Q : Covered(C, A, Q[j])
        /\ \A i \in DOMAIN A : i \notin DOMAIN N => \E j \in DOMAIN Q : A[i] = Alternatives(C, Q[j])
    <3>1. Extension(ExtendLists(C, N, Q), C, N, Q)
      BY <1>2, <1>3, <2>2, ExtendListsCovers
    <3>2. Extension(A, C, N, Q)
      BY <1>5, <2>1, <3>1
    <3>3. QED
      BY <3>2 DEF Extension
  <2>4. QED
    BY <1>4, <2>2, <2>3
<1>9. /\ L \in Seq(S) /\ Continues(L, A)
      /\ ~ IsAnyListEmpty(L) => \A j \in DOMAIN R : Covered(C, L, R[j])
      /\ \A i \in DOMAIN L : i \notin DOMAIN A => \E j \in DOMAIN R : L[i] = Alternatives(C, R[j])
  <2>1. A \in Seq(Seq(Candidates))
    BY <1>4, <1>8
  <2>2. /\ L \in Seq(Seq(Candidates)) /\ Continues(L, A)
        /\ ~ IsAnyListEmpty(L) => \A j \in DOMAIN R : Covered(C, L, R[j])
        /\ \A i \in DOMAIN L : i \notin DOMAIN A => \E j \in DOMAIN R : L[i] = Alternatives(C, R[j])
    <3>1. Extension(ExtendLists(C, A, R), C, A, R)
      BY <1>2, <1>3, <2>1, ExtendListsCovers
    <3>2. Extension(L, C, A, R)
      BY <1>6, <3>1
    <3>3. QED
      BY <3>2 DEF Extension
  <2>3. QED
    BY <1>4, <2>2
<1>10. \A pat : pat \in ToSet(Asked) <=> (\E j \in DOMAIN Q : pat = Q[j]) \/ (\E j \in DOMAIN R : pat = R[j])
  <2>1. PICK W : W = Q \o R
    OBVIOUS
  <2>2. /\ W \in Seq(P) /\ Len(W) = Len(Q) + Len(R) /\ Len(Q) \in Nat /\ Len(R) \in Nat
        /\ DOMAIN Q = 1 .. Len(Q) /\ DOMAIN R = 1 .. Len(R) /\ DOMAIN W = 1 .. (Len(Q) + Len(R))
        /\ \A i \in 1 .. (Len(Q) + Len(R)) : W[i] = IF i <= Len(Q) THEN Q[i] ELSE R[i - Len(Q)]
    BY <1>3, <2>1
  <2>3. ASSUME NEW i \in DOMAIN W
        PROVE  (\E j \in DOMAIN Q : W[i] = Q[j]) \/ (\E j \in DOMAIN R : W[i] = R[j])
    <3>1. CASE i <= Len(Q)
      BY <2>2, <3>1
    <3>2. CASE i > Len(Q)
      <4>1. i - Len(Q) \in DOMAIN R /\ W[i] = R[i - Len(Q)]
        BY <2>2, <3>2
      <4>2. QED
        BY <4>1
    <3>3. QED
      BY <2>2, <3>1, <3>2
  <2>4. ASSUME NEW j \in DOMAIN Q PROVE Q[j] \in ToSet(W)
    <3>1. j \in DOMAIN W /\ W[j] = Q[j]
      BY <2>2
    <3>2. QED
      BY <3>1 DEF ToSet
  <2>5. ASSUME NEW j \in DOMAIN R PROVE R[j] \in ToSet(W)
    <3>1. Len(Q) + j \in DOMAIN W /\ W[Len(Q) + j] = R[j]
      BY <2>2
    <3>2. QED
      BY <3>1 DEF ToSet
  <2>6. Asked = W
    BY <1>1, <2>1 DEF Asked
  <2>7. \A pat : pat \in ToSet(W) <=> \E i \in DOMAIN W : pat = W[i]
    BY DEF ToSet
  <2>8. QED
    BY <2>3, <2>4, <2>5, <2>6, <2>7
<1>11. ASSUME ~ IsAnyListEmpty(L), NEW pat \in ToSet(Asked) PROVE Covered(C, L, pat)
  <2>1. CASE \E j \in DOMAIN R : pat = R[j]
    BY <1>9, <1>11, <2>1
  <2>2. CASE \E j \in DOMAIN Q : pat = Q[j]
    <3>1. \A k \in DOMAIN A : k \in DOMAIN L /\ L[k] = A[k]
      BY <1>8, <1>9 DEF Continues
    <3>2. ~ IsAnyListEmpty(A)
      BY <1>11, <3>1 DEF IsAnyListEmpty
    <3>3. Covered(C, A, pat)
      BY <1>8, <2>2, <3>2
    <3>4. QED
      BY <1>8, <1>9, <3>3, CoveredContinues
  <2>3. QED
    BY <1>10, <2>1, <2>2
<1>12. ASSUME NEW i \in DOMAIN L PROVE \E pat \in ToSet(Asked) : L[i] = Alternatives(C, pat)
  <2>1. CASE i \in DOMAIN A
    <3>1. L[i] = A[i]
      BY <1>8, <1>9, <2>1 DEF Continues
    <3>2. PICK j \in DOMAIN Q : A[i] = Alternatives(C, Q[j])
      BY <1>8, <2>1
    <3>3. QED
      BY <1>10, <3>1, <3>2
  <2>2. CASE i \notin DOMAIN A
    BY <1>9, <1>10, <2>2
  <2>3. QED
    BY <2>1, <2>2
<1>13. FirstLists = L
  BY <1>1, <1>5, <1>6 DEF FirstLists
<1>14. QED
  BY <1>1, <1>2, <1>4, <1>9, <1>11, <1>12, <1>13

(* The package a level tries next, and the lists that it would add.        *)
LEMMA CandidateIsChosen ==
  ASSUME WellFormed, StackInv, SearchInv, HasCandidate
  PROVE  /\ Level \in Nat /\ Level \in DOMAIN frames /\ Level \in DOMAIN plists
         /\ Top = frames[Level] /\ Top \in Frame /\ Top.next \in DOMAIN plists[Level]
         /\ Candidate \in Candidates
         /\ Compatible(Top.constraints)
<1>1. /\ frames \in Seq(Frame) /\ plists \in Seq(Seq(Candidates))
      /\ frames # <<>> /\ Level <= Len(plists) /\ Top.next <= Len(plists[Level])
  BY DEF StackInv, HasCandidate, Stacked
<1>2. Level \in Nat /\ Level > 0 /\ DOMAIN frames = 1 .. Level
  BY <1>1, LengthPositive DEF Level
<1>3. Level \in DOMAIN plists /\ plists[Level] \in Seq(Candidates)
  <2>1. PICK S : S = Seq(Candidates)
    OBVIOUS
  <2>2. QED
    BY <1>1, <1>2, <2>1
<1>4. Top = frames[Level] /\ Level \in DOMAIN frames
  BY <1>2 DEF Top, Last, Level
<1>5. Top \in Frame
  BY <1>1, <1>4
<1>6. Top.next \in Nat \ {0}
  BY <1>5 DEF Frame
<1>7. Top.next \in DOMAIN plists[Level]
  BY <1>1, <1>3, <1>6
<1>8. Candidate \in Candidates
  BY <1>3, <1>7 DEF Candidate
<1>9. Compatible(Top.constraints)
  BY <1>4 DEF SearchInv, FrameOK
<1>10. QED
  BY <1>2, <1>3, <1>4, <1>5, <1>7, <1>8, <1>9

(* What trying a package x adds to constraints C and the lists.            *)
Addition(D, K, C, x) ==
    /\ D \in Seq(Candidates) /\ Tightens(D, C)
    /\ \E i \in DOMAIN D : Refines(D[i], x)
    /\ \A i \in DOMAIN D :
          \/ i \in DOMAIN C /\ DependencyPatterns(D[i]) = DependencyPatterns(C[i])
          \/ NeedDeps(C, x) /\ DependencyPatterns(D[i]) = DependencyPatterns(x)
    /\ K \in Seq(Seq(Candidates)) /\ Continues(K, plists)
    /\ NeedDeps(C, x) /\ ~ IsAnyListEmpty(K) =>
          \A pat \in ToSet(DependencyPatterns(x)) : Covered(D, K, pat)
    /\ \A i \in DOMAIN K : i \notin DOMAIN plists =>
          NeedDeps(C, x) /\ \E pat \in ToSet(DependencyPatterns(x)) : K[i] = Alternatives(D, pat)

(* Trying the package that a level has chosen.                             *)
LEMMA CandidateIsAdded ==
  ASSUME WellFormed, StackInv, SearchInv, HasCandidate, Fits(Top.constraints, Candidate)
  PROVE  Addition(Constrain(Top.constraints, Candidate), Extended, Top.constraints, Candidate)
<1>1. world \in Worlds /\ plists \in Seq(Seq(Candidates))
  BY DEF StackInv
<1>2. PICK C, x : C = Top.constraints /\ x = Candidate
  OBVIOUS
<1>3. C \in Seq(Candidates) /\ x \in Candidates /\ Compatible(C) /\ Fits(C, x)
  <2>1. Top \in Frame /\ x \in Candidates /\ Compatible(C)
    BY <1>2, CandidateIsChosen
  <2>2. QED
    BY <1>2, <2>1 DEF Frame
<1>4. PICK D : D = Constrain(C, x)
  OBVIOUS
<1>5. /\ D \in Seq(Candidates) /\ Tightens(D, C)
      /\ \E i \in DOMAIN D : Refines(D[i], x)
      /\ \A i \in DOMAIN D :
            \/ i \in DOMAIN C /\ DependencyPatterns(D[i]) = DependencyPatterns(C[i])
            \/ NeedDeps(C, x) /\ DependencyPatterns(D[i]) = DependencyPatterns(x)
  BY <1>1, <1>3, <1>4, ConstrainTightens
<1>6. PICK pats : pats = DependencyPatterns(x)
  OBVIOUS
<1>7. PICK P : pats \in Seq(P)
  BY <1>1, <1>3, <1>6, DependenciesAreListed
<1>8. PICK K : K = Extended
  OBVIOUS
<1>9. /\ K \in Seq(Seq(Candidates)) /\ Continues(K, plists)
      /\ NeedDeps(C, x) /\ ~ IsAnyListEmpty(K) => \A pat \in ToSet(pats) : Covered(D, K, pat)
      /\ \A i \in DOMAIN K : i \notin DOMAIN plists =>
            NeedDeps(C, x) /\ \E pat \in ToSet(pats) : K[i] = Alternatives(D, pat)
  <2>1. CASE NeedDeps(C, x)
    <3>1. K = ExtendLists(D, plists, pats)
      BY <1>2, <1>4, <1>6, <1>8, <2>1 DEF Extended
    <3>2. Extension(ExtendLists(D, plists, pats), D, plists, pats)
      BY <1>1, <1>5, <1>7, ExtendListsCovers
    <3>3. Extension(K, D, plists, pats)
      BY <3>1, <3>2
    <3>4. \A pat : pat \in ToSet(pats) <=> \E j \in DOMAIN pats : pat = pats[j]
      BY DEF ToSet
    <3>5. QED
      BY <2>1, <3>3, <3>4 DEF Extension
  <2>2. CASE ~ NeedDeps(C, x)
    <3>1. K = plists
      BY <1>2, <1>8, <2>2 DEF Extended
    <3>2. Continues(plists, plists)
      BY <1>1 DEF Continues
    <3>3. QED
      BY <1>1, <2>2, <3>1, <3>2
  <2>3. QED
    BY <2>1, <2>2
<1>10. Addition(D, K, C, x)
  BY <1>5, <1>6, <1>9 DEF Addition
<1>11. QED
  BY <1>2, <1>4, <1>8, <1>10

(* A level that is entered.                                                *)
LEMMA EnteredFrame ==
  ASSUME NEW Z, NEW D \in Seq(Candidates), NEW K \in Seq(Z)
  PROVE  Enter(D, K) \in Frame /\ Enter(D, K).constraints = D /\ Enter(D, K).size = Len(K)
                               /\ Enter(D, K).next = 1
<1>1. Len(K) \in Nat /\ 1 \in Nat \ {0}
  OBVIOUS
<1>2. PICK S : S = Seq(Candidates)
  OBVIOUS
<1>3. QED
  BY <1>1, <1>2 DEF Enter, Frame

(* Entering a level keeps the stack in order.                              *)
LEMMA EnterStacks ==
  ASSUME NEW Z, NEW L \in Seq(Z), NEW K \in Seq(Z), Continues(K, L),
         NEW F \in Seq(Frame), Stacked(F, L), Len(F) <= Len(L), F[Len(F)].next \in DOMAIN L[Len(F)],
         NEW f \in Frame, f.size = Len(K)
  PROVE  /\ Append(F, f) \in Seq(Frame) /\ Stacked(Append(F, f), K)
         /\ Len(Append(F, f)) = Len(F) + 1 /\ Len(F) \in Nat
         /\ Append(F, f)[Len(F) + 1] = f
         /\ \A k \in 1 .. Len(F) : Append(F, f)[k] = F[k]
<1>1. PICK G : G = Append(F, f)
  OBVIOUS
<1>2. PICK n : n = Len(F)
  OBVIOUS
<1>3. F # <<>>
  BY DEF Stacked
<1>4. n \in Nat /\ n > 0 /\ Len(L) \in Nat /\ Len(K) \in Nat /\ DOMAIN F = 1 .. n
      /\ DOMAIN K = 1 .. Len(K) /\ DOMAIN L = 1 .. Len(L)
  BY <1>2, <1>3, LengthPositive
<1>5. /\ G \in Seq(Frame) /\ Len(G) = n + 1 /\ G[n + 1] = f /\ DOMAIN G = 1 .. (n + 1)
      /\ \A k \in 1 .. n : G[k] = F[k]
  <2>1. PICK S : S = Frame
    OBVIOUS
  <2>2. QED
    BY <1>1, <1>2, <2>1
<1>6. /\ n <= Len(L) /\ F[n].next \in DOMAIN L[n] /\ F[n].size = Len(L)
      /\ \A k \in 1 .. (n - 1) : F[k].next \in DOMAIN L[k] /\ k <= F[k].size
      /\ \A k, l \in 1 .. n : k <= l => F[k].size <= F[l].size
  BY <1>2, <1>4 DEF Stacked
<1>7. Len(L) <= Len(K) /\ \A i \in 1 .. Len(L) : K[i] = L[i]
  BY DEF Continues
<1>8. \A k \in 1 .. n : F[k].size \in Nat
  <2>1. \A k \in 1 .. n : F[k] \in Frame
    BY <1>4
  <2>2. QED
    BY <2>1 DEF Frame
<1>9. ASSUME NEW k \in 1 .. n PROVE G[k].next \in DOMAIN K[k] /\ k <= G[k].size
  <2>1. G[k] = F[k] /\ K[k] = L[k]
    BY <1>4, <1>5, <1>6, <1>7
  <2>2. F[k].next \in DOMAIN L[k] /\ k <= F[k].size
    BY <1>4, <1>6
  <2>3. QED
    BY <2>1, <2>2
<1>10. ASSUME NEW k \in 1 .. (n + 1), NEW l \in 1 .. (n + 1), k <= l PROVE G[k].size <= G[l].size
  <2>1. \A j \in 1 .. n : F[j].size <= Len(L)
    BY <1>4, <1>6
  <2>2. CASE l \in 1 .. n
    <3>1. k \in 1 .. n
      BY <1>4, <1>10, <2>2
    <3>2. QED
      BY <1>5, <1>6, <1>10, <2>2, <3>1
  <2>3. CASE l = n + 1 /\ k \in 1 .. n
    <3>1. G[l].size = Len(K) /\ G[k].size = F[k].size
      BY <1>5, <2>3
    <3>2. QED
      BY <1>4, <1>7, <1>8, <2>1, <2>3, <3>1
  <2>4. CASE l = n + 1 /\ k = n + 1
    BY <1>4, <1>5, <2>4
  <2>5. QED
    BY <1>4, <1>10, <2>2, <2>3, <2>4
<1>11. Stacked(G, K)
  <2>1. G # <<>>
    BY <1>4, <1>5, LengthPositive
  <2>2. Len(G) <= Len(K) + 1 /\ G[Len(G)].size = Len(K)
    BY <1>4, <1>5, <1>6, <1>7
  <2>3. Len(G) - 1 = n
    BY <1>4, <1>5
  <2>4. QED
    BY <1>5, <1>9, <1>10, <2>1, <2>2, <2>3 DEF Stacked
<1>12. QED
  BY <1>1, <1>2, <1>4, <1>5, <1>11

(* A return keeps the stack in order.                                      *)
LEMMA ReturnKeepsStack ==
  ASSUME StackInv, pc = "search", Return, UNCHANGED world,
         solutions' \in Seq(SUBSET Candidates), Len(solutions') <= MaxSolutions,
         pc' = "search" => Len(solutions') < MaxSolutions
  PROVE  StackInv'
<1>1. Candidates' = Candidates
  BY SameCandidates
<1>2. Frame' = Frame
  BY <1>1 DEF Frame
<1>3. /\ world \in Worlds /\ plists \in Seq(Seq(Candidates)) /\ frames \in Seq(Frame)
      /\ Stacked(frames, plists)
  BY DEF StackInv
<1>4. CASE Level = 1
  <2>1. pc' = "done" /\ plists' = plists /\ frames' = frames
    BY <1>4 DEF Return
  <2>2. QED
    BY <1>1, <1>2, <1>3, <2>1 DEF StackInv
<1>5. CASE Level # 1
  <2>1. /\ frames' = Advance(Front(frames)) /\ pc' = pc
        /\ plists' = SubSeq(plists, 1, frames[Level - 1].size)
    BY <1>5 DEF Return
  <2>2. PICK S : S = Seq(Candidates)
    OBVIOUS
  <2>3. frames' \in Seq(Frame) /\ plists' \in Seq(S) /\ Stacked(frames', plists')
    <3>1. PICK L \in Seq(S), F \in Seq(Frame) : L = plists /\ F = frames
      BY <1>3, <2>2
    <3>2. PICK G : G = Advance(Front(F))
      OBVIOUS
    <3>3. PICK K : K = SubSeq(L, 1, F[Len(F) - 1].size)
      OBVIOUS
    <3>4. Stacked(F, L) /\ Len(F) # 1
      BY <1>3, <1>5, <3>1 DEF Level
    <3>5. G \in Seq(Frame) /\ K \in Seq(S) /\ Stacked(G, K)
      <4>1. Unstacked(G, K, F, L)
        BY <3>2, <3>3 DEF Unstacked
      <4>2. QED
        BY <3>4, <4>1, ReturnUnstacks
    <3>6. frames' = G /\ plists' = K
      BY <2>1, <3>1, <3>2, <3>3 DEF Level
    <3>7. QED
      BY <3>5, <3>6
  <2>4. Stacked(frames, plists)' <=> Stacked(frames', plists')
    BY DEF Stacked
  <2>5. QED
    BY <1>1, <1>2, <1>3, <2>1, <2>2, <2>3, <2>4 DEF StackInv
<1>6. QED
  BY <1>4, <1>5

(* The inductive invariant of the stack of levels: what the lists and the  *)
(* constraints hold, and how many lists each level knows.                  *)
THEOREM StackInvariant == ASSUME WellFormed PROVE Spec => []StackInv
<1>1. Init => StackInv
  <2> SUFFICES ASSUME Init PROVE StackInv
    OBVIOUS
  <2>1. PICK S, R, Q : S = Seq(Seq(Candidates)) /\ R = Seq(Frame) /\ Q = Seq(SUBSET Candidates)
    OBVIOUS
  <2>2. <<>> \in S /\ <<>> \in R /\ <<>> \in Q
    BY <2>1
  <2>3. Len(<<>>) < MaxSolutions /\ Len(<<>>) <= MaxSolutions
    BY SolverConstantsOK
  <2>4. QED
    BY <2>1, <2>2, <2>3 DEF Init, StackInv
<1>2. StackInv /\ SearchInv /\ [Next]_vars => StackInv'
  <2> SUFFICES ASSUME StackInv, SearchInv, [Next]_vars PROVE StackInv'
    OBVIOUS
  <2>1. world \in Worlds /\ world' = world
    BY DEF StackInv, Next, Begin, Found, AssertionFails, Reject, Accept, Exhaust, vars
  <2>2. Candidates' = Candidates
    BY <2>1, SameCandidates
  <2>3. Frame' = Frame
    BY <2>2 DEF Frame
  <2>4. PICK S : S = Seq(Candidates)
    OBVIOUS
  <2>5. plists \in Seq(S) /\ frames \in Seq(Frame) /\ solutions \in Seq(SUBSET Candidates)
    BY <2>4 DEF StackInv
  <2>6. Stacked(frames, plists)' <=> Stacked(frames', plists')
    BY DEF Stacked
  <2>7. CASE Begin
    <3>1. PICK C, L : C = world.employed /\ L = FirstLists
      OBVIOUS
    <3>2. C \in Seq(Candidates) /\ L \in Seq(S)
      BY <2>1, <2>4, <3>1, FirstListsCover
    <3>3. pc = "start" /\ solutions' = solutions
      BY <2>7 DEF Begin
    <3>4. \/ pc' = "done" /\ UNCHANGED <<plists, frames>>
          \/ pc' = "done" /\ plists' = L /\ UNCHANGED frames
          \/ pc' = "search" /\ plists' = L /\ frames' = <<Enter(C, L)>>
      BY <2>7, <3>1 DEF Begin, FirstLists
    <3>5. CASE pc' = "done" /\ UNCHANGED <<plists, frames>>
      BY <2>1, <2>2, <2>3, <3>3, <3>5 DEF StackInv
    <3>6. CASE pc' = "done" /\ plists' = L /\ UNCHANGED frames
      BY <2>1, <2>2, <2>3, <2>4, <3>2, <3>3, <3>6 DEF StackInv
    <3>7. CASE pc' = "search" /\ plists' = L /\ frames' = <<Enter(C, L)>>
      <4>1. PICK f : f = Enter(C, L)
        OBVIOUS
      <4>2. f \in Frame /\ f.size = Len(L) /\ Len(L) \in Nat
        BY <3>2, <4>1, EnteredFrame
      <4>3. PICK G : G = <<f>>
        OBVIOUS
      <4>4. G \in Seq(Frame) /\ Len(G) = 1 /\ DOMAIN G = 1 .. 1 /\ G[1] = f /\ G # <<>>
        BY <4>2, <4>3
      <4>5. Stacked(G, L)
        BY <4>2, <4>4 DEF Stacked
      <4>6. frames' = G
        BY <3>7, <4>1, <4>3
      <4>7. Stacked(frames, plists)'
        BY <2>6, <3>7, <4>5, <4>6
      <4>8. QED
        BY <2>1, <2>2, <2>3, <2>4, <3>2, <3>3, <3>7, <4>4, <4>6, <4>7 DEF StackInv
    <3>8. QED
      BY <3>4, <3>5, <3>6, <3>7
  <2>8. CASE Found
    <3>1. pc = "search" /\ solutions' = Append(solutions, ToSet(Top.constraints))
      BY <2>8 DEF Found, AtEnd
    <3>2. Len(solutions) \in Nat /\ Len(solutions) < MaxSolutions /\ MaxSolutions \in Nat
      BY <2>5, <3>1, SolverConstantsOK, LengthPositive DEF StackInv
    <3>3. ToSet(Top.constraints) \in SUBSET Candidates
      <4>1. frames # <<>>
        BY <3>1 DEF StackInv, Stacked
      <4>2. Len(frames) \in DOMAIN frames
        BY <2>5, <4>1, LengthPositive
      <4>3. Top \in Frame
        BY <2>5, <4>2 DEF Top, Last
      <4>4. PICK C \in Seq(Candidates) : C = Top.constraints
        BY <4>3 DEF Frame
      <4>5. QED
        BY <4>4 DEF ToSet
    <3>4. solutions' \in Seq(SUBSET Candidates) /\ Len(solutions') = Len(solutions) + 1
      BY <2>5, <3>1, <3>3
    <3>5. Len(solutions') <= MaxSolutions
      BY <3>2, <3>4
    <3>6. CASE Len(solutions') >= MaxSolutions
      <4>1. pc' = "done" /\ plists' = plists /\ frames' = frames
        BY <2>8, <3>6 DEF Found
      <4>2. QED
        BY <2>1, <2>2, <2>3, <2>4, <2>5, <3>4, <3>5, <4>1 DEF StackInv
    <3>7. CASE ~ Len(solutions') >= MaxSolutions
      <4>1. Return
        BY <2>8, <3>7 DEF Found
      <4>2. Len(solutions') < MaxSolutions
        BY <3>2, <3>4, <3>7
      <4>3. QED
        BY <2>1, <3>1, <3>4, <3>5, <4>1, <4>2, ReturnKeepsStack
    <3>8. QED
      BY <3>6, <3>7
  <2>9. CASE AssertionFails
    BY <2>1, <2>2, <2>3, <2>9 DEF AssertionFails, StackInv
  <2>10. CASE Reject
    <3>1. HasCandidate /\ frames' = Advance(frames) /\ UNCHANGED <<pc, plists, solutions>>
      BY <2>10 DEF Reject
    <3>2. pc = "search" /\ Stacked(frames, plists)
      BY <3>1 DEF HasCandidate, StackInv
    <3>3. PICK F \in Seq(Frame), L \in Seq(S) : F = frames /\ L = plists
      BY <2>5
    <3>4. PICK G : G = Advance(F)
      OBVIOUS
    <3>5. F # <<>> /\ Stacked(F, L)
      BY <3>2, <3>3 DEF Stacked
    <3>6. /\ G \in Seq(Frame) /\ Len(G) = Len(F) /\ G # <<>>
          /\ \A k \in 1 .. Len(F) : G[k].size = F[k].size /\ (k # Len(F) => G[k] = F[k])
      BY <3>4, <3>5, AdvancedFrames
    <3>7. Len(F) \in Nat /\ Len(F) > 0 /\ DOMAIN F = 1 .. Len(F) /\ DOMAIN G = 1 .. Len(F)
      BY <3>5, <3>6, LengthPositive
    <3>8. Stacked(G, L)
      <4>1. /\ Len(G) <= Len(L) + 1 /\ G[Len(G)].size = Len(L)
            /\ \A k \in 1 .. (Len(G) - 1) : G[k] = F[k]
        <5>1. Len(F) <= Len(L) + 1 /\ F[Len(F)].size = Len(L)
          BY <3>5 DEF Stacked
        <5>2. Len(F) \in 1 .. Len(F) /\ \A k \in 1 .. (Len(F) - 1) : k \in 1 .. Len(F) /\ k # Len(F)
          <6>1. PICK n : n = Len(F)
            OBVIOUS
          <6>2. n \in Nat /\ n > 0
            BY <3>7, <6>1
          <6>3. n \in 1 .. n /\ \A k \in 1 .. (n - 1) : k \in 1 .. n /\ k # n
            BY <6>2
          <6>4. QED
            BY <6>1, <6>3
        <5>3. QED
          BY <3>6, <5>1, <5>2
      <4>2. \A k \in 1 .. (Len(G) - 1) : F[k].next \in DOMAIN L[k] /\ k <= F[k].size
        BY <3>5, <3>6 DEF Stacked
      <4>3. \A k, l \in DOMAIN G : k <= l => G[k].size <= G[l].size
        <5>1. \A k, l \in 1 .. Len(F) : k <= l => F[k].size <= F[l].size
          BY <3>5, <3>7 DEF Stacked
        <5>2. QED
          BY <3>6, <3>7, <5>1
      <4>4. \A k \in 1 .. (Len(G) - 1) : G[k].next \in DOMAIN L[k] /\ k <= G[k].size
        BY <4>1, <4>2
      <4>5. QED
        BY <3>6, <4>1, <4>3, <4>4 DEF Stacked
    <3>9. frames' = G /\ plists' = L
      BY <3>1, <3>3, <3>4
    <3>10. Stacked(frames, plists)'
      BY <2>6, <3>8, <3>9
    <3>11. frames' \in Seq(Frame)
      BY <3>6, <3>9
    <3>12. QED
      BY <2>1, <2>2, <2>3, <3>1, <3>2, <3>10, <3>11 DEF StackInv
  <2>11. CASE Accept
    <3>1. /\ HasCandidate /\ Fits(Top.constraints, Candidate) /\ UNCHANGED <<pc, solutions>>
          /\ plists' = Extended
          /\ frames' = Append(frames, Enter(Constrain(Top.constraints, Candidate), Extended))
      BY <2>11 DEF Accept
    <3>2. PICK C, x, D, K : /\ C = Top.constraints /\ x = Candidate
                            /\ D = Constrain(Top.constraints, Candidate) /\ K = Extended
      OBVIOUS
    <3>3. Addition(D, K, C, x)
      BY <3>1, <3>2, CandidateIsAdded
    <3>4. D \in Seq(Candidates) /\ K \in Seq(S) /\ Continues(K, plists)
      BY <2>4, <3>3 DEF Addition
    <3>5. PICK f : f = Enter(D, K)
      OBVIOUS
    <3>6. f \in Frame /\ f.size = Len(K)
      BY <3>4, <3>5, EnteredFrame
    <3>7. PICK F \in Seq(Frame), L \in Seq(S) : F = frames /\ L = plists
      BY <2>5
    <3>8. pc = "search" /\ Stacked(F, L)
      BY <3>1, <3>7 DEF HasCandidate, StackInv
    <3>9. Len(F) <= Len(L) /\ F[Len(F)].next \in DOMAIN L[Len(F)]
      <4>1. Level <= Len(plists) /\ Top = frames[Level] /\ Top.next \in DOMAIN plists[Level]
        BY <3>1, CandidateIsChosen DEF HasCandidate
      <4>2. QED
        BY <3>7, <4>1 DEF Level
    <3>10. Append(F, f) \in Seq(Frame) /\ Stacked(Append(F, f), K)
      <4>1. K \in Seq(S) /\ Continues(K, L) /\ Stacked(F, L) /\ f \in Frame /\ f.size = Len(K)
        BY <3>4, <3>6, <3>7, <3>8
      <4>2. QED
        BY <3>9, <4>1, EnterStacks, SMTT(30)
    <3>11. frames' = Append(F, f) /\ plists' = K
      BY <3>1, <3>2, <3>5, <3>7
    <3>12. Stacked(frames, plists)'
      BY <2>6, <3>10, <3>11
    <3>13. frames' \in Seq(Frame) /\ plists' \in Seq(S)
      BY <3>4, <3>10, <3>11
    <3>14. QED
      BY <2>1, <2>2, <2>3, <2>4, <3>1, <3>8, <3>12, <3>13 DEF StackInv
  <2>12. CASE Exhaust
    <3>1. pc = "search" /\ Return /\ solutions' = solutions
      BY <2>12 DEF Exhaust
    <3>2. Len(solutions) <= MaxSolutions /\ Len(solutions) < MaxSolutions
      BY <3>1 DEF StackInv
    <3>3. QED
      BY <2>1, <2>5, <3>1, <3>2, ReturnKeepsStack
  <2>13. CASE UNCHANGED vars
    BY <2>2, <2>3, <2>13 DEF vars, StackInv, Stacked
  <2>14. QED
    BY <2>7, <2>8, <2>9, <2>10, <2>11, <2>12, <2>13 DEF Next
<1>3. QED
  BY <1>1, <1>2, SearchInvariant, PTL DEF Spec
(* The assertions of Solver::solve hold: the search finds a list for each  *)
(* level, and the lists cut to the size that a level knows (SolverTypeOK). *)
THEOREM SolverTypes == ASSUME WellFormed PROVE Spec => []SolverTypeOK
<1>1. StackInv => SolverTypeOK
  <2> SUFFICES ASSUME StackInv PROVE SolverTypeOK
    OBVIOUS
  <2>1. PICK S : S = Seq(Candidates)
    OBVIOUS
  <2>2. world \in Worlds /\ plists \in Seq(S) /\ frames \in Seq(Frame)
    BY <2>1 DEF StackInv
  <2>3. ASSUME NEW i \in DOMAIN plists, NEW p \in ToSet(plists[i]) PROVE IsCandidate(p)
    <3>1. plists[i] \in S
      BY <2>2
    <3>2. PICK L \in Seq(Candidates) : L = plists[i]
      BY <2>1, <3>1
    <3>3. p \in Candidates
      BY <3>2 DEF ToSet
    <3>4. QED
      BY <2>2, <3>3, CandidatesAre
  <2>4. ASSUME NEW k \in DOMAIN frames, NEW p \in ToSet(frames[k].constraints) PROVE IsCandidate(p)
    <3>1. frames[k] \in Frame
      BY <2>2
    <3>2. PICK L \in Seq(Candidates) : L = frames[k].constraints
      BY <3>1 DEF Frame
    <3>3. p \in Candidates
      BY <3>2 DEF ToSet
    <3>4. QED
      BY <2>2, <3>3, CandidatesAre
  <2>5. ASSUME pc = "search"
        PROVE  /\ Level \in 1 .. (Len(plists) + 1)
               /\ Top.size = Len(plists)
               /\ \A k \in 1 .. (Level - 1) : frames[k].next \in DOMAIN plists[k]
    <3>1. Stacked(frames, plists)
      BY <2>5 DEF StackInv
    <3>2. frames # <<>>
      BY <3>1 DEF Stacked
    <3>3. Len(frames) \in Nat /\ Len(frames) > 0 /\ Len(plists) \in Nat
      BY <2>2, <3>2, LengthPositive
    <3>4. Top = frames[Len(frames)]
      BY DEF Top, Last
    <3>5. QED
      BY <3>1, <3>3, <3>4 DEF Stacked, Level
  <2>6. pc \in {"start", "search", "done", "aborted"} /\ Len(solutions) <= MaxSolutions
    BY DEF StackInv
  <2>7. QED
    BY <2>3, <2>4, <2>5, <2>6 DEF SolverTypeOK
<1>2. QED
  BY <1>1, StackInvariant, PTL
-----------------------------------------------------------------------------
(* Solutions hold whatever versions the user picks *)

(* A pattern that a constraint serves, or each package of the first n lists.*)
Within(C, L, n, pat) ==
    \/ \E i \in DOMAIN C : Serves(C[i], pat)
    \/ \E i \in DOMAIN L : i <= n /\ \A p \in ToSet(L[i]) : Serves(p, pat)

(* The constraints and the first n lists provide for all that is needed.   *)
Provided(C, L, n) ==
    /\ ToSet(world.employed) \subseteq ToSet(C)
    /\ \A pat \in ToSet(Asked) : Within(C, L, n, pat)
    /\ \A i \in DOMAIN C :
          \/ C[i] \in ToSet(world.employed)
          \/ \A pat \in ToSet(DependencyPatterns(C[i])) : Within(C, L, n, pat)

IsChosen(C, x) == \E i \in DOMAIN C : Refines(C[i], x)

(* Packages that are all that is needed, whatever versions they are of.    *)
Settled(S) ==
    /\ S \subseteq Candidates
    /\ ToSet(world.employed) \subseteq S
    /\ \A a \in S : \A b \in S \ {a} : Names(a) \cap Names(b) = {}
    /\ \A pat \in ToSet(Asked) : \E p \in S : Serves(p, pat)
    /\ \A p \in S \ ToSet(world.employed) :
          \A pat \in ToSet(DependencyPatterns(p)) : \E q \in S : Serves(q, pat)

SoundInv ==
    /\ \A k \in DOMAIN solutions : Settled(solutions[k])
    /\ pc = "search" =>
          \A k \in DOMAIN frames :
             /\ Provided(frames[k].constraints, plists, frames[k].size)
             /\ \A j \in 1 .. (k - 1) :
                   IsChosen(frames[k].constraints, plists[j][frames[j].next])

(* What is needed depends on the world alone.                              *)
LEMMA SameNeeds ==
  ASSUME world' = world
  PROVE  /\ \A C, L, n : Provided(C, L, n)' <=> Provided(C, L, n)
         /\ \A S : Settled(S)' <=> Settled(S)
<1>1. /\ \A p : DependencyPatterns(p)' = DependencyPatterns(p)
      /\ Candidates' = Candidates
  BY SameCandidates
<1>2. Asked' = Asked
  BY DEF Asked, Generators, FindPackages, AllPackages
<1>3. QED
  BY <1>1, <1>2 DEF Provided, Settled

(* The packages that a choice of versions leaves.                          *)
LEMMA PickedVersion ==
  ASSUME WellFormed, world \in Worlds, NEW p \in Candidates, NEW v \in p.versions,
         NEW q, q = [p EXCEPT !.versions = {v}]
  PROVE  /\ Refines(q, p) /\ q.versions = {v} /\ Names(q) = Names(p)
         /\ DependencyPatterns(q) = DependencyPatterns(p)
         /\ IsInstalled(p) => q = p
<1>1. IsCandidate(p)
  BY CandidatesAre
<1>2. CASE p \in world.installed
  <2>1. IsInstalled(p)
    BY <1>2, InstalledFacts
  <2>2. PICK w : /\ p.versions = {w}
                 /\ p = [name |-> p.name, aliases |-> p.aliases, hash |-> p.hash,
                         versions |-> {w}, time |-> p.time, depends |-> p.depends]
    BY <1>2, InstalledFacts
  <2>3. v = w
    BY <2>2
  <2>4. q = p
    BY <2>2, <2>3
  <2>5. QED
    BY <2>1, <2>2, <2>3, <2>4 DEF Refines
<1>3. CASE \E n, i : IsGhostOf(p, n, i)
  <2>1. PICK n, i : IsGhostOf(p, n, i)
    BY <1>3
  <2>2. p = Ghost(n, p.versions)
    BY <2>1 DEF IsGhostOf
  <2>3. q = Ghost(n, {v})
    <3>1. PICK V : V = p.versions
      OBVIOUS
    <3>2. p = Ghost(n, V)
      BY <2>2, <3>1
    <3>3. QED
      BY <3>2 DEF Ghost
  <2>4. q.versions = {v}
    BY <2>3 DEF Ghost
  <2>5. IsGhostOf(q, n, i)
    <3>1. \A u \in p.versions : u \in world.defs[n].versions /\ InSection(world.defs[n].sections[i], u)
      BY <2>1 DEF IsGhostOf
    <3>2. n \in DOMAIN world.defs /\ i \in DOMAIN world.defs[n].sections
      BY <2>1 DEF IsGhostOf
    <3>3. QED
      BY <2>3, <2>4, <3>1, <3>2 DEF IsGhostOf
  <2>6. /\ p.name = n /\ Names(p) = {n} /\ ~ IsInstalled(p)
        /\ q.name = n /\ Names(q) = {n} /\ ~ IsInstalled(q)
    BY <2>1, <2>5, GhostFacts
  <2>7. Refines(q, p)
    BY <2>4, <2>6 DEF Refines
  <2>8. IsCandidate(q)
    BY <2>5, CandidateCases
  <2>9. DependencyPatterns(q) = DependencyPatterns(p)
    <3>1. IsInstalled(q) = IsInstalled(p)
      BY <2>6 DEF IsInstalled
    <3>2. QED
      BY <1>1, <2>7, <2>8, <3>1, RefinedDepends
  <2>10. QED
    BY <2>4, <2>6, <2>7, <2>9
<1>4. QED
  BY <1>1, <1>2, <1>3, CandidateCases
(* Packages that are settled make a solution, whatever versions are picked.*)
LEMMA SettledIsValid ==
  ASSUME WellFormed, world \in Worlds, NEW S, Settled(S), NEW T \in Outcomes(S)
  PROVE  IsSolution(T)
<1>1. PICK f : /\ f \in [S -> UNION {p.versions : p \in S}] /\ \A p \in S : f[p] \in p.versions
               /\ T = {[p EXCEPT !.versions = {f[p]}] : p \in S}
  BY DEF Outcomes
<1> DEFINE h(p) == [p EXCEPT !.versions = {f[p]}]
<1>2. S \subseteq Candidates
  BY DEF Settled
<1>3. \A p \in S : /\ Refines(h(p), p) /\ h(p).versions = {f[p]} /\ Names(h(p)) = Names(p)
                   /\ DependencyPatterns(h(p)) = DependencyPatterns(p)
                   /\ IsInstalled(p) => h(p) = p
  <2> TAKE p \in S
  <2>1. p \in Candidates /\ f[p] \in p.versions
    BY <1>1, <1>2
  <2>2. PICK q : q = h(p)
    OBVIOUS
  <2>3. QED
    BY <2>1, <2>2, PickedVersion
<1>4. \A t : t \in T <=> \E p \in S : t = h(p)
  BY <1>1
<1> HIDE DEF h
<1>5. ToSet(world.employed) \subseteq T
  <2> SUFFICES ASSUME NEW p \in ToSet(world.employed) PROVE p \in T
    OBVIOUS
  <2>1. p \in S
    BY DEF Settled
  <2>2. p \in world.installed
    BY WorldsOK DEF ToSet
  <2>3. IsInstalled(p)
    BY <2>2, InstalledFacts
  <2>4. QED
    BY <1>3, <1>4, <2>1, <2>3
<1>6. ASSUME NEW a \in T, NEW b \in T \ {a} PROVE Names(a) \cap Names(b) = {}
  <2>1. PICK p \in S, q \in S : a = h(p) /\ b = h(q)
    BY <1>4
  <2>2. q \in S \ {p}
    BY <1>6, <2>1
  <2>3. Names(p) \cap Names(q) = {}
    BY <2>2 DEF Settled
  <2>4. QED
    BY <1>3, <2>1, <2>3
<1>7. ASSUME NEW pat, NEW p \in S, Serves(p, pat) PROVE Meets(T, pat)
  <2>1. PICK q : q = h(p)
    OBVIOUS
  <2>2. q \in T /\ Refines(q, p) /\ q.versions = {f[p]}
    BY <1>3, <1>4, <2>1
  <2>3. Serves(q, pat)
    BY <1>2, <1>7, <2>2, CandidatesAre, ServesRefined
  <2>4. f[p] \in q.versions
    BY <2>2
  <2>5. IF pat.hash # NoHash THEN q.hash = pat.hash
        ELSE pat.name \in Names(q) /\ Matching(pat, q) # {}
    BY <2>3, <2>4 DEF Serves, Matching
  <2>6. QED
    BY <2>2, <2>5 DEF Meets
<1>8. \A pat \in ToSet(Asked) : Meets(T, pat)
  BY <1>7 DEF Settled
<1>9. ASSUME NEW t \in T \ ToSet(world.employed), NEW pat \in ToSet(DependencyPatterns(t))
      PROVE  Meets(T, pat)
  <2>1. PICK p \in S : t = h(p)
    BY <1>4, <1>9
  <2>2. p \notin ToSet(world.employed)
    <3>1. ASSUME p \in ToSet(world.employed) PROVE FALSE
      <4>1. p \in world.installed
        BY <3>1, WorldsOK DEF ToSet
      <4>2. IsInstalled(p)
        BY <4>1, InstalledFacts
      <4>3. t = p
        BY <1>3, <2>1, <4>2
      <4>4. QED
        BY <1>9, <3>1, <4>3
    <3>2. QED
      BY <3>1
  <2>3. pat \in ToSet(DependencyPatterns(p))
    <3>1. DependencyPatterns(t) = DependencyPatterns(p)
      BY <1>3, <2>1
    <3>2. QED
      BY <1>9, <3>1
  <2>4. PICK q \in S : Serves(q, pat)
    BY <2>2, <2>3 DEF Settled
  <2>5. QED
    BY <1>7, <2>4
<1>10. QED
  BY <1>5, <1>6, <1>8, <1>9 DEF IsSolution, Asked

(* What the first n lists provide for, others do that begin with them.     *)
LEMMA ProvidedByFirstLists ==
  ASSUME NEW C, NEW L, NEW K, NEW n, Provided(C, L, n),
         \A i \in DOMAIN L : i <= n => i \in DOMAIN K /\ K[i] = L[i]
  PROVE  Provided(C, K, n)
<1>1. ASSUME NEW pat, Within(C, L, n, pat) PROVE Within(C, K, n, pat)
  BY <1>1 DEF Within
<1>2. QED
  BY <1>1 DEF Provided

(* Adding a package provides for what it depends on.                       *)
LEMMA AdditionProvides ==
  ASSUME WellFormed, world \in Worlds, NEW C \in Seq(Candidates), NEW L \in Seq(Seq(Candidates)),
         L = plists, Provided(C, L, Len(L)), NEW x, NEW D, NEW K, Addition(D, K, C, x),
         ~ IsAnyListEmpty(K)
  PROVE  Provided(D, K, Len(K))
<1>1. PICK S : S = Seq(Candidates)
  OBVIOUS
<1>2. L \in Seq(S) /\ K \in Seq(S) /\ Continues(K, L) /\ D \in Seq(Candidates) /\ Tightens(D, C)
  BY <1>1 DEF Addition
<1>4. \A pat : Covered(D, K, pat) => Within(D, K, Len(K), pat)
  <2>1. \A i \in DOMAIN K : i <= Len(K)
    BY <1>2
  <2>2. QED
    BY <2>1 DEF Within, Covered
<1>5. ASSUME NEW pat, Within(C, L, Len(L), pat) PROVE Within(D, K, Len(K), pat)
  <2>1. Covered(C, L, pat)
    BY <1>5 DEF Within, Covered
  <2>2. Covered(D, L, pat)
    BY <1>2, <2>1, CoveredTightens
  <2>3. Covered(D, K, pat)
    BY <1>2, <2>2, CoveredContinues
  <2>4. QED
    BY <1>4, <2>3
<1>6. \A i \in DOMAIN C : C[i] \in ToSet(world.employed) => i \in DOMAIN D /\ D[i] = C[i]
  <2> TAKE i \in DOMAIN C
  <2> HAVE C[i] \in ToSet(world.employed)
  <2>1. C[i] \in world.installed
    BY WorldsOK DEF ToSet
  <2>2. IsInstalled(C[i])
    BY <2>1, InstalledFacts
  <2>3. i \in DOMAIN D /\ Refines(D[i], C[i])
    BY <1>2 DEF Tightens
  <2>4. QED
    BY <2>2, <2>3 DEF Refines
<1>7. ToSet(world.employed) \subseteq ToSet(D)
  <2> SUFFICES ASSUME NEW p \in ToSet(world.employed) PROVE p \in ToSet(D)
    OBVIOUS
  <2>1. PICK i \in DOMAIN C : C[i] = p
    BY DEF Provided, ToSet
  <2>2. QED
    BY <1>6, <2>1 DEF ToSet
<1>8. \A pat \in ToSet(Asked) : Within(D, K, Len(K), pat)
  BY <1>5 DEF Provided
<1>9. ASSUME NEW i \in DOMAIN D, D[i] \notin ToSet(world.employed),
             NEW pat \in ToSet(DependencyPatterns(D[i]))
      PROVE  Within(D, K, Len(K), pat)
  <2>1. CASE i \in DOMAIN C /\ DependencyPatterns(D[i]) = DependencyPatterns(C[i])
    <3>1. C[i] \notin ToSet(world.employed)
      BY <1>6, <1>9, <2>1
    <3>2. Within(C, L, Len(L), pat)
      BY <1>9, <2>1, <3>1 DEF Provided
    <3>3. QED
      BY <1>5, <3>2
  <2>2. CASE NeedDeps(C, x) /\ DependencyPatterns(D[i]) = DependencyPatterns(x)
    <3>1. Covered(D, K, pat)
      BY <1>9, <2>2 DEF Addition
    <3>2. QED
      BY <1>4, <3>1
  <2>3. QED
    BY <2>1, <2>2 DEF Addition
<1>10. QED
  BY <1>7, <1>8, <1>9 DEF Provided
(* Constraints for which each list has a package chosen are settled.       *)
LEMMA AllChosenSettles ==
  ASSUME WellFormed, world \in Worlds, NEW C \in Seq(Candidates), Compatible(C),
         NEW L \in Seq(Seq(Candidates)), NEW n, Provided(C, L, n),
         \A j \in DOMAIN L : \E x \in ToSet(L[j]) : IsChosen(C, x)
  PROVE  Settled(ToSet(C))
<1>1. PICK S : S = ToSet(C)
  OBVIOUS
<1>2. S \subseteq Candidates
  BY <1>1 DEF ToSet
<1>3. \A a \in S : \A b \in S \ {a} : Names(a) \cap Names(b) = {}
  BY <1>1 DEF Compatible, ToSet
<1>4. ASSUME NEW pat, Within(C, L, n, pat) PROVE \E p \in S : Serves(p, pat)
  <2>1. CASE \E i \in DOMAIN C : Serves(C[i], pat)
    BY <1>1, <2>1 DEF ToSet
  <2>2. CASE \E j \in DOMAIN L : \A p \in ToSet(L[j]) : Serves(p, pat)
    <3>1. PICK j \in DOMAIN L : \A p \in ToSet(L[j]) : Serves(p, pat)
      BY <2>2
    <3>2. PICK x \in ToSet(L[j]) : IsChosen(C, x)
      OBVIOUS
    <3>3. PICK i \in DOMAIN C : Refines(C[i], x)
      BY <3>2 DEF IsChosen
    <3>4. x \in Candidates
      <4>1. PICK Z : Z = Seq(Candidates)
        OBVIOUS
      <4>2. L[j] \in Z
        BY <4>1
      <4>3. PICK M \in Seq(Candidates) : M = L[j]
        BY <4>1, <4>2
      <4>4. QED
        BY <4>3 DEF ToSet
    <3>5. Serves(C[i], pat)
      BY <3>1, <3>3, <3>4, CandidatesAre, ServesRefined
    <3>6. QED
      BY <1>1, <3>5 DEF ToSet
  <2>3. QED
    BY <1>4, <2>1, <2>2 DEF Within
<1>5. \A pat \in ToSet(Asked) : \E p \in S : Serves(p, pat)
  BY <1>4 DEF Provided
<1>6. ASSUME NEW p \in S \ ToSet(world.employed), NEW pat \in ToSet(DependencyPatterns(p))
      PROVE  \E q \in S : Serves(q, pat)
  <2>1. PICK i \in DOMAIN C : C[i] = p
    BY <1>1 DEF ToSet
  <2>2. Within(C, L, n, pat)
    BY <1>6, <2>1 DEF Provided
  <2>3. QED
    BY <1>4, <2>2
<1>7. ToSet(world.employed) \subseteq S
  BY <1>1 DEF Provided
<1>8. QED
  BY <1>1, <1>2, <1>3, <1>5, <1>6, <1>7 DEF Settled

(* A return keeps what is known of the levels below.                       *)
LEMMA ReturnKeepsSound ==
  ASSUME StackInv, pc = "search", Return, UNCHANGED world, SoundInv,
         \A k \in DOMAIN solutions' : Settled(solutions'[k])
  PROVE  SoundInv'
<1>1. /\ \A C, L, n : Provided(C, L, n)' <=> Provided(C, L, n)
      /\ \A S : Settled(S)' <=> Settled(S)
  BY SameNeeds
<1>2. PICK S : S = Seq(Candidates)
  OBVIOUS
<1>3. plists \in Seq(S) /\ frames \in Seq(Frame) /\ Stacked(frames, plists)
  BY <1>2 DEF StackInv
<1>4. PICK L \in Seq(S), F \in Seq(Frame) : L = plists /\ F = frames
  BY <1>3
<1>5. Stacked(F, L)
  BY <1>3, <1>4
<1>6. \A k \in DOMAIN F : /\ Provided(F[k].constraints, L, F[k].size)
                          /\ \A j \in 1 .. (k - 1) : IsChosen(F[k].constraints, L[j][F[j].next])
  BY <1>4 DEF SoundInv
<1>7. CASE Level = 1
  <2>1. pc' = "done"
    BY <1>7 DEF Return
  <2>2. QED
    BY <1>1, <2>1 DEF SoundInv
<1>8. CASE Level # 1
  <2>1. PICK G : G = Advance(Front(F))
    OBVIOUS
  <2>2. PICK K : K = SubSeq(L, 1, F[Len(F) - 1].size)
    OBVIOUS
  <2>3. Unstacked(G, K, F, L) /\ Len(F) # 1
    BY <1>4, <1>8, <2>1, <2>2 DEF Unstacked, Level
  <2>4. /\ G \in Seq(Frame) /\ K \in Seq(S) /\ Stacked(G, K) /\ Continues(L, K)
        /\ Len(G) = Len(F) - 1 /\ Len(F) \in Nat /\ Len(F) > 1
        /\ Len(K) = F[Len(F) - 1].size
        /\ \A k \in 1 .. Len(G) : /\ G[k].constraints = F[k].constraints /\ G[k].size = F[k].size
                                  /\ k # Len(G) => G[k] = F[k]
    BY <1>5, <2>3, ReturnUnstacks
  <2>5. PICK m : m = Len(G)
    OBVIOUS
  <2>6. m \in Nat /\ DOMAIN G = 1 .. m /\ DOMAIN F = 1 .. (m + 1)
    BY <2>4, <2>5, LengthPositive
  <2>7. Len(K) \in Nat /\ DOMAIN K = 1 .. Len(K) /\ DOMAIN L = 1 .. Len(L) /\ Len(L) \in Nat
    BY <2>4, LengthPositive
  <2>8. \A i \in DOMAIN K : L[i] = K[i]
    BY <2>4, <2>7 DEF Continues
  <2>9. \A k \in 1 .. m : G[k].size <= Len(K)
    <3>1. G[m].size = Len(K) /\ \A k, l \in DOMAIN G : k <= l => G[k].size <= G[l].size
      BY <2>4, <2>5 DEF Stacked
    <3>2. ASSUME NEW k \in 1 .. m PROVE k <= m /\ m \in 1 .. m
      BY <2>6
    <3>3. QED
      BY <2>6, <3>1, <3>2
  <2>10. \A k \in 1 .. m : G[k] \in Frame
    BY <2>4, <2>6
  <2>11. ASSUME NEW k \in 1 .. m PROVE Provided(G[k].constraints, K, G[k].size)
    <3>1. k \in DOMAIN F
      BY <2>6
    <3>2. PICK C, n : C = G[k].constraints /\ n = G[k].size
      OBVIOUS
    <3>3. C = F[k].constraints /\ n = F[k].size
      BY <2>4, <2>5, <3>2
    <3>4. Provided(C, L, n)
      BY <1>6, <3>1, <3>3
    <3>5. n \in Nat /\ n <= Len(K)
      BY <2>9, <2>10, <3>2 DEF Frame
    <3>6. \A i \in DOMAIN L : i <= n => i \in DOMAIN K /\ K[i] = L[i]
      BY <2>7, <2>8, <3>5
    <3>7. Provided(C, K, n)
      BY <3>4, <3>6, ProvidedByFirstLists
    <3>8. QED
      BY <3>2, <3>7
  <2>12. ASSUME NEW k \in 1 .. m, NEW j \in 1 .. (k - 1)
         PROVE  IsChosen(G[k].constraints, K[j][G[j].next])
    <3>1. k \in DOMAIN F /\ j \in 1 .. m /\ j # m /\ j \in 1 .. (m - 1)
      BY <2>6
    <3>2. G[k].constraints = F[k].constraints /\ G[j] = F[j]
      BY <2>4, <2>5, <3>1
    <3>3. j <= G[j].size /\ G[j].size <= Len(K) /\ G[j].size \in Nat
      BY <2>4, <2>5, <2>9, <2>10, <3>1 DEF Stacked, Frame
    <3>4. j \in DOMAIN K
      BY <2>7, <3>1, <3>3
    <3>5. K[j] = L[j]
      BY <2>8, <3>4
    <3>6. IsChosen(F[k].constraints, L[j][F[j].next])
      BY <1>6, <3>1
    <3>7. QED
      BY <3>2, <3>5, <3>6
  <2>13. plists' = K /\ frames' = G
    BY <1>4, <1>8, <2>1, <2>2 DEF Return, Level
  <2>14. QED
    BY <1>1, <2>6, <2>11, <2>12, <2>13 DEF SoundInv
<1>9. QED
  BY <1>7, <1>8
(* The inductive invariant behind the solutions: at each level, whatever   *)
(* is needed is served by a constraint, or by each package of a list.      *)
THEOREM SoundInvariant == ASSUME WellFormed PROVE Spec => []SoundInv
<1>1. Init => SoundInv
  BY DEF Init, SoundInv
<1>2. StackInv /\ SearchInv /\ SoundInv /\ [Next]_vars => SoundInv'
  <2> SUFFICES ASSUME StackInv, SearchInv, SoundInv, [Next]_vars PROVE SoundInv'
    OBVIOUS
  <2>1. world \in Worlds /\ world' = world
    BY DEF StackInv, Next, Begin, Found, AssertionFails, Reject, Accept, Exhaust, vars
  <2>2. /\ \A C, L, n : Provided(C, L, n)' <=> Provided(C, L, n)
        /\ \A S : Settled(S)' <=> Settled(S)
    BY <2>1, SameNeeds
  <2>3. PICK S : S = Seq(Candidates)
    OBVIOUS
  <2>4. plists \in Seq(S) /\ frames \in Seq(Frame) /\ solutions \in Seq(SUBSET Candidates)
    BY <2>3 DEF StackInv
  <2>5. \A k \in DOMAIN solutions : Settled(solutions[k])
    BY DEF SoundInv
  <2>6. CASE Begin
    <3>1. PICK C, L : C = world.employed /\ L = FirstLists
      OBVIOUS
    <3>2. /\ C \in Seq(Candidates) /\ L \in Seq(S)
          /\ ~ IsAnyListEmpty(L) => \A pat \in ToSet(Asked) : Covered(C, L, pat)
      BY <2>1, <2>3, <3>1, FirstListsCover
    <3>3. /\ solutions' = solutions
          /\ pc' = "search" =>
                plists' = L /\ frames' = <<Enter(C, L)>> /\ ~ IsAnyListEmpty(L)
      BY <2>6, <3>1 DEF Begin, FirstLists
    <3>4. CASE pc' = "search"
      <4>1. PICK f : f = Enter(C, L)
        OBVIOUS
      <4>2. f.constraints = C /\ f.size = Len(L)
        BY <3>2, <4>1, EnteredFrame
      <4>3. \A pat \in ToSet(Asked) : Within(C, L, Len(L), pat)
        <5>1. \A i \in DOMAIN L : i <= Len(L)
          BY <3>2
        <5>2. QED
          BY <3>2, <3>3, <3>4, <5>1 DEF Covered, Within
      <4>4. \A i \in DOMAIN C : C[i] \in ToSet(world.employed)
        BY <3>1 DEF ToSet
      <4>5. ToSet(world.employed) \subseteq ToSet(C)
        BY <3>1
      <4>6. Provided(C, L, Len(L))
        BY <4>3, <4>4, <4>5 DEF Provided
      <4>7. frames' = <<f>> /\ plists' = L
        BY <3>3, <3>4, <4>1
      <4>8. DOMAIN frames' = {1} /\ frames'[1] = f /\ \A j \in 1 .. (1 - 1) : FALSE
        BY <4>7
      <4>9. QED
        BY <2>2, <2>5, <3>3, <4>2, <4>6, <4>7, <4>8 DEF SoundInv
    <3>5. QED
      BY <2>2, <2>5, <3>3, <3>4 DEF SoundInv
  <2>7. CASE Found
    <3>1. pc = "search" /\ Level > Len(plists) /\ solutions' = Append(solutions, ToSet(Top.constraints))
      BY <2>7 DEF Found, AtEnd
    <3>2. PICK F \in Seq(Frame), L \in Seq(S) : F = frames /\ L = plists
      BY <2>4
    <3>3. Stacked(F, L)
      BY <3>1, <3>2 DEF StackInv
    <3>4. PICK n : n = Len(F)
      OBVIOUS
    <3>5. F # <<>> /\ n <= Len(L) + 1
      BY <3>3, <3>4 DEF Stacked
    <3>6. n \in Nat /\ n > 0 /\ DOMAIN F = 1 .. n /\ Len(L) \in Nat /\ DOMAIN L = 1 .. Len(L)
      BY <3>4, <3>5, LengthPositive
    <3>7. n = Len(L) + 1
      BY <3>1, <3>2, <3>4, <3>5, <3>6 DEF Level
    <3>8. n \in DOMAIN F /\ DOMAIN L = 1 .. (n - 1)
      BY <3>6, <3>7
    <3>9. Top = F[n] /\ F[n] \in Frame
      BY <3>2, <3>4, <3>8 DEF Top, Last
    <3>10. PICK C \in Seq(Candidates) : C = F[n].constraints
      BY <3>9 DEF Frame
    <3>11. Compatible(C)
      BY <3>2, <3>8, <3>10 DEF SearchInv, FrameOK
    <3>12. /\ Provided(C, L, F[n].size)
           /\ \A j \in 1 .. (n - 1) : IsChosen(C, L[j][F[j].next])
      BY <3>1, <3>2, <3>8, <3>10 DEF SoundInv
    <3>13. ASSUME NEW j \in DOMAIN L PROVE \E x \in ToSet(L[j]) : IsChosen(C, x)
      <4>1. F[j].next \in DOMAIN L[j]
        BY <3>3, <3>4, <3>8 DEF Stacked
      <4>2. L[j][F[j].next] \in ToSet(L[j])
        BY <4>1 DEF ToSet
      <4>3. QED
        BY <3>8, <3>12, <4>2
    <3>14. Settled(ToSet(C))
      BY <2>1, <2>3, <3>11, <3>12, <3>13, AllChosenSettles
    <3>15. \A k \in DOMAIN solutions' : Settled(solutions'[k])
      <4>1. PICK A : A = ToSet(C)
        OBVIOUS
      <4>2. solutions' = Append(solutions, A) /\ Settled(A)
        BY <3>1, <3>9, <3>10, <3>14, <4>1
      <4>3. IsSequence(solutions)
        BY <2>4 DEF IsSequence
      <4>4. \A k \in DOMAIN solutions' : k \in DOMAIN solutions \/ k = Len(solutions) + 1
        BY <4>2, <4>3, AppendKeepsSequence
      <4>5. \A k \in DOMAIN solutions : solutions'[k] = solutions[k]
        <5>1. PICK s \in Seq(SUBSET Candidates) : s = solutions
          BY <2>4
        <5>2. \A k \in DOMAIN s : Append(s, A)[k] = s[k]
          OBVIOUS
        <5>3. QED
          BY <4>2, <5>1, <5>2
      <4>6. solutions'[Len(solutions) + 1] = A
        <5>1. PICK s \in Seq(SUBSET Candidates) : s = solutions
          BY <2>4
        <5>2. Append(s, A)[Len(s) + 1] = A
          OBVIOUS
        <5>3. QED
          BY <4>2, <5>1, <5>2
      <4>7. QED
        BY <2>5, <4>2, <4>4, <4>5, <4>6
    <3>16. CASE Len(solutions') >= MaxSolutions
      <4>1. pc' = "done"
        BY <2>7, <3>16 DEF Found
      <4>2. QED
        BY <2>2, <3>15, <4>1 DEF SoundInv
    <3>17. CASE ~ Len(solutions') >= MaxSolutions
      <4>1. Return
        BY <2>7, <3>17 DEF Found
      <4>2. QED
        BY <2>1, <3>1, <3>15, <4>1, ReturnKeepsSound
    <3>18. QED
      BY <3>16, <3>17
  <2>8. CASE AssertionFails
    BY <2>2, <2>5, <2>8 DEF AssertionFails, SoundInv
  <2>9. CASE Reject
    <3>1. HasCandidate /\ frames' = Advance(frames) /\ UNCHANGED <<pc, plists, solutions>>
      BY <2>9 DEF Reject
    <3>2. pc = "search" /\ Stacked(frames, plists)
      BY <3>1 DEF HasCandidate, StackInv
    <3>3. PICK F \in Seq(Frame), L \in Seq(S) : F = frames /\ L = plists
      BY <2>4
    <3>4. PICK G : G = Advance(F)
      OBVIOUS
    <3>5. F # <<>>
      BY <3>2, <3>3 DEF Stacked
    <3>6. /\ G \in Seq(Frame) /\ Len(G) = Len(F) /\ G # <<>>
          /\ \A k \in 1 .. Len(F) : /\ G[k].constraints = F[k].constraints /\ G[k].size = F[k].size
                                    /\ k # Len(F) => G[k] = F[k]
      BY <3>4, <3>5, AdvancedFrames
    <3>7. PICK n : n = Len(F)
      OBVIOUS
    <3>8. n \in Nat /\ DOMAIN F = 1 .. n /\ DOMAIN G = 1 .. n
      BY <3>6, <3>7, LengthPositive
    <3>9. \A k \in DOMAIN F :
             /\ Provided(F[k].constraints, L, F[k].size)
             /\ \A j \in 1 .. (k - 1) : IsChosen(F[k].constraints, L[j][F[j].next])
      BY <3>2, <3>3 DEF SoundInv
    <3>10. ASSUME NEW k \in 1 .. n, NEW j \in 1 .. (k - 1) PROVE G[j] = F[j]
      <4>1. j \in 1 .. n /\ j # n
        BY <3>8
      <4>2. QED
        BY <3>6, <3>7, <4>1
    <3>11. frames' = G /\ plists' = L
      BY <3>1, <3>3, <3>4
    <3>12. \A k \in 1 .. n : /\ Provided(G[k].constraints, L, G[k].size)
                             /\ \A j \in 1 .. (k - 1) : IsChosen(G[k].constraints, L[j][G[j].next])
      BY <3>6, <3>7, <3>8, <3>9, <3>10
    <3>13. QED
      BY <2>2, <2>5, <3>1, <3>8, <3>11, <3>12 DEF SoundInv
  <2>10. CASE Accept
    <3>1. /\ HasCandidate /\ Fits(Top.constraints, Candidate) /\ UNCHANGED <<pc, solutions>>
          /\ ~ IsAnyListEmpty(Extended) /\ plists' = Extended
          /\ frames' = Append(frames, Enter(Constrain(Top.constraints, Candidate), Extended))
      BY <2>10 DEF Accept
    <3>2. PICK C, x, D, K : /\ C = Top.constraints /\ x = Candidate
                            /\ D = Constrain(Top.constraints, Candidate) /\ K = Extended
      OBVIOUS
    <3>3. Addition(D, K, C, x)
      BY <3>1, <3>2, CandidateIsAdded
    <3>4. D \in Seq(Candidates) /\ K \in Seq(S) /\ Continues(K, plists) /\ Tightens(D, C)
      BY <2>3, <3>3 DEF Addition
    <3>5. PICK f : f = Enter(D, K)
      OBVIOUS
    <3>6. f \in Frame /\ f.size = Len(K) /\ f.constraints = D
      BY <3>4, <3>5, EnteredFrame
    <3>7. PICK F \in Seq(Frame), L \in Seq(S) : F = frames /\ L = plists
      BY <2>4
    <3>8. pc = "search" /\ Stacked(F, L)
      BY <3>1, <3>7 DEF HasCandidate, StackInv
    <3>9. PICK n : n = Len(F)
      OBVIOUS
    <3>10. /\ n \in Nat /\ n \in DOMAIN F /\ n \in DOMAIN L /\ Top = F[n] /\ Top \in Frame
           /\ F[n].next \in DOMAIN L[n] /\ x = L[n][F[n].next]
      <4>1. /\ Level \in Nat /\ Level \in DOMAIN frames /\ Level \in DOMAIN plists
            /\ Top = frames[Level] /\ Top \in Frame /\ Top.next \in DOMAIN plists[Level]
        BY <3>1, CandidateIsChosen
      <4>2. Level = n
        BY <3>7, <3>9 DEF Level
      <4>3. x = plists[Level][Top.next]
        BY <3>2 DEF Candidate
      <4>4. QED
        BY <3>7, <4>1, <4>2, <4>3
    <3>11. DOMAIN F = 1 .. n /\ Len(L) \in Nat /\ DOMAIN L = 1 .. Len(L) /\ Len(K) \in Nat /\ DOMAIN K = 1 .. Len(K)
      BY <3>4, <3>7, <3>9, LengthPositive
    <3>12. Len(L) <= Len(K) /\ \A i \in DOMAIN L : i \in DOMAIN K /\ K[i] = L[i]
      BY <3>4, <3>7, <3>11 DEF Continues
    <3>13. C \in Seq(Candidates) /\ F[n].size = Len(L) /\ C = F[n].constraints
      BY <3>2, <3>8, <3>9, <3>10 DEF Frame, Stacked
    <3>14. \A k \in 1 .. n :
              /\ Provided(F[k].constraints, L, F[k].size)
              /\ \A j \in 1 .. (k - 1) : IsChosen(F[k].constraints, L[j][F[j].next])
      BY <3>7, <3>8, <3>11 DEF SoundInv
    <3>15. Provided(D, K, Len(K))
      <4>1. Provided(C, L, Len(L))
        BY <3>10, <3>11, <3>13, <3>14
      <4>2. L \in Seq(Seq(Candidates)) /\ ~ IsAnyListEmpty(K)
        BY <2>3, <3>1, <3>2
      <4>3. QED
        BY <2>1, <3>3, <3>7, <3>13, <4>1, <4>2, AdditionProvides
    <3>16. PICK G : G = Append(F, f)
      OBVIOUS
    <3>17. Len(G) = n + 1 /\ DOMAIN G = 1 .. (n + 1) /\ G[n + 1] = f /\ \A k \in 1 .. n : G[k] = F[k]
      <4>1. n <= Len(L)
        BY <3>10, <3>11
      <4>2. /\ G \in Seq(Frame) /\ Len(G) = n + 1 /\ G[n + 1] = f /\ \A k \in 1 .. n : G[k] = F[k]
        <5>1. K \in Seq(S) /\ Continues(K, L) /\ Stacked(F, L) /\ f \in Frame /\ f.size = Len(K)
          BY <3>4, <3>6, <3>7, <3>8
        <5>2. QED
          BY <3>9, <3>10, <3>16, <4>1, <5>1, EnterStacks, SMTT(30)
      <4>3. QED
        BY <4>2, LengthPositive
    <3>18. ASSUME NEW k \in 1 .. n
           PROVE  /\ Provided(G[k].constraints, K, G[k].size)
                  /\ \A j \in 1 .. (k - 1) : IsChosen(G[k].constraints, K[j][G[j].next])
      <4>1. Provided(F[k].constraints, K, F[k].size)
        <5>1. PICK B, m : B = F[k].constraints /\ m = F[k].size
          OBVIOUS
        <5>2. Provided(B, L, m)
          BY <3>14, <5>1
        <5>3. \A i \in DOMAIN L : i <= m => i \in DOMAIN K /\ K[i] = L[i]
          BY <3>12
        <5>4. QED
          BY <5>1, <5>2, <5>3, ProvidedByFirstLists
      <4>2. ASSUME NEW j \in 1 .. (k - 1) PROVE IsChosen(F[k].constraints, K[j][G[j].next])
        <5>1. j \in 1 .. n /\ j \in DOMAIN L
          BY <3>10, <3>11
        <5>2. G[j] = F[j] /\ K[j] = L[j]
          BY <3>12, <3>17, <5>1
        <5>3. QED
          BY <3>14, <5>2
      <4>3. QED
        BY <3>17, <4>1, <4>2
    <3>19. ASSUME NEW j \in 1 .. n PROVE IsChosen(D, K[j][G[j].next])
      <4>1. j \in DOMAIN L
        BY <3>10, <3>11
      <4>2. G[j] = F[j] /\ K[j] = L[j]
        BY <3>12, <3>17, <4>1
      <4>3. CASE j = n
        <5>1. IsChosen(D, x)
          BY <3>3 DEF Addition, IsChosen
        <5>2. QED
          BY <3>10, <4>2, <4>3, <5>1
      <4>4. CASE j # n
        <5>1. j \in 1 .. (n - 1)
          BY <3>10, <4>4
        <5>2. IsChosen(C, L[j][F[j].next])
          BY <3>10, <3>11, <3>13, <3>14, <5>1
        <5>3. PICK y : y = L[j][F[j].next]
          OBVIOUS
        <5>4. PICK i \in DOMAIN C : Refines(C[i], y)
          BY <5>2, <5>3 DEF IsChosen
        <5>5. i \in DOMAIN D /\ Refines(D[i], C[i])
          BY <3>4 DEF Tightens
        <5>6. Refines(D[i], y)
          BY <5>4, <5>5, RefinesTransitive
        <5>7. IsChosen(D, y)
          BY <5>5, <5>6 DEF IsChosen
        <5>8. QED
          BY <4>2, <5>3, <5>7
      <4>5. QED
        BY <4>3, <4>4
    <3>20. \A k \in 1 .. (n + 1) :
              /\ Provided(G[k].constraints, K, G[k].size)
              /\ \A j \in 1 .. (k - 1) : IsChosen(G[k].constraints, K[j][G[j].next])
      <4> TAKE k \in 1 .. (n + 1)
      <4>1. CASE k \in 1 .. n
        BY <3>18, <4>1
      <4>2. CASE k = n + 1
        <5>1. k - 1 = n
          BY <3>10, <4>2
        <5>2. QED
          BY <3>6, <3>15, <3>17, <3>19, <4>2, <5>1
      <4>3. QED
        BY <3>10, <4>1, <4>2
    <3>21. frames' = G /\ plists' = K
      BY <3>1, <3>2, <3>5, <3>7, <3>16
    <3>22. QED
      BY <2>2, <2>5, <3>1, <3>17, <3>20, <3>21 DEF SoundInv
  <2>11. CASE Exhaust
    <3>1. pc = "search" /\ Return /\ solutions' = solutions
      BY <2>11 DEF Exhaust
    <3>2. QED
      BY <2>1, <2>5, <3>1, ReturnKeepsSound
  <2>12. CASE UNCHANGED vars
    BY <2>2, <2>12 DEF vars, SoundInv
  <2>13. QED
    BY <2>6, <2>7, <2>8, <2>9, <2>10, <2>11, <2>12 DEF Next
<1>3. QED
  BY <1>1, <1>2, StackInvariant, SearchInvariant, PTL DEF Spec

(* A solution holds whatever versions of its ghosts the user picks in      *)
(* spock-shell (AnyChoiceIsValid).                                         *)
THEOREM SolutionsAreValid == ASSUME WellFormed PROVE Spec => []AnyChoiceIsValid
<1>1. StackInv /\ SoundInv => AnyChoiceIsValid
  <2> SUFFICES ASSUME StackInv, SoundInv, NEW k \in DOMAIN solutions, NEW T \in Outcomes(solutions[k])
               PROVE  IsSolution(T)
    BY DEF AnyChoiceIsValid
  <2>1. PICK S : S = solutions[k]
    OBVIOUS
  <2>2. Settled(S) /\ T \in Outcomes(S) /\ world \in Worlds
    BY <2>1 DEF SoundInv, StackInv
  <2>3. QED
    BY <2>2, SettledIsValid
<1>2. QED
  BY <1>1, StackInvariant, SoundInvariant, PTL
-----------------------------------------------------------------------------
(* The search misses no solution *)

(* p is what is left of c when the user has picked a version.              *)
Picks(p, c) == Refines(p, c) /\ (IsInstalled(p) <=> IsInstalled(c))

(* T is a choice from the constraints, and more.                           *)
Admits(T, C) == \A i \in DOMAIN C : \E p \in T : Picks(p, C[i])

Hits(T, L) == \E i \in DOMAIN L : \E p \in T : Picks(p, L[i])

(* A set of packages that would do.                                        *)
Would(T) == T \subseteq Concrete /\ IsSolution(T)

(* What is known of an installed package, or of a version of a ghost.      *)
LEMMA ConcreteFacts ==
  ASSUME WellFormed, world \in Worlds, NEW p \in Concrete
  PROVE  /\ p \in Candidates
         /\ ~ IsInstalled(p) =>
               \E g \in AllPackages : \E v \in g.versions :
                  ~ IsInstalled(g) /\ p = Ghost(g.name, {v})
<1>1. CASE p \in world.installed
  BY <1>1, InstalledFacts, CandidatesAre
<1>2. CASE p \notin world.installed
  <2>1. PICK g \in AllPackages : ~ IsInstalled(g) /\ p \in {Ghost(g.name, {v}) : v \in g.versions}
    BY <1>2 DEF Concrete
  <2>2. PICK v \in g.versions : p = Ghost(g.name, {v})
    BY <2>1
  <2>3. p.versions = {v}
    BY <2>2 DEF Ghost
  <2>4. IsCandidate(p)
    BY <2>1, <2>2, <2>3 DEF IsCandidate
  <2>5. QED
    BY <2>1, <2>2, <2>4, CandidatesAre
<1>3. QED
  BY <1>1, <1>2

(* A picked package has the names of what it is picked from.               *)
LEMMA PickedNames ==
  ASSUME WellFormed, world \in Worlds, NEW p \in Candidates, NEW c \in Candidates, Picks(p, c)
  PROVE  Names(p) = Names(c) /\ p.name = c.name
<1>1. CASE IsInstalled(c)
  BY <1>1 DEF Picks, Refines
<1>2. CASE ~ IsInstalled(c)
  <2>1. p.name = c.name /\ ~ IsInstalled(p)
    BY <1>2 DEF Picks, Refines
  <2>2. IsCandidate(p) /\ IsCandidate(c)
    BY CandidatesAre
  <2>3. \A q : IsCandidate(q) /\ ~ IsInstalled(q) => Names(q) = {q.name}
    <3> TAKE q
    <3> HAVE IsCandidate(q) /\ ~ IsInstalled(q)
    <3>1. PICK n, i : IsGhostOf(q, n, i)
      BY CandidateCases, InstalledFacts
    <3>2. QED
      BY <3>1, GhostFacts
  <2>4. QED
    BY <1>2, <2>1, <2>2, <2>3
<1>3. QED
  BY <1>1, <1>2

(* What is picked from two packages by a solution makes them agree.        *)
LEMMA PickedTogether ==
  ASSUME WellFormed, world \in Worlds, NEW T, Would(T), NEW p \in T, NEW q \in T,
         NEW a \in Candidates, NEW b \in Candidates, Picks(p, a), Picks(q, b)
  PROVE  /\ ~ Excludes(a, b)
         /\ a.name # b.name => NamesInCommon(a, b) = {}
         /\ a.name = b.name => Agree(a, b) /\ Picks(q, Tightened(a, b))
<1>1. p \in Candidates /\ q \in Candidates
  BY ConcreteFacts DEF Would
<1>2. Names(p) = Names(a) /\ p.name = a.name /\ Names(q) = Names(b) /\ q.name = b.name
  BY <1>1, PickedNames
<1>3. p # q => Names(p) \cap Names(q) = {}
  BY DEF Would, IsSolution
<1>4. a.name # b.name => NamesInCommon(a, b) = {}
  BY <1>2, <1>3 DEF NamesInCommon
<1>5. CASE a.name # b.name
  BY <1>4, <1>5 DEF Excludes
<1>6. CASE a.name = b.name
  <2>1. p = q
    <3>1. p.name \in Names(p) /\ p.name \in Names(q)
      BY <1>2, <1>6 DEF Names
    <3>2. QED
      BY <1>3, <3>1
  <2>2. CASE IsInstalled(p)
    <3>1. IsInstalled(a) /\ IsInstalled(b) /\ a = p /\ b = p
      BY <2>1, <2>2 DEF Picks, Refines
    <3>2. Tightened(a, b) = a
      BY <3>1 DEF Tightened
    <3>3. QED
      BY <2>1, <3>1, <3>2 DEF Excludes, Agree
  <2>3. CASE ~ IsInstalled(p)
    <3>1. /\ ~ IsInstalled(a) /\ ~ IsInstalled(b)
          /\ p.versions # {} /\ p.versions \subseteq a.versions /\ p.versions \subseteq b.versions
      BY <2>1, <2>3 DEF Picks, Refines
    <3>2. a.versions \cap b.versions # {}
      BY <3>1
    <3>3. PICK t : t = Ghost(a.name, a.versions \cap b.versions)
      OBVIOUS
    <3>4. Tightened(a, b) = t
      BY <3>1, <3>3 DEF Tightened
    <3>5. t.name = a.name /\ t.versions = a.versions \cap b.versions /\ ~ IsInstalled(t)
      BY <3>3 DEF Ghost, IsInstalled
    <3>6. Picks(q, t)
      BY <1>2, <2>1, <2>3, <3>1, <3>5 DEF Picks, Refines
    <3>7. QED
      BY <1>6, <3>1, <3>2, <3>4, <3>6 DEF Excludes, Agree
  <2>4. QED
    BY <2>2, <2>3
<1>7. QED
  BY <1>4, <1>5, <1>6

(* Where a solution meets a pattern, it hits the list of the pattern.      *)
LEMMA MeetsHits ==
  ASSUME WellFormed, world \in Worlds, NEW T, Would(T), NEW C \in Seq(Candidates), Admits(T, C),
         NEW pat, Meets(T, pat)
  PROVE  Hits(T, Alternatives(C, pat))
<1>1. PICK p \in T : IF pat.hash # NoHash THEN p.hash = pat.hash
                     ELSE pat.name \in Names(p) /\ Matching(pat, p) # {}
  BY DEF Meets
<1>2. p \in Concrete /\ p \in Candidates
  BY ConcreteFacts DEF Would
<1>3. \E q \in FindPackages(pat) : Picks(p, Narrowed(q, pat))
  <2>1. CASE IsInstalled(p)
    <3>1. p \in world.installed
      BY <1>2, <2>1, CandidateCases, CandidatesAre, GhostFacts
    <3>2. p \in AllPackages
      BY <3>1 DEF AllPackages
    <3>3. p \in FindPackages(pat)
      BY <1>1, <3>2 DEF FindPackages
    <3>4. Picks(p, Narrowed(p, pat))
      BY <2>1 DEF Picks, Refines, Narrowed
    <3>5. QED
      BY <3>3, <3>4
  <2>2. CASE ~ IsInstalled(p)
    <3>1. PICK g, v : g \in AllPackages /\ v \in g.versions /\ ~ IsInstalled(g) /\ p = Ghost(g.name, {v})
      BY <1>2, <2>2, ConcreteFacts
    <3>2. p.versions = {v} /\ p.name = g.name /\ Names(p) = {g.name} /\ p.hash = NoHash
      BY <3>1 DEF Ghost, Names
    <3>3. pat.hash = NoHash /\ pat.name = g.name /\ v \in Matching(pat, p)
      BY <1>1, <3>2 DEF Matching
    <3>4. v \in Matching(pat, g)
      BY <3>1, <3>3 DEF Matching
    <3>5. g \in FindPackages(pat)
      BY <3>1, <3>3, <3>4 DEF FindPackages, Names
    <3>6. PICK t : t = Ghost(g.name, Matching(pat, g))
      OBVIOUS
    <3>7. Narrowed(g, pat) = t /\ t.name = g.name /\ t.versions = Matching(pat, g) /\ ~ IsInstalled(t)
      BY <3>1, <3>6 DEF Narrowed, Ghost, IsInstalled
    <3>8. Picks(p, t)
      BY <2>2, <3>2, <3>4, <3>7 DEF Picks, Refines
    <3>9. QED
      BY <3>5, <3>7, <3>8
  <2>3. QED
    BY <2>1, <2>2
<1>4. PICK q, x : q \in FindPackages(pat) /\ x = Narrowed(q, pat) /\ Picks(p, x)
  BY <1>3
<1>5. x \in Candidates
  BY <1>4, NarrowedServes, CandidatesAre
<1>6. ASSUME NEW i \in DOMAIN C PROVE ~ Excludes(C[i], x)
  <2>1. PICK c \in Candidates : c = C[i]
    OBVIOUS
  <2>2. PICK o \in T : Picks(o, c)
    BY <2>1 DEF Admits
  <2>3. QED
    BY <1>4, <1>5, <2>1, <2>2, PickedTogether
<1>7. x \in Matches(C, pat)
  BY <1>4, <1>6 DEF Matches
<1>8. PICK i \in DOMAIN Alternatives(C, pat) : Alternatives(C, pat)[i] = x
  BY <1>7, AlternativesList
<1>9. QED
  BY <1>4, <1>8 DEF Hits
(* A package from which a solution has picked fits, and the constraints    *)
(* still admit the solution.                                               *)
LEMMA AdmittedFits ==
  ASSUME WellFormed, world \in Worlds, NEW T, Would(T), NEW C \in Seq(Candidates), Admits(T, C),
         Compatible(C), NEW x \in Candidates, NEW p \in T, Picks(p, x)
  PROVE  Fits(C, x) /\ Admits(T, Constrain(C, x))
<1>1. \A i \in DOMAIN C : C[i] \in Candidates /\ \E o \in T : Picks(o, C[i])
  BY DEF Admits
<1>2. \A i \in DOMAIN C : C[i].name # x.name => NamesInCommon(C[i], x) = {}
  BY <1>1, PickedTogether
<1>3. \A i \in DOMAIN C : C[i].name = x.name =>
         Agree(C[i], x) /\ Picks(p, Tightened(C[i], x))
  BY <1>1, PickedTogether
<1>4. CASE Position(C, x) = {}
  <2>1. \A i \in DOMAIN C : C[i].name # x.name
    BY <1>4 DEF Position
  <2>2. Fits(C, x)
    BY <1>2, <1>4, <2>1 DEF Fits, Apart
  <2>3. PICK D : D = Append(C, x)
    OBVIOUS
  <2>4. Constrain(C, x) = D
    BY <1>4, <2>3 DEF Constrain
  <2>5. \A i \in DOMAIN D : (i \in DOMAIN C /\ D[i] = C[i]) \/ D[i] = x
    BY <2>3
  <2>6. Admits(T, D)
    BY <1>1, <2>5 DEF Admits
  <2>7. QED
    BY <2>2, <2>4, <2>6
<1>5. CASE Position(C, x) # {}
  <2>1. ASSUME NEW i \in Position(C, x), NEW j \in DOMAIN C, j # i PROVE C[j].name # x.name
    <3>1. i \in DOMAIN C /\ C[i].name = x.name
      BY DEF Position
    <3>2. Names(C[i]) \cap Names(C[j]) = {}
      BY <2>1, <3>1 DEF Compatible
    <3>3. QED
      BY <3>1, <3>2 DEF Names
  <2>2. ASSUME NEW i \in Position(C, x)
        PROVE  /\ Apart(C, 1 .. (i - 1), x) /\ Agree(C[i], x)
               /\ Apart(C, (i + 1) .. Len(C), Tightened(C[i], x))
    <3>1. i \in DOMAIN C /\ C[i].name = x.name /\ DOMAIN C = 1 .. Len(C) /\ Len(C) \in Nat
      BY DEF Position
    <3>2. Agree(C[i], x) /\ Picks(p, Tightened(C[i], x))
      BY <1>3, <3>1
    <3>3. Apart(C, 1 .. (i - 1), x)
      <4>1. ASSUME NEW j \in 1 .. (i - 1) PROVE NamesInCommon(C[j], x) = {}
        <5>1. j \in DOMAIN C /\ j # i
          BY <3>1
        <5>2. QED
          BY <1>2, <2>1, <5>1
      <4>2. QED
        BY <4>1 DEF Apart
    <3>4. PICK t : t = Tightened(C[i], x)
      OBVIOUS
    <3>5. t \in Candidates /\ t.name = x.name
      <4>1. PICK c : c = C[i]
        OBVIOUS
      <4>2. IsCandidate(c) /\ IsCandidate(x)
        BY <3>1, <4>1, CandidatesAre
      <4>3. IsCandidate(Tightened(c, x)) /\ Tightened(c, x).name = x.name
        BY <3>1, <3>2, <4>1, <4>2, TightenedRefines
      <4>4. QED
        BY <3>4, <4>1, <4>3, CandidatesAre
    <3>6. ASSUME NEW j \in (i + 1) .. Len(C) PROVE NamesInCommon(C[j], t) = {}
      <4>1. j \in DOMAIN C /\ j # i
        BY <3>1
      <4>2. C[j].name # t.name
        BY <2>1, <3>5, <4>1
      <4>3. PICK c, o : c = C[j] /\ c \in Candidates /\ o \in T /\ Picks(o, c)
        BY <1>1, <4>1
      <4>4. NamesInCommon(c, t) = {}
        BY <3>2, <3>4, <3>5, <4>2, <4>3, PickedTogether
      <4>5. QED
        BY <4>3, <4>4
    <3>7. QED
      BY <3>2, <3>3, <3>4, <3>6 DEF Apart
  <2>3. Fits(C, x)
    BY <1>5, <2>2 DEF Fits
  <2>4. PICK D : D = [i \in DOMAIN C |-> IF C[i].name = x.name THEN Tightened(C[i], x) ELSE C[i]]
    OBVIOUS
  <2>5. Constrain(C, x) = D
    BY <1>5, <2>4 DEF Constrain
  <2>6. Admits(T, D)
    BY <1>1, <1>3, <2>4 DEF Admits
  <2>7. QED
    BY <2>3, <2>5, <2>6
<1>6. QED
  BY <1>4, <1>5

(* A solution hits the lists that trying such a package adds.              *)
LEMMA AdmittedHits ==
  ASSUME WellFormed, world \in Worlds, NEW T, Would(T), NEW C \in Seq(Candidates),
         ToSet(world.employed) \subseteq ToSet(C), Compatible(C),
         NEW x \in Candidates, NEW p \in T, Picks(p, x),
         NEW D, NEW K, Addition(D, K, C, x), Admits(T, D),
         \A i \in DOMAIN plists : Hits(T, plists[i]), plists \in Seq(Seq(Candidates))
  PROVE  /\ \A i \in DOMAIN K : Hits(T, K[i])
         /\ ~ IsAnyListEmpty(K)
<1>1. p \in Candidates /\ IsCandidate(p) /\ IsCandidate(x)
  BY ConcreteFacts, CandidatesAre DEF Would
<1>2. DependencyPatterns(p) = DependencyPatterns(x)
  <2>1. Refines(p, x) /\ IsInstalled(p) = IsInstalled(x)
    BY DEF Picks, IsInstalled
  <2>2. QED
    BY <1>1, <2>1, RefinedDepends
<1>3. ASSUME NeedDeps(C, x), p \in ToSet(world.employed) PROVE FALSE
  <2>1. p \in world.installed
    BY <1>3, WorldsOK DEF ToSet
  <2>2. IsInstalled(p)
    BY <2>1, InstalledFacts
  <2>3. x = p
    BY <2>2 DEF Picks, Refines
  <2>4. PICK i \in DOMAIN C : C[i] = x
    BY <1>3, <2>3 DEF ToSet
  <2>5. i \in Position(C, x) /\ IsInstalled(C[i])
    BY <2>2, <2>3, <2>4 DEF Position
  <2>6. QED
    BY <1>3, <2>5 DEF NeedDeps
<1>4. PICK S : S = Seq(Candidates)
  OBVIOUS
<1>5. K \in Seq(S) /\ plists \in Seq(S) /\ Continues(K, plists) /\ D \in Seq(Candidates)
  BY <1>4 DEF Addition
<1>6. ASSUME NEW i \in DOMAIN K PROVE Hits(T, K[i])
  <2>1. CASE i \in DOMAIN plists
    <3>1. K[i] = plists[i]
      BY <1>5, <2>1 DEF Continues
    <3>2. QED
      BY <2>1, <3>1
  <2>2. CASE i \notin DOMAIN plists
    <3>1. PICK pat \in ToSet(DependencyPatterns(x)) :
             NeedDeps(C, x) /\ K[i] = Alternatives(D, pat)
      BY <1>6, <2>2 DEF Addition
    <3>2. p \in T \ ToSet(world.employed)
      BY <1>3, <3>1
    <3>3. pat \in ToSet(DependencyPatterns(p))
      BY <1>2, <3>1
    <3>4. Meets(T, pat)
      BY <3>2, <3>3 DEF Would, IsSolution
    <3>5. Hits(T, Alternatives(D, pat))
      BY <1>5, <3>4, MeetsHits
    <3>6. QED
      BY <3>1, <3>5
  <2>3. QED
    BY <2>1, <2>2
<1>7. ~ IsAnyListEmpty(K)
  <2>1. ASSUME NEW i \in DOMAIN K, K[i] = <<>> PROVE FALSE
    <3>1. DOMAIN <<>> = {}
      OBVIOUS
    <3>2. QED
      BY <1>6, <2>1, <3>1 DEF Hits
  <2>2. QED
    BY <2>1 DEF IsAnyListEmpty
<1>8. QED
  BY <1>6, <1>7

(* Of constraints that admit a solution, the user may pick it, or less.    *)
LEMMA AdmittedIsLeft ==
  ASSUME WellFormed, world \in Worlds, NEW T, Would(T), NEW C \in Seq(Candidates), Admits(T, C)
  PROVE  \E O \in Outcomes(ToSet(C)) : O \subseteq T
<1>1. PICK S : S = ToSet(C)
  OBVIOUS
<1>2. \A c \in S : c \in Candidates /\ \E p \in T : Picks(p, c)
  BY <1>1 DEF ToSet, Admits
<1>3. ASSUME NEW c \in S PROVE \E v \in c.versions : [c EXCEPT !.versions = {v}] \in T
  <2>1. PICK p \in T : Picks(p, c)
    BY <1>2
  <2>2. CASE IsInstalled(p)
    <3>1. p = c
      BY <2>1, <2>2 DEF Picks, Refines
    <3>2. c \in world.installed
      BY <1>2, <2>2, <3>1, CandidateCases, CandidatesAre, GhostFacts
    <3>3. PICK w : c.versions = {w}
      BY <3>2, InstalledFacts
    <3>4. PICK q : q = [c EXCEPT !.versions = {w}]
      OBVIOUS
    <3>5. q = c
      BY <1>2, <2>2, <3>1, <3>3, <3>4, PickedVersion
    <3>6. QED
      BY <3>1, <3>3, <3>4, <3>5
  <2>3. CASE ~ IsInstalled(p)
    <3>1. PICK g, v : g \in AllPackages /\ p = Ghost(g.name, {v})
      BY <2>3, ConcreteFacts DEF Would
    <3>2. p.name = g.name /\ p.versions = {v}
      BY <3>1 DEF Ghost
    <3>3. ~ IsInstalled(c) /\ p.name = c.name /\ p.versions \subseteq c.versions
      BY <2>1, <2>3 DEF Picks, Refines
    <3>4. PICK n, i : IsGhostOf(c, n, i)
      BY <1>2, <3>3, CandidateCases, CandidatesAre, InstalledFacts
    <3>5. c = Ghost(n, c.versions) /\ c.name = n
      BY <3>4, GhostFacts DEF IsGhostOf
    <3>6. PICK V : V = c.versions
      OBVIOUS
    <3>7. c = Ghost(n, V)
      BY <3>5, <3>6
    <3>8. [c EXCEPT !.versions = {v}] = Ghost(n, {v})
      <4>1. PICK d, q : d = Ghost(n, V) /\ q = [d EXCEPT !.versions = {v}]
        OBVIOUS
      <4>2. q = Ghost(n, {v})
        BY <4>1 DEF Ghost
      <4>3. QED
        BY <3>7, <4>1, <4>2
    <3>9. p = Ghost(n, {v}) /\ v \in c.versions
      BY <3>1, <3>2, <3>3, <3>5
    <3>10. QED
      BY <2>1, <3>8, <3>9
  <2>4. QED
    BY <2>2, <2>3
<1> DEFINE w(c) == CHOOSE v : v \in c.versions /\ [c EXCEPT !.versions = {v}] \in T
           f == [c \in S |-> w(c)]
           O == {[c EXCEPT !.versions = {f[c]}] : c \in S}
<1>a. \A c \in S : w(c) \in c.versions /\ [c EXCEPT !.versions = {w(c)}] \in T
  BY <1>3
<1> HIDE DEF w
<1>4. \A c \in S : f[c] \in c.versions /\ [c EXCEPT !.versions = {f[c]}] \in T
  BY <1>a
<1>5. f \in [S -> UNION {p.versions : p \in S}]
  BY <1>a
<1> HIDE DEF f
<1>6. f \in {g \in [S -> UNION {p.versions : p \in S}] : \A p \in S : g[p] \in p.versions}
  BY <1>4, <1>5
<1>7. O \in Outcomes(S)
  BY <1>6 DEF Outcomes
<1>8. O \subseteq T
  BY <1>4
<1>9. QED
  BY <1>1, <1>7, <1>8
(* Employed packages that a solution has exclude none of each other, and   *)
(* the solution hits the first lists.                                      *)
LEMMA FirstListsAreHit ==
  ASSUME WellFormed, world \in Worlds, NEW T, Would(T)
  PROVE  /\ \A i, j \in DOMAIN world.employed :
               i # j => ~ Excludes(world.employed[i], world.employed[j])
         /\ Admits(T, world.employed)
         /\ \A i \in DOMAIN FirstLists : Hits(T, FirstLists[i])
         /\ ~ IsAnyListEmpty(FirstLists)
<1>1. PICK C : C = world.employed
  OBVIOUS
<1>2. C \in Seq(Candidates)
  BY <1>1, FirstListsCover
<1>3. \A i \in DOMAIN C : C[i] \in Candidates /\ C[i] \in T /\ IsInstalled(C[i]) /\ Picks(C[i], C[i])
  <2> TAKE i \in DOMAIN C
  <2>1. C[i] \in T
    BY <1>1 DEF Would, IsSolution, ToSet
  <2>2. C[i] \in world.installed
    BY <1>1, WorldsOK
  <2>3. IsInstalled(C[i])
    BY <2>2, InstalledFacts
  <2>4. QED
    BY <1>2, <2>1, <2>3 DEF Picks, Refines
<1>4. \A i, j \in DOMAIN C : ~ Excludes(C[i], C[j])
  BY <1>3, PickedTogether
<1>5. Admits(T, C)
  BY <1>3 DEF Admits
<1>6. ASSUME NEW i \in DOMAIN FirstLists PROVE Hits(T, FirstLists[i])
  <2>1. PICK pat \in ToSet(Asked) : FirstLists[i] = Alternatives(C, pat)
    BY <1>1, FirstListsCover
  <2>2. Meets(T, pat)
    BY DEF Would, IsSolution, Asked
  <2>3. QED
    BY <1>2, <1>5, <2>1, <2>2, MeetsHits
<1>7. ~ IsAnyListEmpty(FirstLists)
  <2>1. ASSUME NEW i \in DOMAIN FirstLists, FirstLists[i] = <<>> PROVE FALSE
    <3>1. DOMAIN <<>> = {}
      OBVIOUS
    <3>2. QED
      BY <1>6, <2>1, <3>1 DEF Hits
  <2>2. QED
    BY <2>1 DEF IsAnyListEmpty
<1>8. QED
  BY <1>1, <1>4, <1>5, <1>6, <1>7

(* Level k of the stack F has not yet tried a package from which T picks:  *)
(* one still to come, or, on top of the stack, the next.                   *)
Live(T, F, L, k) ==
    /\ k \in DOMAIN F
    /\ Admits(T, F[k].constraints)
    /\ \A i \in DOMAIN L : i <= F[k].size => Hits(T, L[i])
    /\ k \in DOMAIN L =>
          \E i \in DOMAIN L[k] : /\ \E p \in T : Picks(p, L[k][i])
                                 /\ F[k].next <= i
                                 /\ k # Len(F) => F[k].next # i

(* A solution that was found leaves the user T, or less.                   *)
Leaves(s, T) == \E k \in DOMAIN s : \E O \in Outcomes(s[k]) : O \subseteq T

MissInv ==
    \A T : Would(T) =>
       \/ Leaves(solutions, T)
       \/ pc \in {"start", "aborted"}
       \/ Len(solutions) >= MaxSolutions
       \/ pc = "search" /\ \E k \in DOMAIN frames : Live(T, frames, plists, k)

(* A return leaves a level live that is not on top of the stack.           *)
LEMMA ReturnKeepsLive ==
  ASSUME NEW Z, NEW L \in Seq(Seq(Z)), NEW F \in Seq(Frame), Stacked(F, L), Len(F) # 1,
         NEW G, NEW K, Unstacked(G, K, F, L), NEW T, NEW k, k # Len(F), Live(T, F, L, k)
  PROVE  Live(T, G, K, k)
<1>1. PICK S : S = Seq(Z)
  OBVIOUS
<1>2. L \in Seq(S)
  BY <1>1
<1>3. /\ G \in Seq(Frame) /\ K \in Seq(S) /\ Continues(L, K)
      /\ Len(G) = Len(F) - 1 /\ Len(F) \in Nat /\ Len(F) > 1
      /\ \A j \in 1 .. Len(G) : /\ G[j].constraints = F[j].constraints /\ G[j].size = F[j].size
                                /\ j # Len(G) => G[j] = F[j]
                                /\ j = Len(G) => G[j].next = F[j].next + 1
  BY <1>2, ReturnUnstacks
<1>4. PICK m : m = Len(G)
  OBVIOUS
<1>5. m \in Nat /\ DOMAIN G = 1 .. m /\ DOMAIN F = 1 .. (m + 1) /\ Len(F) = m + 1
  BY <1>3, <1>4, LengthPositive
<1>6. k \in 1 .. m
  BY <1>5 DEF Live
<1>7. Len(K) \in Nat /\ DOMAIN K = 1 .. Len(K) /\ DOMAIN L = 1 .. Len(L) /\ Len(L) \in Nat
  BY <1>2, <1>3, LengthPositive
<1>8. \A i \in DOMAIN K : i \in DOMAIN L /\ L[i] = K[i]
  BY <1>3, <1>7 DEF Continues
<1>9. Admits(T, G[k].constraints)
  BY <1>3, <1>4, <1>6 DEF Live
<1>10. \A i \in DOMAIN K : i <= G[k].size => Hits(T, K[i])
  BY <1>3, <1>4, <1>6, <1>8 DEF Live
<1>11. ASSUME k \in DOMAIN K
       PROVE  \E i \in DOMAIN K[k] : /\ \E p \in T : Picks(p, K[k][i])
                                     /\ G[k].next <= i
                                     /\ k # Len(G) => G[k].next # i
  <2>1. k \in DOMAIN L /\ L[k] = K[k]
    BY <1>8, <1>11
  <2>2. PICK i \in DOMAIN L[k] : (\E p \in T : Picks(p, L[k][i])) /\ F[k].next <= i /\ F[k].next # i
    BY <2>1 DEF Live
  <2>3. L[k] \in S
    BY <1>2, <2>1
  <2>4. i \in Nat
    BY <1>1, <2>3
  <2>5. F[k] \in Frame
    BY <1>5, <1>6
  <2>6. F[k].next \in Nat
    BY <2>5 DEF Frame
  <2>7. F[k].next + 1 <= i
    BY <2>2, <2>4, <2>6
  <2>8. CASE k = m
    <3>1. G[k].next = F[k].next + 1
      BY <1>3, <1>4, <1>6, <2>8
    <3>2. QED
      BY <1>4, <2>1, <2>2, <2>7, <2>8, <3>1
  <2>9. CASE k # m
    <3>1. G[k] = F[k]
      BY <1>3, <1>4, <1>6, <2>9
    <3>2. QED
      BY <2>1, <2>2, <3>1
  <2>10. QED
    BY <2>8, <2>9
<1>12. QED
  BY <1>5, <1>6, <1>9, <1>10, <1>11 DEF Live

(* The same for the search as a whole.                                     *)
LEMMA ReturnFindsLive ==
  ASSUME StackInv, pc = "search", Return, NEW T, NEW k, k # Level, Live(T, frames, plists, k)
  PROVE  pc' = "search" /\ \E l \in DOMAIN frames' : Live(T, frames', plists', l)
<1>1. PICK S : S = Seq(Candidates)
  OBVIOUS
<1>2. plists \in Seq(S) /\ frames \in Seq(Frame) /\ Stacked(frames, plists)
  BY <1>1 DEF StackInv
<1>3. PICK L \in Seq(S), F \in Seq(Frame) : L = plists /\ F = frames
  BY <1>2
<1>4. Stacked(F, L) /\ Live(T, F, L, k) /\ k # Len(F) /\ Level = Len(F)
  BY <1>2, <1>3 DEF Level
<1>5. Len(F) # 1
  <2>1. Len(F) \in Nat /\ DOMAIN F = 1 .. Len(F)
    BY LengthPositive
  <2>2. k \in 1 .. Len(F)
    BY <1>4, <2>1 DEF Live
  <2>3. QED
    BY <1>4, <2>1, <2>2
<1>6. PICK G : G = Advance(Front(F))
  OBVIOUS
<1>7. PICK K : K = SubSeq(L, 1, F[Len(F) - 1].size)
  OBVIOUS
<1>8. Unstacked(G, K, F, L)
  BY <1>6, <1>7 DEF Unstacked
<1>9. L \in Seq(Seq(Candidates))
  BY <1>1
<1>10. Live(T, G, K, k)
  BY <1>4, <1>5, <1>8, <1>9, ReturnKeepsLive
<1>11. frames' = G /\ plists' = K /\ pc' = "search"
  BY <1>3, <1>4, <1>5, <1>6, <1>7 DEF Return
<1>12. k \in DOMAIN G
  BY <1>10 DEF Live
<1>13. QED
  BY <1>10, <1>11, <1>12
(* The inductive invariant behind a failed search: unless enough solutions *)
(* were found, a set that would do and that no solution found leaves is    *)
(* still ahead of some level.                                              *)
THEOREM MissInvariant == ASSUME WellFormed PROVE Spec => []MissInv
<1>1. Init => MissInv
  BY DEF Init, MissInv
<1>2. StackInv /\ SearchInv /\ SoundInv /\ MissInv /\ [Next]_vars => MissInv'
  <2> SUFFICES ASSUME StackInv, SearchInv, SoundInv, MissInv, [Next]_vars PROVE MissInv'
    OBVIOUS
  <2>1. world \in Worlds /\ world' = world
    BY DEF StackInv, Next, Begin, Found, AssertionFails, Reject, Accept, Exhaust, vars
  <2>2. \A T : Would(T)' <=> Would(T)
    <3>1. AllPackages' = AllPackages
      BY <2>1 DEF AllPackages
    <3>2. Concrete' = Concrete
      BY <2>1, <3>1 DEF Concrete
    <3>3. QED
      BY <2>1, <3>2, SameCandidates DEF Would
  <2> SUFFICES ASSUME NEW T, Would(T)
               PROVE  \/ Leaves(solutions', T)
                      \/ pc' \in {"start", "aborted"}
                      \/ Len(solutions') >= MaxSolutions
                      \/ pc' = "search" /\ \E k \in DOMAIN frames' : Live(T, frames', plists', k)
    BY <2>2 DEF MissInv
  <2>3. \/ Leaves(solutions, T)
        \/ pc \in {"start", "aborted"}
        \/ Len(solutions) >= MaxSolutions
        \/ pc = "search" /\ \E k \in DOMAIN frames : Live(T, frames, plists, k)
    BY DEF MissInv
  <2>4. PICK S : S = Seq(Candidates)
    OBVIOUS
  <2>5. plists \in Seq(S) /\ frames \in Seq(Frame) /\ solutions \in Seq(SUBSET Candidates)
    BY <2>4 DEF StackInv
  <2>6. CASE Begin
    <3>1. PICK C, L : C = world.employed /\ L = FirstLists
      OBVIOUS
    <3>2. /\ Admits(T, C) /\ C \in Seq(Candidates) /\ L \in Seq(S) /\ ~ IsAnyListEmpty(L)
          /\ \A i \in DOMAIN L : Hits(T, L[i])
          /\ ~ \E i, j \in DOMAIN C : i # j /\ Excludes(C[i], C[j])
      BY <2>1, <2>4, <3>1, FirstListsAreHit, FirstListsCover
    <3>3. plists' = L /\ pc' = "search" /\ frames' = <<Enter(C, L)>>
      BY <2>6, <3>1, <3>2 DEF Begin, FirstLists
    <3>4. PICK f : f = Enter(C, L)
      OBVIOUS
    <3>5. f.constraints = C /\ f.next = 1
      BY <3>2, <3>4, EnteredFrame
    <3>6. PICK F : F = <<f>>
      OBVIOUS
    <3>7. DOMAIN F = {1} /\ F[1] = f
      BY <3>6
    <3>8. 1 \in DOMAIN L =>
             \E i \in DOMAIN L[1] : (\E p \in T : Picks(p, L[1][i])) /\ f.next <= i /\ (1 # Len(F) => f.next # i)
      <4> HAVE 1 \in DOMAIN L
      <4>1. PICK i \in DOMAIN L[1] : \E p \in T : Picks(p, L[1][i])
        BY <3>2 DEF Hits
      <4>2. L[1] \in S
        BY <3>2
      <4>3. i \in Nat \ {0}
        BY <2>4, <4>2
      <4>4. Len(F) = 1
        BY <3>6
      <4>5. QED
        BY <3>5, <4>1, <4>3, <4>4
    <3>9. Live(T, F, L, 1)
      BY <3>2, <3>5, <3>7, <3>8 DEF Live
    <3>10. QED
      BY <3>3, <3>4, <3>6, <3>7, <3>9
  <2>7. CASE Found
    <3>1. /\ pc = "search" /\ Level > Len(plists)
          /\ solutions' = Append(solutions, ToSet(Top.constraints))
      BY <2>7 DEF Found, AtEnd
    <3>2. PICK s, A : s \in Seq(SUBSET Candidates) /\ s = solutions /\ A = ToSet(Top.constraints)
      BY <2>5
    <3>3. PICK r : r = Append(s, A)
      OBVIOUS
    <3>4. /\ \A k \in DOMAIN s : k \in DOMAIN r /\ r[k] = s[k]
          /\ Len(s) + 1 \in DOMAIN r /\ r[Len(s) + 1] = A /\ Len(s) \in Nat
      BY <3>3
    <3>5. solutions' = r
      BY <3>1, <3>2, <3>3
    <3>6. CASE Leaves(solutions, T)
      BY <3>2, <3>4, <3>5, <3>6 DEF Leaves
    <3>7. CASE Len(solutions') >= MaxSolutions
      BY <3>7
    <3>8. CASE ~ Leaves(solutions, T) /\ ~ Len(solutions') >= MaxSolutions
      <4>1. Return
        BY <2>7, <3>8 DEF Found
      <4>2. Len(solutions) < MaxSolutions /\ Len(solutions) \in Nat /\ MaxSolutions \in Nat
        BY <3>1, <3>2, <3>4, SolverConstantsOK DEF StackInv
      <4>3. PICK k \in DOMAIN frames : Live(T, frames, plists, k)
        BY <2>3, <3>1, <3>8, <4>2
      <4>4. CASE k # Level
        BY <3>1, <4>1, <4>3, <4>4, ReturnFindsLive
      <4>5. CASE k = Level
        <5>1. frames[k] \in Frame /\ Top = frames[k]
          BY <2>5, <4>3, <4>5 DEF Top, Last, Level
        <5>2. PICK C \in Seq(Candidates) : C = Top.constraints
          BY <5>1 DEF Frame
        <5>3. Admits(T, C)
          BY <4>3, <5>1, <5>2 DEF Live
        <5>4. \E O \in Outcomes(A) : O \subseteq T
          BY <2>1, <3>2, <5>2, <5>3, AdmittedIsLeft
        <5>5. Leaves(r, T)
          BY <3>4, <5>4 DEF Leaves
        <5>6. QED
          BY <3>5, <5>5
      <4>6. QED
        BY <4>4, <4>5
    <3>9. QED
      BY <3>6, <3>7, <3>8
  <2>8. CASE AssertionFails
    BY <2>8 DEF AssertionFails
  <2>9. ASSUME HasCandidate, solutions' = solutions, pc' = pc,
               \A k \in DOMAIN frames : Live(T, frames, plists, k) =>
                  \E l \in DOMAIN frames' : Live(T, frames', plists', l)
        PROVE  \/ Leaves(solutions', T)
               \/ Len(solutions') >= MaxSolutions
               \/ pc' = "search" /\ \E k \in DOMAIN frames' : Live(T, frames', plists', k)
    <3>1. pc = "search"
      BY <2>9 DEF HasCandidate
    <3>2. QED
      BY <2>3, <2>9, <3>1
  <2>10. ASSUME HasCandidate, NEW p \in T, Picks(p, Candidate), Live(T, frames, plists, Level)
         PROVE  /\ Fits(Top.constraints, Candidate) /\ ~ IsAnyListEmpty(Extended)
                /\ Admits(T, Constrain(Top.constraints, Candidate))
                /\ \A i \in DOMAIN Extended : Hits(T, Extended[i])
    <3>1. PICK C, x, D, K : /\ C = Top.constraints /\ x = Candidate
                            /\ D = Constrain(Top.constraints, Candidate) /\ K = Extended
      OBVIOUS
    <3>2. /\ Level \in DOMAIN frames /\ Top = frames[Level] /\ Top \in Frame
          /\ x \in Candidates /\ Compatible(C)
      BY <2>10, <3>1, CandidateIsChosen
    <3>3. C \in Seq(Candidates)
      BY <3>1, <3>2 DEF Frame
    <3>4. pc = "search" /\ Stacked(frames, plists)
      BY <2>10 DEF HasCandidate, StackInv
    <3>5. Top.size = Len(plists)
      BY <3>2, <3>4 DEF Stacked, Level
    <3>6. Admits(T, C) /\ \A i \in DOMAIN plists : Hits(T, plists[i])
      <4>1. \A i \in DOMAIN plists : i <= Len(plists)
        BY <2>5
      <4>2. QED
        BY <2>10, <3>1, <3>2, <3>5, <4>1 DEF Live
    <3>7. Fits(C, x) /\ Admits(T, D)
      BY <2>1, <2>10, <3>1, <3>2, <3>3, <3>6, AdmittedFits
    <3>8. Addition(D, K, C, x)
      BY <2>10, <3>1, <3>7, CandidateIsAdded
    <3>9. ToSet(world.employed) \subseteq ToSet(C)
      BY <3>1, <3>2, <3>4 DEF SoundInv, Provided
    <3>10. plists \in Seq(Seq(Candidates))
      BY <2>4, <2>5
    <3>11. (\A i \in DOMAIN K : Hits(T, K[i])) /\ ~ IsAnyListEmpty(K)
      BY <2>1, <2>10, <3>1, <3>2, <3>3, <3>6, <3>7, <3>8, <3>9, <3>10, AdmittedHits
    <3>12. QED
      BY <3>1, <3>7, <3>11
  <2>11. ASSUME HasCandidate
         PROVE  /\ Level \in DOMAIN frames /\ Top = frames[Level] /\ frames # <<>>
                /\ Level \in DOMAIN plists /\ Candidate = plists[Level][frames[Level].next]
                /\ frames[Level].next \in Nat /\ \A i \in DOMAIN plists[Level] : i \in Nat
    <3>1. /\ Level \in DOMAIN frames /\ Top = frames[Level] /\ Top \in Frame
          /\ Level \in DOMAIN plists
      BY <2>11, CandidateIsChosen
    <3>2. frames # <<>>
      BY <2>11 DEF HasCandidate, StackInv, Stacked
    <3>3. Top.next \in Nat
      BY <3>1 DEF Frame
    <3>4. plists[Level] \in S
      BY <2>5, <3>1
    <3>5. \A i \in DOMAIN plists[Level] : i \in Nat
      BY <2>4, <3>4
    <3>6. QED
      BY <3>1, <3>2, <3>3, <3>5 DEF Candidate
  <2>12. CASE Reject
    <3>1. /\ HasCandidate /\ frames' = Advance(frames) /\ UNCHANGED <<pc, plists, solutions>>
          /\ ~ (Fits(Top.constraints, Candidate) /\ ~ IsAnyListEmpty(Extended))
      BY <2>12 DEF Reject
    <3>2. PICK F \in Seq(Frame), L \in Seq(S) : F = frames /\ L = plists
      BY <2>5
    <3>3. PICK G : G = Advance(F)
      OBVIOUS
    <3>4. PICK n : n = Len(F)
      OBVIOUS
    <3>5. F # <<>> /\ n = Level
      BY <2>11, <3>1, <3>2, <3>4 DEF Level
    <3>6. /\ G \in Seq(Frame) /\ Len(G) = n
          /\ \A k \in 1 .. n : /\ G[k].constraints = F[k].constraints /\ G[k].size = F[k].size
                               /\ k # n => G[k] = F[k]
                               /\ k = n => G[k].next = F[k].next + 1
      <4>1. /\ G \in Seq(Frame) /\ Len(G) = Len(F)
            /\ \A k \in 1 .. Len(F) : /\ G[k].constraints = F[k].constraints /\ G[k].size = F[k].size
                                      /\ k # Len(F) => G[k] = F[k]
                                      /\ k = Len(F) => G[k].next = F[k].next + 1
        BY <3>3, <3>5, AdvancedFrames
      <4>2. QED
        BY <3>4, <4>1
    <3>7. n \in Nat /\ DOMAIN F = 1 .. n /\ DOMAIN G = 1 .. n
      BY <3>4, <3>6, LengthPositive
    <3>8. frames' = G /\ plists' = L
      BY <3>1, <3>2, <3>3
    <3>9. ASSUME NEW k \in DOMAIN F, Live(T, F, L, k) PROVE Live(T, G, L, k)
      <4>1. Admits(T, G[k].constraints) /\ \A i \in DOMAIN L : i <= G[k].size => Hits(T, L[i])
        BY <3>6, <3>7, <3>9 DEF Live
      <4>2. CASE k # n
        BY <3>4, <3>6, <3>7, <3>9, <4>1, <4>2 DEF Live
      <4>3. CASE k = n
        <5>1. PICK i \in DOMAIN L[k] : (\E p \in T : Picks(p, L[k][i])) /\ F[k].next <= i
          BY <2>11, <3>1, <3>2, <3>5, <3>9, <4>3 DEF Live
        <5>2. F[k].next # i
          <6>1. ASSUME F[k].next = i PROVE FALSE
            <7>1. Candidate = L[k][i]
              BY <2>11, <3>1, <3>2, <3>5, <4>3, <6>1
            <7>2. Live(T, frames, plists, Level)
              BY <3>2, <3>5, <3>9, <4>3
            <7>3. QED
              BY <2>10, <3>1, <5>1, <7>1, <7>2
          <6>2. QED
            BY <6>1
        <5>3. F[k].next \in Nat /\ i \in Nat
          BY <2>11, <3>1, <3>2, <3>5, <4>3
        <5>4. F[k].next + 1 <= i
          BY <5>1, <5>2, <5>3
        <5>5. G[k].next <= i
          BY <3>6, <3>7, <4>3, <5>4
        <5>6. QED
          BY <3>6, <3>7, <4>1, <4>3, <5>1, <5>5 DEF Live
      <4>4. QED
        BY <4>2, <4>3
    <3>10. QED
      BY <2>9, <3>1, <3>2, <3>7, <3>8, <3>9
  <2>13. CASE Accept
    <3>1. /\ HasCandidate /\ Fits(Top.constraints, Candidate) /\ UNCHANGED <<pc, solutions>>
          /\ plists' = Extended
          /\ frames' = Append(frames, Enter(Constrain(Top.constraints, Candidate), Extended))
      BY <2>13 DEF Accept
    <3>2. PICK C, x, D, K : /\ C = Top.constraints /\ x = Candidate
                            /\ D = Constrain(Top.constraints, Candidate) /\ K = Extended
      OBVIOUS
    <3>3. Addition(D, K, C, x)
      BY <3>1, <3>2, CandidateIsAdded
    <3>4. D \in Seq(Candidates) /\ K \in Seq(S) /\ Continues(K, plists)
      BY <2>4, <3>3 DEF Addition
    <3>5. PICK f : f = Enter(D, K)
      OBVIOUS
    <3>6. f \in Frame /\ f.size = Len(K) /\ f.constraints = D /\ f.next = 1
      BY <3>4, <3>5, EnteredFrame
    <3>7. PICK F \in Seq(Frame), L \in Seq(S) : F = frames /\ L = plists
      BY <2>5
    <3>8. PICK n : n = Len(F)
      OBVIOUS
    <3>9. n = Level /\ n \in DOMAIN F /\ n \in DOMAIN L
      BY <2>11, <3>1, <3>7, <3>8 DEF Level
    <3>10. /\ n \in Nat /\ DOMAIN F = 1 .. n /\ Len(L) \in Nat /\ DOMAIN L = 1 .. Len(L)
           /\ Len(K) \in Nat /\ DOMAIN K = 1 .. Len(K)
      BY <3>4, <3>7, <3>8, LengthPositive
    <3>11. \A i \in DOMAIN L : i \in DOMAIN K /\ K[i] = L[i]
      BY <3>4, <3>7, <3>10 DEF Continues
    <3>12. PICK G : G = Append(F, f)
      OBVIOUS
    <3>13. Len(G) = n + 1 /\ DOMAIN G = 1 .. (n + 1) /\ G[n + 1] = f /\ \A k \in 1 .. n : G[k] = F[k]
      <4>1. PICK R : R = Frame
        OBVIOUS
      <4>2. F \in Seq(R) /\ f \in R
        BY <3>6, <4>1
      <4>3. QED
        BY <3>8, <3>12, <4>2
    <3>14. frames' = G /\ plists' = K
      BY <3>1, <3>2, <3>5, <3>7, <3>12
    <3>15. Stacked(F, L)
      BY <3>1, <3>7 DEF HasCandidate, StackInv
    <3>16. ASSUME NEW k \in DOMAIN F, Live(T, F, L, k), NEW i \in DOMAIN L[k],
                  \E p \in T : Picks(p, L[k][i]), F[k].next <= i, F[k].next # i
           PROVE  Live(T, G, K, k)
      <4>1. G[k] = F[k] /\ k \in DOMAIN G
        BY <3>10, <3>13
      <4>2. k \in DOMAIN L
        BY <3>9, <3>10
      <4>3. K[k] = L[k]
        BY <3>11, <4>2
      <4>4. \A j \in DOMAIN K : j <= F[k].size => Hits(T, K[j])
        <5>1. F[k].size <= Len(L)
          <6>1. F[n].size = Len(L) /\ \A a, b \in DOMAIN F : a <= b => F[a].size <= F[b].size
            BY <3>8, <3>15 DEF Stacked
          <6>2. k <= n
            BY <3>10
          <6>3. QED
            BY <3>9, <6>1, <6>2
        <5>2. F[k] \in Frame
          BY <3>7
        <5>3. F[k].size \in Nat
          BY <5>2 DEF Frame
        <5>4. \A j \in DOMAIN K : j <= F[k].size => j \in DOMAIN L
          BY <3>10, <5>1, <5>3
        <5>5. QED
          BY <3>11, <3>16, <5>4 DEF Live
      <4>5. Admits(T, F[k].constraints)
        BY <3>16 DEF Live
      <4>6. QED
        BY <3>16, <4>1, <4>3, <4>4, <4>5 DEF Live
    <3>17. ASSUME Live(T, F, L, n), NEW p \in T, Picks(p, x) PROVE Live(T, G, K, n + 1)
      <4>1. Live(T, frames, plists, Level)
        BY <3>7, <3>9, <3>17
      <4>2. Admits(T, D) /\ \A i \in DOMAIN K : Hits(T, K[i])
        BY <2>10, <3>1, <3>2, <3>17, <4>1
      <4>3. n + 1 \in DOMAIN G
        BY <3>10, <3>13
      <4>4. n + 1 \in DOMAIN K =>
               \E i \in DOMAIN K[n + 1] : (\E o \in T : Picks(o, K[n + 1][i])) /\ 1 <= i
        <5> HAVE n + 1 \in DOMAIN K
        <5>1. PICK i \in DOMAIN K[n + 1] : \E o \in T : Picks(o, K[n + 1][i])
          BY <4>2 DEF Hits
        <5>2. K[n + 1] \in S
          BY <3>4
        <5>3. i \in Nat \ {0}
          BY <2>4, <5>2
        <5>4. QED
          BY <5>1, <5>3
      <4>5. QED
        BY <3>6, <3>13, <4>2, <4>3, <4>4 DEF Live
    <3>18. ASSUME NEW k \in DOMAIN F, Live(T, F, L, k)
           PROVE  \E l \in DOMAIN G : Live(T, G, K, l)
      <4>1. k \in DOMAIN L /\ k \in DOMAIN G /\ n + 1 \in DOMAIN G
        BY <3>9, <3>10, <3>13
      <4>2. PICK i \in DOMAIN L[k] : /\ \E p \in T : Picks(p, L[k][i])
                                     /\ F[k].next <= i /\ (k # n => F[k].next # i)
        BY <3>8, <3>18, <4>1 DEF Live
      <4>3. CASE F[k].next # i
        BY <3>16, <3>18, <4>1, <4>2, <4>3
      <4>4. CASE F[k].next = i
        <5>1. k = n
          BY <4>2, <4>4
        <5>2. x = L[n][i]
          BY <2>11, <3>1, <3>2, <3>7, <3>9, <4>4, <5>1
        <5>3. QED
          BY <3>17, <3>18, <4>1, <4>2, <5>1, <5>2
      <4>5. QED
        BY <4>3, <4>4
    <3>19. QED
      BY <2>9, <3>1, <3>7, <3>14, <3>18
  <2>14. CASE Exhaust
    <3>1. /\ pc = "search" /\ Level <= Len(plists) /\ Top.next > Len(plists[Level])
          /\ Return /\ solutions' = solutions
      BY <2>14 DEF Exhaust
    <3>2. CASE Leaves(solutions, T)
      BY <3>1, <3>2
    <3>3. CASE ~ Leaves(solutions, T)
      <4>1. Len(solutions) < MaxSolutions /\ Len(solutions) \in Nat /\ MaxSolutions \in Nat
        BY <2>5, <3>1, SolverConstantsOK, LengthPositive DEF StackInv
      <4>2. PICK k \in DOMAIN frames : Live(T, frames, plists, k)
        BY <2>3, <3>1, <3>3, <4>1
      <4>3. ASSUME k = Level PROVE FALSE
        <5>1. PICK F \in Seq(Frame), L \in Seq(S) : F = frames /\ L = plists
          BY <2>5
        <5>2. k = Len(F) /\ k \in DOMAIN F /\ k <= Len(L)
          BY <3>1, <4>2, <4>3, <5>1 DEF Level
        <5>3. k \in DOMAIN L
          BY <5>2
        <5>4. PICK i \in DOMAIN L[k] : F[k].next <= i
          BY <4>2, <5>1, <5>3 DEF Live
        <5>5. L[k] \in S /\ F[k] \in Frame
          BY <5>2, <5>3
        <5>6. i \in Nat /\ i <= Len(L[k]) /\ Len(L[k]) \in Nat
          BY <2>4, <5>5
        <5>7. F[k].next \in Nat
          BY <5>5 DEF Frame
        <5>8. F[k].next > Len(L[k])
          BY <3>1, <4>3, <5>1 DEF Top, Last, Level
        <5>9. QED
          BY <5>4, <5>6, <5>7, <5>8
      <4>4. QED
        BY <3>1, <4>2, <4>3, ReturnFindsLive
    <3>4. QED
      BY <3>2, <3>3
  <2>15. CASE UNCHANGED vars
    BY <2>3, <2>15 DEF vars
  <2>16. QED
    BY <2>6, <2>7, <2>8, <2>12, <2>13, <2>14, <2>15 DEF Next
<1>3. QED
  BY <1>1, <1>2, StackInvariant, SearchInvariant, SoundInvariant, PTL DEF Spec

(* A search that ends without having found enough has missed nothing       *)
(* (NoSolutionMissed).                                                     *)
THEOREM NothingIsMissed == ASSUME WellFormed PROVE Spec => []NoSolutionMissed
<1>1. StackInv /\ MissInv => NoSolutionMissed
  <2> SUFFICES ASSUME StackInv, MissInv, pc = "done", Len(solutions) < MaxSolutions,
                      NEW T \in SUBSET Concrete, IsSolution(T)
               PROVE  \E k \in DOMAIN solutions : \E O \in Outcomes(solutions[k]) : O \subseteq T
    BY DEF NoSolutionMissed
  <2>1. Len(solutions) \in Nat /\ MaxSolutions \in Nat
    <3>1. PICK s \in Seq(SUBSET Candidates) : s = solutions
      BY DEF StackInv
    <3>2. QED
      BY <3>1, SolverConstantsOK
  <2>2. Leaves(solutions, T)
    BY <2>1 DEF MissInv, Would
  <2>3. QED
    BY <2>2 DEF Leaves
<1>2. QED
  BY <1>1, StackInvariant, MissInvariant, PTL
=============================================================================
