----------------------------- MODULE TraceProofs -----------------------------
(***************************************************************************)
(* Theorems about the simulated histories, for any number of requests, any *)
(* arrival and service times, and any thresholds and holds: the audit of   *)
(* the controller's log raises no false alarm. The facts about recursion   *)
(* and sums over the natural numbers, on which this and ReplayProofs rest, *)
(* are here as well.                                                       *)
(***************************************************************************)
EXTENDS DepthTrace, FiniteSetTheorems, WellFoundedInduction, TLAPS

DecisionRecord == [time : Nat, q : Nat, bar : Nat, old : 0 .. 3, new : 0 .. 3]

TraceTypes ==
    /\ arrival \in ArrivalTimes
    /\ now \in Nat /\ next \in Nat \ {0} /\ waiting \in Seq(Nat) /\ ends \in Seq(Nat)
    /\ stage \in {"top", "freed", "arrived", "done"}
    /\ level \in 0 .. 3 /\ qInst \in Nat /\ qBar \in Nat
    /\ tightening \in [1 .. 3 -> Int] /\ relaxing \in Int
    /\ decisions \in Seq(DecisionRecord)

\* The next event is not in the past, and there is one while requests wait.
EventsAhead ==
    /\ \A r \in next .. N : arrival[r] >= now
    /\ stage = "top" /\ waiting # <<>> => InFlight # {}

\* The last transition of the log, if there is one.
IsLast(i) == i \in Transitions /\ \A j \in Transitions : j <= i

\* What the hold clocks of the direction opposite to the last transition have
\* measured, they have measured since then.
ClocksFollowLog ==
    \A i \in 1 .. Len(decisions) :
        /\ decisions[i].time <= now
        /\ IsLast(i) /\ decisions[i].new > decisions[i].old =>
              relaxing = None \/ relaxing >= decisions[i].time
        /\ IsLast(i) /\ decisions[i].new < decisions[i].old =>
              \A k \in 1 .. 3 : tightening[k] = None \/ tightening[k] >= decisions[i].time

TraceInv == TraceTypes /\ EventsAhead /\ ClocksFollowLog /\ EarlyReversals = {}

-----------------------------------------------------------------------------
(* Natural numbers, recursion and sums.                                    *)

\* A set of natural numbers that is not empty has a least element.
LEMMA LeastOfNaturals ==
    ASSUME NEW S \in SUBSET Nat, S # {}
    PROVE  Min(S) \in S /\ \A n \in S : Min(S) <= n
<1> DEFINE R == {x \in Nat \X Nat : x[1] < x[2]}
<1>1. IsWellFoundedOn(R, Nat)
  BY NatLessThanWellFounded DEF OpToRel
<1>2. PICK m \in S : \A n \in S : ~(<<n, m>> \in R)
  BY <1>1, WFMin
<1>3. ASSUME NEW n \in S PROVE m <= n
  <2>1. m \in Nat /\ n \in Nat /\ <<n, m>> \in Nat \X Nat
    OBVIOUS
  <2>2. ~(<<n, m>> \in R)
    BY <1>2
  <2>3. ~(n < m)
    BY <2>1, <2>2
  <2> QED
    BY <2>1, <2>3
<1> QED
  BY <1>3 DEF Min

\* Induction, for a property that is given as the set of the numbers that have it.
LEMMA NaturalsInductive ==
    ASSUME NEW S, 0 \in S, \A n \in Nat : n \in S => n + 1 \in S
    PROVE  Nat \subseteq S
<1> DEFINE T == Nat \ S
<1>1. SUFFICES ASSUME T # {} PROVE FALSE
  OBVIOUS
<1>2. PICK m \in T : \A n \in T : m <= n
  BY <1>1, LeastOfNaturals
<1>3. m # 0 /\ m - 1 \in Nat
  BY <1>2
<1>4. m - 1 \in S
  BY <1>2, <1>3
<1> QED
  BY <1>2, <1>3, <1>4

\* Definition by recursion, for a step that is given as a function.
StepsOf(h, V) == h \in [Nat -> [V -> V]]
Iterates(f, V, v0, h) ==
    f \in [Nat -> V] /\ f[0] = v0 /\ \A n \in Nat : f[n + 1] = h[n][f[n]]

LEMMA Recursion ==
    ASSUME NEW V, NEW v0 \in V, NEW h, StepsOf(h, V)
    PROVE  \E f : Iterates(f, V, v0, h)
<1> DEFINE Part(n) == {g \in [0 .. n -> V] : /\ g[0] = v0
                                            /\ \A i \in 0 .. n - 1 : g[i + 1] = h[i][g[i]]}
           S == {n \in Nat : Part(n) # {}}
<1>0. h \in [Nat -> [V -> V]]
  BY DEF StepsOf
<1>1. 0 \in S
  <2>1. [i \in 0 .. 0 |-> v0] \in Part(0)
    OBVIOUS
  <2> QED
    BY <2>1
<1>2. ASSUME NEW n \in Nat, n \in S PROVE n + 1 \in S
  <2>1. PICK g \in [0 .. n -> V] : g[0] = v0 /\ \A i \in 0 .. n - 1 : g[i + 1] = h[i][g[i]]
    BY <1>2
  <2> DEFINE e == [i \in 0 .. n + 1 |-> IF i = n + 1 THEN h[n][g[n]] ELSE g[i]]
  <2>2. h[n][g[n]] \in V
    BY <1>0, <2>1
  <2>3. e \in [0 .. n + 1 -> V]
    BY <2>1, <2>2
  <2>4. ASSUME NEW i \in 0 .. (n + 1) - 1 PROVE e[i + 1] = h[i][e[i]]
    <3>1. CASE i = n
      BY <3>1
    <3>2. CASE i \in 0 .. n - 1
      BY <2>1, <3>2
    <3> QED
      BY <3>1, <3>2
  <2>5. e[0] = v0
    BY <2>1
  <2>6. e \in Part(n + 1)
    BY <2>3, <2>4, <2>5
  <2> HIDE DEF Part, e
  <2>7. n + 1 \in Nat
    OBVIOUS
  <2> QED
    BY <2>6, <2>7
<1>3. \A n \in Nat : Part(n) # {}
  <2>1. \A n \in Nat : n \in S => n + 1 \in S
    BY <1>2
  <2>2. Nat \subseteq S
    <3> HIDE DEF S
    <3> QED
      BY <1>1, <2>1, NaturalsInductive
  <2> HIDE DEF Part
  <2> QED
    BY <2>2
\* Two parts agree as far as both go.
<1>4. ASSUME NEW m \in Nat, NEW n \in Nat, m <= n, NEW g \in Part(m), NEW e \in Part(n)
      PROVE  \A i \in 0 .. m : g[i] = e[i]
  <2> DEFINE A == {i \in Nat : i <= m => g[i] = e[i]}
  <2>1. 0 \in A
    OBVIOUS
  <2>2. ASSUME NEW i \in Nat, i \in A PROVE i + 1 \in A
    <3>1. CASE i + 1 <= m
      <4>1. g[i] = e[i] /\ i \in 0 .. m - 1 /\ i \in 0 .. n - 1
        BY <1>4, <2>2, <3>1
      <4>2. g[i + 1] = h[i][g[i]] /\ e[i + 1] = h[i][e[i]]
        BY <4>1
      <4> QED
        BY <4>1, <4>2
    <3>2. CASE ~(i + 1 <= m)
      BY <3>2
    <3> QED
      BY <3>1, <3>2
  <2>3. Nat \subseteq A
    <3> HIDE DEF A
    <3> QED
      BY <2>1, <2>2, NaturalsInductive
  <2> QED
    BY <2>3
<1> DEFINE p(n) == CHOOSE g \in Part(n) : TRUE
           f == [n \in Nat |-> p(n)[n]]
<1>5. \A n \in Nat : p(n) \in Part(n)
  BY <1>3
<1>6. f \in [Nat -> V]
  <2>1. ASSUME NEW n \in Nat PROVE p(n)[n] \in V
    <3>1. p(n) \in Part(n)
      BY <1>5
    <3> HIDE DEF p
    <3> QED
      BY <3>1
  <2> QED
    BY <2>1
<1>7. f[0] = v0
  BY <1>5
<1>8. ASSUME NEW n \in Nat PROVE f[n + 1] = h[n][f[n]]
  <2>0. n + 1 \in Nat
    OBVIOUS
  <2>1. p(n) \in Part(n) /\ p(n + 1) \in Part(n + 1)
    <3> HIDE DEF Part, p
    <3> QED
      BY <1>5, <2>0
  <2>2. p(n)[n] = p(n + 1)[n]
    <3> HIDE DEF Part, p
    <3>1. n <= n + 1 /\ n + 1 \in Nat /\ n \in 0 .. n
      OBVIOUS
    <3> QED
      BY <1>4, <2>1, <3>1
  <2>3. p(n + 1)[n + 1] = h[n][p(n + 1)[n]]
    <3> HIDE DEF p
    <3>1. n \in 0 .. (n + 1) - 1
      OBVIOUS
    <3> QED
      BY <2>1, <3>1
  <2> HIDE DEF p
  <2> QED
    BY <2>0, <2>2, <2>3
<1>9. Iterates(f, V, v0, h)
  BY <1>6, <1>7, <1>8 DEF Iterates
<1> QED
  BY <1>9


Chosen(s) == CHOOSE x \in s : TRUE

\* The sums of f over the subsets of U, as the library's fold defines them.
Partial(f, U) ==
    CHOOSE g : g = [s \in SUBSET U |->
        IF s = {} THEN 0 ELSE f[Chosen(s)] + g[s \ {Chosen(s)}]]

\* p maps the subsets of U to the sums of f over them.
SumsUp(p, f, U) ==
    \A s \in SUBSET U : /\ s = {} => p[s] = 0
                        /\ s # {} => p[s] = f[Chosen(s)] + p[s \ {Chosen(s)}]

\* f has something to be summed over S.
Summable(f, S) == IsFiniteSet(S) /\ \A x \in S : f[x] \in Int

LEMMA SumUnfolds ==
    ASSUME NEW f, NEW S
    PROVE  Sum(f, S) = Partial(f, S)[S]
BY DEF Sum, MapThenSumSet, MapThenFoldSet, Partial, Chosen

\* An element is taken out of a finite set.
LEMMA OneLess ==
    ASSUME NEW S, IsFiniteSet(S), NEW x \in S
    PROVE  /\ IsFiniteSet(S \ {x}) /\ Cardinality(S \ {x}) \in Nat
           /\ Cardinality(S) = Cardinality(S \ {x}) + 1 /\ Cardinality(S) \in Nat
<1>1. IsFiniteSet(S \ {x}) /\ Cardinality(S \ {x}) = Cardinality(S) - 1
  BY FS_RemoveElement
<1>2. Cardinality(S) \in Nat /\ Cardinality(S \ {x}) \in Nat
  BY <1>1, FS_CardinalityType
<1> QED
  BY <1>1, <1>2

LEMMA PartialExists ==
    ASSUME NEW f, NEW U, IsFiniteSet(U), \A x \in U : f[x] \in Int
    PROVE  SumsUp(Partial(f, U), f, U)
<1> DEFINE V == [SUBSET U -> Int]
           step(g) == [s \in SUBSET U |-> IF s = {} THEN 0 ELSE f[Chosen(s)] + g[s \ {Chosen(s)}]]
           zero == [s \in SUBSET U |-> 0]
           h == [n \in Nat |-> [g \in V |-> step(g)]]
<1>0. \A s \in SUBSET U : s # {} => Chosen(s) \in s
  BY DEF Chosen
<1>1. \A g \in V : step(g) \in V
  BY <1>0
<1>2. zero \in V /\ h \in [Nat -> [V -> V]]
  <2> HIDE DEF step, V
  <2>1. h \in [Nat -> [V -> V]]
    BY <1>1
  <2>2. zero \in V
    BY DEF V
  <2> QED
    BY <2>1, <2>2
<1> HIDE DEF step
<1>3. PICK F \in [Nat -> V] : F[0] = zero /\ \A n \in Nat : F[n + 1] = h[n][F[n]]
  <2> HIDE DEF h, V, zero
  <2>1. \E F : Iterates(F, V, zero, h)
    BY <1>2, Recursion DEF StepsOf
  <2> QED
    BY <2>1 DEF Iterates
<1>4. \A n \in Nat : F[n] \in V /\ F[n + 1] = step(F[n])
  BY <1>3
<1> HIDE DEF V
<1> DEFINE A == {n \in Nat : \A s \in SUBSET U :
                               Cardinality(s) <= n => F[n + 1][s] = F[n][s]}
<1>5. 0 \in A
  <2>1. ASSUME NEW s \in SUBSET U, Cardinality(s) <= 0 PROVE F[0 + 1][s] = F[0][s]
    <3>1. IsFiniteSet(s) /\ Cardinality(s) \in Nat
      BY FS_Subset, FS_CardinalityType
    <3>2. s = {}
      BY <2>1, <3>1, FS_EmptySet
    <3>3. F[0][s] = 0
      BY <1>3
    <3>4. F[0 + 1] = step(F[0])
      BY <1>4
    <3> QED
      BY <3>2, <3>3, <3>4 DEF step
  <2> QED
    BY <2>1
<1>6. ASSUME NEW n \in Nat, n \in A PROVE n + 1 \in A
  <2>1. ASSUME NEW s \in SUBSET U, Cardinality(s) <= n + 1
        PROVE  F[n + 1 + 1][s] = F[n + 1][s]
    <3>1. F[n + 1 + 1] = step(F[n + 1]) /\ F[n + 1] = step(F[n])
      BY <1>4
    <3>2. CASE s = {}
      BY <3>1, <3>2 DEF step
    <3>3. CASE s # {}
      <4>1. Chosen(s) \in s /\ IsFiniteSet(s)
        BY <1>0, <3>3, FS_Subset
      <4>2. Cardinality(s \ {Chosen(s)}) <= n /\ s \ {Chosen(s)} \in SUBSET U
        BY <2>1, <4>1, OneLess
      <4>3. F[n + 1][s \ {Chosen(s)}] = F[n][s \ {Chosen(s)}]
        BY <1>6, <4>2
      <4> QED
        BY <3>1, <3>3, <4>3 DEF step
    <3> QED
      BY <3>2, <3>3
  <2> HIDE DEF step
  <2>2. n + 1 \in Nat
    OBVIOUS
  <2> QED
    BY <2>1, <2>2
<1>7. Nat \subseteq A
  <2>1. \A n \in Nat : n \in A => n + 1 \in A
    BY <1>6
  <2> HIDE DEF A
  <2> QED
    BY <1>5, <2>1, NaturalsInductive
<1> DEFINE m == Cardinality(U)
<1>8. m \in Nat /\ \A s \in SUBSET U : Cardinality(s) <= m
  BY FS_Subset, FS_CardinalityType
<1>9. F[m] = step(F[m])
  <2> HIDE DEF m
  <2>1. \A s \in SUBSET U : F[m + 1][s] = F[m][s]
    BY <1>7, <1>8
  <2>2. F[m] \in V /\ F[m + 1] \in V
    BY <1>4, <1>8
  <2>3. F[m + 1] = F[m]
    BY <2>1, <2>2 DEF V
  <2> QED
    BY <1>4, <1>8, <2>3
<1>10. F[m] = [s \in SUBSET U |-> IF s = {} THEN 0
                                 ELSE f[Chosen(s)] + F[m][s \ {Chosen(s)}]]
  BY <1>9 DEF step
<1> HIDE DEF m
<1>11. \E g : g = [s \in SUBSET U |-> IF s = {} THEN 0
                                     ELSE f[Chosen(s)] + g[s \ {Chosen(s)}]]
  BY <1>10
<1> DEFINE p == Partial(f, U)
<1>12. p = [s \in SUBSET U |-> IF s = {} THEN 0 ELSE f[Chosen(s)] + p[s \ {Chosen(s)}]]
  BY ONLY <1>11, Zenon DEF Partial
<1> HIDE DEF p
<1>13. SumsUp(p, f, U)
  BY <1>12 DEF SumsUp
<1> QED
  BY <1>13 DEF p

LEMMA SumsUpInt ==
    ASSUME NEW f, NEW U, IsFiniteSet(U), \A x \in U : f[x] \in Int,
           NEW p, SumsUp(p, f, U)
    PROVE  p[U] \in Int
<1> DEFINE B == {n \in Nat : \A s \in SUBSET U : Cardinality(s) <= n => p[s] \in Int}
<1>0. /\ \A s \in SUBSET U : s # {} => Chosen(s) \in s
      /\ \A s \in SUBSET U : IsFiniteSet(s) /\ Cardinality(s) \in Nat
  BY FS_Subset, FS_CardinalityType DEF Chosen
<1>1. \A s \in SUBSET U : /\ s = {} => p[s] = 0
                          /\ s # {} => p[s] = f[Chosen(s)] + p[s \ {Chosen(s)}]
  BY DEF SumsUp
<1>3. 0 \in B
  <2>1. ASSUME NEW s \in SUBSET U, Cardinality(s) <= 0 PROVE p[s] \in Int
    <3>1. s = {}
      BY <1>0, <2>1, FS_EmptySet
    <3>2. p[s] = 0
      BY <1>1, <3>1
    <3> QED
      BY <3>2
  <2> QED
    BY <2>1
<1>4. ASSUME NEW n \in Nat, n \in B PROVE n + 1 \in B
  <2>1. ASSUME NEW s \in SUBSET U, Cardinality(s) <= n + 1 PROVE p[s] \in Int
    <3>1. CASE s = {}
      <4>1. p[s] = 0
        BY <1>1, <3>1
      <4> QED
        BY <4>1
    <3>2. CASE s # {}
      <4>1. Chosen(s) \in s /\ IsFiniteSet(s)
        BY <1>0, <3>2
      <4>2. /\ Cardinality(s) = Cardinality(s \ {Chosen(s)}) + 1
            /\ Cardinality(s \ {Chosen(s)}) \in Nat
        BY <4>1, OneLess
      <4>3. p[s \ {Chosen(s)}] \in Int /\ f[Chosen(s)] \in Int
        BY <1>4, <2>1, <4>1, <4>2
      <4> QED
        BY <1>1, <3>2, <4>3
    <3> QED
      BY <3>1, <3>2
  <2>2. n + 1 \in Nat
    OBVIOUS
  <2> QED
    BY <2>1, <2>2
<1>5. Nat \subseteq B
  <2>1. \A n \in Nat : n \in B => n + 1 \in B
    BY <1>4
  <2> HIDE DEF B
  <2> QED
    BY <1>3, <2>1, NaturalsInductive
<1>6. U \in SUBSET U /\ Cardinality(U) \in B
  BY <1>0, <1>5
<1> QED
  BY <1>0, <1>6

\* Sums of the same elements agree, whatever else there is to be summed.
LEMMA SumsUpAgree ==
    ASSUME NEW f, NEW U, NEW p, SumsUp(p, f, U),
           NEW g, NEW W, NEW q, SumsUp(q, g, W),
           NEW S, IsFiniteSet(S), S \subseteq U, S \subseteq W, \A x \in S : f[x] = g[x]
    PROVE  p[S] = q[S]
<1> DEFINE A == {n \in Nat : \A s \in SUBSET S : Cardinality(s) <= n => p[s] = q[s]}
<1>0. /\ \A s \in SUBSET S : s # {} => Chosen(s) \in s
      /\ \A s \in SUBSET S : IsFiniteSet(s) /\ Cardinality(s) \in Nat
  BY FS_Subset, FS_CardinalityType DEF Chosen
<1>1. \A s \in SUBSET S : /\ s = {} => p[s] = 0
                          /\ s # {} => p[s] = f[Chosen(s)] + p[s \ {Chosen(s)}]
  BY DEF SumsUp
<1>2. \A s \in SUBSET S : /\ s = {} => q[s] = 0
                          /\ s # {} => q[s] = g[Chosen(s)] + q[s \ {Chosen(s)}]
  BY DEF SumsUp
<1>3. 0 \in A
  <2>1. ASSUME NEW s \in SUBSET S, Cardinality(s) <= 0 PROVE p[s] = q[s]
    <3>1. s = {}
      BY <1>0, <2>1, FS_EmptySet
    <3> QED
      BY <1>1, <1>2, <3>1
  <2> QED
    BY <2>1
<1>4. ASSUME NEW n \in Nat, n \in A PROVE n + 1 \in A
  <2>1. ASSUME NEW s \in SUBSET S, Cardinality(s) <= n + 1 PROVE p[s] = q[s]
    <3>1. CASE s = {}
      BY <1>1, <1>2, <3>1
    <3>2. CASE s # {}
      <4>1. Chosen(s) \in s /\ IsFiniteSet(s)
        BY <1>0, <3>2
      <4>2. /\ Cardinality(s) = Cardinality(s \ {Chosen(s)}) + 1
            /\ Cardinality(s \ {Chosen(s)}) \in Nat
        BY <4>1, OneLess
      <4>3. p[s \ {Chosen(s)}] = q[s \ {Chosen(s)}]
        BY <1>4, <2>1, <4>1, <4>2
      <4>4. f[Chosen(s)] = g[Chosen(s)]
        BY <4>1
      <4>5. p[s] = f[Chosen(s)] + p[s \ {Chosen(s)}]
        BY <1>1, <3>2
      <4>6. q[s] = g[Chosen(s)] + q[s \ {Chosen(s)}]
        BY <1>2, <3>2
      <4> QED
        BY <4>3, <4>4, <4>5, <4>6
    <3> QED
      BY <3>1, <3>2
  <2>2. n + 1 \in Nat
    OBVIOUS
  <2> QED
    BY <2>1, <2>2
<1>5. Nat \subseteq A
  <2>1. \A n \in Nat : n \in A => n + 1 \in A
    BY <1>4
  <2> HIDE DEF A
  <2> QED
    BY <1>3, <2>1, NaturalsInductive
<1>6. S \in SUBSET S /\ Cardinality(S) \in A
  BY <1>0, <1>5
<1> QED
  BY <1>0, <1>6

\* What the library's fold sums up, one chosen element at a time.
LEMMA SumSteps ==
    ASSUME NEW f, NEW S, Summable(f, S)
    PROVE  /\ Sum(f, S) \in Int
           /\ S = {} => Sum(f, S) = 0
           /\ S # {} => Chosen(S) \in S /\ Sum(f, S) = f[Chosen(S)] + Sum(f, S \ {Chosen(S)})
<1> DEFINE p == Partial(f, S)
           x == Chosen(S)
           T == S \ {x}
           q == Partial(f, T)
<1>0. IsFiniteSet(S) /\ \A y \in S : f[y] \in Int
  BY DEF Summable
<1>1. SumsUp(p, f, S)
  BY <1>0, PartialExists
<1>2. Sum(f, S) = p[S] /\ Sum(f, T) = q[T]
  BY SumUnfolds
<1>3. IsFiniteSet(T) /\ \A y \in T : f[y] \in Int
  BY <1>0, FS_Subset
<1>4. SumsUp(q, f, T)
  BY <1>3, PartialExists
<1>5. S # {} => x \in S
  BY DEF Chosen
<1> HIDE DEF p, q
<1>6. p[S] \in Int
  BY <1>0, <1>1, SumsUpInt
<1>7. /\ S = {} => p[S] = 0
      /\ S # {} => p[S] = f[x] + p[T]
  BY <1>1 DEF SumsUp
<1>8. p[T] = q[T]
  <2> HIDE DEF T
  <2>1. T \subseteq S /\ T \subseteq T
    BY DEF T
  <2> QED
    BY <1>1, <1>3, <1>4, <2>1, SumsUpAgree
<1> HIDE DEF x, T
<1> QED
  BY <1>2, <1>5, <1>6, <1>7, <1>8 DEF x, T

\* Sums of functions that agree.
LEMMA SumAgrees ==
    ASSUME NEW f, NEW g, NEW S, Summable(f, S), \A x \in S : f[x] = g[x]
    PROVE  Summable(g, S) /\ Sum(f, S) = Sum(g, S)
<1>0. IsFiniteSet(S) /\ \A x \in S : f[x] \in Int
  BY DEF Summable
<1>1. Summable(g, S) /\ \A x \in S : g[x] \in Int
  BY <1>0 DEF Summable
<1> DEFINE p == Partial(f, S)
           q == Partial(g, S)
<1>2. SumsUp(p, f, S) /\ SumsUp(q, g, S)
  BY <1>0, <1>1, PartialExists
<1>3. Sum(f, S) = p[S] /\ Sum(g, S) = q[S]
  BY SumUnfolds
<1> HIDE DEF p, q
<1>4. p[S] = q[S]
  BY <1>0, <1>2, SumsUpAgree
<1> QED
  BY <1>1, <1>3, <1>4

\* Any element can be taken out of the sum.
LEMMA SumTake ==
    ASSUME NEW f, NEW U, Summable(f, U), NEW x \in U
    PROVE  /\ Summable(f, U \ {x})
           /\ Sum(f, U) = f[x] + Sum(f, U \ {x})
           /\ Sum(f, U) \in Int /\ Sum(f, U \ {x}) \in Int
<1> DEFINE A == {n \in Nat : \A s \in SUBSET U : \A y \in s :
                               Cardinality(s) <= n => Sum(f, s) = f[y] + Sum(f, s \ {y})}
<1>00. IsFiniteSet(U) /\ \A y \in U : f[y] \in Int
  BY DEF Summable
<1>0. \A s \in SUBSET U : /\ IsFiniteSet(s) /\ Cardinality(s) \in Nat
                          /\ Summable(f, s) /\ Sum(f, s) \in Int
  <2>1. ASSUME NEW s \in SUBSET U PROVE IsFiniteSet(s) /\ Cardinality(s) \in Nat
    BY <1>00, FS_Subset, FS_CardinalityType
  <2>2. \A s \in SUBSET U : Summable(f, s)
    BY <1>00, <2>1 DEF Summable
  <2> QED
    BY <2>1, <2>2, SumSteps
<1>1. 0 \in A
  <2>1. ASSUME NEW s \in SUBSET U, NEW y \in s, Cardinality(s) <= 0 PROVE FALSE
    BY <1>0, <2>1, FS_EmptySet
  <2> QED
    BY <2>1
<1>2. ASSUME NEW n \in Nat, n \in A PROVE n + 1 \in A
  <2>1. ASSUME NEW s \in SUBSET U, NEW y \in s, Cardinality(s) <= n + 1
        PROVE  Sum(f, s) = f[y] + Sum(f, s \ {y})
    <3>1. IsFiniteSet(s) /\ s # {} /\ Summable(f, s) /\ \A z \in s : f[z] \in Int
      BY <1>0, <1>00
    <3> DEFINE z == Chosen(s)
    <3>2. z \in s /\ Sum(f, s) = f[z] + Sum(f, s \ {z})
      BY <3>1, SumSteps
    <3> HIDE DEF z
    <3>3. CASE z = y
      BY <3>2, <3>3
    <3>4. CASE z # y
      <4>0. /\ Cardinality(s) = Cardinality(s \ {z}) + 1 /\ Cardinality(s \ {z}) \in Nat
            /\ Cardinality(s) = Cardinality(s \ {y}) + 1 /\ Cardinality(s \ {y}) \in Nat
        BY <3>1, <3>2, OneLess
      <4>1. /\ s \ {z} \in SUBSET U /\ Cardinality(s \ {z}) <= n /\ y \in s \ {z}
            /\ s \ {y} \in SUBSET U /\ Cardinality(s \ {y}) <= n /\ z \in s \ {y}
        BY <2>1, <3>2, <3>4, <4>0
      <4>2. Sum(f, s \ {z}) = f[y] + Sum(f, (s \ {z}) \ {y})
        BY <1>2, <4>1
      <4>3. Sum(f, s \ {y}) = f[z] + Sum(f, (s \ {y}) \ {z})
        BY <1>2, <4>1
      <4>4. (s \ {y}) \ {z} = (s \ {z}) \ {y} /\ (s \ {z}) \ {y} \in SUBSET U
        OBVIOUS
      <4> DEFINE r == Sum(f, (s \ {z}) \ {y})
      <4>5. r \in Int /\ f[y] \in Int /\ f[z] \in Int
        <5>1. r \in Int
          BY <1>0, <4>4
        <5> QED
          BY <3>1, <3>2, <5>1
      <4>6. Sum(f, s \ {y}) = f[z] + r /\ Sum(f, s) = f[z] + (f[y] + r)
        BY <3>2, <4>2, <4>3, <4>4
      <4> HIDE DEF r
      <4>7. f[z] + (f[y] + r) = f[y] + (f[z] + r)
        BY <4>5
      <4> QED
        BY <4>6, <4>7
    <3> QED
      BY <3>3, <3>4
  <2>2. n + 1 \in Nat
    OBVIOUS
  <2> QED
    BY <2>1, <2>2
<1>3. Nat \subseteq A
  <2>1. \A n \in Nat : n \in A => n + 1 \in A
    BY <1>2
  <2> HIDE DEF A
  <2> QED
    BY <1>1, <2>1, NaturalsInductive
<1>4. U \in SUBSET U /\ U \ {x} \in SUBSET U
  OBVIOUS
<1>5. Cardinality(U) \in A
  BY <1>0, <1>3, <1>4
<1> QED
  BY <1>0, <1>4, <1>5

\* One more element.
LEMMA SumAdd ==
    ASSUME NEW f, NEW S, NEW x, x \notin S, Summable(f, S), f[x] \in Int
    PROVE  /\ Summable(f, S \cup {x})
           /\ Sum(f, S \cup {x}) = f[x] + Sum(f, S)
<1>1. Summable(f, S \cup {x})
  BY FS_AddElement DEF Summable
<1>2. (S \cup {x}) \ {x} = S /\ x \in S \cup {x}
  OBVIOUS
<1> QED
  BY <1>1, <1>2, SumTake

\* g is f but for what d, or each member of W, gains.
GainsAt(g, f, S, d, c) ==
    d \in S /\ \A x \in S : g[x] = IF x = d THEN f[x] + c ELSE f[x]
Gains(g, f, S, W, c) ==
    W \in SUBSET S /\ \A x \in S : g[x] = IF x \in W THEN f[x] + c ELSE f[x]

\* One term changes.
LEMMA SumChange ==
    ASSUME NEW f, NEW g, NEW S, Summable(f, S),
           NEW d, NEW c \in Int, GainsAt(g, f, S, d, c)
    PROVE  Summable(g, S) /\ Sum(f, S) + c = Sum(g, S)
<1>0. IsFiniteSet(S) /\ \A x \in S : f[x] \in Int
  BY DEF Summable
<1>1. Summable(g, S) /\ d \in S /\ g[d] = f[d] + c /\ \A x \in S \ {d} : g[x] = f[x]
  BY <1>0 DEF Summable, GainsAt
<1>2. /\ Sum(f, S) = f[d] + Sum(f, S \ {d}) /\ Sum(f, S \ {d}) \in Int
      /\ Summable(f, S \ {d})
  BY <1>1, SumTake
<1>3. Sum(g, S) = g[d] + Sum(g, S \ {d})
  BY <1>1, SumTake
<1>4. Sum(f, S \ {d}) = Sum(g, S \ {d})
  <2> DEFINE T == S \ {d}
  <2>1. \A x \in T : f[x] = g[x]
    BY <1>1
  <2> HIDE DEF T
  <2>2. Summable(f, T)
    BY <1>2 DEF T
  <2>3. Sum(f, T) = Sum(g, T)
    BY <2>1, <2>2, SumAgrees
  <2> QED
    BY <2>3 DEF T
<1> DEFINE a == Sum(f, S \ {d})
<1>5. a \in Int /\ f[d] \in Int /\ Sum(f, S) = f[d] + a /\ Sum(g, S) = (f[d] + c) + a
  BY <1>0, <1>1, <1>2, <1>3, <1>4
<1> HIDE DEF a
<1> QED
  BY <1>1, <1>5

\* Some terms grow by the same.
LEMMA SumShift ==
    ASSUME NEW f, NEW g, NEW S, Summable(f, S),
           NEW W, NEW c \in Int, Gains(g, f, S, W, c)
    PROVE  Summable(g, S) /\ Sum(f, S) + c * Cardinality(W) = Sum(g, S)
<1> DEFINE h(w) == [x \in S |-> IF x \in w THEN f[x] + c ELSE f[x]]
           A == {n \in Nat : \A w \in SUBSET S : Cardinality(w) = n =>
                                Sum(h(w), S) = Sum(f, S) + c * n}
<1>00. IsFiniteSet(S) /\ W \in SUBSET S /\ \A x \in S : f[x] \in Int
  BY DEF Summable, Gains
<1>0. /\ \A w \in SUBSET S : IsFiniteSet(w) /\ Cardinality(w) \in Nat
      /\ \A w \in SUBSET S : Summable(h(w), S)
  BY <1>00, FS_Subset, FS_CardinalityType DEF Summable
<1>1. Sum(f, S) \in Int
  BY SumSteps
<1>2. 0 \in A
  <2>1. ASSUME NEW w \in SUBSET S, Cardinality(w) = 0
        PROVE  Sum(h(w), S) = Sum(f, S)
    <3>1. w = {}
      BY <1>0, <2>1, FS_EmptySet
    <3>2. \A x \in S : f[x] = h(w)[x]
      BY <3>1
    <3> HIDE DEF h
    <3> QED
      BY <3>2, SumAgrees
  <2> HIDE DEF h
  <2>2. Sum(f, S) = Sum(f, S) + c * 0
    BY <1>1
  <2> QED
    BY <2>1, <2>2
<1>3. ASSUME NEW n \in Nat, n \in A PROVE n + 1 \in A
  <2>1. ASSUME NEW w \in SUBSET S, Cardinality(w) = n + 1
        PROVE  Sum(h(w), S) = Sum(f, S) + c * (n + 1)
    <3>1. w # {}
      <4> HIDE DEF h
      <4> QED
        BY <2>1, FS_EmptySet
    <3>2. PICK d \in w : TRUE
      BY <3>1
    <3>3. w \ {d} \in SUBSET S /\ Cardinality(w \ {d}) = n
      <4>1. Cardinality(w) = Cardinality(w \ {d}) + 1 /\ Cardinality(w \ {d}) \in Nat
        BY <1>0, <3>2, OneLess
      <4> QED
        BY <2>1, <4>1
    <3>4. Sum(h(w \ {d}), S) = Sum(f, S) + c * n
      BY <1>3, <3>3
    <3>5. /\ d \in S /\ h(w)[d] = h(w \ {d})[d] + c
          /\ \A x \in S \ {d} : h(w)[x] = h(w \ {d})[x]
      BY <3>2
    <3>6. Sum(h(w), S) = Sum(h(w \ {d}), S) + c
      <4> DEFINE a == h(w \ {d})
                 b == h(w)
      <4>1. Summable(a, S)
        BY <1>00 DEF Summable
      <4>2. d \in S /\ b[d] = a[d] + c /\ \A x \in S \ {d} : b[x] = a[x]
        BY <3>5
      <4> HIDE DEF a, b
      <4>3. GainsAt(b, a, S, d, c)
        BY <4>2 DEF GainsAt
      <4>4. Sum(a, S) + c = Sum(b, S)
        BY <4>1, <4>3, SumChange
      <4> QED
        BY <4>4 DEF a, b
    <3>7. c * (n + 1) = c * n + c /\ c * n \in Int
      OBVIOUS
    <3> HIDE DEF h
    <3> QED
      BY <1>1, <3>4, <3>6, <3>7
  <2>2. n + 1 \in Nat
    OBVIOUS
  <2> HIDE DEF h
  <2> QED
    BY <2>1, <2>2
<1>4. Nat \subseteq A
  <2>1. \A n \in Nat : n \in A => n + 1 \in A
    BY <1>3
  <2> HIDE DEF A
  <2> QED
    BY <1>2, <2>1, NaturalsInductive
<1>5. Sum(h(W), S) = Sum(f, S) + c * Cardinality(W)
  <2>1. Cardinality(W) \in A
    BY <1>0, <1>00, <1>4
  <2> HIDE DEF h
  <2> QED
    BY <1>00, <2>1
<1>6. \A x \in S : h(W)[x] = g[x]
  BY DEF Gains
<1>7. Summable(g, S) /\ Sum(h(W), S) = Sum(g, S)
  <2> HIDE DEF h
  <2>1. Summable(h(W), S)
    BY <1>0, <1>00
  <2> QED
    BY <1>6, <2>1, SumAgrees
<1> QED
  BY <1>5, <1>7

\* Terms that are not negative.
LEMMA SumPositive ==
    ASSUME NEW f, NEW U, IsFiniteSet(U), \A x \in U : f[x] \in Nat
    PROVE  Sum(f, U) \in Nat /\ (Sum(f, U) > 0 <=> \E x \in U : f[x] > 0)
<1> DEFINE A == {n \in Nat : \A s \in SUBSET U : Cardinality(s) = n =>
                    Sum(f, s) \in Nat /\ (Sum(f, s) > 0 <=> \E x \in s : f[x] > 0)}
<1>0. \A s \in SUBSET U : IsFiniteSet(s) /\ Cardinality(s) \in Nat /\ Summable(f, s)
  BY FS_Subset, FS_CardinalityType DEF Summable
<1>1. 0 \in A
  <2>1. ASSUME NEW s \in SUBSET U, Cardinality(s) = 0
        PROVE  Sum(f, s) \in Nat /\ (Sum(f, s) > 0 <=> \E x \in s : f[x] > 0)
    <3>1. s = {}
      BY <1>0, <2>1, FS_EmptySet
    <3>2. Sum(f, s) = 0
      BY <1>0, <3>1, SumSteps
    <3> QED
      BY <3>1, <3>2
  <2> QED
    BY <2>1
<1>2. ASSUME NEW n \in Nat, n \in A PROVE n + 1 \in A
  <2>1. ASSUME NEW s \in SUBSET U, Cardinality(s) = n + 1
        PROVE  Sum(f, s) \in Nat /\ (Sum(f, s) > 0 <=> \E x \in s : f[x] > 0)
    <3>1. s # {}
      BY <2>1, FS_EmptySet
    <3>2. PICK d \in s : TRUE
      BY <3>1
    <3>3. s \ {d} \in SUBSET U /\ Cardinality(s \ {d}) = n
      <4>1. Cardinality(s) = Cardinality(s \ {d}) + 1 /\ Cardinality(s \ {d}) \in Nat
        BY <1>0, <3>2, OneLess
      <4> QED
        BY <2>1, <4>1
    <3> DEFINE r == Sum(f, s \ {d})
    <3>4. r \in Nat /\ (r > 0 <=> \E x \in s \ {d} : f[x] > 0)
      BY <1>2, <3>3
    <3>5. Sum(f, s) = f[d] + r
      <4>1. Summable(f, s)
        BY <1>0
      <4> QED
        BY <3>2, <4>1, SumTake
    <3>6. f[d] \in Nat
      BY <3>2
    <3>7. (\E x \in s : f[x] > 0) <=> f[d] > 0 \/ \E x \in s \ {d} : f[x] > 0
      BY <3>2
    <3> HIDE DEF r
    <3> QED
      BY <3>4, <3>5, <3>6, <3>7
  <2>2. n + 1 \in Nat
    OBVIOUS
  <2> QED
    BY <2>1, <2>2
<1>3. Nat \subseteq A
  <2>1. \A n \in Nat : n \in A => n + 1 \in A
    BY <1>2
  <2> HIDE DEF A
  <2> QED
    BY <1>1, <2>1, NaturalsInductive
<1>4. U \in SUBSET U /\ Cardinality(U) \in A
  BY <1>0, <1>3
<1> QED
  BY <1>4

-----------------------------------------------------------------------------
(* The next event.                                                         *)

\* The loop has something to wait for, which is not in the past.
LEMMA NextEventAhead ==
    ASSUME TraceTypes, EventsAhead, stage = "top", Unfinished
    PROVE  /\ Min(NextEvents) \in Nat /\ Min(NextEvents) >= now
           /\ Min(NextEvents) \in NextEvents
           /\ \A r \in next .. N : arrival[r] >= Min(NextEvents)
<1>1. N \in Nat /\ arrival \in [1 .. N -> Nat]
  BY TraceAssumption DEF TraceTypes
<1>2. \A r \in next .. N : arrival[r] \in Nat /\ arrival[r] >= now
  BY <1>1 DEF TraceTypes, EventsAhead
<1>3. \A r \in InFlight : ends[r] \in Nat /\ ends[r] >= now
  BY DEF InFlight, TraceTypes
<1>4. NextEvents \in SUBSET Nat /\ \A t \in NextEvents : t >= now
  BY <1>2, <1>3 DEF NextEvents
<1>5. NextEvents # {}
  <2>1. CASE next <= N
    <3>1. next \in next .. N
      BY <1>1, <2>1 DEF TraceTypes
    <3> QED
      BY <3>1 DEF NextEvents
  <2>2. CASE waiting # <<>>
    BY <2>2 DEF EventsAhead, NextEvents
  <2> QED
    BY <2>1, <2>2 DEF Unfinished
<1>6. Min(NextEvents) \in NextEvents /\ \A t \in NextEvents : Min(NextEvents) <= t
  BY <1>4, <1>5, LeastOfNaturals
<1>7. ASSUME NEW r \in next .. N PROVE arrival[r] >= Min(NextEvents)
  <2>1. arrival[r] \in NextEvents
    BY DEF NextEvents
  <2> QED
    BY <1>4, <1>6, <2>1
<1> QED
  BY <1>4, <1>6, <1>7

-----------------------------------------------------------------------------
(* An update of the controller.                                            *)

\* Under the pressure p, no level above is called for unless its threshold has
\* been reached (bisect_right and the loop agree).
LEMMA NoTarget ==
    ASSUME TraceTypes, NEW p \in Nat, Ctl!Target(p) <= level
    PROVE  Ctl!Above(p) = {}
<1> DEFINE T == {k \in 1 .. 3 : TightenAt[k] <= p}
<1>0. ASSUME NEW n \in Nat
      PROVE  IsFiniteSet(1 .. n) /\ Cardinality(1 .. n) = n
  <2>1. /\ IsFiniteSet(1 .. n)
        /\ Cardinality(1 .. n) = IF 1 > n THEN 0 ELSE n - 1 + 1
    <3>1. 1 \in Int /\ n \in Int
      OBVIOUS
    <3> QED
      BY <3>1, FS_Interval, Zenon
  <2> QED
    BY <2>1
<1>1. Ctl!Reached(p) = T /\ T \subseteq 1 .. 3
  BY DEF Ctl!Reached, Ctl!Caps
<1>2. Ctl!Target(p) = Cardinality(T)
  BY DEF Ctl!Target, Ctl!Caps, Ctl!Cardinality, Cardinality
<1>3. IsFiniteSet(T) /\ Cardinality(T) \in Nat
  <2>1. IsFiniteSet(1 .. 3) /\ T \in SUBSET (1 .. 3)
    BY <1>0, <1>1
  <2> HIDE DEF T
  <2>2. IsFiniteSet(T)
    BY <2>1, FS_Subset, Zenon
  <2> QED
    BY <2>2, FS_CardinalityType, Zenon
<1>4. ASSUME NEW k \in T PROVE k <= Cardinality(T)
  <2>1. k \in Nat /\ 1 .. k \subseteq T
    BY TraceAssumption
  <2>2. IsFiniteSet(1 .. k) /\ Cardinality(1 .. k) = k
    BY <1>0, <2>1
  <2>3. Cardinality(1 .. k) <= Cardinality(T)
    BY <1>3, <2>1, FS_Subset
  <2> HIDE DEF T
  <2> QED
    BY <2>2, <2>3
<1> HIDE DEF T
<1>5. ASSUME NEW k \in Ctl!Above(p) PROVE FALSE
  <2>1. k \in T /\ k \in 1 .. 3 /\ k > level
    BY <1>1 DEF Ctl!Above
  <2>2. k <= Cardinality(T) /\ Cardinality(T) <= level
    BY <1>2, <1>4, <2>1
  <2> QED
    BY <1>3, <2>1, <2>2 DEF TraceTypes
<1> QED
  BY <1>5

\* The hold clocks after the loop.
LEMMA ClocksAfterLoop ==
    ASSUME TraceTypes, NEW p
    PROVE  /\ Ctl!HoldClocks(p) \in [1 .. 3 -> Int]
           /\ \A k \in 1 .. 3 :
                 \/ k \notin Ctl!Above(p) /\ Ctl!HoldClocks(p)[k] = None
                 \/ k \in Ctl!Above(p) /\ Ctl!HoldClocks(p)[k] = now
                 \/ /\ k \in Ctl!Above(p) /\ tightening[k] # None
                    /\ Ctl!HoldClocks(p)[k] = tightening[k]
BY DEF TraceTypes, Ctl!HoldClocks, Ctl!Began, Ctl!Caps, Ctl!NoTime, None

\* What an update may do to the level and to the hold clocks.
LEMMA UpdateClocks ==
    ASSUME TraceTypes, NEW q \in Nat, Ctl!Update(q)
    PROVE  /\ level' \in 0 .. 3 /\ qInst' \in Nat /\ qBar' \in Nat
           /\ tightening' \in [1 .. 3 -> Int] /\ relaxing' \in Int
           /\ level' > level =>
                 /\ relaxing' = None
                 /\ \E s \in Int : /\ now - s >= TightenHold
                                   /\ \/ s = now
                                      \/ \E k \in 1 .. 3 : s = tightening[k] /\ s # None
           /\ level' < level =>
                 /\ \A k \in 1 .. 3 : tightening'[k] = None
                 /\ \E s \in Int : /\ now - s >= RelaxHold
                                   /\ \/ s = now
                                      \/ s = relaxing /\ s # None
           /\ level' = level =>
                 /\ relaxing' \in {None, now, relaxing}
                 /\ \A k \in 1 .. 3 : tightening'[k] \in {None, now, tightening[k]}
<1> USE DEF None, Ctl!Caps, Ctl!NoTime
<1>1. /\ now \in Nat /\ level \in 0 .. 3 /\ qInst \in Nat /\ qBar \in Nat /\ relaxing \in Int
      /\ TightenHold \in Nat /\ RelaxHold \in Nat
  BY TraceAssumption DEF TraceTypes
<1>2. PICK b \in Ctl!Average :
         /\ qBar' = b
         /\ \/ Ctl!Tighten(Ctl!Larger(q, b)) \/ Ctl!AwaitTightening(Ctl!Larger(q, b))
            \/ Ctl!Keep(Ctl!Larger(q, b)) \/ Ctl!Relax(Ctl!Larger(q, b))
  BY DEF Ctl!Update
<1>3. b \in Nat
  BY <1>1 DEF Ctl!Average
<1> DEFINE p == Ctl!Larger(q, b)
<1>4. p \in Nat /\ qInst' \in Nat /\ qBar' \in Nat
  BY <1>2, <1>3 DEF Ctl!Larger, Ctl!Update
<1> HIDE DEF p
<1>5. /\ Ctl!HoldClocks(p) \in [1 .. 3 -> Int]
      /\ \A k \in 1 .. 3 :
            \/ k \notin Ctl!Above(p) /\ Ctl!HoldClocks(p)[k] = None
            \/ k \in Ctl!Above(p) /\ Ctl!HoldClocks(p)[k] = now
            \/ /\ k \in Ctl!Above(p) /\ tightening[k] # None
               /\ Ctl!HoldClocks(p)[k] = tightening[k]
  BY ClocksAfterLoop
<1>6. CASE Ctl!Tighten(p)
  <2>1. /\ level' \in Ctl!Elapsed(p) /\ level' \in Ctl!Above(p) /\ level' \in 1 .. 3
        /\ level' > level /\ now - Ctl!HoldClocks(p)[level'] >= TightenHold
        /\ relaxing' = None
        /\ tightening' = [k \in 1 .. 3 |-> IF k <= level' THEN None
                                          ELSE Ctl!HoldClocks(p)[k]]
    BY <1>6 DEF Ctl!Tighten, Ctl!Elapsed, Ctl!Above, Ctl!Reached
  <2>2. Ctl!HoldClocks(p)[level'] \in Int
    BY <1>5, <2>1
  <2>3. \/ Ctl!HoldClocks(p)[level'] = now
        \/ /\ Ctl!HoldClocks(p)[level'] = tightening[level']
           /\ Ctl!HoldClocks(p)[level'] # None
    BY <1>5, <2>1
  <2>4. tightening' \in [1 .. 3 -> Int]
    BY <1>5, <2>1
  <2> QED
    BY <1>1, <1>4, <2>1, <2>2, <2>3, <2>4
<1>7. CASE Ctl!AwaitTightening(p) \/ Ctl!Keep(p)
  <2>1. level' = level /\ tightening' = Ctl!HoldClocks(p) /\ relaxing' = None
    BY <1>7 DEF Ctl!AwaitTightening, Ctl!Keep, Ctl!Settled
  <2> QED
    BY <1>1, <1>4, <1>5, <2>1
<1>8. CASE Ctl!Relax(p)
  <2> DEFINE since == IF relaxing = None THEN now ELSE relaxing
  <2>1. /\ Ctl!Settled(p) /\ level > 0
        /\ \/ now - since >= RelaxHold /\ level' = level - 1 /\ relaxing' = None
           \/ level' = level /\ relaxing' = since
    BY <1>8 DEF Ctl!Relax
  <2>2. tightening' = Ctl!HoldClocks(p) /\ Ctl!Above(p) = {}
    BY <1>4, <2>1, NoTarget DEF Ctl!Settled
  <2>3. since \in Int /\ (since = now \/ (since = relaxing /\ since # None))
    BY <1>1
  <2>4. \A k \in 1 .. 3 : tightening'[k] = None
    BY <1>5, <2>2
  <2>5. tightening' \in [1 .. 3 -> Int]
    BY <1>5, <2>2
  <2> QED
    BY <1>1, <1>4, <2>1, <2>3, <2>4, <2>5
<1> QED
  BY <1>2, <1>6, <1>7, <1>8 DEF p

-----------------------------------------------------------------------------
(* The steps.                                                              *)

LEMMA TraceStarts == Init => TraceInv
<1> SUFFICES ASSUME Init PROVE TraceInv
  OBVIOUS
<1>1. /\ N \in Nat \ {0} /\ arrival \in [1 .. N -> Nat]
      /\ \A i, j \in 1 .. N : i <= j => arrival[i] <= arrival[j]
  BY TraceAssumption DEF Init
<1>2. TraceTypes
  <2>1. arrival[1] \in Nat
    BY <1>1
  <2> QED
    BY <2>1 DEF TraceTypes, Init, Ctl!ControlInit, Ctl!Caps, Ctl!NoTime
<1>3. EventsAhead
  BY <1>1 DEF EventsAhead, Init
<1>4. decisions = <<>> /\ Transitions = {}
  BY DEF Init, Transitions
<1>5. ClocksFollowLog
  BY <1>4 DEF ClocksFollowLog
<1>6. EarlyReversals = {}
  BY <1>4 DEF EarlyReversals, Successive
<1> QED
  BY <1>2, <1>3, <1>5, <1>6 DEF TraceInv

\* The entries of the log.
LEMMA LogEntries ==
    ASSUME TraceTypes, NEW i \in 1 .. Len(decisions)
    PROVE  /\ decisions[i].time \in Nat
           /\ decisions[i].new \in 0 .. 3 /\ decisions[i].old \in 0 .. 3
<1>1. decisions[i] \in DecisionRecord
  BY DEF TraceTypes
<1> QED
  BY <1>1 DEF DecisionRecord

\* The controller and its log stay, and time does not run backwards.
LEMMA LogKept ==
    ASSUME TraceInv, UNCHANGED <<decisions, control>>, now' \in Nat, now' >= now
    PROVE  ClocksFollowLog' /\ EarlyReversals' = {}
<1>1. Transitions' = Transitions /\ \A i : IsLast(i)' <=> IsLast(i)
  BY DEF Transitions, IsLast
<1>2. EarlyReversals' = {}
  BY <1>1 DEF TraceInv, EarlyReversals, Successive, Hold
<1>3. ASSUME NEW i \in 1 .. Len(decisions) PROVE decisions[i].time <= now'
  <2>1. decisions[i].time \in Nat /\ now \in Nat /\ decisions[i].time <= now
    BY LogEntries DEF TraceInv, TraceTypes, ClocksFollowLog
  <2> QED
    BY <2>1
<1>4. ClocksFollowLog'
  BY <1>1, <1>3 DEF TraceInv, ClocksFollowLog, control
<1> QED
  BY <1>2, <1>4

\* What a decision adds to the log.
LEMMA LogGrows ==
    ASSUME TraceTypes, Dispatch
    PROVE  /\ decisions' = Append(decisions, decisions'[Len(decisions) + 1])
           /\ Len(decisions') = Len(decisions) + 1 /\ Len(decisions) \in Nat
           /\ \A i \in 1 .. Len(decisions) : decisions'[i] = decisions[i]
           /\ decisions'[Len(decisions) + 1]
                 = [time |-> now, q |-> qInst', bar |-> qBar', old |-> level, new |-> level']
           /\ Transitions' = Transitions
                                \cup (IF level' = level THEN {} ELSE {Len(decisions) + 1})
<1> DEFINE e == [time |-> now, q |-> qInst', bar |-> qBar', old |-> level, new |-> level']
<1>1. decisions \in Seq(DecisionRecord) /\ decisions' = Append(decisions, e)
  BY DEF TraceTypes, Dispatch
<1> HIDE DEF e
<1>2. /\ Len(decisions') = Len(decisions) + 1 /\ Len(decisions) \in Nat
      /\ \A i \in 1 .. Len(decisions) : decisions'[i] = decisions[i]
      /\ decisions'[Len(decisions) + 1] = e
  BY <1>1
<1>3. e.new = level' /\ e.old = level
  BY DEF e
<1>4. ASSUME NEW i
      PROVE  i \in Transitions' <=> \/ i \in Transitions
                                    \/ (level' # level /\ i = Len(decisions) + 1)
  <2>1. 1 .. Len(decisions') = 1 .. Len(decisions) \cup {Len(decisions) + 1}
    BY <1>2
  <2>2. i \in Transitions' <=> /\ i \in 1 .. Len(decisions')
                               /\ decisions'[i].new # decisions'[i].old
    BY DEF Transitions
  <2>3. CASE i \in 1 .. Len(decisions)
    BY <1>2, <2>1, <2>2, <2>3 DEF Transitions
  <2>4. CASE i = Len(decisions) + 1
    BY <1>2, <1>3, <2>1, <2>2, <2>4 DEF Transitions
  <2> QED
    BY <2>1, <2>2, <2>3, <2>4 DEF Transitions
<1>5. Transitions' = Transitions
                       \cup (IF level' = level THEN {} ELSE {Len(decisions) + 1})
  BY <1>4
<1> QED
  BY <1>1, <1>2, <1>5 DEF e

LEMMA DispatchTypes ==
    ASSUME TraceInv, Dispatch, \E q \in Nat : Ctl!Update(q)
    PROVE  TraceTypes' /\ EventsAhead'
<1>1. TraceTypes
  BY DEF TraceInv
<1>2. /\ level' \in 0 .. 3 /\ qInst' \in Nat /\ qBar' \in Nat
      /\ tightening' \in [1 .. 3 -> Int] /\ relaxing' \in Int
  BY <1>1, UpdateClocks
<1>3. decisions' \in Seq(DecisionRecord)
  <2> DEFINE e == [time |-> now, q |-> qInst', bar |-> qBar', old |-> level,
                   new |-> level']
  <2>1. e \in DecisionRecord
    BY <1>1, <1>2 DEF DecisionRecord, TraceTypes
  <2>2. decisions' = Append(decisions, e) /\ decisions \in Seq(DecisionRecord)
    BY <1>1 DEF Dispatch, TraceTypes
  <2> HIDE DEF e
  <2> QED
    BY <2>1, <2>2
<1>4. ends' \in Seq(Nat)
  <2>1. PICK s \in Services : ends' = Append(ends, now + s)
    BY DEF Dispatch
  <2>2. now + s \in Nat /\ ends \in Seq(Nat)
    BY <1>1, TraceAssumption DEF TraceTypes
  <2> QED
    BY <2>1, <2>2
<1>5. waiting' \in Seq(Nat)
  BY <1>1 DEF Dispatch, TraceTypes
<1>6. UNCHANGED <<now, arrival, next, stage>> /\ stage # "top"
  BY DEF Dispatch
<1> QED
  BY <1>1, <1>2, <1>3, <1>4, <1>5, <1>6 DEF TraceTypes, EventsAhead, TraceInv

\* A decision that keeps the level starts the clocks it starts at its own time.
LEMMA LevelKept ==
    ASSUME TraceInv, Dispatch, \E q \in Nat : Ctl!Update(q), level' = level
    PROVE  ClocksFollowLog' /\ EarlyReversals' = {}
<1>1. /\ relaxing' \in {None, now, relaxing}
      /\ \A k \in 1 .. 3 : tightening'[k] \in {None, now, tightening[k]}
  BY UpdateClocks DEF TraceInv
<1>2. /\ Len(decisions') = Len(decisions) + 1 /\ Len(decisions) \in Nat
      /\ \A i \in 1 .. Len(decisions) : decisions'[i] = decisions[i]
      /\ decisions'[Len(decisions) + 1].time = now
      /\ Transitions' = Transitions /\ now' = now
  BY LogGrows DEF TraceInv, Dispatch
<1>3. Transitions \subseteq 1 .. Len(decisions)
  BY DEF Transitions
<1>4. EarlyReversals' = {}
  BY <1>2, <1>3 DEF TraceInv, EarlyReversals, Successive, Hold
<1>5. \A i : IsLast(i)' <=> IsLast(i)
  BY <1>2 DEF IsLast
<1>6. ASSUME NEW i \in 1 .. Len(decisions')
      PROVE  /\ decisions'[i].time <= now
             /\ IsLast(i) /\ decisions'[i].new > decisions'[i].old =>
                   relaxing' = None \/ relaxing' >= decisions'[i].time
             /\ IsLast(i) /\ decisions'[i].new < decisions'[i].old =>
                   \A k \in 1 .. 3 : \/ tightening'[k] = None
                                     \/ tightening'[k] >= decisions'[i].time
  <2>0. now \in Nat
    BY DEF TraceInv, TraceTypes
  <2>1. CASE i \in 1 .. Len(decisions)
    <3>1. decisions'[i] = decisions[i] /\ decisions[i].time <= now
      BY <1>2, <2>1 DEF TraceInv, ClocksFollowLog
    <3>2. /\ IsLast(i) /\ decisions[i].new > decisions[i].old =>
                relaxing = None \/ relaxing >= decisions[i].time
          /\ IsLast(i) /\ decisions[i].new < decisions[i].old =>
                \A k \in 1 .. 3 : tightening[k] = None \/ tightening[k] >= decisions[i].time
      BY <2>1 DEF TraceInv, ClocksFollowLog
    <3> QED
      BY <1>1, <2>0, <3>1, <3>2
  <2>2. CASE i = Len(decisions) + 1
    BY <1>2, <1>3, <2>0, <2>2 DEF IsLast
  <2> QED
    BY <1>2, <2>1, <2>2
<1>7. ClocksFollowLog'
  BY <1>2, <1>5, <1>6 DEF ClocksFollowLog
<1> QED
  BY <1>4, <1>7

\* A decision that changes the level comes no earlier than the last transition
\* and the hold, if it goes the other way, and stops the clocks.
LEMMA LevelChanged ==
    ASSUME TraceInv, Dispatch, \E q \in Nat : Ctl!Update(q), level' # level
    PROVE  ClocksFollowLog' /\ EarlyReversals' = {}
<1> DEFINE n == Len(decisions) + 1
<1>0. /\ now \in Nat /\ level \in 0 .. 3 /\ level' \in 0 .. 3 /\ relaxing \in Int
      /\ tightening \in [1 .. 3 -> Int] /\ TightenHold \in Nat /\ RelaxHold \in Nat
  BY UpdateClocks, TraceAssumption DEF TraceInv, TraceTypes
<1>1. /\ level' > level =>
            /\ relaxing' = None
            /\ \E s \in Int : /\ now - s >= TightenHold
                              /\ \/ s = now
                                 \/ \E k \in 1 .. 3 : s = tightening[k] /\ s # None
      /\ level' < level =>
            /\ \A k \in 1 .. 3 : tightening'[k] = None
            /\ \E s \in Int : /\ now - s >= RelaxHold
                              /\ \/ s = now
                                 \/ s = relaxing /\ s # None
  BY UpdateClocks DEF TraceInv
<1>2. /\ Len(decisions') = n /\ n \in Nat /\ n > Len(decisions)
      /\ \A i \in 1 .. n - 1 : decisions'[i] = decisions[i]
      /\ decisions'[n].time = now /\ decisions'[n].old = level
      /\ decisions'[n].new = level'
      /\ Transitions' = Transitions \cup {n} /\ now' = now
  BY LogGrows DEF TraceInv, Dispatch
<1>3. Transitions \subseteq 1 .. n - 1
  BY <1>2 DEF Transitions
<1>4. \A i \in 1 .. n - 1 : /\ decisions[i].time \in Nat /\ decisions[i].time <= now
                            /\ decisions[i].new \in 0 .. 3 /\ decisions[i].old \in 0 .. 3
  <2>1. \A i \in 1 .. Len(decisions) :
           /\ decisions[i].time \in Nat /\ decisions[i].time <= now
           /\ decisions[i].new \in 0 .. 3 /\ decisions[i].old \in 0 .. 3
    BY LogEntries DEF TraceInv, ClocksFollowLog
  <2>2. Len(decisions) = n - 1
    BY <1>2
  <2> QED
    BY <2>1, <2>2
<1> HIDE DEF n
<1>5. ASSUME NEW i, IsLast(i)
      PROVE  /\ decisions[i].new > decisions[i].old /\ level' < level =>
                   now - decisions[i].time >= RelaxHold
             /\ decisions[i].new < decisions[i].old /\ level' > level =>
                   now - decisions[i].time >= TightenHold
  <2>1. i \in 1 .. n - 1 /\ i \in 1 .. Len(decisions)
    BY <1>3, <1>5 DEF IsLast, Transitions
  <2>2. /\ decisions[i].new > decisions[i].old =>
              relaxing = None \/ relaxing >= decisions[i].time
        /\ decisions[i].new < decisions[i].old =>
              \A k \in 1 .. 3 : tightening[k] = None \/ tightening[k] >= decisions[i].time
    BY <1>5, <2>1 DEF TraceInv, ClocksFollowLog
  <2>3. decisions[i].time \in Nat /\ decisions[i].time <= now
    BY <1>4, <2>1
  <2>4. ASSUME decisions[i].new > decisions[i].old, level' < level
        PROVE  now - decisions[i].time >= RelaxHold
    BY <1>0, <1>1, <2>2, <2>3, <2>4
  <2>5. ASSUME decisions[i].new < decisions[i].old, level' > level
        PROVE  now - decisions[i].time >= TightenHold
    <3>1. PICK s \in Int : /\ now - s >= TightenHold
                           /\ \/ s = now
                              \/ \E k \in 1 .. 3 : s = tightening[k] /\ s # None
      BY <1>1, <2>5
    <3>2. s >= decisions[i].time
      BY <1>0, <2>2, <2>3, <2>5, <3>1
    <3> QED
      BY <1>0, <2>3, <3>1, <3>2
  <2> QED
    BY <2>4, <2>5
<1>6. ASSUME NEW x \in EarlyReversals' PROVE FALSE
  <2>1. /\ x \in Successive' /\ x[1] \in Transitions' /\ x[2] \in Transitions' /\ x[1] < x[2]
        /\ x = <<x[1], x[2]>>
        /\ Transitions' \cap (x[1] + 1 .. x[2] - 1) = {}
    BY DEF EarlyReversals, Successive
  <2>2. x[1] \in Transitions /\ x[1] \in 1 .. n - 1 /\ x[2] \in 1 .. n
    BY <1>2, <1>3, <2>1
  <2>3. /\ (decisions'[x[1]].new > decisions'[x[1]].old)
             # (decisions'[x[2]].new > decisions'[x[2]].old)
        /\ decisions'[x[2]].time - decisions'[x[1]].time < Hold(decisions'[x[1]])
    BY DEF EarlyReversals, Hold
  <2>4. CASE x[2] = n
    <3>1. IsLast(x[1])
      BY <1>2, <1>3, <2>1, <2>2, <2>4 DEF IsLast
    <3>2. decisions[x[1]].new # decisions[x[1]].old
      BY <2>2 DEF Transitions
    <3>3. decisions'[x[1]] = decisions[x[1]]
      BY <1>2, <2>2
    <3>4. now - decisions[x[1]].time < Hold(decisions[x[1]])
      BY <1>2, <2>3, <2>4, <3>3
    <3>5. (decisions[x[1]].new > decisions[x[1]].old) # (level' > level)
      BY <1>2, <2>3, <2>4, <3>3
    <3>6. /\ decisions[x[1]].new \in 0 .. 3 /\ decisions[x[1]].old \in 0 .. 3
          /\ decisions[x[1]].time \in Nat
      BY <1>4, <2>2
    <3>7. CASE decisions[x[1]].new > decisions[x[1]].old
      BY <1>0, <1>5, <3>1, <3>4, <3>5, <3>6, <3>7 DEF Hold
    <3>8. CASE decisions[x[1]].new < decisions[x[1]].old
      BY <1>0, <1>5, <3>1, <3>4, <3>5, <3>6, <3>8 DEF Hold
    <3> QED
      BY <3>2, <3>6, <3>7, <3>8
  <2>5. CASE x[2] # n
    <3>1. x[2] \in Transitions /\ x[2] \in 1 .. n - 1
      BY <1>2, <1>3, <2>1, <2>2, <2>5
    <3>2. decisions'[x[1]] = decisions[x[1]] /\ decisions'[x[2]] = decisions[x[2]]
      BY <1>2, <2>2, <3>1
    <3>3. x \in Successive
      BY <1>2, <2>1, <2>2, <3>1 DEF Successive
    <3>4. x \in EarlyReversals
      BY <2>3, <3>2, <3>3 DEF EarlyReversals, Hold
    <3> QED
      BY <3>4 DEF TraceInv
  <2> QED
    BY <2>4, <2>5
<1>7. ASSUME NEW i \in 1 .. n
      PROVE  /\ decisions'[i].time <= now
             /\ IsLast(i)' => i = n
  <2>1. decisions'[i].time <= now
    <3>1. CASE i = n
      BY <1>0, <1>2, <3>1
    <3>2. CASE i \in 1 .. n - 1
      <4>1. decisions'[i] = decisions[i] /\ decisions[i].time <= now
        BY <1>2, <1>4, <3>2
      <4> QED
        BY <4>1
    <3> QED
      BY <1>2, <3>1, <3>2
  <2>2. IsLast(i)' => i = n
    BY <1>2 DEF IsLast
  <2> QED
    BY <2>1, <2>2
<1>8. ClocksFollowLog'
  BY <1>0, <1>1, <1>2, <1>7 DEF ClocksFollowLog
<1> QED
  BY <1>6, <1>8

LEMMA AdvanceKeeps ==
    ASSUME TraceInv, Advance
    PROVE  TraceInv'
<1>1. TraceTypes /\ EventsAhead /\ stage = "top" /\ Unfinished
  BY DEF TraceInv, Advance
<1>2. /\ now' \in Nat /\ now' >= now /\ \A r \in next .. N : arrival[r] >= now'
  BY <1>1, NextEventAhead DEF Advance
<1>3. /\ stage' = "freed"
      /\ UNCHANGED <<arrival, next, waiting, ends, decisions, control>>
  BY DEF Advance
<1>4. TraceTypes' /\ EventsAhead'
  BY <1>1, <1>2, <1>3 DEF TraceTypes, EventsAhead, control
<1>5. ClocksFollowLog' /\ EarlyReversals' = {}
  BY <1>2, <1>3, LogKept
<1> QED
  BY <1>4, <1>5 DEF TraceInv

LEMMA DispatchKeeps ==
    ASSUME TraceInv, Dispatch
    PROVE  TraceInv'
<1>1. \E q \in Nat : Ctl!Update(q)
  <2> DEFINE left == Len(waiting) - 1
             free == MaxInFlight - Cardinality(InFlight) - 1
             q == Unit * AtLeast0(left - free)
  <2>1. Ctl!Update(q)
    BY DEF Dispatch
  <2>2. q \in Nat
    <3>1. IsFiniteSet(InFlight)
      <4>1. IsFiniteSet(DOMAIN ends)
        <5>1. DOMAIN ends = 1 .. Len(ends) /\ Len(ends) \in Int /\ 1 \in Int
          BY DEF TraceInv, TraceTypes
        <5> QED
          BY <5>1, FS_Interval
      <4>2. InFlight \in SUBSET (DOMAIN ends)
        BY DEF InFlight
      <4> QED
        BY <4>1, <4>2, FS_Subset
    <3>2. Cardinality(InFlight) \in Nat
      BY <3>1, FS_CardinalityType
    <3>3. left - free \in Int
      <4>1. Len(waiting) \in Nat /\ MaxInFlight \in Nat
        BY TraceAssumption DEF TraceInv, TraceTypes
      <4>2. left \in Int
        BY <4>1
      <4>3. free \in Int
        BY <3>2, <4>1
      <4> QED
        BY <4>2, <4>3
    <3> HIDE DEF left, free
    <3>4. AtLeast0(left - free) \in Nat /\ Unit \in Nat
      BY <3>3, TraceAssumption DEF AtLeast0
    <3> QED
      BY <3>4
  <2> QED
    BY <2>1, <2>2
<1>2. TraceTypes' /\ EventsAhead'
  BY <1>1, DispatchTypes
<1>3. ClocksFollowLog' /\ EarlyReversals' = {}
  BY <1>1, LevelKept, LevelChanged
<1> QED
  BY <1>2, <1>3 DEF TraceInv

LEMMA SettleKeeps ==
    ASSUME TraceInv, Settle
    PROVE  TraceInv'
<1>1. /\ TraceTypes /\ EventsAhead /\ stage \in {"freed", "arrived"}
      /\ UNCHANGED <<now, arrival, ends, decisions, control>>
  BY DEF TraceInv, Settle
<1>2. ASSUME stage = "freed"
      PROVE  TraceTypes' /\ EventsAhead'
  <2> DEFINE n == Cardinality(Come)
             new == [i \in 1 .. n |-> next + i - 1]
  <2>1. /\ waiting' = waiting \o new /\ next' = next + n /\ stage' = "arrived"
    BY <1>2 DEF Settle
  <2>2. n \in Nat
    <3>1. IsFiniteSet(next .. N)
      <4>1. next \in Int /\ N \in Int
        BY <1>1, TraceAssumption DEF TraceTypes
      <4> QED
        BY <4>1, FS_Interval
    <3>2. Come \in SUBSET (next .. N)
      BY DEF Come
    <3>3. IsFiniteSet(Come)
      BY <3>1, <3>2, FS_Subset
    <3> QED
      BY <3>3, FS_CardinalityType
  <2> HIDE DEF n
  <2>3. next \in Nat \ {0} /\ waiting \in Seq(Nat) /\ N \in Nat
    BY <1>1, TraceAssumption DEF TraceTypes
  <2>4. new \in Seq(Nat)
    BY <2>2, <2>3
  <2> HIDE DEF new
  <2>5. waiting' \in Seq(Nat) /\ next' \in Nat \ {0} /\ next' >= next
    BY <2>1, <2>2, <2>3, <2>4
  <2>6. TraceTypes'
    BY <1>1, <2>1, <2>5 DEF TraceTypes, control
  <2>7. \A r \in next' .. N : r \in next .. N
    BY <2>3, <2>5
  <2>8. EventsAhead'
    BY <1>1, <2>1, <2>7 DEF EventsAhead
  <2> QED
    BY <2>6, <2>8
<1>3. ASSUME stage = "arrived"
      PROVE  TraceTypes' /\ EventsAhead'
  <2>1. stage' = "top" /\ UNCHANGED <<waiting, next>>
    BY <1>3 DEF Settle
  <2>2. TraceTypes'
    BY <1>1, <2>1 DEF TraceTypes, control
  <2>3. waiting # <<>> => InFlight # {}
    <3>1. Cardinality({}) = 0
      BY FS_EmptySet
    <3>2. waiting # <<>> => Cardinality(InFlight) >= MaxInFlight
      BY DEF Settle
    <3>3. ~(0 >= MaxInFlight)
      BY TraceAssumption
    <3> QED
      BY <3>1, <3>2, <3>3, Zenon
  <2>4. InFlight' = InFlight
    BY <1>1 DEF InFlight
  <2>5. EventsAhead'
    BY <1>1, <2>1, <2>3, <2>4 DEF EventsAhead
  <2> QED
    BY <2>2, <2>5
<1>4. ClocksFollowLog' /\ EarlyReversals' = {}
  <2>1. now' \in Nat /\ now' >= now
    BY <1>1 DEF TraceTypes
  <2> QED
    BY <1>1, <2>1, LogKept
<1> QED
  BY <1>1, <1>2, <1>3, <1>4 DEF TraceInv

\* A step that leaves alone what the invariant is about, but for the stage.
LEMMA RestKeeps ==
    ASSUME TraceInv, Finish \/ UNCHANGED vars
    PROVE  TraceInv'
<1>1. /\ UNCHANGED <<now, arrival, next, waiting, ends, decisions, control>>
      /\ stage' = "done" \/ stage' = stage
  BY DEF Finish, vars
<1>2. TraceTypes'
  BY <1>1 DEF TraceInv, TraceTypes, control
<1>3. InFlight' = InFlight
  BY <1>1 DEF InFlight
<1>4. EventsAhead'
  BY <1>1, <1>3 DEF TraceInv, EventsAhead
<1>5. ClocksFollowLog' /\ EarlyReversals' = {}
  <2>1. now' \in Nat /\ now' >= now
    BY <1>1 DEF TraceInv, TraceTypes
  <2> QED
    BY <1>1, <2>1, LogKept
<1> QED
  BY <1>2, <1>4, <1>5 DEF TraceInv

-----------------------------------------------------------------------------
\* No arrival is overlooked, a request that waits has one in flight to wait for
\* (_simulate_trace), and the hold clocks have run no longer than since the last
\* transition in the opposite direction that was logged (_update_level).
THEOREM TraceInvariant == TraceSpec => []TraceInv
<1>1. TraceInv /\ [TraceNext]_vars => TraceInv'
  BY AdvanceKeeps, DispatchKeeps, SettleKeeps, RestKeeps DEF TraceNext
<1> QED
  BY <1>1, TraceStarts, PTL DEF TraceSpec

\* Whatever the queue shows the controller and however long a request is
\* served, check_thrash finds no reversal in its log that came before the hold
\* of the opposite direction was over.
THEOREM AuditTrustsTheController == TraceSpec => []ThrashAuditPasses
<1>1. TraceInv => ThrashAuditPasses
  BY DEF TraceInv, ThrashAuditPasses
<1> QED
  BY <1>1, TraceInvariant, PTL
=============================================================================
