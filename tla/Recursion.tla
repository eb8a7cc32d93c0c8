----------------------------- MODULE Recursion -----------------------------
(***************************************************************************)
(* Induction and recursion for the proofs: facts about sets and functions  *)
(* that say what a recursive definition or a fold computes.  A recursive   *)
(* definition chooses a function with an equation; the lemmas show that    *)
(* there is one, and an induction over its argument is a set of numbers    *)
(* that holds 0 and, with a number, the next.                              *)
(***************************************************************************)
EXTENDS Integers, SequencesExt, SequenceTheorems, FiniteSetTheorems, WellFoundedInduction, TLAPS

\* Every set of numbers that is not empty has a least one: the strict
\* subsets of an interval are well founded.
LEMMA LeastNumber ==
  ASSUME NEW T \in SUBSET Nat, T # {}
  PROVE  \E n \in T : \A m \in T : n <= m
<1>0. PICK n \in T : TRUE OBVIOUS
<1> DEFINE S == 0 .. n
           B == {k \in T : k <= n}
           F == {0 .. k : k \in B}
<1>1. IsFiniteSet(S) BY FS_Interval
<1>2. IsWellFoundedOn(StrictSubsetOrdering(S), SUBSET S)
  BY <1>1, FS_StrictSubsetOrderingWellFounded, FS_FiniteSubsetsOfFinite
<1>3. F # {} /\ F \subseteq SUBSET S
  <2>1. n \in B OBVIOUS
  <2>2. ASSUME NEW k \in B PROVE 0 .. k \in SUBSET S OBVIOUS
  <2> HIDE DEF B, S
  <2> QED BY <2>1, <2>2
<1>4. \E x \in F : \A y \in F : ~(<<y, x>> \in StrictSubsetOrdering(S))
  <2> HIDE DEF F, S
  <2> QED BY <1>2, <1>3, WFMin
<1>5. PICK k \in B : \A y \in F : ~(<<y, 0 .. k>> \in StrictSubsetOrdering(S))
  BY <1>4
<1>6. ASSUME NEW m \in T, m < k PROVE FALSE
  <2>1. m \in B BY <1>6
  <2>2. 0 .. m \subseteq 0 .. k /\ k \in 0 .. k /\ k \notin 0 .. m BY <1>6
  <2>3. 0 .. m \subseteq S /\ 0 .. k \subseteq S BY <2>1
  <2>4. 0 .. m \in F BY <2>1
  <2> HIDE DEF S, F, B
  <2>5. <<0 .. m, 0 .. k>> \in StrictSubsetOrdering(S)
    BY <2>2, <2>3 DEF StrictSubsetOrdering
  <2> QED BY <1>5, <2>4, <2>5
<1> QED BY <1>6

\* Induction, with a set for the predicate.
LEMMA NumberInduction ==
  ASSUME NEW T, 0 \in T, \A n \in Nat : n \in T => n + 1 \in T
  PROVE  Nat \subseteq T
<1> DEFINE B == Nat \ T
<1> SUFFICES ASSUME B # {} PROVE FALSE OBVIOUS
<1>1. PICK n \in B : \A m \in B : n <= m BY LeastNumber
<1>2. n # 0 /\ n - 1 \in Nat BY <1>1
<1>3. n - 1 \in T BY <1>1, <1>2
<1> QED BY <1>2, <1>3

\* Induction up to a bound.
LEMMA BoundedInduction ==
  ASSUME NEW N \in Nat, NEW T, 0 \in T,
         \A n \in 1 .. N : n - 1 \in T => n \in T
  PROVE  0 .. N \subseteq T
<1> DEFINE U == {n \in Nat : n <= N => n \in T}
<1>1. 0 \in U OBVIOUS
<1>2. ASSUME NEW n \in Nat, n \in U PROVE n + 1 \in U
  <2> SUFFICES ASSUME n + 1 <= N PROVE n + 1 \in T OBVIOUS
  <2> n + 1 \in 1 .. N /\ n \in T /\ (n + 1) - 1 = n BY <1>2
  <2> QED OBVIOUS
<1>3. Nat \subseteq U
  <2> HIDE DEF U
  <2> QED BY <1>1, <1>2, NumberInduction
<1> QED BY <1>3

\* The functions that a recursion with values in V applies at each x in S.
StepsOver(S, V) == [S -> [V -> V]]

\* g is the recursion over the numbers up to N.
IsIteration(g, N, V, base, step) ==
  /\ g \in [0 .. N -> V]
  /\ g[0] = base
  /\ \A n \in 1 .. N : g[n] = step[n][g[n - 1]]

\* g is the recursion over the subsets of S that takes out pick[s] of s.
IsFold(g, S, V, base, step, pick) ==
  /\ g \in [SUBSET S -> V]
  /\ \A s \in SUBSET S :
        g[s] = IF s = {} THEN base ELSE step[pick[s]][g[s \ {pick[s]}]]

\* A function of the numbers up to N exists when each value is got from the
\* one before.
LEMMA IterationExists ==
  ASSUME NEW N \in Nat, NEW V, NEW base \in V, NEW step \in StepsOver(1 .. N, V)
  PROVE  \E g : IsIteration(g, N, V, base, step)
<1> USE DEF StepsOver
<1> DEFINE T == {k \in 0 .. N : \E g : IsIteration(g, k, V, base, step)}
<1>1. 0 \in T
  <2> DEFINE g == [n \in 0 .. 0 |-> base]
  <2>1. IsIteration(g, 0, V, base, step) BY DEF IsIteration
  <2> QED BY <2>1
<1>2. ASSUME NEW k \in 1 .. N, k - 1 \in T PROVE k \in T
  <2>1. PICK g : IsIteration(g, k - 1, V, base, step) BY <1>2
  <2>2. /\ g \in [0 .. (k - 1) -> V]
        /\ g[0] = base
        /\ \A n \in 1 .. (k - 1) : g[n] = step[n][g[n - 1]]
    BY <2>1 DEF IsIteration
  <2> DEFINE h == [n \in 0 .. k |-> IF n = k THEN step[k][g[k - 1]] ELSE g[n]]
  <2>3. h \in [0 .. k -> V]
    <3>1. step[k][g[k - 1]] \in V
      <4> step[k] \in [V -> V] /\ g[k - 1] \in V BY <2>2
      <4> QED OBVIOUS
    <3>2. ASSUME NEW n \in 0 .. k, n # k PROVE g[n] \in V BY <2>2, <3>2
    <3> QED BY <3>1, <3>2
  <2>4. h[0] = base BY <2>2
  <2>5. ASSUME NEW n \in 1 .. k PROVE h[n] = step[n][h[n - 1]]
    <3>1. CASE n = k BY <3>1
    <3>2. CASE n # k
      <4> n \in 1 .. k - 1 /\ n - 1 \in 0 .. k /\ n - 1 # k BY <3>2
      <4> QED BY <2>2, <3>2
    <3> QED BY <3>1, <3>2
  <2> HIDE DEF h
  <2>6. IsIteration(h, k, V, base, step) BY <2>3, <2>4, <2>5 DEF IsIteration
  <2> QED BY <2>6
<1>3. N \in T
  <2> HIDE DEF T
  <2>1. 0 .. N \subseteq T BY <1>1, <1>2, BoundedInduction
  <2> QED BY <2>1
<1> QED BY <1>3

\* A recursion over the subsets of a finite set exists: what the folds of
\* the library are defined by.
LEMMA FoldExists ==
  ASSUME NEW S, IsFiniteSet(S), NEW V, NEW base \in V,
         NEW step \in StepsOver(S, V),
         NEW pick, \A s \in SUBSET S : s # {} => pick[s] \in s
  PROVE  \E g : IsFold(g, S, V, base, step, pick)
<1> USE DEF StepsOver
<1> DEFINE C(k) == {s \in SUBSET S : Cardinality(s) <= k}
           Body(g, s) == IF s = {} THEN base ELSE step[pick[s]][g[s \ {pick[s]}]]
           T == {k \in Nat : \E g \in [C(k) -> V] : \A s \in C(k) : g[s] = Body(g, s)}
<1>0. \A s \in SUBSET S : IsFiniteSet(s) /\ Cardinality(s) \in Nat
  BY FS_Subset, FS_CardinalityType
<1>1. 0 \in T
  <2> DEFINE g == [s \in C(0) |-> base]
  <2>1. \A s \in C(0) : s = {} BY <1>0, FS_EmptySet
  <2>2. g \in [C(0) -> V] /\ \A s \in C(0) : g[s] = Body(g, s) BY <2>1
  <2> HIDE DEF g, C, Body
  <2> QED BY <2>2
<1>2. ASSUME NEW k \in Nat, k \in T PROVE k + 1 \in T
  <2>1. PICK g \in [C(k) -> V] : \A s \in C(k) : g[s] = Body(g, s) BY <1>2
  <2> DEFINE h == [s \in C(k + 1) |-> Body(g, s)]
  <2>2. ASSUME NEW s \in C(k + 1), s # {}
        PROVE  /\ pick[s] \in S
               /\ s \ {pick[s]} \in C(k)
               /\ s \ {pick[s]} \in C(k + 1)
    <3>1. pick[s] \in s BY <2>2
    <3>2. Cardinality(s \ {pick[s]}) = Cardinality(s) - 1
      BY <1>0, <3>1, FS_RemoveElement
    <3> QED BY <1>0, <3>1, <3>2
  <2>3. h \in [C(k + 1) -> V]
    <3> SUFFICES ASSUME NEW s \in C(k + 1) PROVE Body(g, s) \in V OBVIOUS
    <3>1. CASE s = {} BY <3>1
    <3>2. CASE s # {}
      <4>1. g[s \ {pick[s]}] \in V /\ pick[s] \in S BY <2>2, <3>2
      <4>2. step[pick[s]] \in [V -> V] BY <4>1
      <4>3. step[pick[s]][g[s \ {pick[s]}]] \in V BY <4>1, <4>2
      <4> QED BY <3>2, <4>3
    <3> QED BY <3>1, <3>2
  <2>4. ASSUME NEW s \in C(k) PROVE s \in C(k + 1) /\ g[s] = h[s]
    <3>1. s \in C(k + 1) BY <1>0
    <3>2. g[s] = Body(g, s) BY <2>1
    <3> HIDE DEF Body, C
    <3> QED BY <3>1, <3>2
  <2>5. ASSUME NEW s \in C(k + 1) PROVE h[s] = Body(h, s)
    <3>1. CASE s = {} BY <3>1
    <3>2. CASE s # {}
      <4>1. g[s \ {pick[s]}] = h[s \ {pick[s]}] BY <2>2, <2>4, <3>2
      <4>2. h[s] = Body(g, s) OBVIOUS
      <4> HIDE DEF h
      <4> QED BY <3>2, <4>1, <4>2
    <3> QED BY <3>1, <3>2
  <2> HIDE DEF h, Body, C
  <2> QED BY <2>3, <2>5
<1>3. Cardinality(S) \in T
  <2> HIDE DEF T
  <2>1. Nat \subseteq T BY <1>1, <1>2, NumberInduction
  <2> QED BY <2>1, FS_CardinalityType
<1>4. C(Cardinality(S)) = SUBSET S
  <2> \A s \in SUBSET S : Cardinality(s) <= Cardinality(S) BY FS_Subset
  <2> QED OBVIOUS
<1> HIDE DEF C
<1> QED BY <1>3, <1>4 DEF IsFold

\* What a recursive function is defined by, as a function of the function it
\* calls: at x it only calls what has a lower rank than x.
CallsLower(step, rank, D, V) ==
  /\ step \in [[D -> V] -> [D -> V]]
  /\ \A f, g \in [D -> V] : \A x \in D :
        (\A y \in D : rank[y] < rank[x] => f[y] = g[y]) => step[f][x] = step[g][x]

\* A recursion that only calls itself for arguments of a lower rank has a
\* function that satisfies it.
LEMMA RankedExists ==
  ASSUME NEW D, NEW V, NEW N \in Nat, NEW rank \in [D -> 0 .. N],
         NEW step, CallsLower(step, rank, D, V), NEW start \in [D -> V]
  PROVE  \E f \in [D -> V] : f = step[f]
<1> DEFINE T == {k \in Nat : \E f \in [D -> V] :
                               \A x \in D : rank[x] < k => f[x] = step[f][x]}
<1>0. \A x \in D : rank[x] \in Nat /\ rank[x] < N + 1 OBVIOUS
<1>1. 0 \in T
  <2> \A x \in D : rank[x] < 0 => start[x] = step[start][x] BY <1>0
  <2> QED OBVIOUS
<1>2. ASSUME NEW k \in Nat, k \in T PROVE k + 1 \in T
  <2>1. PICK f \in [D -> V] : \A x \in D : rank[x] < k => f[x] = step[f][x]
    BY <1>2
  <2> DEFINE g == step[f]
  <2>2. g \in [D -> V] BY DEF CallsLower
  <2>3. ASSUME NEW x \in D, rank[x] < k + 1 PROVE g[x] = step[g][x]
    <3>1. ASSUME NEW y \in D, rank[y] < rank[x] PROVE f[y] = g[y]
      <4> rank[y] < k BY <1>0, <2>3, <3>1
      <4> QED BY <2>1
    <3> HIDE DEF g
    <3>2. step[f][x] = step[g][x] BY <2>2, <3>1 DEF CallsLower
    <3> QED BY <3>2 DEF g
  <2> HIDE DEF g
  <2> QED BY <2>2, <2>3
<1>3. N + 1 \in T
  <2> HIDE DEF T
  <2>1. Nat \subseteq T BY <1>1, <1>2, NumberInduction
  <2> QED BY <2>1
<1>4. PICK f \in [D -> V] : \A x \in D : rank[x] < N + 1 => f[x] = step[f][x]
  BY <1>3
<1>5. step[f] \in [D -> V] /\ \A x \in D : f[x] = step[f][x]
  BY <1>0, <1>4 DEF CallsLower
<1>6. f = step[f] BY <1>5
<1> QED BY <1>6

-----------------------------------------------------------------------------
(* Folds over a sequence.                                                  *)

\* FoldLeft takes the last index of what is left.
LEMMA LastIndex ==
  ASSUME NEW i \in Nat \ {0}
  PROVE  /\ Max(1 .. i) = i
         /\ (1 .. i) \ {i} = 1 .. (i - 1)
<1>1. i \in 1 .. i /\ \A y \in 1 .. i : i >= y OBVIOUS
<1>2. \A x \in 1 .. i : (\A y \in 1 .. i : x >= y) => x = i OBVIOUS
<1>3. Max(1 .. i) = i BY <1>1, <1>2 DEF Max
<1> QED BY <1>3

\* The index a fold takes of a set of indices that is not empty is one of
\* them.
LEMMA LastMember ==
  ASSUME NEW n \in Nat, NEW s \in SUBSET (1 .. n), s # {}
  PROVE  Max(s) \in s
<1> DEFINE T == {n - i : i \in s}
<1>1. T \in SUBSET Nat /\ T # {}
  <2> \A i \in s : n - i \in Nat OBVIOUS
  <2> QED OBVIOUS
<1>2. PICK k \in T : \A m \in T : k <= m
  <2> HIDE DEF T
  <2> QED BY <1>1, LeastNumber
<1>3. PICK i \in s : k = n - i OBVIOUS
<1>4. ASSUME NEW j \in s PROVE i >= j
  <2>1. n - i <= n - j BY <1>2, <1>3
  <2> QED BY <2>1
<1> QED BY <1>4 DEF Max

\* The function by which FoldLeft is defined exists.
LEMMA FoldLeftExists ==
  ASSUME NEW n \in Nat, NEW V, NEW base \in V, NEW step \in StepsOver(1 .. n, V)
  PROVE  \E g : IsFold(g, 1 .. n, V, base, step, [s \in SUBSET (1 .. n) |-> Max(s)])
<1> DEFINE S == 1 .. n
           pick == [s \in SUBSET S |-> Max(s)]
<1>1. IsFiniteSet(S) BY FS_Interval
<1>2. ASSUME NEW s \in SUBSET S, s # {} PROVE pick[s] \in s BY <1>2, LastMember
<1>3. \E g : IsFold(g, S, V, base, step, pick)
  <2> step \in StepsOver(S, V) OBVIOUS
  <2> HIDE DEF pick, S
  <2> QED BY <1>1, <1>2, FoldExists
<1> QED BY <1>3

\* What holds initially and after each turn of a fold holds of its result;
\* c is the function that FoldLeft chooses.
LEMMA FoldLeftTurns ==
  ASSUME NEW n \in Nat, NEW V, NEW c, c[{}] \in V,
         \A i \in 1 .. n : c[1 .. (i - 1)] \in V => c[1 .. i] \in V
  PROVE  \A i \in 0 .. n : c[1 .. i] \in V
<1> DEFINE T == {i \in 0 .. n : c[1 .. i] \in V}
<1>1. 0 \in T
  <2> 1 .. 0 = {} OBVIOUS
  <2> QED OBVIOUS
<1>2. \A i \in 1 .. n : i - 1 \in T => i \in T OBVIOUS
<1>3. 0 .. n \subseteq T
  <2> HIDE DEF T
  <2> QED BY <1>1, <1>2, BoundedInduction
<1> QED BY <1>3

\* Induction over the subsets of a finite set: each is got by adding one
\* member of its own to a smaller one.
LEMMA SubsetInduction ==
  ASSUME NEW S, IsFiniteSet(S), NEW T, {} \in T,
         \A s \in SUBSET S : s # {} => \E x \in s : s \ {x} \in T => s \in T
  PROVE  SUBSET S \subseteq T
<1> DEFINE U == {n \in Nat : \A s \in SUBSET S : Cardinality(s) = n => s \in T}
<1>1. \A s \in SUBSET S : IsFiniteSet(s) /\ Cardinality(s) \in Nat
  BY FS_Subset, FS_CardinalityType
<1>2. 0 \in U
  <2> \A s \in SUBSET S : Cardinality(s) = 0 => s = {} BY <1>1, FS_EmptySet
  <2> QED OBVIOUS
<1>3. ASSUME NEW n \in Nat, n \in U PROVE n + 1 \in U
  <2> SUFFICES ASSUME NEW s \in SUBSET S, Cardinality(s) = n + 1 PROVE s \in T
    OBVIOUS
  <2>1. s # {}
    <3>1. Cardinality(s) # 0 OBVIOUS
    <3>2. IsFiniteSet(s) BY <1>1
    <3> QED BY <3>1, <3>2, FS_EmptySet
  <2>2. PICK x \in s : s \ {x} \in T => s \in T BY <2>1
  <2>3. Cardinality(s \ {x}) = n
    <3>1. IsFiniteSet(s) BY <1>1
    <3>2. Cardinality(s \ {x}) = Cardinality(s) - 1 BY <3>1, FS_RemoveElement
    <3> QED BY <3>2
  <2> QED BY <1>3, <2>2, <2>3
<1>4. Nat \subseteq U
  <2> HIDE DEF U
  <2> QED BY <1>2, <1>3, NumberInduction
<1> QED BY <1>1, <1>4

-----------------------------------------------------------------------------
(* Closures.                                                               *)

\* Sets that grow by what their members point at, as often as there are
\* members of I: such a chain exists and ends in the least set that holds x
\* and whatever its members point at.
Pointers(I) == [I -> SUBSET I]

IsChain(up, I, N, x, P) ==
  /\ up \in [0 .. N -> SUBSET I]
  /\ up[0] = {x}
  /\ \A n \in 1 .. N : up[n] = up[n - 1] \cup UNION {P[y] : y \in up[n - 1]}

\* Such a chain exists, so a recursive definition of one is one.
LEMMA ClosureExists ==
  ASSUME NEW I, NEW N \in Nat, NEW x \in I, NEW P \in Pointers(I)
  PROVE  \E up : IsChain(up, I, N, x, P)
<1> USE DEF Pointers
<1> DEFINE V == SUBSET I
           base == {x}
           step == [n \in 1 .. N |-> [L \in V |-> L \cup UNION {P[y] : y \in L}]]
<1>1. step \in StepsOver(1 .. N, V) /\ base \in V BY DEF StepsOver
<1>2. \E g : IsIteration(g, N, V, base, step)
  <2> HIDE DEF step, base, V
  <2> QED BY <1>1, IterationExists
<1>3. PICK g \in [0 .. N -> V] :
         g[0] = base /\ \A n \in 1 .. N : g[n] = step[n][g[n - 1]]
  BY <1>2 DEF IsIteration
<1>4. ASSUME NEW n \in 1 .. N
      PROVE  g[n] = g[n - 1] \cup UNION {P[y] : y \in g[n - 1]}
  <2>1. g[n - 1] \in V OBVIOUS
  <2>2. g[n] = step[n][g[n - 1]] BY <1>3
  <2> HIDE DEF V
  <2> QED BY <2>1, <2>2
<1>5. IsChain(g, I, N, x, P) BY <1>3, <1>4 DEF IsChain
<1> QED BY <1>5

\* After as many steps as there are members, the chain has stopped: it holds
\* x and whatever its members point at (what recurse_up collects).
LEMMA ClosureLeast ==
  ASSUME NEW I, IsFiniteSet(I), NEW x \in I, NEW P \in Pointers(I), NEW up,
         up[0] = {x},
         \A n \in 1 .. Cardinality(I) : up[n - 1] \subseteq I =>
            \A z : z \in up[n] <=> z \in up[n - 1] \/ \E y \in up[n - 1] : z \in P[y]
  PROVE  LET U == up[Cardinality(I)]
         IN  /\ U \subseteq I
             /\ x \in U
             /\ \A y \in U : P[y] \subseteq U
             /\ \A W : x \in W /\ (\A y \in W \cap I : P[y] \subseteq W) => U \subseteq W
<1> DEFINE N == Cardinality(I)
           Closed(L) == \A y \in L : P[y] \subseteq L
<1>0. N \in Nat BY FS_CardinalityType
<1>1. \A n \in 1 .. N : up[n - 1] \subseteq I =>
         \A z : z \in up[n] <=> z \in up[n - 1] \/ \E y \in up[n - 1] : z \in P[y]
  OBVIOUS
<1> HIDE DEF N
<1>3. \A n \in 0 .. N : up[n] \subseteq I /\ x \in up[n]
  <2> DEFINE T == {n \in 0 .. N : up[n] \subseteq I /\ x \in up[n]}
  <2>1. 0 \in T BY <1>0
  <2>2. ASSUME NEW n \in 1 .. N, n - 1 \in T PROVE n \in T
    <3> up[n - 1] \subseteq I /\ x \in up[n - 1] BY <2>2
    <3> QED BY <1>1 DEF Pointers
  <2> HIDE DEF T
  <2>3. 0 .. N \subseteq T BY <1>0, <2>1, <2>2, BoundedInduction
  <2> QED BY <2>3 DEF T
<1>2. \A n \in 1 .. N : \A z :
         z \in up[n] <=> z \in up[n - 1] \/ \E y \in up[n - 1] : z \in P[y]
  <2> \A n \in 1 .. N : n - 1 \in 0 .. N BY <1>0
  <2> QED BY <1>1, <1>3
<1>4. \A n \in 0 .. N : Closed(up[n]) \/ Cardinality(up[n]) >= n + 1
  <2> DEFINE T == {n \in 0 .. N : Closed(up[n]) \/ Cardinality(up[n]) >= n + 1}
  <2>1. 0 \in T
    <3> Cardinality({x}) = 1 BY FS_Singleton
    <3> QED BY <1>0
  <2>2. ASSUME NEW n \in 1 .. N, n - 1 \in T PROVE n \in T
    <3>0. n - 1 \in 0 .. N BY <1>0
    <3>1. CASE Closed(up[n - 1])
      <4>1. \A z : z \in up[n] <=> z \in up[n - 1] BY <1>2, <3>1
      <4>2. up[n] = up[n - 1] BY <4>1
      <4> QED BY <3>1, <4>2
    <3>2. CASE ~Closed(up[n - 1])
      <4>1. up[n - 1] \subseteq up[n] /\ up[n - 1] # up[n] BY <1>2, <3>2
      <4>2. IsFiniteSet(up[n]) /\ IsFiniteSet(up[n - 1]) BY <1>3, <3>0, FS_Subset
      <4>3. Cardinality(up[n - 1]) < Cardinality(up[n])
        BY <4>1, <4>2, FS_Subset, FS_CardinalityType
      <4>4. Cardinality(up[n - 1]) >= n BY <2>2, <3>2
      <4>5. Cardinality(up[n]) \in Nat /\ Cardinality(up[n - 1]) \in Nat
        BY <4>2, FS_CardinalityType
      <4> QED BY <4>5, <4>3, <4>4
    <3> QED BY <3>1, <3>2
  <2> HIDE DEF T
  <2>3. 0 .. N \subseteq T BY <1>0, <2>1, <2>2, BoundedInduction
  <2> QED BY <2>3 DEF T
<1>5. Closed(up[N])
  <2>1. Cardinality(up[N]) <= N BY <1>0, <1>3, FS_Subset DEF N
  <2>2. Cardinality(up[N]) \in Nat BY <1>0, <1>3, FS_Subset, FS_CardinalityType
  <2>3. Closed(up[N]) \/ Cardinality(up[N]) >= N + 1 BY <1>0, <1>4
  <2> HIDE DEF Closed
  <2> QED BY <1>0, <2>1, <2>2, <2>3
<1>6. ASSUME NEW W, x \in W, \A y \in W \cap I : P[y] \subseteq W
      PROVE  up[N] \subseteq W
  <2> DEFINE T == {n \in 0 .. N : up[n] \subseteq W}
  <2>1. 0 \in T BY <1>0, <1>6
  <2>2. ASSUME NEW n \in 1 .. N, n - 1 \in T PROVE n \in T
    <3> n - 1 \in 0 .. N BY <1>0
    <3> up[n - 1] \subseteq W \cap I BY <1>3, <2>2
    <3> QED BY <1>2, <1>6
  <2> HIDE DEF T
  <2>3. 0 .. N \subseteq T BY <1>0, <2>1, <2>2, BoundedInduction
  <2> QED BY <1>0, <2>3 DEF T
<1>7. up[N] \subseteq I /\ x \in up[N] BY <1>0, <1>3
<1> HIDE DEF Closed
<1> QED BY <1>7, <1>5, <1>6 DEF N, Closed

-----------------------------------------------------------------------------
(* FlattenSeq.                                                             *)

\* start[i] elements come from the first i of the sequences ss.
IsStart(start, ss) ==
  /\ start \in [0 .. Len(ss) -> Nat]
  /\ start[0] = 0
  /\ \A i \in 1 .. Len(ss) : start[i] = start[i - 1] + Len(ss[i])

\* The places at which the members of a flattened sequence start are well
\* defined.
LEMMA StartExists ==
  ASSUME NEW X, NEW ss \in Seq(Seq(X))
  PROVE  \E start : IsStart(start, ss)
<1> DEFINE n == Len(ss)
           step == [i \in 1 .. n |-> [v \in Nat |-> v + Len(ss[i])]]
<1>1. n \in Nat /\ \A i \in 1 .. n : ss[i] \in Seq(X) OBVIOUS
<1>2. step \in StepsOver(1 .. n, Nat)
  <2> \A i \in 1 .. n : Len(ss[i]) \in Nat BY <1>1
  <2> QED BY DEF StepsOver
<1>3. PICK start : IsIteration(start, n, Nat, 0, step)
  <2> HIDE DEF step, n
  <2> QED BY <1>1, <1>2, IterationExists
<1>4. IsStart(start, ss)
  <2>1. /\ start \in [0 .. n -> Nat] /\ start[0] = 0
        /\ \A i \in 1 .. n : start[i] = step[i][start[i - 1]]
    BY <1>3 DEF IsIteration
  <2>2. \A i \in 1 .. n : start[i - 1] \in Nat
    <3> \A i \in 1 .. n : i - 1 \in 0 .. n BY <1>1
    <3> HIDE DEF n
    <3> QED BY <2>1
  <2>3. \A i \in 1 .. n : start[i] = start[i - 1] + Len(ss[i]) BY <2>1, <2>2
  <2> HIDE DEF step
  <2> QED BY <2>1, <2>3 DEF IsStart
<1> QED BY <1>4

\* The places are numbers, and each is its predecessor and a length.
LEMMA StartTyped ==
  ASSUME NEW X, NEW ss \in Seq(Seq(X)), NEW start, IsStart(start, ss)
  PROVE  \A i \in 1 .. Len(ss) : /\ start[i] \in Nat /\ start[i - 1] \in Nat
                                 /\ ss[i] \in Seq(X) /\ Len(ss[i]) \in Nat
                                 /\ start[i] = start[i - 1] + Len(ss[i])
<1> SUFFICES ASSUME NEW i \in 1 .. Len(ss)
             PROVE  /\ start[i] \in Nat /\ start[i - 1] \in Nat
                    /\ ss[i] \in Seq(X) /\ Len(ss[i]) \in Nat
                    /\ start[i] = start[i - 1] + Len(ss[i])
  OBVIOUS
<1>1. i \in 0 .. Len(ss) /\ i - 1 \in 0 .. Len(ss) OBVIOUS
<1>2. start[i] \in Nat /\ start[i - 1] \in Nat BY <1>1 DEF IsStart
<1>3. ss[i] \in Seq(X) OBVIOUS
<1> QED BY <1>2, <1>3 DEF IsStart

\* The places do not decrease.
LEMMA StartMonotonic ==
  ASSUME NEW X, NEW ss \in Seq(Seq(X)), NEW start, IsStart(start, ss),
         NEW j \in 0 .. Len(ss), NEW i \in 0 .. j
  PROVE  start[i] <= start[j] /\ start[i] \in Nat /\ start[j] \in Nat
<1>1. Len(ss) \in Nat OBVIOUS
<1> DEFINE T == {k \in 0 .. Len(ss) : i <= k => start[i] <= start[k]}
<1>2. \A k \in 0 .. Len(ss) : start[k] \in Nat BY DEF IsStart
<1>3. 0 \in T
  <2> i <= 0 => i = 0 OBVIOUS
  <2> QED BY <1>1, <1>2
<1>4. ASSUME NEW k \in 1 .. Len(ss), k - 1 \in T PROVE k \in T
  <2> SUFFICES ASSUME i <= k PROVE start[i] <= start[k] BY <1>1
  <2>1. start[k] = start[k - 1] + Len(ss[k]) /\ start[k - 1] \in Nat /\ Len(ss[k]) \in Nat
    BY StartTyped
  <2>2. CASE i = k BY <1>2, <2>2
  <2>3. CASE i # k
    <3>1. start[i] <= start[k - 1] BY <1>1, <1>4, <2>3
    <3>2. start[i] \in Nat BY <1>1, <1>2
    <3> QED BY <2>1, <3>1, <3>2
  <2> QED BY <2>2, <2>3
<1>5. 0 .. Len(ss) \subseteq T
  <2> HIDE DEF T
  <2> QED BY <1>1, <1>3, <1>4, BoundedInduction
<1>6. j \in T /\ j >= i BY <1>5
<1>7. i \in 0 .. Len(ss) BY <1>1
<1> QED BY <1>2, <1>6, <1>7

\* F has the elements of the first n of the sequences ss, one after the other.
IsFlat(F, start, ss, n, X) ==
  /\ F \in Seq(X)
  /\ Len(F) = start[n]
  /\ \A i \in 1 .. n : \A r \in 1 .. Len(ss[i]) : F[start[i - 1] + r] = ss[i][r]
  /\ \A k \in 1 .. start[n] : \E i \in 1 .. n : \E r \in 1 .. Len(ss[i]) :
        k = start[i - 1] + r

\* A flattened sequence stays one when the next member is appended.
LEMMA FlatAppend ==
  ASSUME NEW X, NEW ss \in Seq(Seq(X)), NEW start, IsStart(start, ss),
         NEW n \in 1 .. Len(ss), NEW F, IsFlat(F, start, ss, n - 1, X)
  PROVE  IsFlat(F \o ss[n], start, ss, n, X)
<1>1. /\ Len(ss) \in Nat /\ n - 1 \in 0 .. Len(ss)
      /\ \A i \in 1 .. Len(ss) : ss[i] \in Seq(X) /\ Len(ss[i]) \in Nat
  OBVIOUS
<1>2. start[n] = start[n - 1] + Len(ss[n]) /\ start[n - 1] \in Nat
  BY StartTyped
<1>3. F \in Seq(X) /\ Len(F) = start[n - 1] BY DEF IsFlat
<1> DEFINE G == F \o ss[n]
<1>4. /\ G \in Seq(X) /\ Len(G) = start[n]
      /\ \A k \in 1 .. start[n - 1] : G[k] = F[k]
      /\ \A r \in 1 .. Len(ss[n]) : G[start[n - 1] + r] = ss[n][r]
  <2> DEFINE m == start[n - 1]
             s == ss[n]
  <2>1. /\ m \in Nat /\ s \in Seq(X) /\ Len(F) = m /\ Len(s) \in Nat
        /\ start[n] = m + Len(s)
    BY <1>1, <1>2, <1>3
  <2> HIDE DEF m, s
  <2>2. /\ F \o s \in Seq(X) /\ Len(F \o s) = m + Len(s)
        /\ \A k \in 1 .. m + Len(s) : (F \o s)[k] = IF k <= m THEN F[k] ELSE s[k - m]
    BY <1>3, <2>1, ConcatProperties
  <2>3. \A k \in 1 .. m : (F \o s)[k] = F[k] BY <2>1, <2>2
  <2>4. \A r \in 1 .. Len(s) : (F \o s)[m + r] = s[r]
    <3> SUFFICES ASSUME NEW r \in 1 .. Len(s) PROVE (F \o s)[m + r] = s[r] OBVIOUS
    <3> m + r \in 1 .. m + Len(s) /\ ~(m + r <= m) /\ (m + r) - m = r BY <2>1
    <3> QED BY <2>2
  <2> QED BY <2>1, <2>2, <2>3, <2>4 DEF m, s
<1> HIDE DEF G
<1>5. ASSUME NEW i \in 1 .. n, NEW r \in 1 .. Len(ss[i])
      PROVE  G[start[i - 1] + r] = ss[i][r]
  <2>1. CASE i = n BY <1>4, <2>1
  <2>2. CASE i # n
    <3>1. i \in 1 .. (n - 1) /\ i - 1 \in 0 .. Len(ss) /\ i \in 0 .. (n - 1)
      BY <1>1, <2>2
    <3>2. start[i] <= start[n - 1] /\ start[i] \in Nat BY <1>1, <3>1, StartMonotonic
    <3>3. start[i] = start[i - 1] + Len(ss[i]) /\ start[i - 1] \in Nat
      BY <1>1, <3>1, StartTyped
    <3>4. start[i - 1] + r \in 1 .. start[n - 1]
      <4>1. Len(ss[i]) \in Nat BY <1>1, <3>1
      <4>2. r \in Nat /\ 1 <= r /\ r <= Len(ss[i]) BY <4>1
      <4>3. \A a, b, d, q \in Nat : a + b <= d /\ 1 <= q /\ q <= b => a + q \in 1 .. d
        OBVIOUS
      <4>4. start[n - 1] \in Nat BY <1>2
      <4>5. start[i - 1] + Len(ss[i]) <= start[n - 1] BY <3>2, <3>3
      <4> QED BY <3>3, <4>1, <4>2, <4>3, <4>4, <4>5
    <3>5. F[start[i - 1] + r] = ss[i][r] BY <3>1 DEF IsFlat
    <3> QED BY <1>4, <3>4, <3>5
  <2> QED BY <2>1, <2>2
<1>6. ASSUME NEW k \in 1 .. start[n]
      PROVE  \E i \in 1 .. n : \E r \in 1 .. Len(ss[i]) : k = start[i - 1] + r
  <2>1. CASE k <= start[n - 1]
    <3>1. k \in 1 .. start[n - 1] BY <1>2, <2>1
    <3>2. \A i \in 1 .. (n - 1) : i \in 1 .. n BY <1>1
    <3> QED BY <3>1, <3>2 DEF IsFlat
  <2>2. CASE k > start[n - 1]
    <3>1. k - start[n - 1] \in 1 .. Len(ss[n]) BY <1>1, <1>2, <2>2
    <3>2. k = start[n - 1] + (k - start[n - 1]) BY <1>2
    <3>3. n \in 1 .. n OBVIOUS
    <3> QED BY <3>1, <3>2, <3>3
  <2> QED BY <1>2, <2>1, <2>2
<1>7. IsFlat(G, start, ss, n, X) BY <1>4, <1>5, <1>6 DEF IsFlat
<1> QED BY <1>7 DEF G

\* FlattenSeq puts the sequences one after the other.
LEMMA FlattenIsFlat ==
  ASSUME NEW X, NEW ss \in Seq(Seq(X)), NEW start, IsStart(start, ss)
  PROVE  IsFlat(FlattenSeq(ss), start, ss, Len(ss), X)
<1> DEFINE n == Len(ss)
           V == Seq(X)
           step == [i \in 1 .. n |-> [v \in V |-> v \o ss[i]]]
           IsFlatten(f) == f = [i \in 1 .. n |-> IF i = 1 THEN ss[i] ELSE f[i - 1] \o ss[i]]
           c == CHOOSE f : IsFlatten(f)
<1>1. n \in Nat /\ <<>> \in V /\ \A i \in 1 .. n : ss[i] \in V OBVIOUS
<1>2. step \in StepsOver(1 .. n, V)
  <2> \A i \in 1 .. n : \A v \in V : v \o ss[i] \in V BY <1>1
  <2> HIDE DEF V
  <2> QED BY DEF StepsOver
<1>3. PICK g : IsIteration(g, n, V, <<>>, step)
  <2> HIDE DEF step, n, V
  <2> QED BY <1>1, <1>2, IterationExists
<1> DEFINE f == [i \in 1 .. n |-> g[i]]
<1>4. IsFlatten(f)
  <2>1. /\ g \in [0 .. n -> V] /\ g[0] = <<>>
        /\ \A i \in 1 .. n : g[i] = step[i][g[i - 1]]
    BY <1>3 DEF IsIteration
  <2>2. ASSUME NEW i \in 1 .. n PROVE f[i] = IF i = 1 THEN ss[i] ELSE f[i - 1] \o ss[i]
    <3>1. g[i - 1] \in V
      <4> i - 1 \in 0 .. n BY <1>1
      <4> HIDE DEF V, n
      <4> QED BY <2>1
    <3>2. g[i] = g[i - 1] \o ss[i]
      <4> HIDE DEF V
      <4> QED BY <2>1, <3>1
    <3>3. <<>> \o ss[i] = ss[i] BY <1>1
    <3>4. i # 1 => i - 1 \in 1 .. n BY <1>1
    <3>5. CASE i = 1
      <4> g[i - 1] = <<>> BY <2>1, <3>5
      <4> QED BY <3>2, <3>3, <3>5
    <3>6. CASE i # 1
      <4> f[i] = g[i] /\ f[i - 1] = g[i - 1] BY <3>4, <3>6
      <4> QED BY <3>2, <3>6
    <3> QED BY <3>5, <3>6
  <2> HIDE DEF n
  <2> QED BY <2>2
<1>5. IsFlatten(c)
  <2> HIDE DEF IsFlatten, f
  <2> QED BY <1>4
<1>6. CASE n = 0
  <2>1. FlattenSeq(ss) = ss BY <1>6 DEF FlattenSeq
  <2>2. ss = <<>> BY <1>6
  <2>3. start[0] = 0 BY DEF IsStart
  <2>4. <<>> \in Seq(X) /\ Len(<<>>) = 0 OBVIOUS
  <2>5. 1 .. 0 = {} OBVIOUS
  <2>6. IsFlat(<<>>, start, ss, 0, X) BY <2>3, <2>4, <2>5 DEF IsFlat
  <2> QED BY <1>6, <2>1, <2>2, <2>6
<1>7. CASE n # 0
  <2>1. FlattenSeq(ss) = c[n] BY <1>1, <1>7 DEF FlattenSeq
  <2> HIDE DEF c
  <2>2. \A i \in 1 .. n : c[i] = IF i = 1 THEN ss[i] ELSE c[i - 1] \o ss[i]
    BY <1>5
  <2> HIDE DEF IsFlatten
  <2> DEFINE T == {i \in 0 .. n : i # 0 => IsFlat(c[i], start, ss, i, X)}
  <2>3. 0 \in T BY <1>1
  <2>4. ASSUME NEW i \in 1 .. n, i - 1 \in T PROVE i \in T
    <3>1. CASE i = 1
      <4>1. IsFlat(<<>>, start, ss, 0, X)
        <5>1. start[0] = 0 BY DEF IsStart
        <5>2. <<>> \in Seq(X) /\ Len(<<>>) = 0 OBVIOUS
        <5>3. 1 .. 0 = {} OBVIOUS
        <5> QED BY <5>1, <5>2, <5>3 DEF IsFlat
      <4>2. IsFlat(<<>> \o ss[1], start, ss, 1, X)
        <5> 1 \in 1 .. Len(ss) /\ 1 - 1 = 0 BY <1>1, <1>7
        <5> QED BY <4>1, FlatAppend
      <4>3. c[1] = <<>> \o ss[1] BY <1>1, <1>7, <2>2
      <4> QED BY <1>1, <1>7, <3>1, <4>2, <4>3
    <3>2. CASE i # 1
      <4>1. IsFlat(c[i - 1], start, ss, i - 1, X) BY <1>1, <2>4, <3>2
      <4>2. IsFlat(c[i - 1] \o ss[i], start, ss, i, X) BY <4>1, FlatAppend
      <4>3. c[i] = c[i - 1] \o ss[i] BY <2>2, <3>2
      <4>4. IsFlat(c[i], start, ss, i, X) BY <4>2, <4>3
      <4> HIDE DEF n
      <4> QED BY <1>1, <4>4
    <3> QED BY <3>1, <3>2
  <2>5. 0 .. n \subseteq T
    <3> HIDE DEF T, n
    <3> QED BY <1>1, <2>3, <2>4, BoundedInduction
  <2> QED BY <1>1, <1>7, <2>1, <2>5
<1> QED BY <1>6, <1>7

\* A flattened sequence has the members of the sequences it was made of.
LEMMA FlattenTyped ==
  ASSUME NEW X, NEW ss \in Seq(Seq(X))
  PROVE  /\ FlattenSeq(ss) \in Seq(X)
         /\ ToSet(FlattenSeq(ss)) = UNION {ToSet(ss[i]) : i \in 1 .. Len(ss)}
<1>1. PICK start : IsStart(start, ss) BY StartExists
<1> DEFINE F == FlattenSeq(ss)
           n == Len(ss)
<1>2. IsFlat(F, start, ss, n, X) BY <1>1, FlattenIsFlat
<1>3. n \in Nat /\ \A i \in 1 .. n : ss[i] \in Seq(X) /\ DOMAIN ss[i] = 1 .. Len(ss[i])
  OBVIOUS
<1> HIDE DEF F, n
<1>4. F \in Seq(X) /\ DOMAIN F = 1 .. start[n] BY <1>2 DEF IsFlat
<1>5. ASSUME NEW x \in ToSet(F) PROVE \E i \in 1 .. n : x \in ToSet(ss[i])
  <2>1. PICK k \in 1 .. start[n] : x = F[k] BY <1>4 DEF ToSet
  <2>2. PICK i \in 1 .. n : \E r \in 1 .. Len(ss[i]) : k = start[i - 1] + r
    BY <1>2, <2>1 DEF IsFlat
  <2>4. PICK r \in 1 .. Len(ss[i]) : k = start[i - 1] + r BY <2>2
  <2>3. x = ss[i][r] BY <1>2, <2>1, <2>4 DEF IsFlat
  <2> QED BY <1>3, <2>3 DEF ToSet
<1>6. ASSUME NEW i \in 1 .. n, NEW x \in ToSet(ss[i]) PROVE x \in ToSet(F)
  <2>1. PICK r \in 1 .. Len(ss[i]) : x = ss[i][r] BY <1>3 DEF ToSet
  <2>2. F[start[i - 1] + r] = x BY <1>2, <2>1 DEF IsFlat
  <2>3. start[i] <= start[n] /\ start[n] \in Nat /\ start[i] \in Nat
    <3>1. n \in 0 .. Len(ss) /\ i \in 0 .. n BY <1>3 DEF n
    <3>2. ASSUME NEW m \in 0 .. Len(ss), NEW h \in 0 .. m
          PROVE  start[h] <= start[m] /\ start[h] \in Nat /\ start[m] \in Nat
      BY <1>1, StartMonotonic
    <3> QED BY <3>1, <3>2
  <2>4. /\ start[i] = start[i - 1] + Len(ss[i]) /\ start[i - 1] \in Nat
        /\ Len(ss[i]) \in Nat
    <3> i \in 1 .. Len(ss) BY DEF n
    <3> QED BY <1>1, StartTyped
  <2>5. start[i - 1] + r \in 1 .. start[n]
    <3>1. r <= Len(ss[i]) /\ r \in Nat /\ r >= 1 BY <2>4
    <3>2. start[i - 1] + r <= start[i] BY <2>4, <3>1
    <3> QED BY <2>3, <2>4, <3>1, <3>2
  <2> QED BY <1>4, <2>2, <2>5 DEF ToSet
<1>7. ToSet(F) = UNION {ToSet(ss[i]) : i \in 1 .. n} BY <1>5, <1>6
<1> QED BY <1>4, <1>7 DEF F, n

\* There is one sequence with the members of others one after the other.
LEMMA FlatOnce ==
  ASSUME NEW X, NEW ss \in Seq(Seq(X)), NEW start, IsStart(start, ss),
         NEW F, NEW G, IsFlat(F, start, ss, Len(ss), X), IsFlat(G, start, ss, Len(ss), X)
  PROVE  F = G
<1>1. F \in Seq(X) /\ G \in Seq(X) /\ Len(F) = start[Len(ss)] /\ Len(G) = start[Len(ss)]
  BY DEF IsFlat
<1>2. ASSUME NEW k \in 1 .. start[Len(ss)] PROVE F[k] = G[k]
  <2>1. PICK i \in 1 .. Len(ss) : \E r \in 1 .. Len(ss[i]) : k = start[i - 1] + r
    BY DEF IsFlat
  <2>2. PICK r \in 1 .. Len(ss[i]) : k = start[i - 1] + r BY <2>1
  <2>3. F[start[i - 1] + r] = ss[i][r] /\ G[start[i - 1] + r] = ss[i][r] BY DEF IsFlat
  <2> QED BY <2>2, <2>3
<1> QED BY <1>1, <1>2, SeqEqual

\* A sequence more is put at the end.
LEMMA FlattenAppend ==
  ASSUME NEW X, NEW ss \in Seq(Seq(X)), NEW x \in Seq(X)
  PROVE  FlattenSeq(Append(ss, x)) = FlattenSeq(ss) \o x
<1> DEFINE tt == Append(ss, x)
           n == Len(ss)
           F == FlattenSeq(ss)
<1>1. /\ n \in Nat /\ tt \in Seq(Seq(X)) /\ Len(tt) = n + 1 /\ tt[n + 1] = x
      /\ \A i \in 1 .. n : tt[i] = ss[i]
  OBVIOUS
<1> HIDE DEF tt, F
<1>2. PICK start : IsStart(start, tt) BY <1>1, StartExists
<1> DEFINE start0 == [i \in 0 .. n |-> start[i]]
<1>3. IsStart(start0, ss)
  <2>1. /\ start \in [0 .. n + 1 -> Nat] /\ start[0] = 0
        /\ \A i \in 1 .. n + 1 : start[i] = start[i - 1] + Len(tt[i])
    BY <1>1, <1>2 DEF IsStart
  <2>2. start0 \in [0 .. n -> Nat] /\ start0[0] = 0 BY <1>1, <2>1
  <2>3. ASSUME NEW i \in 1 .. n PROVE start0[i] = start0[i - 1] + Len(ss[i])
    <3>1. i \in 1 .. n + 1 /\ i \in 0 .. n /\ i - 1 \in 0 .. n BY <1>1
    <3>2. start0[i] = start[i] /\ start0[i - 1] = start[i - 1] BY <3>1
    <3>3. tt[i] = ss[i] BY <1>1
    <3> HIDE DEF start0, n
    <3> QED BY <2>1, <3>1, <3>2, <3>3
  <2> HIDE DEF start0
  <2> QED BY <2>2, <2>3 DEF IsStart
<1>4. IsFlat(F, start0, ss, n, X)
  <2> HIDE DEF start0
  <2> QED BY <1>3, FlattenIsFlat DEF F
<1>5. IsFlat(F, start, tt, n, X)
  <2>1. start0[n] = start[n] /\ \A i \in 1 .. n : start0[i - 1] = start[i - 1]
    BY <1>1
  <2> HIDE DEF start0, n
  <2>2. F \in Seq(X) /\ Len(F) = start[n] BY <1>4, <2>1 DEF IsFlat
  <2>3. \A i \in 1 .. n : \A r \in 1 .. Len(tt[i]) : F[start[i - 1] + r] = tt[i][r]
    BY <1>1, <1>4, <2>1 DEF IsFlat
  <2>4. ASSUME NEW k \in 1 .. start[n]
        PROVE  \E i \in 1 .. n : \E r \in 1 .. Len(tt[i]) : k = start[i - 1] + r
    <3>1. PICK i \in 1 .. n : \E r \in 1 .. Len(ss[i]) : k = start0[i - 1] + r
      BY <1>4, <2>1 DEF IsFlat
    <3> QED BY <1>1, <2>1, <3>1
  <2> QED BY <2>2, <2>3, <2>4 DEF IsFlat
<1>6. IsFlat(F \o x, start, tt, n + 1, X)
  <2>1. n + 1 \in 1 .. Len(tt) /\ (n + 1) - 1 = n BY <1>1
  <2> HIDE DEF n
  <2>2. IsFlat(F \o tt[n + 1], start, tt, n + 1, X) BY <1>1, <1>2, <1>5, <2>1, FlatAppend
  <2> QED BY <1>1, <2>2
<1>7. IsFlat(FlattenSeq(tt), start, tt, n + 1, X)
  <2>1. IsFlat(FlattenSeq(tt), start, tt, Len(tt), X) BY <1>1, <1>2, FlattenIsFlat
  <2> QED BY <1>1, <2>1
<1>8. FlattenSeq(tt) = F \o x
  <2> HIDE DEF n
  <2> QED BY <1>1, <1>2, <1>6, <1>7, FlatOnce
<1> QED BY <1>8 DEF tt, F

\* Nothing flattens to nothing.
LEMMA FlattenNone == FlattenSeq(<<>>) = <<>>
  BY DEF FlattenSeq

\* Induction over the sequences of members of D, each got by appending one.
LEMMA SeqInduction ==
  ASSUME NEW D, NEW T, <<>> \in T,
         \A s \in Seq(D), x \in D : s \in T => Append(s, x) \in T
  PROVE  Seq(D) \subseteq T
<1> DEFINE U == {n \in Nat : \A s \in Seq(D) : Len(s) = n => s \in T}
<1>1. 0 \in U
  <2> \A s \in Seq(D) : Len(s) = 0 => s = <<>> OBVIOUS
  <2> QED OBVIOUS
<1>2. ASSUME NEW n \in Nat, n \in U PROVE n + 1 \in U
  <2> SUFFICES ASSUME NEW s \in Seq(D), Len(s) = n + 1 PROVE s \in T OBVIOUS
  <2> DEFINE f == SubSeq(s, 1, n)
  <2>1. f \in Seq(D) /\ Len(f) = n /\ s[n + 1] \in D OBVIOUS
  <2>2. s = Append(f, s[n + 1]) OBVIOUS
  <2>3. f \in T BY <1>2, <2>1
  <2> HIDE DEF f
  <2> QED BY <2>1, <2>2, <2>3
<1>3. Nat \subseteq U
  <2> HIDE DEF U
  <2> QED BY <1>1, <1>2, NumberInduction
<1> QED BY <1>3

FlatMap(f, s) == FlattenSeq([i \in DOMAIN s |-> f[s[i]]])

\* f has a sequence of members of X for each member of D.
Gives(f, D, X) == \A x \in D : f[x] \in Seq(X)

\* They are of what the sequences are of.
LEMMA FlatMapTyped ==
  ASSUME NEW f, NEW D, NEW X, Gives(f, D, X), NEW s \in Seq(D)
  PROVE  FlatMap(f, s) \in Seq(X)
<1> DEFINE ss == [i \in DOMAIN s |-> f[s[i]]]
<1>1. ss \in Seq(Seq(X))
  <2>1. Len(s) \in Nat /\ DOMAIN s = 1 .. Len(s) OBVIOUS
  <2>2. \A i \in 1 .. Len(s) : f[s[i]] \in Seq(X) BY DEF Gives
  <2> QED BY <2>1, <2>2
<1> HIDE DEF ss
<1>2. FlattenSeq(ss) \in Seq(X) BY <1>1, FlattenTyped
<1> QED BY <1>2 DEF FlatMap, ss

\* They depend on what the sequence has.
LEMMA FlatMapSame ==
  ASSUME NEW f, NEW g, NEW D, \A x \in D : f[x] = g[x], NEW s \in Seq(D)
  PROVE  FlatMap(f, s) = FlatMap(g, s)
<1>1. [i \in DOMAIN s |-> f[s[i]]] = [i \in DOMAIN s |-> g[s[i]]] OBVIOUS
<1> QED BY <1>1 DEF FlatMap

\* Nothing has no sequences.
LEMMA FlatMapNone == ASSUME NEW f PROVE FlatMap(f, <<>>) = <<>>
<1>1. [i \in DOMAIN <<>> |-> f[<<>>[i]]] = <<>> OBVIOUS
<1> QED BY <1>1, FlattenNone DEF FlatMap

\* The sequence of an element that is appended is put at the end.
LEMMA FlatMapAppend ==
  ASSUME NEW f, NEW D, NEW X, Gives(f, D, X), NEW s \in Seq(D), NEW y \in D
  PROVE  FlatMap(f, Append(s, y)) = FlatMap(f, s) \o f[y]
<1> DEFINE t == Append(s, y)
           ss == [i \in DOMAIN s |-> f[s[i]]]
           tt == [i \in DOMAIN t |-> f[t[i]]]
<1>1. /\ Len(s) \in Nat /\ DOMAIN s = 1 .. Len(s) /\ DOMAIN t = 1 .. Len(s) + 1
      /\ t[Len(s) + 1] = y /\ \A i \in 1 .. Len(s) : t[i] = s[i] /\ s[i] \in D
  OBVIOUS
<1>2. ss \in Seq(Seq(X)) /\ Len(ss) = Len(s) /\ f[y] \in Seq(X) BY <1>1 DEF Gives
<1>3. tt = Append(ss, f[y])
  <2> HIDE DEF t
  <2>1. DOMAIN Append(ss, f[y]) = 1 .. Len(s) + 1 BY <1>2
  <2>2. ASSUME NEW i \in 1 .. Len(s) + 1 PROVE tt[i] = Append(ss, f[y])[i]
    <3>1. tt[i] = f[t[i]] BY <1>1
    <3>2. CASE i = Len(s) + 1
      <4> Append(ss, f[y])[i] = f[y] BY <1>2, <3>2
      <4> QED BY <1>1, <3>1, <3>2
    <3>3. CASE i # Len(s) + 1
      <4>1. i \in 1 .. Len(s) BY <1>1, <3>3
      <4>2. Append(ss, f[y])[i] = ss[i] BY <1>2, <4>1
      <4>3. ss[i] = f[s[i]] BY <1>1, <4>1
      <4> QED BY <1>1, <3>1, <4>1, <4>2, <4>3
    <3> QED BY <3>2, <3>3
  <2>3. DOMAIN tt = 1 .. Len(s) + 1 BY <1>1
  <2>4. tt = [i \in 1 .. Len(s) + 1 |-> tt[i]] BY <2>3
  <2>5. Append(ss, f[y]) = [i \in 1 .. Len(s) + 1 |-> Append(ss, f[y])[i]]
    <3>1. Append(ss, f[y]) \in Seq(Seq(X)) BY <1>2
    <3> HIDE DEF ss
    <3> QED BY <2>1, <3>1
  <2> HIDE DEF ss, tt
  <2> QED BY <2>2, <2>4, <2>5
<1>4. FlattenSeq(Append(ss, f[y])) = FlattenSeq(ss) \o f[y]
  <2> HIDE DEF ss
  <2> QED BY <1>2, FlattenAppend
<1> QED BY <1>3, <1>4 DEF FlatMap

\* One element has its own.
LEMMA FlatMapOne ==
  ASSUME NEW f, NEW D, NEW X, Gives(f, D, X), NEW y \in D
  PROVE  FlatMap(f, <<y>>) = f[y]
<1>1. <<y>> = Append(<<>>, y) /\ <<>> \in Seq(D) OBVIOUS
<1>2. FlatMap(f, Append(<<>>, y)) = FlatMap(f, <<>>) \o f[y] BY <1>1, FlatMapAppend
<1>3. f[y] \in Seq(X) BY DEF Gives
<1> QED BY <1>1, <1>2, <1>3, FlatMapNone, ConcatEmptySeq

\* The sequences of two are those of the one and of the other.
LEMMA FlatMapConcat ==
  ASSUME NEW f, NEW D, NEW X, Gives(f, D, X), NEW s \in Seq(D), NEW t \in Seq(D)
  PROVE  FlatMap(f, s \o t) = FlatMap(f, s) \o FlatMap(f, t)
<1> DEFINE T == {u \in Seq(D) : FlatMap(f, s \o u) = FlatMap(f, s) \o FlatMap(f, u)}
<1>1. \A u \in Seq(D) : FlatMap(f, u) \in Seq(X) BY FlatMapTyped
<1>5. \A a, b, c \in Seq(X) : (a \o b) \o c = a \o (b \o c) BY ConcatAssociative
<1>2. <<>> \in T
  <2>1. s \o <<>> = s /\ FlatMap(f, s) \o <<>> = FlatMap(f, s) BY <1>1, ConcatEmptySeq
  <2>2. FlatMap(f, <<>>) = <<>> /\ <<>> \in Seq(D) BY FlatMapNone
  <2>3. FlatMap(f, s \o <<>>) = FlatMap(f, s) \o FlatMap(f, <<>>) BY <2>1, <2>2
  <2> QED BY <2>2, <2>3
<1>3. ASSUME NEW u \in Seq(D), NEW y \in D, u \in T PROVE Append(u, y) \in T
  <2>1. s \o Append(u, y) = Append(s \o u, y) /\ s \o u \in Seq(D) /\ Append(u, y) \in Seq(D)
    OBVIOUS
  <2>2. FlatMap(f, Append(s \o u, y)) = FlatMap(f, s \o u) \o f[y] BY <2>1, FlatMapAppend
  <2>3. FlatMap(f, Append(u, y)) = FlatMap(f, u) \o f[y] BY FlatMapAppend
  <2>5. f[y] \in Seq(X) /\ FlatMap(f, s) \in Seq(X) /\ FlatMap(f, u) \in Seq(X)
    BY <1>1 DEF Gives
  <2>4. (FlatMap(f, s) \o FlatMap(f, u)) \o f[y] = FlatMap(f, s) \o (FlatMap(f, u) \o f[y])
    BY <1>5, <2>5
  <2> QED BY <1>3, <2>1, <2>2, <2>3, <2>4
<1>4. Seq(D) \subseteq T
  <2> HIDE DEF T
  <2> QED BY <1>2, <1>3, SeqInduction
<1> QED BY <1>4

\* The sequences of sequences are the sequences of what each element has.
LEMMA FlatMapFlatMap ==
  ASSUME NEW g, NEW D, NEW E, Gives(g, D, E),
         NEW f, NEW X, Gives(f, E, X), NEW s \in Seq(D)
  PROVE  FlatMap(f, FlatMap(g, s)) = FlatMap([x \in D |-> FlatMap(f, g[x])], s)
<1> DEFINE h == [x \in D |-> FlatMap(f, g[x])]
           T == {u \in Seq(D) : FlatMap(f, FlatMap(g, u)) = FlatMap(h, u)}
<1>0. \A x \in D : g[x] \in Seq(E) BY DEF Gives
<1>1. Gives(h, D, X) /\ \A x \in D : h[x] = FlatMap(f, g[x])
  <2> \A x \in D : FlatMap(f, g[x]) \in Seq(X) BY <1>0, FlatMapTyped
  <2> QED BY DEF Gives
<1>2. \A u \in Seq(D) : FlatMap(g, u) \in Seq(E) BY FlatMapTyped
<1> HIDE DEF h
<1>3. <<>> \in T BY FlatMapNone
<1>4. ASSUME NEW u \in Seq(D), NEW y \in D, u \in T PROVE Append(u, y) \in T
  <2>1. FlatMap(g, Append(u, y)) = FlatMap(g, u) \o g[y] BY FlatMapAppend
  <2>2. FlatMap(h, Append(u, y)) = FlatMap(h, u) \o h[y] BY <1>1, FlatMapAppend
  <2>3. FlatMap(f, FlatMap(g, u) \o g[y]) = FlatMap(f, FlatMap(g, u)) \o FlatMap(f, g[y])
    BY <1>0, <1>2, FlatMapConcat
  <2>4. Append(u, y) \in Seq(D) OBVIOUS
  <2>5. h[y] = FlatMap(f, g[y]) BY <1>1
  <2>6. FlatMap(f, FlatMap(g, u)) = FlatMap(h, u) BY <1>4
  <2>7. FlatMap(f, FlatMap(g, Append(u, y))) = FlatMap(h, Append(u, y))
    BY <2>1, <2>2, <2>3, <2>5, <2>6
  <2> HIDE DEF Gives
  <2> QED BY <2>4, <2>7
<1>5. Seq(D) \subseteq T
  <2> HIDE DEF T
  <2> QED BY <1>3, <1>4, SeqInduction
<1> QED BY <1>5 DEF h

\* They are empty when each is.
LEMMA FlatMapEmpty ==
  ASSUME NEW f, NEW D, \A x \in D : f[x] = <<>>, NEW s \in Seq(D)
  PROVE  FlatMap(f, s) = <<>>
<1>1. FlatMap(f, s) \in Seq({})
  <2> Gives(f, D, {}) BY EmptySeq DEF Gives
  <2> QED BY FlatMapTyped
<1> QED BY <1>1

\* They are the sequence itself when each is its element.
LEMMA FlatMapSelf ==
  ASSUME NEW f, NEW D, \A x \in D : f[x] = <<x>>, NEW s \in Seq(D)
  PROVE  FlatMap(f, s) = s
<1> DEFINE T == {u \in Seq(D) : FlatMap(f, u) = u}
<1>1. Gives(f, D, D)
  <2> \A x \in D : <<x>> \in Seq(D) OBVIOUS
  <2> QED BY DEF Gives
<1>2. <<>> \in T BY FlatMapNone
<1>3. ASSUME NEW u \in Seq(D), NEW y \in D, u \in T PROVE Append(u, y) \in T
  <2>1. FlatMap(f, Append(u, y)) = FlatMap(f, u) \o f[y] BY <1>1, FlatMapAppend
  <2>2. u \o <<y>> = Append(u, y) /\ Append(u, y) \in Seq(D) OBVIOUS
  <2>3. f[y] = <<y>> OBVIOUS
  <2> QED BY <1>3, <2>1, <2>2, <2>3
<1>4. Seq(D) \subseteq T
  <2> HIDE DEF T
  <2> QED BY <1>2, <1>3, SeqInduction
<1> QED BY <1>4

-----------------------------------------------------------------------------
(* A tree walked by a function that calls itself for the children, and what  *)
(* it meets at each depth.  The nodes are numbers, each lower than those of  *)
(* its children; live are the ones that are walked.                          *)

\* Induction from the last node to the first.
LEMMA DownInduction ==
  ASSUME NEW N \in Nat, NEW T,
         \A n \in 1 .. N : (\A m \in 1 .. N : m > n => m \in T) => n \in T
  PROVE  1 .. N \subseteq T
<1> DEFINE U == {k \in Nat : \A n \in 1 .. N : N - n < k => n \in T}
<1>1. 0 \in U OBVIOUS
<1>2. ASSUME NEW k \in Nat, k \in U PROVE k + 1 \in U
  <2> SUFFICES ASSUME NEW n \in 1 .. N, N - n < k + 1 PROVE n \in T OBVIOUS
  <2>1. \A m \in 1 .. N : m > n => N - m < k OBVIOUS
  <2> QED BY <1>2, <2>1
<1>3. Nat \subseteq U
  <2> HIDE DEF U
  <2> QED BY <1>1, <1>2, NumberInduction
<1>4. N \in U BY <1>3
<1> QED BY <1>4

\* The nodes of depth d, each of itself.
AtD(N, dp, d) == [n \in 1 .. N |-> IF dp[n] = d THEN <<n>> ELSE <<>>]

OneDeeper(live, dp, n) == {c \in live : c > n /\ dp[c] = dp[n] + 1}

\* K has the children of a node that are not culled, W its walk that recurses
\* and dp its depth.
IsWalked(N, live, K, W, dp) ==
  /\ N \in Nat \ {0} /\ live \subseteq 1 .. N
  /\ \A n \in 1 .. N : dp[n] \in 1 .. n
  /\ Gives(K, live, live) /\ Gives(W, live, live)
  /\ \A n \in live : K[n] \in Seq(OneDeeper(live, dp, n)) /\ W[n] = <<n>> \o FlatMap(W, K[n])

\* What the walk of a node meets at a depth.
Level(N, W, dp, d, n) == FlatMap(AtD(N, dp, d), W[n])
Levels(N, live, W, dp, d) == [n \in live |-> Level(N, W, dp, d, n)]

\* The nodes of a depth are given as sequences of them.
LEMMA AtDGives ==
  ASSUME NEW N, NEW live \in SUBSET (1 .. N), NEW dp, NEW d
  PROVE  Gives(AtD(N, dp, d), live, live)
<1> SUFFICES ASSUME NEW n \in live PROVE AtD(N, dp, d)[n] \in Seq(live) BY DEF Gives
<1>1. AtD(N, dp, d)[n] = IF dp[n] = d THEN <<n>> ELSE <<>> BY DEF AtD
<1>2. <<n>> \in Seq(live) /\ <<>> \in Seq(live) OBVIOUS
<1> QED BY <1>1, <1>2

\* What is met at a depth are nodes that are walked.
LEMMA LevelTyped ==
  ASSUME NEW N, NEW live, NEW K, NEW W, NEW dp, NEW d, IsWalked(N, live, K, W, dp),
         NEW n \in live
  PROVE  Level(N, W, dp, d, n) \in Seq(live)
<1>1. live \in SUBSET (1 .. N) /\ W[n] \in Seq(live) BY DEF IsWalked, Gives
<1>2. Gives(AtD(N, dp, d), live, live) BY <1>1, AtDGives
<1> QED BY <1>1, <1>2, FlatMapTyped DEF Level

\* It is the node, if it is of that depth, and what its children meet.
LEMMA LevelSplit ==
  ASSUME NEW N, NEW live, NEW K, NEW W, NEW dp, NEW d, IsWalked(N, live, K, W, dp),
         NEW n \in live
  PROVE  Level(N, W, dp, d, n) =
           (IF dp[n] = d THEN <<n>> ELSE <<>>)
           \o FlatMap(Levels(N, live, W, dp, d), K[n])
<1> DEFINE A == AtD(N, dp, d)
           h == [c \in live |-> FlatMap(A, W[c])]
<1>1. /\ live \in SUBSET (1 .. N) /\ Gives(K, live, live) /\ Gives(W, live, live)
      /\ K[n] \in Seq(live) /\ W[n] = <<n>> \o FlatMap(W, K[n])
  BY DEF IsWalked, Gives
<1>2. Gives(A, live, live) BY <1>1, AtDGives
<1>3. A[n] = IF dp[n] = d THEN <<n>> ELSE <<>> BY <1>1 DEF AtD
<1> HIDE DEF A
<1>4. <<n>> \in Seq(live) /\ FlatMap(W, K[n]) \in Seq(live)
  <2>1. FlatMap(W, K[n]) \in Seq(live) BY <1>1, FlatMapTyped
  <2> QED BY <2>1
<1>5. FlatMap(A, <<n>> \o FlatMap(W, K[n])) = FlatMap(A, <<n>>) \o FlatMap(A, FlatMap(W, K[n]))
  BY <1>2, <1>4, FlatMapConcat
<1>6. FlatMap(A, <<n>>) = A[n] BY <1>2, FlatMapOne
<1>7. FlatMap(A, FlatMap(W, K[n])) = FlatMap(h, K[n])
  BY <1>1, <1>2, FlatMapFlatMap
<1>8. FlatMap(A, W[n]) = A[n] \o FlatMap(h, K[n]) BY <1>1, <1>5, <1>6, <1>7
<1> QED BY <1>3, <1>8 DEF Level, Levels, A

\* OneDeeper its depth a node meets nothing.
LEMMA LevelBefore ==
  ASSUME NEW N, NEW live, NEW K, NEW W, NEW dp, IsWalked(N, live, K, W, dp),
         NEW n \in live, NEW d \in Nat, d < dp[n]
  PROVE  Level(N, W, dp, d, n) = <<>>
<1> DEFINE h == Levels(N, live, W, dp, d)
           T == {m \in 1 .. N : m \in live /\ d < dp[m] => Level(N, W, dp, d, m) = <<>>}
<1>1. N \in Nat /\ live \subseteq 1 .. N /\ \A m \in 1 .. N : dp[m] \in Nat
  BY DEF IsWalked
<1>2. ASSUME NEW m \in 1 .. N, \A c \in 1 .. N : c > m => c \in T PROVE m \in T
  <2> SUFFICES ASSUME m \in live, d < dp[m] PROVE Level(N, W, dp, d, m) = <<>>
    OBVIOUS
  <2>1. K[m] \in Seq(OneDeeper(live, dp, m)) BY DEF IsWalked
  <2>2. ASSUME NEW c \in OneDeeper(live, dp, m) PROVE h[c] = <<>>
    <3>1. c \in live /\ c > m /\ d < dp[c] /\ c \in 1 .. N BY <1>1 DEF OneDeeper
    <3>2. c \in T BY <1>2, <3>1
    <3> QED BY <3>1, <3>2 DEF Levels
  <2>3. FlatMap(h, K[m]) = <<>>
    <3> HIDE DEF h
    <3> QED BY <2>1, <2>2, FlatMapEmpty
  <2>4. Level(N, W, dp, d, m) = (IF dp[m] = d THEN <<m>> ELSE <<>>) \o FlatMap(h, K[m])
    BY LevelSplit
  <2>5. dp[m] # d BY <1>1
  <2>6. Level(N, W, dp, d, m) = <<>> \o <<>>
    <3> HIDE DEF h
    <3> QED BY <2>3, <2>4, <2>5
  <2> QED BY <2>6
<1>3. 1 .. N \subseteq T
  <2> HIDE DEF T
  <2> QED BY <1>1, <1>2, DownInduction
<1> QED BY <1>1, <1>3

\* At its depth it meets itself.
LEMMA LevelOwn ==
  ASSUME NEW N, NEW live, NEW K, NEW W, NEW dp, IsWalked(N, live, K, W, dp),
         NEW n \in live
  PROVE  Level(N, W, dp, dp[n], n) = <<n>>
<1> DEFINE d == dp[n]
           h == Levels(N, live, W, dp, d)
<1>1. N \in Nat /\ live \subseteq 1 .. N /\ \A m \in 1 .. N : dp[m] \in Nat
  BY DEF IsWalked
<1>2. K[n] \in Seq(OneDeeper(live, dp, n)) BY DEF IsWalked
<1>3. ASSUME NEW c \in OneDeeper(live, dp, n) PROVE h[c] = <<>>
  <2>1. c \in live /\ d \in Nat /\ d < dp[c] BY <1>1 DEF OneDeeper
  <2>2. Level(N, W, dp, d, c) = <<>> BY <2>1, LevelBefore
  <2> QED BY <2>1, <2>2 DEF Levels
<1>4. FlatMap(h, K[n]) = <<>>
  <2> HIDE DEF h
  <2> QED BY <1>2, <1>3, FlatMapEmpty
<1>5. \A e : Level(N, W, dp, e, n) = (IF dp[n] = e THEN <<n>> ELSE <<>>)
                                    \o FlatMap(Levels(N, live, W, dp, e), K[n])
  BY LevelSplit
<1>6. Level(N, W, dp, d, n) = <<n>> \o <<>> BY <1>4, <1>5
<1>7. <<n>> \in Seq(live) OBVIOUS
<1> QED BY <1>6, <1>7, ConcatEmptySeq

\* What it meets next are the children of what it meets at a depth.
LEMMA LevelNext ==
  ASSUME NEW N, NEW live, NEW K, NEW W, NEW dp, IsWalked(N, live, K, W, dp),
         NEW n \in live, NEW d \in Nat, d >= dp[n]
  PROVE  Level(N, W, dp, d + 1, n) = FlatMap(K, Level(N, W, dp, d, n))
<1> DEFINE L(e, m) == Level(N, W, dp, e, m)
           h == Levels(N, live, W, dp, d)
           g == Levels(N, live, W, dp, d + 1)
           T == {m \in 1 .. N : m \in live /\ d >= dp[m] => L(d + 1, m) = FlatMap(K, L(d, m))}
<1>1. /\ N \in Nat /\ live \subseteq 1 .. N /\ \A m \in 1 .. N : dp[m] \in Nat
      /\ Gives(K, live, live)
  BY DEF IsWalked
<1>2. ASSUME NEW m \in 1 .. N, \A c \in 1 .. N : c > m => c \in T PROVE m \in T
  <2> SUFFICES ASSUME m \in live, d >= dp[m] PROVE L(d + 1, m) = FlatMap(K, L(d, m))
    OBVIOUS
  <2>1. K[m] \in Seq(OneDeeper(live, dp, m)) /\ K[m] \in Seq(live) BY DEF IsWalked, Gives
  <2>9. \A e : L(e, m) = (IF dp[m] = e THEN <<m>> ELSE <<>>)
                         \o FlatMap(Levels(N, live, W, dp, e), K[m])
    BY LevelSplit
  <2>2. L(d + 1, m) = (IF dp[m] = d + 1 THEN <<m>> ELSE <<>>) \o FlatMap(g, K[m])
    BY <2>9
  <2>3. L(d, m) = (IF dp[m] = d THEN <<m>> ELSE <<>>) \o FlatMap(h, K[m])
    BY <2>9
  <2>4. Gives(g, live, live) /\ Gives(h, live, live)
    <3> \A c \in live : L(d + 1, c) \in Seq(live) /\ L(d, c) \in Seq(live) BY LevelTyped
    <3> QED BY DEF Gives, Levels
  <2>5. FlatMap(g, K[m]) \in Seq(live) /\ FlatMap(h, K[m]) \in Seq(live)
    <3> HIDE DEF g, h, L
    <3> QED BY <2>1, <2>4, FlatMapTyped
  <2>6. L(d + 1, m) = FlatMap(g, K[m])
    <3>1. dp[m] # d + 1 BY <1>1
    <3> HIDE DEF g, L
    <3>2. L(d + 1, m) = <<>> \o FlatMap(g, K[m]) BY <2>2, <3>1
    <3> QED BY <2>5, <3>2, ConcatEmptySeq
  <2>7. CASE d = dp[m]
    <3>1. ASSUME NEW c \in OneDeeper(live, dp, m) PROVE g[c] = <<c>>
      <4>1. c \in live /\ dp[c] = d + 1 BY <2>7 DEF OneDeeper
      <4>2. Level(N, W, dp, dp[c], c) = <<c>> BY <4>1, LevelOwn
      <4> QED BY <4>1, <4>2 DEF Levels
    <3>2. FlatMap(g, K[m]) = K[m]
      <4> HIDE DEF g
      <4> QED BY <2>1, <3>1, FlatMapSelf
    <3>3. L(d, m) = <<m>> BY <2>7, LevelOwn
    <3>4. FlatMap(K, <<m>>) = K[m] BY <1>1, FlatMapOne
    <3> HIDE DEF g, L
    <3> QED BY <2>6, <3>2, <3>3, <3>4
  <2>8. CASE d # dp[m]
    <3> DEFINE k == [c \in live |-> FlatMap(K, h[c])]
    <3>1. ASSUME NEW c \in OneDeeper(live, dp, m) PROVE g[c] = k[c]
      <4>1. c \in live /\ c > m /\ dp[c] = dp[m] + 1 /\ c \in 1 .. N BY <1>1 DEF OneDeeper
      <4>2. d >= dp[c] BY <1>1, <2>8, <4>1
      <4>3. L(d + 1, c) = FlatMap(K, L(d, c)) BY <1>2, <4>1, <4>2
      <4> QED BY <4>1, <4>3 DEF Levels
    <3>2. FlatMap(g, K[m]) = FlatMap(k, K[m])
      <4> HIDE DEF g, k
      <4> QED BY <2>1, <3>1, FlatMapSame
    <3>3. FlatMap(K, FlatMap(h, K[m])) = FlatMap(k, K[m])
      <4>1. Gives(h, live, live) /\ Gives(K, live, live) /\ K[m] \in Seq(live)
        BY <1>1, <2>1, <2>4
      <4> HIDE DEF h
      <4> QED BY <4>1, FlatMapFlatMap
    <3>4. L(d, m) = FlatMap(h, K[m])
      <4> HIDE DEF h, L
      <4>1. L(d, m) = <<>> \o FlatMap(h, K[m]) BY <2>3, <2>8
      <4> QED BY <2>5, <4>1, ConcatEmptySeq
    <3> HIDE DEF g, h, k, L
    <3> QED BY <2>6, <3>2, <3>3, <3>4
  <2> QED BY <2>7, <2>8
<1>3. 1 .. N \subseteq T
  <2> HIDE DEF T
  <2> QED BY <1>1, <1>2, DownInduction
<1> QED BY <1>1, <1>3

-----------------------------------------------------------------------------
(* The breadths.                                                             *)

\* A[d] has the nodes of depth d, each the children of those before.
AreBreadths(N, live, K, dp, first, A) ==
  /\ N \in Nat \ {0} /\ Gives(K, live, live) /\ first \in Seq(live)
  /\ \A n \in live : dp[n] \in 1 .. N /\ K[n] \in Seq(OneDeeper(live, dp, n))
  /\ \A n \in ToSet(first) : dp[n] = 1
  /\ A[1] = first
  /\ \A d \in Nat \ {0} : A[d] \in Seq(live) /\ A[d + 1] = FlatMap(K, A[d])
  /\ A[N + 1] = <<>>

\* What the walk that recurses meets at the depths are the breadths.
LEMMA LevelsAreBreadths ==
  ASSUME NEW N, NEW live, NEW K, NEW W, NEW dp, IsWalked(N, live, K, W, dp),
         1 \notin live => W[1] = <<>>, NEW A,
         A = [d \in Nat \ {0} |-> Level(N, W, dp, d, 1)]
  PROVE  AreBreadths(N, live, K, dp, IF 1 \in live THEN <<1>> ELSE <<>>, A)
<1> DEFINE first == IF 1 \in live THEN <<1>> ELSE <<>>
<1>1. /\ N \in Nat \ {0} /\ live \subseteq 1 .. N /\ \A m \in 1 .. N : dp[m] \in 1 .. m
      /\ Gives(K, live, live) /\ \A n \in live : K[n] \in Seq(OneDeeper(live, dp, n))
  BY DEF IsWalked
<1>2. /\ first \in Seq(live) /\ \A n \in ToSet(first) : dp[n] = 1
      /\ dp[1] = 1
  <2>1. dp[1] = 1 BY <1>1
  <2>2. ToSet(<<>>) = {} /\ ToSet(<<1>>) = {1} BY DEF ToSet
  <2>3. 1 \in live => <<1>> \in Seq(live) OBVIOUS
  <2> QED BY <2>1, <2>2, <2>3
<1>3. \A n \in live : dp[n] \in 1 .. N BY <1>1
<1>4. CASE 1 \in live
  <2>1. A[1] = <<1>>
    <3>1. Level(N, W, dp, dp[1], 1) = <<1>> BY <1>4, LevelOwn
    <3> QED BY <1>2, <3>1
  <2>2. ASSUME NEW d \in Nat \ {0} PROVE A[d] \in Seq(live) /\ A[d + 1] = FlatMap(K, A[d])
    <3>1. Level(N, W, dp, d, 1) \in Seq(live) BY <1>4, LevelTyped
    <3>2. Level(N, W, dp, d + 1, 1) = FlatMap(K, Level(N, W, dp, d, 1))
      <4> d \in Nat /\ d >= dp[1] BY <1>2
      <4> QED BY <1>4, LevelNext
    <3>3. d + 1 \in Nat \ {0} OBVIOUS
    <3> QED BY <3>1, <3>2, <3>3
  <2>3. A[N + 1] = <<>>
    <3> DEFINE B == AtD(N, dp, N + 1)
    <3>1. \A n \in live : B[n] = <<>>
      <4> \A n \in live : dp[n] # N + 1 BY <1>1, <1>3
      <4> QED BY <1>1 DEF AtD
    <3>2. W[1] \in Seq(live) BY <1>4 DEF IsWalked, Gives
    <3>3. FlatMap(B, W[1]) = <<>>
      <4> HIDE DEF B
      <4> QED BY <3>1, <3>2, FlatMapEmpty
    <3>4. N + 1 \in Nat \ {0} BY <1>1
    <3> QED BY <3>3, <3>4 DEF Level
  <2> QED BY <1>1, <1>2, <1>3, <1>4, <2>1, <2>2, <2>3 DEF AreBreadths
<1>5. CASE 1 \notin live
  <2>1. \A d \in Nat \ {0} : A[d] = <<>>
    <3>1. \A d : FlatMap(AtD(N, dp, d), <<>>) = <<>> BY FlatMapNone
    <3> QED BY <1>5, <3>1 DEF Level
  <2>2. \A d \in Nat \ {0} : d + 1 \in Nat \ {0} OBVIOUS
  <2>3. FlatMap(K, <<>>) = <<>> BY FlatMapNone
  <2>4. <<>> \in Seq(live) OBVIOUS
  <2>5. N + 1 \in Nat \ {0} /\ 1 \in Nat \ {0} BY <1>1
  <2>6. \A d \in Nat \ {0} : A[d] \in Seq(live) /\ A[d + 1] = FlatMap(K, A[d])
    BY <2>1, <2>2, <2>3, <2>4
  <2> QED BY <1>1, <1>2, <1>3, <1>5, <2>1, <2>5, <2>6 DEF AreBreadths
<1> QED BY <1>4, <1>5

\* The breadths up to the mth, one after the other.
Prefix(A, m) == FlattenSeq([d \in 1 .. m |-> A[d]])

\* The next breadth is put at the end.
LEMMA PrefixAppend ==
  ASSUME NEW N, NEW live, NEW K, NEW dp, NEW first, NEW A,
         AreBreadths(N, live, K, dp, first, A), NEW m \in Nat
  PROVE  /\ Prefix(A, m) \in Seq(live)
         /\ Prefix(A, m + 1) = Prefix(A, m) \o A[m + 1]
<1> DEFINE ss == [d \in 1 .. m |-> A[d]]
           tt == [d \in 1 .. m + 1 |-> A[d]]
<1>1. \A d \in Nat \ {0} : A[d] \in Seq(live) BY DEF AreBreadths
<1>2. ss \in Seq(Seq(live)) /\ Len(ss) = m
  <2> \A d \in 1 .. m : d \in Nat \ {0} OBVIOUS
  <2> QED BY <1>1
<1>3. A[m + 1] \in Seq(live) BY <1>1
<1>4. tt = Append(ss, A[m + 1])
  <2>1. DOMAIN Append(ss, A[m + 1]) = 1 .. m + 1 BY <1>2
  <2>2. ASSUME NEW d \in 1 .. m + 1 PROVE tt[d] = Append(ss, A[m + 1])[d]
    <3>1. CASE d = m + 1 BY <1>2, <3>1
    <3>2. CASE d # m + 1
      <4>1. d \in 1 .. m BY <3>2
      <4>2. Append(ss, A[m + 1])[d] = ss[d]
        <5> HIDE DEF ss
        <5> QED BY <1>2, <4>1
      <4> QED BY <4>1, <4>2
    <3> QED BY <3>1, <3>2
  <2>3. Append(ss, A[m + 1]) \in Seq(Seq(live))
    <3> HIDE DEF ss
    <3> QED BY <1>2, <1>3
  <2>4. Append(ss, A[m + 1]) = [d \in 1 .. m + 1 |-> Append(ss, A[m + 1])[d]]
    <3> HIDE DEF ss
    <3> QED BY <2>1, <2>3
  <2>5. tt = [d \in 1 .. m + 1 |-> tt[d]] OBVIOUS
  <2> HIDE DEF ss, tt
  <2> QED BY <2>2, <2>4, <2>5
<1> HIDE DEF ss, tt
<1>5. FlattenSeq(ss) \in Seq(live) BY <1>2, FlattenTyped
<1>6. FlattenSeq(Append(ss, A[m + 1])) = FlattenSeq(ss) \o A[m + 1]
  BY <1>2, <1>3, FlattenAppend
<1> QED BY <1>4, <1>5, <1>6 DEF Prefix, ss, tt

\* There is nothing before the first breadth.
LEMMA PrefixNone == ASSUME NEW A PROVE Prefix(A, 0) = <<>>
<1>1. [d \in 1 .. 0 |-> A[d]] = <<>> OBVIOUS
<1> QED BY <1>1, FlattenNone DEF Prefix

\* They are the first and the children of those before.
LEMMA PrefixNext ==
  ASSUME NEW N, NEW live, NEW K, NEW dp, NEW first, NEW A,
         AreBreadths(N, live, K, dp, first, A)
  PROVE  \A m \in Nat : Prefix(A, m + 1) = first \o FlatMap(K, Prefix(A, m))
<1> DEFINE P(k) == Prefix(A, k)
           T == {k \in Nat : P(k + 1) = first \o FlatMap(K, P(k))}
<1>1. /\ Gives(K, live, live) /\ first \in Seq(live) /\ A[1] = first
      /\ \A d \in Nat \ {0} : A[d] \in Seq(live) /\ A[d + 1] = FlatMap(K, A[d])
  BY DEF AreBreadths
<1>2. \A k \in Nat : P(k) \in Seq(live) /\ P(k + 1) = P(k) \o A[k + 1]
  BY PrefixAppend
<1>3. \A k \in Nat : FlatMap(K, P(k)) \in Seq(live) BY <1>1, <1>2, FlatMapTyped
<1>4. \A a, b, c \in Seq(live) : (a \o b) \o c = a \o (b \o c) BY ConcatAssociative
<1>5. 0 \in T
  <2>1. P(0) = <<>> /\ FlatMap(K, <<>>) = <<>> BY PrefixNone, FlatMapNone
  <2> HIDE DEF P
  <2>4. 0 + 1 = 1 /\ 0 \in Nat OBVIOUS
  <2>5. P(0 + 1) = P(0) \o A[0 + 1] BY <1>2, <2>4
  <2>2. P(0 + 1) = <<>> \o first BY <1>1, <2>1, <2>4, <2>5
  <2>3. <<>> \o first = first /\ first \o <<>> = first BY <1>1, ConcatEmptySeq
  <2>6. P(0 + 1) = first \o FlatMap(K, P(0)) BY <2>1, <2>2, <2>3
  <2> QED BY <2>4, <2>6
<1>6. ASSUME NEW k \in Nat, k \in T PROVE k + 1 \in T
  <2> HIDE DEF P
  <2>1. k + 1 \in Nat \ {0} /\ k + 1 \in Nat OBVIOUS
  <2>2. P(k + 1) = first \o FlatMap(K, P(k)) BY <1>6
  <2>3. P((k + 1) + 1) = P(k + 1) \o A[(k + 1) + 1] BY <1>2, <2>1
  <2>4. A[(k + 1) + 1] = FlatMap(K, A[k + 1]) /\ A[k + 1] \in Seq(live) BY <1>1, <2>1
  <2>5. FlatMap(K, A[k + 1]) \in Seq(live) BY <1>1, <2>4, FlatMapTyped
  <2>6. P(k) \in Seq(live) /\ FlatMap(K, P(k)) \in Seq(live) BY <1>2, <1>3
  <2>7. FlatMap(K, P(k) \o A[k + 1]) = FlatMap(K, P(k)) \o FlatMap(K, A[k + 1])
    <3>1. Gives(K, live, live) /\ P(k) \in Seq(live) /\ A[k + 1] \in Seq(live)
      BY <1>1, <2>4, <2>6
    <3> QED BY <3>1, FlatMapConcat
  <2>8. (first \o FlatMap(K, P(k))) \o FlatMap(K, A[k + 1])
          = first \o (FlatMap(K, P(k)) \o FlatMap(K, A[k + 1]))
    BY <1>1, <1>4, <2>5, <2>6
  <2>9. P(k + 1) = P(k) \o A[k + 1] BY <1>2
  <2>10. P((k + 1) + 1) = first \o FlatMap(K, P(k + 1)) 
    BY <2>2, <2>3, <2>4, <2>7, <2>8, <2>9
  <2> QED BY <2>1, <2>10
<1>7. Nat \subseteq T
  <2> HIDE DEF T
  <2> QED BY <1>5, <1>6, NumberInduction
<1> QED BY <1>7

\* What is the first and its own children is all of them.
LEMMA BreadthsWhole ==
  ASSUME NEW N, NEW live, NEW K, NEW dp, NEW first, NEW A,
         AreBreadths(N, live, K, dp, first, A),
         NEW s \in Seq(live), s = first \o FlatMap(K, s)
  PROVE  s = Prefix(A, N)
<1> DEFINE P(k) == Prefix(A, k)
           Deeper(k) == {n \in live : dp[n] > k}
           T == {k \in Nat : \E r \in Seq(Deeper(k)) : s = P(k) \o r}
<1>1. /\ N \in Nat /\ Gives(K, live, live) /\ first \in Seq(live)
      /\ \A n \in live : dp[n] \in 1 .. N /\ K[n] \in Seq(OneDeeper(live, dp, n))
  BY DEF AreBreadths
<1>2. \A k \in Nat : P(k) \in Seq(live) BY PrefixAppend
<1>3. \A k \in Nat : P(k + 1) = first \o FlatMap(K, P(k)) BY PrefixNext
<1>4. \A a, b, c \in Seq(live) : (a \o b) \o c = a \o (b \o c) BY ConcatAssociative
<1>5. 0 \in T
  <2>1. P(0) = <<>> BY PrefixNone
  <2>2. Deeper(0) = live BY <1>1
  <2>3. <<>> \o s = s BY ConcatEmptySeq
  <2> HIDE DEF P, Deeper
  <2> QED BY <2>1, <2>2, <2>3
<1>6. ASSUME NEW k \in Nat, k \in T PROVE k + 1 \in T
  <2>1. PICK r \in Seq(Deeper(k)) : s = P(k) \o r BY <1>6
  <2>2. r \in Seq(live)
    <3> Deeper(k) \subseteq live OBVIOUS
    <3> HIDE DEF Deeper
    <3> QED BY <2>1, SeqMonotonic
  <2>3. Gives(K, Deeper(k), Deeper(k + 1))
    <3> SUFFICES ASSUME NEW n \in Deeper(k) PROVE K[n] \in Seq(Deeper(k + 1))
      BY DEF Gives
    <3>1. K[n] \in Seq(OneDeeper(live, dp, n)) BY <1>1
    <3>2. ASSUME NEW c \in OneDeeper(live, dp, n) PROVE c \in Deeper(k + 1)
      <4>1. c \in live /\ dp[c] = dp[n] + 1 BY DEF OneDeeper
      <4>2. dp[n] \in Nat /\ dp[n] > k BY <1>1
      <4> QED BY <4>1, <4>2
    <3>3. OneDeeper(live, dp, n) \subseteq Deeper(k + 1) BY <3>2
    <3> HIDE DEF Deeper
    <3> QED BY <3>1, <3>3, SeqMonotonic
  <2>4. FlatMap(K, r) \in Seq(Deeper(k + 1))
    <3> HIDE DEF Deeper
    <3> QED BY <2>1, <2>3, FlatMapTyped
  <2>5. FlatMap(K, r) \in Seq(live) /\ FlatMap(K, P(k)) \in Seq(live)
    BY <1>1, <1>2, <2>2, FlatMapTyped
  <2>6. P(k + 1) = first \o FlatMap(K, P(k)) BY <1>3
  <2> HIDE DEF P, Deeper
  <2>7. P(k) \in Seq(live) BY <1>2
  <2>8. FlatMap(K, P(k) \o r) = FlatMap(K, P(k)) \o FlatMap(K, r)
    BY <1>1, <2>2, <2>7, FlatMapConcat
  <2>9. s = first \o (FlatMap(K, P(k)) \o FlatMap(K, r)) BY <2>1, <2>8
  <2>10. (first \o FlatMap(K, P(k))) \o FlatMap(K, r)
           = first \o (FlatMap(K, P(k)) \o FlatMap(K, r))
    BY <1>1, <1>4, <2>5
  <2>11. s = P(k + 1) \o FlatMap(K, r) BY <2>6, <2>9, <2>10
  <2>12. \E q \in Seq(Deeper(k + 1)) : s = P(k + 1) \o q BY <2>4, <2>11
  <2>13. k + 1 \in Nat OBVIOUS
  <2> QED BY <2>12, <2>13
<1>7. Nat \subseteq T
  <2> HIDE DEF T
  <2> QED BY <1>5, <1>6, NumberInduction
<1>8. PICK r \in Seq(Deeper(N)) : s = P(N) \o r BY <1>1, <1>7
<1>9. Deeper(N) = {} BY <1>1
<1>10. r = <<>>
  <2> HIDE DEF Deeper
  <2> r \in Seq({}) BY <1>9
  <2> QED OBVIOUS
<1>11. P(N) \in Seq(live) BY <1>1, <1>2
<1> QED BY <1>8, <1>10, <1>11, ConcatEmptySeq

\* After one that is empty there is nothing more.
LEMMA BreadthsEnd ==
  ASSUME NEW N, NEW live, NEW K, NEW dp, NEW first, NEW A,
         AreBreadths(N, live, K, dp, first, A), NEW k \in Nat, A[k + 1] = <<>>
  PROVE  Prefix(A, k) = Prefix(A, N)
<1> DEFINE P(i) == Prefix(A, i)
<1>1. /\ N \in Nat /\ A[N + 1] = <<>>
      /\ \A d \in Nat \ {0} : A[d + 1] = FlatMap(K, A[d])
  BY DEF AreBreadths
<1>2. \A i \in Nat : P(i) \in Seq(live) /\ P(i + 1) = P(i) \o A[i + 1]
  BY PrefixAppend
<1>3. ASSUME NEW i \in Nat, A[i + 1] = <<>>, NEW j \in Nat PROVE P(i + j) = P(i)
  <2> DEFINE T == {e \in Nat : A[(i + e) + 1] = <<>> /\ P(i + e) = P(i)}
  <2> HIDE DEF P
  <2>1. 0 \in T BY <1>3
  <2>2. ASSUME NEW e \in Nat, e \in T PROVE e + 1 \in T
    <3>1. A[(i + e) + 1] = <<>> /\ P(i + e) = P(i) BY <2>2
    <3>2. i + e \in Nat /\ (i + e) + 1 \in Nat \ {0} /\ i + (e + 1) = (i + e) + 1
      OBVIOUS
    <3>3. A[((i + e) + 1) + 1] = <<>> BY <1>1, <3>1, <3>2, FlatMapNone
    <3>4. P((i + e) + 1) = P(i + e) \o <<>> BY <1>2, <3>1, <3>2
    <3>5. P((i + e) + 1) = P(i + e) BY <1>2, <3>2, <3>4, ConcatEmptySeq
    <3> QED BY <3>1, <3>2, <3>3, <3>5
  <2>3. Nat \subseteq T
    <3> HIDE DEF T
    <3> QED BY <2>1, <2>2, NumberInduction
  <2> QED BY <2>3
<1> HIDE DEF P
<1>4. P(k + N) = P(k) BY <1>1, <1>3
<1>5. P(N + k) = P(N) BY <1>1, <1>3
<1>6. k + N = N + k BY <1>1
<1> QED BY <1>4, <1>5, <1>6 DEF P

=============
