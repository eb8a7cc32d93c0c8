-------------------------- MODULE LazyGraph_proofs --------------------------
(***************************************************************************)
(* What LazyGraph guarantees for any finite set of ids and any width of    *)
(* the versions, and what clean_mt adds to it: that what its tasks do at   *)
(* the same time never meets.  The first part holds of LazyGraph as it is; *)
(* the assumptions of LazyGraphMt are used behind it only.                 *)
(***************************************************************************)
EXTENDS LazyGraphMt, Recursion, SequenceTheorems

-----------------------------------------------------------------------------
(* Without.                                                                *)

\* The turns of the fold: kept[i] is what is kept of the first i elements.
KeptTurns(kept, X, s, S) ==
  /\ kept \in [0 .. Len(s) -> Seq(X)]
  /\ kept[0] = <<>>
  /\ \A i \in 1 .. Len(s) :
        kept[i] = IF s[i] \in S THEN kept[i - 1] ELSE Append(kept[i - 1], s[i])

\* Without(s, S) is the last of the sequences its fold goes through.
LEMMA WithoutTurns ==
  ASSUME NEW X, NEW s \in Seq(X), NEW S
  PROVE  \E kept : KeptTurns(kept, X, s, S) /\ Without(s, S) = kept[Len(s)]
<1> DEFINE n == Len(s)
           V == Seq(X)
           last == [t \in SUBSET (1 .. n) |-> Max(t)]
           step == [i \in 1 .. n |->
                      [v \in V |-> IF s[i] \in S THEN v ELSE Append(v, s[i])]]
           IsKept(g) ==
             g = [t \in SUBSET (1 .. n) |->
                    IF t = {} THEN <<>>
                    ELSE IF s[Max(t)] \in S THEN g[t \ {Max(t)}]
                         ELSE Append(g[t \ {Max(t)}], s[Max(t)])]
           c == CHOOSE g : IsKept(g)
<1>1. /\ n \in Nat /\ DOMAIN s = 1 .. n /\ <<>> \in V
      /\ \A i \in 1 .. n : s[i] \in X
  OBVIOUS
<1>2. step \in StepsOver(1 .. n, V) BY <1>1 DEF StepsOver
<1>3. PICK g : IsFold(g, 1 .. n, V, <<>>, step, last)
  <2> HIDE DEF step, V, n
  <2> QED BY <1>1, <1>2, FoldLeftExists
<1>4. /\ g \in [SUBSET (1 .. n) -> V]
      /\ \A t \in SUBSET (1 .. n) :
            g[t] = IF t = {} THEN <<>> ELSE step[Max(t)][g[t \ {Max(t)}]]
  BY <1>3 DEF IsFold
<1>5. ASSUME NEW t \in SUBSET (1 .. n), t # {}
      PROVE  g[t] = IF s[Max(t)] \in S THEN g[t \ {Max(t)}]
                    ELSE Append(g[t \ {Max(t)}], s[Max(t)])
  <2>1. Max(t) \in 1 .. n /\ g[t \ {Max(t)}] \in V BY <1>1, <1>4, <1>5, LastMember
  <2> QED BY <1>4, <1>5, <2>1
<1>6. IsKept(g)
  <2> HIDE DEF V
  <2> QED BY <1>4, <1>5
<1>7. IsKept(c)
  <2> HIDE DEF IsKept
  <2> QED BY <1>6
<1>8. Without(s, S) = c[1 .. n] BY <1>1 DEF Without, FoldLeft, MapThenFoldSet
<1> HIDE DEF c
<1>9. /\ c[{}] = <<>>
      /\ \A t \in SUBSET (1 .. n) : t # {} =>
            c[t] = IF s[Max(t)] \in S THEN c[t \ {Max(t)}]
                   ELSE Append(c[t \ {Max(t)}], s[Max(t)])
  BY <1>7
<1> HIDE DEF IsKept
<1>10. ASSUME NEW i \in 1 .. n
       PROVE  c[1 .. i] = IF s[i] \in S THEN c[1 .. (i - 1)]
                          ELSE Append(c[1 .. (i - 1)], s[i])
  <2>1. 1 .. i \in SUBSET (1 .. n) /\ 1 \in 1 .. i BY <1>1
  <2>2. Max(1 .. i) = i /\ (1 .. i) \ {i} = 1 .. (i - 1) BY <1>1, LastIndex
  <2> QED BY <1>9, <2>1, <2>2
<1> DEFINE kept == [i \in 0 .. n |-> c[1 .. i]]
<1>11. kept \in [0 .. n -> V]
  <2>1. ASSUME NEW i \in 1 .. n, c[1 .. (i - 1)] \in V PROVE c[1 .. i] \in V
    <3> \A v \in V : Append(v, s[i]) \in V BY <1>1
    <3> HIDE DEF V, n
    <3> QED BY <1>10, <2>1
  <2> HIDE DEF V, n
  <2>2. \A i \in 0 .. n : c[1 .. i] \in V BY <1>1, <1>9, <2>1, FoldLeftTurns
  <2> QED BY <2>2
<1>12. kept[0] = <<>>
  <2> 1 .. 0 = {} OBVIOUS
  <2> QED BY <1>1, <1>9
<1>13. \A i \in 1 .. n :
         kept[i] = IF s[i] \in S THEN kept[i - 1] ELSE Append(kept[i - 1], s[i])
  <2> \A i \in 1 .. n : i \in 0 .. n /\ i - 1 \in 0 .. n BY <1>1
  <2> HIDE DEF n
  <2> QED BY <1>10
<1>14. Without(s, S) = kept[n] BY <1>1, <1>8
<1> HIDE DEF kept
<1>15. KeptTurns(kept, X, s, S) BY <1>11, <1>12, <1>13 DEF KeptTurns
<1> QED BY <1>14, <1>15

\* Without(s, S) holds the members of s that are not in S, in their order.
LEMMA WithoutProperties ==
  ASSUME NEW X, NEW s \in Seq(X), NEW S
  PROVE  /\ Without(s, S) \in Seq(X)
         /\ ToSet(Without(s, S)) = ToSet(s) \ S
         /\ \A p, q \in DOMAIN Without(s, S) : p < q =>
              \E i, j \in DOMAIN s : /\ i < j
                                     /\ s[i] = Without(s, S)[p]
                                     /\ s[j] = Without(s, S)[q]
<1> DEFINE n == Len(s)
<1>1. n \in Nat /\ DOMAIN s = 1 .. n /\ \A i \in 1 .. n : s[i] \in X OBVIOUS
<1>0. PICK kept : KeptTurns(kept, X, s, S) /\ Without(s, S) = kept[n]
  BY WithoutTurns
<1>2. /\ kept \in [0 .. n -> Seq(X)] /\ kept[0] = <<>>
      /\ \A i \in 1 .. n :
            kept[i] = IF s[i] \in S THEN kept[i - 1] ELSE Append(kept[i - 1], s[i])
      /\ Without(s, S) = kept[n]
  BY <1>0 DEF KeptTurns
<1> DEFINE Holds(k, i) ==
             /\ \A x : x \in ToSet(k) <=> x \notin S /\ \E j \in 1 .. i : x = s[j]
             /\ \A p, q \in DOMAIN k : p < q =>
                  \E a, b \in 1 .. i : a < b /\ s[a] = k[p] /\ s[b] = k[q]
           T == {i \in 0 .. n : Holds(kept[i], i)}
<1>3. 0 \in T
  <2> ToSet(<<>>) = {} BY DEF ToSet
  <2> QED BY <1>1, <1>2
<1>4. ASSUME NEW i \in 1 .. n, i - 1 \in T PROVE i \in T
  <2> DEFINE k == kept[i - 1]
  <2>1. k \in Seq(X) /\ Holds(k, i - 1) BY <1>1, <1>2, <1>4
  <2>2. CASE s[i] \in S
    <3>1. kept[i] = k BY <1>2, <2>2
    <3>2. \A j \in 1 .. i : j \in 1 .. (i - 1) \/ j = i BY <1>1
    <3>3. 1 .. (i - 1) \subseteq 1 .. i BY <1>1
    <3> HIDE DEF k
    <3>4. Holds(k, i) BY <2>1, <2>2, <3>2, <3>3
    <3> QED BY <1>1, <3>1, <3>4
  <2>3. CASE s[i] \notin S
    <3>1. kept[i] = Append(k, s[i]) BY <1>2, <2>3
    <3> DEFINE m == Append(k, s[i])
    <3> HIDE DEF k
    <3>2. /\ m \in Seq(X) /\ DOMAIN k = 1 .. Len(k) /\ Len(k) \in Nat
          /\ DOMAIN m = 1 .. (Len(k) + 1)
          /\ \A p \in DOMAIN k : m[p] = k[p]
          /\ m[Len(k) + 1] = s[i]
      BY <1>1, <2>1
    <3> HIDE DEF m
    <3>3. ToSet(m) = ToSet(k) \cup {s[i]}
      <4> \A p \in DOMAIN m : p \in DOMAIN k \/ p = Len(k) + 1 BY <3>2
      <4> DOMAIN k \subseteq DOMAIN m /\ Len(k) + 1 \in DOMAIN m BY <3>2
      <4> QED BY <3>2 DEF ToSet
    <3>4. \A j \in 1 .. i : j \in 1 .. (i - 1) \/ j = i BY <1>1
    <3>5. i \in 1 .. i /\ 1 .. (i - 1) \subseteq 1 .. i BY <1>1
    <3>6. \A x : x \in ToSet(m) <=> x \notin S /\ \E j \in 1 .. i : x = s[j]
      BY <2>1, <2>3, <3>3, <3>4, <3>5
    <3>7. ASSUME NEW p \in DOMAIN m, NEW q \in DOMAIN m, p < q
          PROVE  \E a, b \in 1 .. i : a < b /\ s[a] = m[p] /\ s[b] = m[q]
      <4>1. p \in DOMAIN k BY <3>2, <3>7
      <4>2. CASE q \in DOMAIN k BY <2>1, <3>2, <3>5, <3>7, <4>1, <4>2
      <4>3. CASE q = Len(k) + 1
        <5>1. k[p] \in ToSet(k) BY <4>1 DEF ToSet
        <5>2. PICK a \in 1 .. (i - 1) : k[p] = s[a] BY <2>1, <5>1
        <5> QED BY <1>1, <3>2, <3>5, <4>1, <4>3, <5>2
      <4> QED BY <3>2, <4>2, <4>3
    <3>8. Holds(m, i) BY <3>6, <3>7
    <3>9. Holds(kept[i], i) BY <3>1, <3>8 DEF m
    <3> HIDE DEF Holds
    <3> QED BY <1>1, <3>9
  <2> QED BY <2>2, <2>3
<1>5. Holds(kept[n], n)
  <2> HIDE DEF T
  <2>1. 0 .. n \subseteq T BY <1>1, <1>3, <1>4, BoundedInduction
  <2> QED BY SMTT(30), <1>1, <2>1 DEF T
<1>6. \A x : x \in ToSet(s) <=> \E j \in 1 .. n : x = s[j] BY <1>1 DEF ToSet
<1>7. kept[n] \in Seq(X) BY <1>1, <1>2
<1> HIDE DEF n
<1>8. ToSet(kept[n]) = ToSet(s) \ S BY <1>5, <1>6
<1>9. \A p, q \in DOMAIN kept[n] : p < q =>
         \E i, j \in DOMAIN s : i < j /\ s[i] = kept[n][p] /\ s[j] = kept[n][q]
  BY <1>1, <1>5
<1>10. Without(s, S) = kept[n] BY <1>2
<1> HIDE DEF Holds
<1> QED BY <1>7, <1>8, <1>9, <1>10

\* Nothing that is injective stops being so, and nothing is left out in vain.
LEMMA WithoutInjective ==
  ASSUME NEW X, NEW s \in Seq(X), NEW S, IsInjective(s)
  PROVE  IsInjective(Without(s, S))
<1> DEFINE k == Without(s, S)
<1>1. k \in Seq(X) BY WithoutProperties
<1>2. \A p, q \in DOMAIN k : p < q => k[p] # k[q]
  <2> SUFFICES ASSUME NEW p \in DOMAIN k, NEW q \in DOMAIN k, p < q PROVE k[p] # k[q]
    OBVIOUS
  <2>1. PICK i \in DOMAIN s, j \in DOMAIN s : i < j /\ s[i] = k[p] /\ s[j] = k[q]
    BY WithoutProperties
  <2>2. DOMAIN s = 1 .. Len(s) OBVIOUS
  <2> QED BY <2>1, <2>2 DEF IsInjective
<1>3. DOMAIN k \subseteq Nat BY <1>1
<1> HIDE DEF k
<1>4. \A p, q \in DOMAIN k : p < q \/ q < p \/ p = q BY <1>3
<1>5. IsInjective(k) BY <1>2, <1>4 DEF IsInjective
<1> QED BY <1>5 DEF k

\* Nothing to take out: the sequence stays as it is.
LEMMA WithoutNone ==
  ASSUME NEW X, NEW s \in Seq(X), NEW S, ToSet(s) \cap S = {}
  PROVE  Without(s, S) = s
<1> DEFINE n == Len(s)
<1>1. n \in Nat /\ DOMAIN s = 1 .. n /\ \A i \in 1 .. n : s[i] \in X /\ s[i] \notin S
  BY DEF ToSet
<1>0. PICK kept : KeptTurns(kept, X, s, S) /\ Without(s, S) = kept[n]
  BY WithoutTurns
<1>2. /\ kept \in [0 .. n -> Seq(X)] /\ kept[0] = <<>>
      /\ \A i \in 1 .. n :
            kept[i] = IF s[i] \in S THEN kept[i - 1] ELSE Append(kept[i - 1], s[i])
      /\ Without(s, S) = kept[n]
  BY <1>0 DEF KeptTurns
<1> DEFINE Holds(k, i) == Len(k) = i /\ \A j \in 1 .. i : k[j] = s[j]
           T == {i \in 0 .. n : Holds(kept[i], i)}
<1>3. 0 \in T BY <1>1, <1>2
<1>4. ASSUME NEW i \in 1 .. n, i - 1 \in T PROVE i \in T
  <2> DEFINE k == kept[i - 1]
  <2>1. k \in Seq(X) /\ Holds(k, i - 1) BY <1>1, <1>2, <1>4
  <2>2. kept[i] = Append(k, s[i]) BY <1>1, <1>2
  <2> HIDE DEF k
  <2>3. Holds(Append(k, s[i]), i) BY <1>1, <2>1
  <2> QED BY <1>1, <2>2, <2>3
<1>5. Holds(kept[n], n)
  <2> HIDE DEF T
  <2>1. 0 .. n \subseteq T BY <1>1, <1>3, <1>4, BoundedInduction
  <2> QED BY <1>1, <2>1 DEF T
<1>6. kept[n] \in Seq(X) BY <1>1, <1>2
<1>7. kept[n] = s BY <1>1, <1>5, <1>6, SeqEqual
<1> QED BY <1>2, <1>7

-----------------------------------------------------------------------------
(* The ancestors of a node, for any function from the ids to their parents. *)

Graphs == [Ids -> SUBSET Ids]

ClosedIn(P, W) == \A y \in W : P[y] \subseteq W

\* The least set that holds x and the parents of its members.
Anc(P, x) ==
  {y \in Ids : \A W \in SUBSET Ids : x \in W /\ ClosedIn(P, W) => y \in W}

Acyclic(P) == \A x \in Ids : \A p \in P[x] : x \notin Anc(P, p)

\* A node and its ancestors: with a node come its parents.
LEMMA AncClosed ==
  ASSUME NEW P \in Graphs, NEW x \in Ids
  PROVE  /\ Anc(P, x) \subseteq Ids
         /\ x \in Anc(P, x)
         /\ ClosedIn(P, Anc(P, x))
         /\ P[x] \subseteq Anc(P, x)
BY DEF Anc, ClosedIn, Graphs

\* ... and no set that holds the node and, with a node, its parents is
\* smaller.
LEMMA AncLeast ==
  ASSUME NEW P \in Graphs, NEW x \in Ids, NEW W, x \in W,
         \A y \in W \cap Ids : P[y] \subseteq W
  PROVE  Anc(P, x) \subseteq W
<1>1. W \cap Ids \in SUBSET Ids /\ x \in W \cap Ids /\ ClosedIn(P, W \cap Ids)
  BY DEF ClosedIn, Graphs
<1> QED BY <1>1 DEF Anc

\* The ancestors of an ancestor are ancestors.
LEMMA AncTransitive ==
  ASSUME NEW P \in Graphs, NEW x \in Ids, NEW y \in Anc(P, x)
  PROVE  Anc(P, y) \subseteq Anc(P, x)
BY AncClosed, AncLeast DEF ClosedIn

\* Every ancestor but the node itself is above one of its parents.
LEMMA AncOfParents ==
  ASSUME NEW P \in Graphs, NEW x \in Ids, NEW y \in Anc(P, x), y # x
  PROVE  \E p \in P[x] : y \in Anc(P, p)
<1> DEFINE W == {x} \cup UNION {Anc(P, p) : p \in P[x]}
<1>1. P[x] \subseteq Ids BY DEF Graphs
<1>2. ASSUME NEW z \in W PROVE P[z] \subseteq W
  <2>1. CASE z = x BY <1>1, <2>1, AncClosed
  <2>2. ASSUME NEW p \in P[x], z \in Anc(P, p) PROVE P[z] \subseteq Anc(P, p)
    BY <1>1, <2>2, AncClosed DEF ClosedIn
  <2> QED BY <1>2, <2>1, <2>2
<1>3. Anc(P, x) \subseteq W
  <2> x \in W OBVIOUS
  <2> HIDE DEF W
  <2> QED BY <1>2, AncLeast
<1> QED BY <1>3

\* Fewer parents, fewer ancestors; and only what is above x decides.
LEMMA AncMonotonic ==
  ASSUME NEW P \in Graphs, NEW Q \in Graphs, \A y \in Ids : Q[y] \subseteq P[y],
         NEW x \in Ids
  PROVE  Anc(Q, x) \subseteq Anc(P, x)
<1>1. ASSUME NEW y \in Anc(P, x) \cap Ids PROVE Q[y] \subseteq Anc(P, x)
  BY AncClosed DEF ClosedIn
<1> QED BY <1>1, AncClosed, AncLeast

\* The ancestors depend on no parents but theirs.
LEMMA AncSame ==
  ASSUME NEW P \in Graphs, NEW Q \in Graphs, NEW x \in Ids,
         \A y \in Anc(P, x) : Q[y] = P[y]
  PROVE  Anc(Q, x) = Anc(P, x)
<1>1. Anc(Q, x) \subseteq Anc(P, x)
  <2> \A y \in Anc(P, x) \cap Ids : Q[y] \subseteq Anc(P, x) BY AncClosed DEF ClosedIn
  <2> QED BY AncClosed, AncLeast
<1>2. Anc(P, x) \subseteq Anc(Q, x)
  <2> DEFINE W == Anc(P, x) \cap Anc(Q, x)
  <2>1. x \in W /\ \A y \in W : P[y] \subseteq W BY AncClosed DEF ClosedIn
  <2> HIDE DEF W
  <2>2. Anc(P, x) \subseteq W BY <2>1, AncLeast
  <2> QED BY <2>2 DEF W
<1> QED BY <1>1, <1>2

\* A node that is nobody's parent up there is no ancestor.
LEMMA NoAncestor ==
  ASSUME NEW P \in Graphs, NEW x \in Ids, NEW c, c # x,
         \A y \in Anc(P, x) : c \notin P[y]
  PROVE  c \notin Anc(P, x)
<1> DEFINE W == Anc(P, x) \ {c}
<1>1. x \in W /\ \A y \in W : P[y] \subseteq W BY AncClosed DEF ClosedIn
<1> HIDE DEF W
<1>2. Anc(P, x) \subseteq W BY <1>1, AncLeast
<1> QED BY <1>2 DEF W

\* Erasing dependencies closes no loop.
LEMMA AcyclicRemoved ==
  ASSUME NEW P \in Graphs, NEW Q \in Graphs, \A y \in Ids : Q[y] \subseteq P[y],
         Acyclic(P)
  PROVE  Acyclic(Q)
<1> SUFFICES ASSUME NEW x \in Ids, NEW p \in Q[x] PROVE x \notin Anc(Q, p)
  BY DEF Acyclic
<1>1. p \in P[x] /\ p \in Ids BY DEF Graphs
<1>2. Anc(Q, p) \subseteq Anc(P, p) BY <1>1, AncMonotonic
<1> QED BY <1>1, <1>2 DEF Acyclic

\* Q is P with the parent p added to c.
Adds(P, Q, c, p) == \A y \in Ids : Q[y] = IF y = c THEN P[y] \cup {p} ELSE P[y]

\* A new parent that the child is no ancestor of closes no loop.
LEMMA AcyclicAdded ==
  ASSUME NEW P \in Graphs, NEW Q \in Graphs, NEW c \in Ids, NEW p \in Ids,
         Adds(P, Q, c, p), Acyclic(P), c \notin Anc(P, p)
  PROVE  Acyclic(Q)
<1> USE DEF Adds
<1> SUFFICES ASSUME NEW x \in Ids, NEW q \in Q[x] PROVE x \notin Anc(Q, q)
  BY DEF Acyclic
<1>0. q \in Ids BY DEF Graphs
<1>1. CASE c \notin Anc(P, q)
  <2>1. Anc(Q, q) = Anc(P, q)
    <3> \A y \in Anc(P, q) : Q[y] = P[y] BY <1>0, <1>1, AncClosed
    <3> QED BY <1>0, AncSame
  <2>2. CASE q \in P[x] BY <2>1, <2>2 DEF Acyclic
  <2>3. CASE x = c /\ q = p BY <2>1, <2>3
  <2> QED BY <2>2, <2>3
<1>2. CASE c \in Anc(P, q)
  <2> DEFINE W == Anc(P, q) \cup Anc(P, p)
  <2>1. \A y \in W \cap Ids : Q[y] \subseteq W
    BY <1>0, AncClosed DEF ClosedIn
  <2>2. Anc(Q, q) \subseteq W
    <3> q \in W BY <1>0, AncClosed
    <3> HIDE DEF W
    <3> QED BY <1>0, <2>1, AncLeast
  <2>3. q # p BY <1>2
  <2>4. q \in P[x] BY <2>3
  <2>5. x \notin Anc(P, q) BY <2>4 DEF Acyclic
  <2>6. x \notin Anc(P, p)
    <3> SUFFICES ASSUME x \in Anc(P, p) PROVE FALSE OBVIOUS
    <3>1. q \in Anc(P, p) BY <2>4, AncClosed DEF ClosedIn
    <3>2. Anc(P, q) \subseteq Anc(P, p) BY <3>1, AncTransitive
    <3> QED BY <1>2, <3>2
  <2> QED BY <2>2, <2>5, <2>6
<1> QED BY <1>1, <1>2

-----------------------------------------------------------------------------
(* recurse_up.                                                             *)

ParentsOf == [id \in Ids |-> ParentSet(id)]

\* The parents of the graph, as sets, are a graph.
LEMMA ParentsTyped == parents \in [Ids -> Seq(Ids)] => ParentsOf \in Graphs
BY DEF ParentsOf, Graphs, ParentSet, ToSet

\* recurse_up collects a node and its ancestors, no more and no less.
LEMMA UpwardIsAnc ==
  parents \in [Ids -> Seq(Ids)] => \A id \in Ids : Upward(id) = Anc(ParentsOf, id)
<1> SUFFICES ASSUME parents \in [Ids -> Seq(Ids)], NEW id \in Ids
             PROVE  Upward(id) = Anc(ParentsOf, id)
  OBVIOUS
<1> DEFINE P == ParentsOf
           N == Cardinality(Ids)
           IsUp(up) == up = [n \in 0 .. N |->
                               IF n = 0 THEN {id}
                               ELSE up[n - 1] \cup UNION {ParentSet(x) : x \in up[n - 1]}]
           c == CHOOSE up : IsUp(up)
<1>1. P \in Graphs BY ParentsTyped
<1>2. N \in Nat /\ IsFiniteSet(Ids) BY IdsAssumption, FS_CardinalityType
<1>3. PICK up : IsChain(up, Ids, N, id, P)
  <2> P \in Pointers(Ids) BY <1>1 DEF Graphs, Pointers
  <2> HIDE DEF N, P
  <2> QED BY <1>1, <1>2, ClosureExists
<1>4. IsUp(up)
  <2>1. /\ up \in [0 .. N -> SUBSET Ids] /\ up[0] = {id}
        /\ \A n \in 1 .. N : up[n] = up[n - 1] \cup UNION {P[y] : y \in up[n - 1]}
    BY <1>3 DEF IsChain
  <2>2. ASSUME NEW n \in 0 .. N, n # 0
        PROVE  up[n] = up[n - 1] \cup UNION {ParentSet(y) : y \in up[n - 1]}
    <3>1. n - 1 \in 0 .. N /\ n \in 1 .. N BY <1>2, <2>2
    <3>2. \A y \in up[n - 1] : P[y] = ParentSet(y) BY <2>1, <3>1 DEF ParentsOf
    <3>3. up[n] = up[n - 1] \cup UNION {P[y] : y \in up[n - 1]} BY <2>1, <3>1
    <3> HIDE DEF P, N
    <3> QED BY <3>2, <3>3
  <2> HIDE DEF N
  <2> QED BY <2>1, <2>2
<1>5. IsUp(c)
  <2> HIDE DEF IsUp
  <2> QED BY <1>4
<1>6. Upward(id) = c[N] BY DEF Upward
<1> HIDE DEF c
<1>7. c[0] = {id} BY <1>2, <1>5
<1>8. ASSUME NEW n \in 1 .. N
      PROVE  c[n] = c[n - 1] \cup UNION {ParentSet(x) : x \in c[n - 1]}
  <2> n \in 0 .. N /\ n # 0 BY <1>2
  <2> HIDE DEF N
  <2> QED BY <1>5
<1> HIDE DEF IsUp
<1>9. \A n \in 1 .. N : c[n - 1] \subseteq Ids =>
         \A z : z \in c[n] <=> z \in c[n - 1] \/ \E y \in c[n - 1] : z \in P[y]
  <2> SUFFICES ASSUME NEW n \in 1 .. N, c[n - 1] \subseteq Ids
               PROVE  \A z : z \in c[n] <=> z \in c[n - 1] \/ \E y \in c[n - 1] : z \in P[y]
    OBVIOUS
  <2>1. \A y \in c[n - 1] : P[y] = ParentSet(y) BY DEF ParentsOf
  <2>2. c[n] = c[n - 1] \cup UNION {ParentSet(x) : x \in c[n - 1]} BY <1>8
  <2>3. \A z : z \in c[n] <=> z \in c[n - 1] \/ \E y \in c[n - 1] : z \in ParentSet(y)
    BY <2>2
  <2>4. ASSUME NEW z PROVE z \in c[n] <=> z \in c[n - 1] \/ \E y \in c[n - 1] : z \in P[y]
    <3> HIDE DEF P
    <3>1. z \in c[n] <=> z \in c[n - 1] \/ \E y \in c[n - 1] : z \in ParentSet(y) BY <2>3
    <3> QED BY <3>1, <2>1
  <2> QED BY <2>4
<1>10. /\ c[N] \subseteq Ids /\ id \in c[N]
       /\ \A y \in c[N] : P[y] \subseteq c[N]
       /\ \A W : id \in W /\ (\A y \in W \cap Ids : P[y] \subseteq W) => c[N] \subseteq W
  <2> P \in Pointers(Ids) BY <1>1 DEF Graphs, Pointers
  <2> HIDE DEF P
  <2> QED BY <1>2, <1>7, <1>9, ClosureLeast
<1> HIDE DEF P, N
<1>11. c[N] \subseteq Anc(P, id) BY <1>1, <1>10, AncClosed DEF ClosedIn
<1>12. Anc(P, id) \subseteq c[N] BY <1>1, <1>10, AncLeast
<1> QED BY <1>6, <1>11, <1>12 DEF P

-----------------------------------------------------------------------------
(* recurse_breadth_up and recurse_breadth_down.  What is said of the       *)
(* breadths holds for any function next from the ids to the ids that each  *)
(* leads to.                                                               *)

Lead == [Ids -> Seq(Ids)]

SetsOf(next) == [x \in Ids |-> ToSet(next[x])]

NextBreadth(next, v) == FlattenSeq([i \in DOMAIN v |-> next[v[i]]])

\* level[n]: the ids that n steps lead to, each as often as they do.
IsLevels(level, next, id) ==
  /\ level \in [0 .. Cardinality(Ids) -> Seq(Ids)]
  /\ level[0] = <<id>>
  /\ \A n \in 1 .. Cardinality(Ids) : level[n] = NextBreadth(next, level[n - 1])

\* The next breadth holds what the nodes of this one lead to.
LEMMA NextBreadthTyped ==
  ASSUME NEW next \in Lead, NEW v \in Seq(Ids)
  PROVE  /\ NextBreadth(next, v) \in Seq(Ids)
         /\ \A x : x \in ToSet(NextBreadth(next, v)) <=> \E y \in ToSet(v) : x \in ToSet(next[y])
<1> DEFINE ss == [i \in DOMAIN v |-> next[v[i]]]
<1>1. DOMAIN v = 1 .. Len(v) /\ Len(v) \in Nat /\ \A i \in DOMAIN v : v[i] \in Ids
  OBVIOUS
<1>2. ss \in Seq(Seq(Ids)) /\ Len(ss) = Len(v)
  <2>1. \A i \in 1 .. Len(v) : next[v[i]] \in Seq(Ids) BY <1>1 DEF Lead
  <2>2. ss = [i \in 1 .. Len(v) |-> next[v[i]]] BY <1>1
  <2> QED BY <1>1, <2>1, <2>2
<1>3. \A i \in 1 .. Len(ss) : ToSet(ss[i]) = ToSet(next[v[i]])
  BY <1>1, <1>2
<1>4. NextBreadth(next, v) = FlattenSeq(ss) BY DEF NextBreadth
<1> HIDE DEF ss
<1>5. /\ FlattenSeq(ss) \in Seq(Ids)
      /\ ToSet(FlattenSeq(ss)) = UNION {ToSet(ss[i]) : i \in 1 .. Len(ss)}
  BY <1>2, FlattenTyped
<1>6. ASSUME NEW x
      PROVE  x \in ToSet(FlattenSeq(ss)) <=> \E y \in ToSet(v) : x \in ToSet(next[y])
  <2>1. x \in ToSet(FlattenSeq(ss)) <=> \E i \in 1 .. Len(ss) : x \in ToSet(ss[i])
    BY <1>5
  <2>2. x \in ToSet(FlattenSeq(ss)) <=> \E i \in DOMAIN v : x \in ToSet(next[v[i]])
    BY <1>1, <1>2, <1>3, <2>1
  <2> QED BY <2>2 DEF ToSet
<1> QED BY <1>4, <1>5, <1>6

\* What the ids lead to, as sets, is a graph.
LEMMA SetsTyped ==
  ASSUME NEW next \in Lead
  PROVE  SetsOf(next) \in Graphs
BY DEF SetsOf, Graphs, Lead, ToSet

\* There are such breadths.
LEMMA LevelsExist ==
  ASSUME NEW next \in Lead, NEW id \in Ids
  PROVE  \E level : IsLevels(level, next, id)
<1> DEFINE N == Cardinality(Ids)
           V == Seq(Ids)
           base == <<id>>
           step == [n \in 1 .. N |-> [v \in V |-> NextBreadth(next, v)]]
<1>1. N \in Nat BY IdsAssumption, FS_CardinalityType
<1>2. step \in StepsOver(1 .. N, V) /\ base \in V
  <2> \A v \in V : NextBreadth(next, v) \in V BY NextBreadthTyped
  <2> QED BY DEF StepsOver
<1>3. PICK g : IsIteration(g, N, V, base, step)
  <2> HIDE DEF step, N, V, base
  <2> QED BY <1>1, <1>2, IterationExists
<1>4. /\ g \in [0 .. N -> V] /\ g[0] = base
      /\ \A n \in 1 .. N : g[n] = step[n][g[n - 1]]
  BY <1>3 DEF IsIteration
<1>5. ASSUME NEW n \in 1 .. N PROVE g[n] = NextBreadth(next, g[n - 1])
  <2> n - 1 \in 0 .. N BY <1>1
  <2> g[n - 1] \in V
    <3> HIDE DEF V, N
    <3> QED BY <1>4
  <2> HIDE DEF V
  <2> QED BY <1>4
<1>6. IsLevels(g, next, id)
  <2> HIDE DEF N
  <2> QED BY <1>4, <1>5 DEF IsLevels, N
<1> QED BY <1>6

\* A node n steps on has n nodes before it: there is none Cardinality(Ids)
\* steps on.
LEMMA LevelsBounded ==
  ASSUME NEW next \in Lead, Acyclic(SetsOf(next)), NEW id \in Ids,
         NEW level, IsLevels(level, next, id)
  PROVE  /\ \A n \in 0 .. Cardinality(Ids) : ToSet(level[n]) \subseteq Anc(SetsOf(next), id)
         /\ ToSet(level[Cardinality(Ids)]) = {}
<1> DEFINE N == Cardinality(Ids)
           P == SetsOf(next)
           Before(a) == {y \in Anc(P, id) : a \in Anc(P, y)}
           Holds(n) == \A a \in ToSet(level[n]) :
                          a \in Anc(P, id) /\ Cardinality(Before(a)) >= n + 1
           T == {n \in 0 .. N : Holds(n)}
<1>1. N \in Nat /\ IsFiniteSet(Ids) BY IdsAssumption, FS_CardinalityType
<1>2. P \in Graphs BY SetsTyped
<1>3. \A n \in 0 .. N : level[n] \in Seq(Ids) BY DEF IsLevels
<1>4. Anc(P, id) \subseteq Ids BY <1>2, AncClosed
<1> HIDE DEF P
<1>5. \A a : /\ IsFiniteSet(Before(a)) /\ Cardinality(Before(a)) \in Nat
             /\ Cardinality(Before(a)) <= N
  <2> SUFFICES ASSUME NEW a
               PROVE  /\ IsFiniteSet(Before(a)) /\ Cardinality(Before(a)) \in Nat
                      /\ Cardinality(Before(a)) <= N
    OBVIOUS
  <2> Before(a) \in SUBSET Ids BY <1>4
  <2> HIDE DEF Before
  <2> QED BY <1>1, FS_Subset, FS_CardinalityType
<1>6. 0 \in T
  <2>1. ToSet(level[0]) = {id} BY DEF IsLevels, ToSet
  <2>2. id \in Before(id) BY <1>2, AncClosed
  <2>3. Cardinality(Before(id)) # 0
    <3> HIDE DEF Before
    <3> QED BY <1>5, <2>2, FS_EmptySet
  <2>4. Cardinality(Before(id)) >= 0 + 1
    <3> HIDE DEF Before
    <3> QED BY <1>5, <2>3
  <2> HIDE DEF Before
  <2> QED BY <1>1, <1>2, <2>1, <2>4, AncClosed
<1>7. ASSUME NEW n \in 1 .. N, n - 1 \in T PROVE n \in T
  <2>1. level[n - 1] \in Seq(Ids) /\ level[n] = NextBreadth(next, level[n - 1])
    BY <1>1, <1>3 DEF IsLevels
  <2> SUFFICES Holds(n)
    <3> HIDE DEF Holds, N
    <3> QED BY <1>1
  <2> SUFFICES ASSUME NEW b \in ToSet(level[n])
               PROVE  b \in Anc(P, id) /\ Cardinality(Before(b)) >= n + 1
    OBVIOUS
  <2>2. PICK a \in ToSet(level[n - 1]) : b \in ToSet(next[a]) BY <2>1, NextBreadthTyped
  <2>3. a \in Anc(P, id) /\ Cardinality(Before(a)) >= (n - 1) + 1 BY <1>7
  <2>4. a \in Ids /\ b \in P[a] BY <1>4, <2>2, <2>3 DEF P, SetsOf
  <2>5. b \in Anc(P, id) BY <1>2, <2>3, <2>4, AncClosed DEF ClosedIn
  <2>6. Before(a) \subseteq Before(b)
    <3> SUFFICES ASSUME NEW y \in Before(a) PROVE b \in Anc(P, y) OBVIOUS
    <3> y \in Ids BY <1>4
    <3> QED BY <1>2, <2>4, AncClosed DEF ClosedIn
  <2>7. b \in Before(b) /\ b \notin Before(a)
    <3>1. b \in Ids BY <1>4, <2>5
    <3>2. a \notin Anc(P, b) BY <2>4 DEF Acyclic, P
    <3> QED BY <1>2, <2>5, <3>1, <3>2, AncClosed
  <2>8. Cardinality(Before(b)) > Cardinality(Before(a))
    <3>1. Before(a) \in SUBSET Before(b) /\ Before(a) # Before(b) BY <2>6, <2>7
    <3> HIDE DEF Before
    <3>2. Cardinality(Before(a)) <= Cardinality(Before(b)) BY <1>5, <3>1, FS_Subset
    <3>3. Cardinality(Before(a)) # Cardinality(Before(b)) BY <1>5, <3>1, FS_Subset
    <3> QED BY <1>5, <3>2, <3>3
  <2> HIDE DEF Before
  <2> QED BY <1>5, <2>3, <2>5, <2>8
<1>8. 0 .. N \subseteq T
  <2> HIDE DEF T, N
  <2> QED BY <1>1, <1>6, <1>7, BoundedInduction
<1>9. \A n \in 0 .. N : ToSet(level[n]) \subseteq Anc(P, id)
  <2> HIDE DEF Before
  <2> QED BY <1>8
<1>10. ASSUME NEW a \in ToSet(level[N]) PROVE FALSE
  <2> N \in 0 .. N BY <1>1
  <2> HIDE DEF Before
  <2> Cardinality(Before(a)) >= N + 1 BY <1>8
  <2> QED BY <1>1, <1>5
<1> QED BY <1>9, <1>10 DEF P

\* B starts with id, holds every id it leads to, and after each id, however
\* often it appears, what that id leads to.
IsBreadths(B, next, id) ==
  /\ B \in Seq(Ids)
  /\ Len(B) >= 1 /\ B[1] = id
  /\ ToSet(B) = Anc(SetsOf(next), id)
  /\ \A k \in DOMAIN B : \A p \in ToSet(next[B[k]]) : \E j \in DOMAIN B : k < j /\ B[j] = p

\* The breadths one after the other.
LEMMA BreadthsAre ==
  ASSUME NEW next \in Lead, Acyclic(SetsOf(next)), NEW id \in Ids,
         NEW level, IsLevels(level, next, id)
  PROVE  IsBreadths(FlattenSeq([n \in 1 .. Cardinality(Ids) |-> level[n - 1]]), next, id)
<1> DEFINE N == Cardinality(Ids)
           P == SetsOf(next)
           B == FlattenSeq([n \in 1 .. N |-> level[n - 1]])
<1>1. IsLevels(level, next, id) /\ B = FlattenSeq([n \in 1 .. N |-> level[n - 1]])
  OBVIOUS
<1> DEFINE ss == [n \in 1 .. N |-> level[n - 1]]
<1>2. N \in Nat BY IdsAssumption, FS_CardinalityType
<1>3. N >= 1
  <2> Ids # {} OBVIOUS
  <2> QED BY <1>2, IdsAssumption, FS_EmptySet
<1>4. P \in Graphs BY SetsTyped
<1>5. \A n \in 0 .. N : level[n] \in Seq(Ids) BY <1>1 DEF IsLevels
<1>6. /\ ss \in Seq(Seq(Ids)) /\ Len(ss) = N
      /\ \A n \in 1 .. N : ss[n] = level[n - 1] /\ ss[n] \in Seq(Ids)
  <2>1. \A n \in 1 .. N : level[n - 1] \in Seq(Ids)
    <3> \A n \in 1 .. N : n - 1 \in 0 .. N BY <1>2
    <3> HIDE DEF N
    <3> QED BY <1>5
  <2> HIDE DEF N
  <2> QED BY <1>2, <2>1
<1>7. B = FlattenSeq(ss) BY <1>1
<1>8. PICK start : IsStart(start, ss)
  <2> HIDE DEF ss
  <2> QED BY <1>6, StartExists
<1>9. IsFlat(B, start, ss, N, Ids)
  <2> HIDE DEF ss, B, N
  <2> QED BY <1>6, <1>7, <1>8, FlattenIsFlat
<1> HIDE DEF ss, B
<1>10. B \in Seq(Ids) /\ DOMAIN B = 1 .. start[N] BY <1>9 DEF IsFlat
<1>11. /\ \A n \in 0 .. N : ToSet(level[n]) \subseteq Anc(P, id)
       /\ ToSet(level[N]) = {}
  BY <1>1, LevelsBounded
<1>12. ToSet(B) \subseteq Anc(P, id)
  <2> SUFFICES ASSUME NEW x \in ToSet(B) PROVE x \in Anc(P, id) OBVIOUS
  <2>0. ToSet(FlattenSeq(ss)) = UNION {ToSet(ss[n]) : n \in 1 .. N}
    <3> HIDE DEF N
    <3> QED BY <1>6, FlattenTyped
  <2>1. PICK n \in 1 .. N : x \in ToSet(ss[n])
    <3> HIDE DEF N
    <3> QED BY <1>7, <2>0
  <2>2. x \in ToSet(level[n - 1]) /\ n - 1 \in 0 .. N BY <1>2, <1>6, <2>1
  <2> HIDE DEF P, N
  <2> QED BY <1>11, <2>2
<1>13. ASSUME NEW k \in DOMAIN B, NEW p \in ToSet(next[B[k]])
       PROVE  \E j \in DOMAIN B : k < j /\ B[j] = p
  <2>1. PICK n \in 1 .. N : \E r \in 1 .. Len(ss[n]) : k = start[n - 1] + r
    BY <1>9, <1>10 DEF IsFlat
  <2>2. PICK r \in 1 .. Len(ss[n]) : k = start[n - 1] + r BY <2>1
  <2>3. B[k] = ss[n][r] BY <1>9, <2>2 DEF IsFlat
  <2>4. ss[n] = level[n - 1] /\ ss[n] \in Seq(Ids) BY <1>6
  <2>5. B[k] \in ToSet(level[n - 1]) BY <2>3, <2>4 DEF ToSet
  <2>6. level[n] = NextBreadth(next, level[n - 1]) BY <1>1 DEF IsLevels
  <2>7. p \in ToSet(level[n]) BY <2>4, <2>5, <2>6, NextBreadthTyped
  <2>8. n # N BY <1>11, <2>7
  <2>9. n + 1 \in 1 .. N BY <1>2, <2>8
  <2>10. ss[n + 1] = level[n] /\ ss[n + 1] \in Seq(Ids)
    <3> (n + 1) - 1 = n OBVIOUS
    <3> HIDE DEF N
    <3> QED BY <1>6, <2>9
  <2>11. PICK q \in 1 .. Len(ss[n + 1]) : p = ss[n + 1][q] BY <2>7, <2>10 DEF ToSet
  <2>12. B[start[n] + q] = p
    <3> (n + 1) - 1 = n OBVIOUS
    <3> HIDE DEF N
    <3> QED BY <1>9, <2>9, <2>11 DEF IsFlat
  <2>13. /\ start[n - 1] \in Nat /\ start[n] \in Nat /\ Len(ss[n]) \in Nat
         /\ start[n] = start[n - 1] + Len(ss[n])
         /\ start[n + 1] = start[n] + Len(ss[n + 1])
         /\ Len(ss[n + 1]) \in Nat
    <3> HIDE DEF N
    <3>0. \A i \in 1 .. Len(ss) : /\ start[i] \in Nat /\ start[i - 1] \in Nat
                                 /\ ss[i] \in Seq(Ids) /\ Len(ss[i]) \in Nat
                                 /\ start[i] = start[i - 1] + Len(ss[i])
      <4>1. ss \in Seq(Seq(Ids)) BY <1>6
      <4> QED BY <1>8, <4>1, StartTyped
    <3>1. \A i \in 1 .. N : /\ start[i] \in Nat /\ start[i - 1] \in Nat
                           /\ Len(ss[i]) \in Nat
                           /\ start[i] = start[i - 1] + Len(ss[i])
      BY <1>6, <3>0
    <3>2. (n + 1) - 1 = n OBVIOUS
    <3>3. start[n + 1] = start[(n + 1) - 1] + Len(ss[n + 1]) /\ Len(ss[n + 1]) \in Nat
      BY <2>9, <3>1
    <3> QED BY <3>1, <3>2, <3>3
  <2>14. start[n + 1] <= start[N] /\ start[n + 1] \in Nat /\ start[N] \in Nat
    <3> N \in 0 .. Len(ss) /\ n + 1 \in 0 .. N BY <1>2, <1>6, <2>9
    <3> HIDE DEF N
    <3> QED BY <1>6, <1>8, StartMonotonic
  <2> HIDE DEF N
  <2>15. k < start[n] + q
    <3> \A a, b, x, y \in Nat : x <= b /\ 1 <= y => a + x < (a + b) + y OBVIOUS
    <3> r \in Nat /\ r <= Len(ss[n]) /\ q \in Nat /\ 1 <= q BY <2>13
    <3> QED BY <2>2, <2>13
  <2>16. start[n] + q \in 1 .. start[N]
    <3> \A a, b, d, y \in Nat : a + b <= d /\ 1 <= y /\ y <= b => a + y \in 1 .. d
      OBVIOUS
    <3> q \in Nat /\ 1 <= q /\ q <= Len(ss[n + 1]) BY <2>13
    <3> start[n] + Len(ss[n + 1]) <= start[N] BY <2>13, <2>14
    <3> QED BY <2>13, <2>14
  <2> QED BY <1>10, <2>12, <2>15, <2>16
<1>14. Anc(P, id) \subseteq ToSet(B)
  <2>1. id \in ToSet(B)
    <3>1. 1 \in 1 .. N BY <1>2, <1>3
    <3>2. ss[1] = level[0]
      <4> 1 - 1 = 0 OBVIOUS
      <4> HIDE DEF N
      <4> QED BY <1>6, <3>1
    <3>3. id \in ToSet(ss[1])
      <4> ss[1] = <<id>> BY <1>1, <3>2 DEF IsLevels
      <4> QED BY DEF ToSet
    <3> HIDE DEF N
    <3>4. ToSet(FlattenSeq(ss)) = UNION {ToSet(ss[n]) : n \in 1 .. N}
      BY <1>6, FlattenTyped
    <3> QED BY <1>7, <3>1, <3>3, <3>4
  <2>2. \A y \in ToSet(B) \cap Ids : P[y] \subseteq ToSet(B)
    <3> SUFFICES ASSUME NEW k \in DOMAIN B, B[k] \in Ids
                 PROVE  P[B[k]] \subseteq ToSet(B)
      BY DEF ToSet
    <3> P[B[k]] = ToSet(next[B[k]]) BY DEF SetsOf
    <3> QED BY <1>13 DEF ToSet
  <2> HIDE DEF P
  <2> QED BY <1>4, <2>1, <2>2, AncLeast
<1>15. Len(B) >= 1 /\ B[1] = id
  <2>1. 1 \in 1 .. N /\ 1 - 1 = 0 /\ 0 \in 0 .. N BY <1>2, <1>3
  <2>2. ss[1] = <<id>>
    <3> HIDE DEF N
    <3> QED BY <1>1, <1>6, <2>1 DEF IsLevels
  <2>3. Len(ss[1]) = 1 /\ ss[1][1] = id BY <2>2
  <2>4. start[0] = 0 BY <1>8 DEF IsStart
  <2>5. B[start[1 - 1] + 1] = ss[1][1]
    <3>1. 1 \in 1 .. Len(ss[1]) BY <2>3
    <3> HIDE DEF N
    <3> QED BY <1>9, <2>1, <3>1 DEF IsFlat
  <2>6. Len(B) >= 1
    <3>1. id \in ToSet(B)
      <4> HIDE DEF P
      <4> QED BY <1>4, <1>14, AncClosed
    <3>2. PICK k \in DOMAIN B : B[k] = id BY <3>1 DEF ToSet
    <3>3. B \in Seq(Ids) BY <1>10
    <3>4. Len(B) \in Nat /\ DOMAIN B = 1 .. Len(B) BY <3>3
    <3>5. k \in 1 .. Len(B) BY <3>4
    <3> QED BY <3>4, <3>5
  <2> QED BY <1>10, <2>3, <2>4, <2>5, <2>6
<1> QED BY <1>10, <1>12, <1>13, <1>14, <1>15 DEF IsBreadths, B

AboveAll(v) == FlattenSeq([i \in DOMAIN v |-> parents[v[i]]])

\* recurse_breadth_up is the breadths of the parents, one after the other.
LEMMA LevelsUp ==
  ASSUME parents \in Lead, NEW id \in Ids
  PROVE  \E level : /\ IsLevels(level, parents, id)
                    /\ BreadthUp(id) =
                         FlattenSeq([n \in 1 .. Cardinality(Ids) |-> level[n - 1]])
<1> DEFINE N == Cardinality(Ids)
           V == Seq(Ids)
           IsBreadth(b) == b = [n \in 0 .. N |-> IF n = 0 THEN <<id>> ELSE AboveAll(b[n - 1])]
           c == CHOOSE b : IsBreadth(b)
<1>1. N \in Nat BY IdsAssumption, FS_CardinalityType
<1>2. \A v \in V : AboveAll(v) = NextBreadth(parents, v) /\ AboveAll(v) \in V
  <2> \A v \in V : AboveAll(v) = NextBreadth(parents, v) BY DEF AboveAll, NextBreadth
  <2> QED BY NextBreadthTyped
<1>3. PICK g : IsLevels(g, parents, id) BY LevelsExist
<1>4. /\ g \in [0 .. N -> V] /\ g[0] = <<id>>
      /\ \A n \in 1 .. N : g[n] = NextBreadth(parents, g[n - 1])
  BY <1>3 DEF IsLevels
<1>5. ASSUME NEW n \in 1 .. N PROVE g[n] = AboveAll(g[n - 1])
  <2> n - 1 \in 0 .. N BY <1>1
  <2> g[n - 1] \in V
    <3> HIDE DEF V, N
    <3> QED BY <1>4
  <2> HIDE DEF V
  <2> QED BY <1>2, <1>4
<1>6. IsBreadth(g)
  <2> \A n \in 0 .. N : n = 0 \/ n \in 1 .. N BY <1>1
  <2> HIDE DEF N, V
  <2> QED BY <1>4, <1>5
<1>7. IsBreadth(c)
  <2> HIDE DEF IsBreadth
  <2> QED BY <1>6
<1>8. BreadthUp(id) = FlattenSeq([n \in 1 .. N |-> c[n - 1]])
  BY DEF BreadthUp, AboveAll
<1> HIDE DEF c
<1>9. c[0] = <<id>> /\ \A n \in 1 .. N : c[n] = AboveAll(c[n - 1]) BY <1>1, <1>7
<1>10. \A n \in 0 .. N : c[n] \in V
  <2> DEFINE T == {n \in 0 .. N : c[n] \in V}
  <2>1. 0 \in T
    <3>1. c[0] \in V BY <1>9
    <3>2. 0 \in 0 .. N BY <1>1
    <3> HIDE DEF V, N
    <3> QED BY <3>1, <3>2
  <2>2. ASSUME NEW n \in 1 .. N, n - 1 \in T PROVE n \in T
    <3> c[n - 1] \in V BY <2>2
    <3> HIDE DEF V
    <3> c[n] \in V BY <1>2, <1>9
    <3> QED BY <1>1
  <2>3. 0 .. N \subseteq T
    <3> HIDE DEF T, N
    <3> QED BY <1>1, <2>1, <2>2, BoundedInduction
  <2> QED BY <2>3
<1>11. c \in [0 .. N -> V]
  <2> c = [n \in 0 .. N |-> c[n]] BY <1>7
  <2> HIDE DEF IsBreadth, N, V
  <2> QED BY <1>10
<1>12. \A n \in 1 .. N : c[n] = NextBreadth(parents, c[n - 1])
  <2> \A n \in 1 .. N : n - 1 \in 0 .. N BY <1>1
  <2> HIDE DEF V, N
  <2> QED BY <1>2, <1>9, <1>10
<1>13. IsLevels(c, parents, id)
  <2> HIDE DEF V, N
  <2> QED BY <1>9, <1>11, <1>12 DEF IsLevels, V, N
<1> QED BY <1>8, <1>13

\* Breadth by breadth, every ancestor appears, and after each node its parents.
LEMMA BreadthUpProperties ==
  ASSUME parents \in [Ids -> Seq(Ids)], Acyclic(ParentsOf), NEW id \in Ids
  PROVE  /\ BreadthUp(id) \in Seq(Ids)
         /\ ToSet(BreadthUp(id)) = Anc(ParentsOf, id)
         /\ \A k \in DOMAIN BreadthUp(id) : \A p \in ParentSet(BreadthUp(id)[k]) :
              \E j \in DOMAIN BreadthUp(id) : k < j /\ BreadthUp(id)[j] = p
<1>1. parents \in Lead BY DEF Lead
<1>2. SetsOf(parents) = ParentsOf BY DEF SetsOf, ParentsOf, ParentSet
<1>3. PICK level : /\ IsLevels(level, parents, id)
                   /\ BreadthUp(id) =
                        FlattenSeq([n \in 1 .. Cardinality(Ids) |-> level[n - 1]])
  BY <1>1, LevelsUp
<1>4. IsBreadths(BreadthUp(id), parents, id) BY <1>1, <1>2, <1>3, BreadthsAre
<1> QED BY <1>2, <1>4 DEF IsBreadths, ParentSet

\* The list that SetToSeq makes of a finite set holds its members.
LEMMA SetToSeqHolds ==
  ASSUME NEW S, IsFiniteSet(S)
  PROVE  SetToSeq(S) \in Seq(S) /\ ToSet(SetToSeq(S)) = S
<1> DEFINE n == Cardinality(S)
           f == SetToSeq(S)
<1>1. n \in Nat /\ ExistsBijection(1 .. n, S) BY FS_CardinalityType
<1>2. PICK g \in [1 .. n -> S] : IsInjective(g)
  BY <1>1 DEF ExistsBijection, Bijection, Injection
<1>3. f \in [1 .. n -> S] /\ IsInjective(f) BY <1>2 DEF SetToSeq
<1> HIDE DEF f
<1>4. f \in Injection(1 .. n, S) BY <1>3 DEF Injection
<1>5. Cardinality(1 .. n) = n
  <2> 1 \in Int /\ n \in Int BY <1>1
  <2>1. Cardinality(1 .. n) = IF 1 > n THEN 0 ELSE n - 1 + 1 BY FS_Interval
  <2> HIDE DEF n
  <2> QED BY <1>1, <2>1
<1>6. f \in Surjection(1 .. n, S) BY <1>4, <1>5, FS_Injection
<1>7. \A s \in S : \E i \in 1 .. n : f[i] = s BY <1>6 DEF Surjection
<1>8. f \in Seq(S) /\ DOMAIN f = 1 .. n BY <1>1, <1>3
<1> HIDE DEF n
<1> QED BY <1>3, <1>7, <1>8 DEF ToSet, f

\* The children of each node, as recurse_breadth_down goes through them.
ChildRow == [x \in Ids |-> SetToSeq(children[x])]

\* They are its children.
LEMMA ChildRowTyped ==
  ASSUME children \in Graphs
  PROVE  ChildRow \in Lead /\ SetsOf(ChildRow) = children
<1>1. ASSUME NEW x \in Ids
      PROVE  SetToSeq(children[x]) \in Seq(Ids) /\ ToSet(SetToSeq(children[x])) = children[x]
  <2>1. children[x] \in SUBSET Ids BY DEF Graphs
  <2>2. IsFiniteSet(children[x]) BY <2>1, IdsAssumption, FS_Subset
  <2> QED BY <2>1, <2>2, SetToSeqHolds
<1>2. \A x \in Ids : ChildRow[x] \in Seq(Ids) /\ ToSet(ChildRow[x]) = children[x]
  BY <1>1 DEF ChildRow
<1>3. ChildRow \in Lead BY <1>2 DEF ChildRow, Lead
<1>4. children = [x \in Ids |-> children[x]] BY DEF Graphs
<1>5. SetsOf(ChildRow) = [x \in Ids |-> children[x]] BY <1>2 DEF SetsOf
<1> QED BY <1>3, <1>4, <1>5

BelowAll(v) == FlattenSeq([i \in DOMAIN v |-> SetToSeq(children[v[i]])])

\* recurse_breadth_down is the breadths of the children, one after the other.
LEMMA LevelsDown ==
  ASSUME children \in Graphs, NEW id \in Ids
  PROVE  \E level : /\ IsLevels(level, ChildRow, id)
                    /\ BreadthDown(id) =
                         FlattenSeq([n \in 1 .. Cardinality(Ids) |-> level[n - 1]])
<1> DEFINE N == Cardinality(Ids)
           V == Seq(Ids)
           IsBreadth(b) == b = [n \in 0 .. N |-> IF n = 0 THEN <<id>> ELSE BelowAll(b[n - 1])]
           c == CHOOSE b : IsBreadth(b)
<1>1. N \in Nat BY IdsAssumption, FS_CardinalityType
<1>2. \A v \in V : BelowAll(v) = NextBreadth(ChildRow, v) /\ BelowAll(v) \in V
  <2>1. ASSUME NEW v \in V PROVE BelowAll(v) = NextBreadth(ChildRow, v)
    <3>1. \A i \in DOMAIN v : SetToSeq(children[v[i]]) = ChildRow[v[i]]
      BY <2>1 DEF ChildRow
    <3> QED BY <3>1 DEF BelowAll, NextBreadth
  <2> HIDE DEF V
  <2>2. \A v \in V : NextBreadth(ChildRow, v) \in V BY ChildRowTyped, NextBreadthTyped DEF V
  <2> QED BY <2>1, <2>2
<1>3. PICK g : IsLevels(g, ChildRow, id) BY ChildRowTyped, LevelsExist
<1>4. /\ g \in [0 .. N -> V] /\ g[0] = <<id>>
      /\ \A n \in 1 .. N : g[n] = NextBreadth(ChildRow, g[n - 1])
  BY <1>3 DEF IsLevels
<1>5. ASSUME NEW n \in 1 .. N PROVE g[n] = BelowAll(g[n - 1])
  <2> n - 1 \in 0 .. N BY <1>1
  <2> g[n - 1] \in V
    <3> HIDE DEF V, N
    <3> QED BY <1>4
  <2> HIDE DEF V
  <2> QED BY <1>2, <1>4
<1>6. IsBreadth(g)
  <2> \A n \in 0 .. N : n = 0 \/ n \in 1 .. N BY <1>1
  <2> HIDE DEF N, V
  <2> QED BY <1>4, <1>5
<1>7. IsBreadth(c)
  <2> HIDE DEF IsBreadth
  <2> QED BY <1>6
<1>8. BreadthDown(id) = FlattenSeq([n \in 1 .. N |-> c[n - 1]])
  BY DEF BreadthDown, BelowAll
<1> HIDE DEF c
<1>9. c[0] = <<id>> /\ \A n \in 1 .. N : c[n] = BelowAll(c[n - 1]) BY <1>1, <1>7
<1>10. \A n \in 0 .. N : c[n] \in V
  <2> DEFINE T == {n \in 0 .. N : c[n] \in V}
  <2>1. 0 \in T
    <3>1. c[0] \in V BY <1>9
    <3>2. 0 \in 0 .. N BY <1>1
    <3> HIDE DEF V, N
    <3> QED BY <3>1, <3>2
  <2>2. ASSUME NEW n \in 1 .. N, n - 1 \in T PROVE n \in T
    <3> c[n - 1] \in V BY <2>2
    <3> HIDE DEF V
    <3> c[n] \in V BY <1>2, <1>9
    <3> QED BY <1>1
  <2>3. 0 .. N \subseteq T
    <3> HIDE DEF T, N
    <3> QED BY <1>1, <2>1, <2>2, BoundedInduction
  <2> QED BY <2>3
<1>11. c \in [0 .. N -> V]
  <2> c = [n \in 0 .. N |-> c[n]] BY <1>7
  <2> HIDE DEF IsBreadth, N, V
  <2> QED BY <1>10
<1>12. \A n \in 1 .. N : c[n] = NextBreadth(ChildRow, c[n - 1])
  <2> \A n \in 1 .. N : n - 1 \in 0 .. N BY <1>1
  <2> HIDE DEF V, N
  <2> QED BY <1>2, <1>9, <1>10
<1>13. IsLevels(c, ChildRow, id)
  <2> HIDE DEF V, N
  <2> QED BY <1>9, <1>11, <1>12 DEF IsLevels, V, N
<1> QED BY <1>8, <1>13

\* Breadth by breadth, every descendant appears, and after each node its
\* children.
LEMMA BreadthDownProperties ==
  ASSUME children \in Graphs, Acyclic(children), NEW id \in Ids
  PROVE  /\ BreadthDown(id) \in Seq(Ids)
         /\ Len(BreadthDown(id)) >= 1 /\ BreadthDown(id)[1] = id
         /\ ToSet(BreadthDown(id)) = Anc(children, id)
         /\ \A k \in DOMAIN BreadthDown(id) : \A c \in children[BreadthDown(id)[k]] :
              \E j \in DOMAIN BreadthDown(id) : k < j /\ BreadthDown(id)[j] = c
<1> DEFINE B == BreadthDown(id)
<1>1. ChildRow \in Lead /\ SetsOf(ChildRow) = children BY ChildRowTyped
<1>2. PICK level : /\ IsLevels(level, ChildRow, id)
                   /\ B = FlattenSeq([n \in 1 .. Cardinality(Ids) |-> level[n - 1]])
  BY LevelsDown
<1>3. IsBreadths(B, ChildRow, id) BY <1>1, <1>2, BreadthsAre
<1> HIDE DEF B
<1>4. \A k \in DOMAIN B : ToSet(ChildRow[B[k]]) = children[B[k]]
  <2>1. \A k \in DOMAIN B : B[k] \in Ids BY <1>3 DEF IsBreadths
  <2>2. \A x \in Ids : SetsOf(ChildRow)[x] = ToSet(ChildRow[x]) BY DEF SetsOf
  <2> QED BY <1>1, <2>1, <2>2
<1> QED BY <1>1, <1>3, <1>4 DEF IsBreadths, B

-----------------------------------------------------------------------------
(* evaluation_graph.                                                       *)

SortTurns(sorted, B) ==
  /\ sorted \in [0 .. Len(B) -> Seq(Ids)]
  /\ sorted[0] = <<>>
  /\ \A i \in 1 .. Len(B) : sorted[i] = Append(Without(sorted[i - 1], {B[i]}), B[i])

\* evaluation_graph's order is the last of those its loop goes through,
\* reversed.
LEMMA SortedUpwardTurns ==
  ASSUME NEW id, BreadthUp(id) \in Seq(Ids)
  PROVE  \E sorted : /\ SortTurns(sorted, BreadthUp(id))
                    /\ SortedUpward(id) = Reverse(sorted[Len(BreadthUp(id))])
<1> DEFINE s == BreadthUp(id)
           n == Len(s)
           V == Seq(Ids)
           last == [t \in SUBSET (1 .. n) |-> Max(t)]
           step == [i \in 1 .. n |-> [v \in V |-> Append(Without(v, {s[i]}), s[i])]]
           IsOrder(g) ==
             g = [t \in SUBSET (1 .. n) |->
                    IF t = {} THEN <<>>
                    ELSE Append(Without(g[t \ {Max(t)}], {s[Max(t)]}), s[Max(t)])]
           c == CHOOSE g : IsOrder(g)
<1>1. /\ n \in Nat /\ DOMAIN s = 1 .. n /\ <<>> \in V
      /\ \A i \in 1 .. n : s[i] \in Ids
  OBVIOUS
<1>2. \A v \in V : \A x \in Ids : Append(Without(v, {x}), x) \in V
  <2> SUFFICES ASSUME NEW v \in V, NEW x \in Ids PROVE Append(Without(v, {x}), x) \in V
    OBVIOUS
  <2> Without(v, {x}) \in Seq(Ids) BY WithoutProperties
  <2> QED OBVIOUS
<1>3. step \in StepsOver(1 .. n, V)
  <2> HIDE DEF V, n
  <2> QED BY <1>1, <1>2 DEF StepsOver
<1>4. PICK g : IsFold(g, 1 .. n, V, <<>>, step, last)
  <2> HIDE DEF step, V, n
  <2> QED BY <1>1, <1>3, FoldLeftExists
<1>5. /\ g \in [SUBSET (1 .. n) -> V]
      /\ \A t \in SUBSET (1 .. n) :
            g[t] = IF t = {} THEN <<>> ELSE step[Max(t)][g[t \ {Max(t)}]]
  BY <1>4 DEF IsFold
<1>6. ASSUME NEW t \in SUBSET (1 .. n), t # {}
      PROVE  g[t] = Append(Without(g[t \ {Max(t)}], {s[Max(t)]}), s[Max(t)])
  <2>1. Max(t) \in 1 .. n BY <1>1, <1>6, LastMember
  <2>2. g[t \ {Max(t)}] \in V
    <3> HIDE DEF V, n
    <3> QED BY <1>5
  <2> HIDE DEF V, n
  <2> QED BY <1>5, <1>6, <2>1, <2>2
<1>7. IsOrder(g)
  <2> HIDE DEF V, n
  <2> QED BY <1>5, <1>6
<1>8. IsOrder(c)
  <2> HIDE DEF IsOrder
  <2> QED BY <1>7
<1>9. SortedUpward(id) = Reverse(c[1 .. n])
  BY <1>1 DEF SortedUpward, FoldLeft, MapThenFoldSet
<1> HIDE DEF c
<1>10. /\ c[{}] = <<>>
       /\ \A t \in SUBSET (1 .. n) : t # {} =>
             c[t] = Append(Without(c[t \ {Max(t)}], {s[Max(t)]}), s[Max(t)])
  <2> HIDE DEF n
  <2> QED BY <1>8
<1> HIDE DEF IsOrder
<1>11. ASSUME NEW i \in 1 .. n
       PROVE  c[1 .. i] = Append(Without(c[1 .. (i - 1)], {s[i]}), s[i])
  <2>1. 1 .. i \in SUBSET (1 .. n) /\ 1 \in 1 .. i BY <1>1
  <2>2. Max(1 .. i) = i /\ (1 .. i) \ {i} = 1 .. (i - 1) BY <1>1, LastIndex
  <2> HIDE DEF n
  <2> QED BY <1>10, <2>1, <2>2
<1> DEFINE sorted == [i \in 0 .. n |-> c[1 .. i]]
<1>12. sorted \in [0 .. n -> V]
  <2>1. ASSUME NEW i \in 1 .. n, c[1 .. (i - 1)] \in V PROVE c[1 .. i] \in V
    <3> HIDE DEF V, n
    <3> QED BY <1>1, <1>2, <1>11, <2>1
  <2> HIDE DEF V, n
  <2>2. \A i \in 0 .. n : c[1 .. i] \in V BY <1>1, <1>10, <2>1, FoldLeftTurns
  <2> QED BY <2>2
<1>13. sorted[0] = <<>>
  <2> 1 .. 0 = {} OBVIOUS
  <2> HIDE DEF n
  <2> QED BY <1>1, <1>10
<1>14. \A i \in 1 .. n : sorted[i] = Append(Without(sorted[i - 1], {s[i]}), s[i])
  <2> \A i \in 1 .. n : i \in 0 .. n /\ i - 1 \in 0 .. n BY <1>1
  <2> HIDE DEF n
  <2> QED BY <1>11
<1>15. SortedUpward(id) = Reverse(sorted[n])
  <2> n \in 0 .. n BY <1>1
  <2> HIDE DEF n
  <2> QED BY <1>9
<1> HIDE DEF sorted
<1>16. SortTurns(sorted, s) BY <1>12, <1>13, <1>14 DEF SortTurns
<1> QED BY <1>15, <1>16

\* sorted has the first i elements of B, each where it was met last.
LastMet(sorted, B, i) ==
  /\ sorted \in Seq(Ids)
  /\ IsInjective(sorted)
  /\ \A x : x \in ToSet(sorted) <=> \E j \in 1 .. i : x = B[j]
  /\ \A p, q \in DOMAIN sorted : p < q =>
       \E j \in 1 .. i : B[j] = sorted[q] /\ \A k \in j .. i : B[k] # sorted[p]

\* A turn of that loop: a node met again moves to the end, so each stands
\* where it was last met.
LEMMA LastMetAgain ==
  ASSUME NEW B \in Seq(Ids), NEW i \in 1 .. Len(B),
         NEW sorted, LastMet(sorted, B, i - 1)
  PROVE  LastMet(Append(Without(sorted, {B[i]}), B[i]), B, i)
<1> DEFINE x == B[i]
           w == Without(sorted, {x})
           o == Append(w, x)
<1>1. /\ x \in Ids /\ i \in Nat /\ i \in 1 .. i
      /\ \A j \in 1 .. i : j \in 1 .. (i - 1) \/ j = i
      /\ \A j \in 1 .. (i - 1) : j \in 1 .. i
  OBVIOUS
<1>2. sorted \in Seq(Ids) /\ IsInjective(sorted) BY DEF LastMet
<1> HIDE DEF x
<1>3. /\ w \in Seq(Ids) /\ ToSet(w) = ToSet(sorted) \ {x}
      /\ \A p, q \in DOMAIN w : p < q =>
           \E a, b \in DOMAIN sorted : a < b /\ sorted[a] = w[p] /\ sorted[b] = w[q]
  <2> DEFINE S == {x}
  <2>1. w = Without(sorted, S) OBVIOUS
  <2> HIDE DEF S, w
  <2>2. w \in Seq(Ids) BY <1>2, <2>1, WithoutProperties
  <2>3. ToSet(w) = ToSet(sorted) \ S BY <1>2, <2>1, WithoutProperties
  <2>4. \A p, q \in DOMAIN w : p < q =>
           \E a, b \in DOMAIN sorted : a < b /\ sorted[a] = w[p] /\ sorted[b] = w[q]
    BY <1>2, <2>1, WithoutProperties
  <2> QED BY <2>2, <2>3, <2>4 DEF S
<1>4. IsInjective(w) BY <1>2, WithoutInjective
<1> HIDE DEF w
<1>5. /\ o \in Seq(Ids) /\ DOMAIN w = 1 .. Len(w) /\ Len(w) \in Nat
      /\ DOMAIN o = 1 .. (Len(w) + 1)
      /\ \A p \in DOMAIN w : o[p] = w[p]
      /\ o[Len(w) + 1] = x
  BY <1>1, <1>3
<1> HIDE DEF o
<1>6. \A p \in DOMAIN o : p \in DOMAIN w \/ p = Len(w) + 1 BY <1>5
<1>7. \A p \in DOMAIN w : p \in DOMAIN o /\ w[p] # x BY <1>3, <1>5 DEF ToSet
<1>8. IsInjective(o)
  <2> SUFFICES ASSUME NEW a \in DOMAIN o, NEW b \in DOMAIN o, o[a] = o[b] PROVE a = b
    BY DEF IsInjective
  <2>1. CASE a \in DOMAIN w /\ b \in DOMAIN w BY <1>4, <1>5, <2>1 DEF IsInjective
  <2>2. CASE a = Len(w) + 1 \/ b = Len(w) + 1 BY <1>5, <1>6, <1>7, <2>2
  <2> QED BY <1>6, <2>1, <2>2
<1>9. ToSet(o) = ToSet(w) \cup {x}
  <2> Len(w) + 1 \in DOMAIN o BY <1>5
  <2> QED BY <1>5, <1>6, <1>7 DEF ToSet
<1>10. \A y : y \in ToSet(o) <=> \E j \in 1 .. i : y = B[j]
  <2> \A y : y \in ToSet(sorted) <=> \E j \in 1 .. (i - 1) : y = B[j] BY DEF LastMet
  <2> QED BY <1>1, <1>3, <1>9 DEF x
<1>11. ASSUME NEW p \in DOMAIN o, NEW q \in DOMAIN o, p < q
       PROVE  \E j \in 1 .. i : B[j] = o[q] /\ \A k \in j .. i : B[k] # o[p]
  <2>1. p \in DOMAIN w BY <1>5, <1>6, <1>11
  <2>2. CASE q \in DOMAIN w
    <3>1. PICK a \in DOMAIN sorted, b \in DOMAIN sorted :
             a < b /\ sorted[a] = w[p] /\ sorted[b] = w[q]
      BY <1>3, <1>11, <2>1, <2>2
    <3>2. PICK j \in 1 .. (i - 1) :
             B[j] = sorted[b] /\ \A k \in j .. (i - 1) : B[k] # sorted[a]
      BY <3>1 DEF LastMet
    <3>3. \A k \in j .. i : k \in j .. (i - 1) \/ k = i BY <1>1
    <3> QED BY <1>1, <1>5, <1>7, <2>1, <2>2, <3>1, <3>2, <3>3 DEF x
  <2>3. CASE q = Len(w) + 1
    <3>1. \A k \in i .. i : k = i BY <1>1
    <3> QED BY <1>1, <1>5, <1>7, <2>1, <2>3, <3>1 DEF x
  <2> QED BY <1>6, <2>2, <2>3
<1> QED BY <1>5, <1>8, <1>10, <1>11 DEF LastMet, o, w, x

\* What evaluation_graph promises of the graph of id.
IsSound(graph, id) ==
  /\ graph \in Seq(Ids)
  /\ graph # <<>>
  /\ ToSet(graph) = Anc(ParentsOf, id)
  /\ IsInjective(graph)
  /\ \A i, j \in DOMAIN graph : graph[j] \in ParentSet(graph[i]) => j < i

\* What evaluation_graph computes holds the node and its ancestors, each
\* once, and every parent before its children.
LEMMA SortedUpwardSound ==
  ASSUME parents \in [Ids -> Seq(Ids)], Acyclic(ParentsOf), NEW id \in Ids
  PROVE  IsSound(SortedUpward(id), id)
<1> DEFINE B == BreadthUp(id)
           n == Len(B)
<1>1. /\ B \in Seq(Ids) /\ ToSet(B) = Anc(ParentsOf, id)
      /\ \A k \in DOMAIN B : \A p \in ParentSet(B[k]) :
           \E j \in DOMAIN B : k < j /\ B[j] = p
  BY BreadthUpProperties
<1>2. PICK sorted : SortTurns(sorted, B) /\ SortedUpward(id) = Reverse(sorted[n])
  BY <1>1, SortedUpwardTurns
<1> HIDE DEF B
<1>3. n \in Nat /\ DOMAIN B = 1 .. n BY <1>1
<1> DEFINE T == {i \in 0 .. n : LastMet(sorted[i], B, i)}
<1>4. 0 \in T
  <2>1. sorted[0] = <<>> BY <1>2 DEF SortTurns
  <2>2. <<>> \in Seq(Ids) /\ DOMAIN <<>> = {} OBVIOUS
  <2>3. 1 .. 0 = {} OBVIOUS
  <2>4. LastMet(<<>>, B, 0) BY <2>2, <2>3 DEF LastMet, IsInjective, ToSet
  <2>5. LastMet(sorted[0], B, 0) BY <2>1, <2>4
  <2>6. 0 \in 0 .. n BY <1>3
  <2> HIDE DEF n
  <2> QED BY <2>5, <2>6
<1>5. ASSUME NEW i \in 1 .. n, i - 1 \in T PROVE i \in T
  <2>1. LastMet(Append(Without(sorted[i - 1], {B[i]}), B[i]), B, i)
    BY <1>1, <1>5, LastMetAgain
  <2>2. sorted[i] = Append(Without(sorted[i - 1], {B[i]}), B[i]) BY <1>2 DEF SortTurns
  <2>3. LastMet(sorted[i], B, i) BY <2>1, <2>2
  <2>4. i \in 0 .. n BY <1>3
  <2> HIDE DEF n
  <2> QED BY <2>3, <2>4
<1>6. LastMet(sorted[n], B, n)
  <2>1. 0 .. n \subseteq T
    <3> HIDE DEF T, n
    <3> QED BY <1>3, <1>4, <1>5, BoundedInduction
  <2> QED BY <1>3, <2>1
<1> DEFINE o == sorted[n]
           g == Reverse(o)
           m == Len(o)
<1>7. o \in Seq(Ids) /\ m \in Nat /\ DOMAIN o = 1 .. m BY <1>6 DEF LastMet
<1>8. ToSet(o) = Anc(ParentsOf, id)
  <2> \A x : x \in ToSet(o) <=> \E j \in 1 .. n : x = B[j] BY <1>6 DEF LastMet
  <2> QED BY <1>1, <1>3 DEF ToSet
<1>9. IsInjective(o) BY <1>6 DEF LastMet
<1>10. \A p, q \in 1 .. m : p < q =>
          \E j \in 1 .. n : B[j] = o[q] /\ \A k \in j .. n : B[k] # o[p]
  BY <1>6, <1>7 DEF LastMet
<1> HIDE DEF o
<1>11. g = [i \in 1 .. m |-> o[m - i + 1]] BY DEF Reverse
<1> HIDE DEF g
<1>12. \A i \in 1 .. m : m - i + 1 \in 1 .. m /\ m - (m - i + 1) + 1 = i BY <1>7
<1>13. /\ g \in Seq(Ids) /\ DOMAIN g = 1 .. m
       /\ \A i \in 1 .. m : g[i] = o[m - i + 1]
  <2>1. \A i \in 1 .. m : o[m - i + 1] \in Ids BY <1>7, <1>12
  <2> HIDE DEF m
  <2> QED BY <1>7, <1>11, <2>1
<1>14. ToSet(g) = ToSet(o)
  <2> HIDE DEF m
  <2>1. ASSUME NEW i \in 1 .. m PROVE g[i] \in ToSet(o)
    BY <1>7, <1>12, <1>13 DEF ToSet
  <2>2. ASSUME NEW i \in 1 .. m PROVE o[i] \in ToSet(g)
    <3> DEFINE k == m - i + 1
    <3>1. k \in 1 .. m /\ m - k + 1 = i BY <1>12
    <3>2. g[k] = o[i] BY <1>13, <3>1
    <3> HIDE DEF k
    <3> QED BY <1>13, <3>1, <3>2 DEF ToSet
  <2> QED BY <1>7, <1>13, <2>1, <2>2 DEF ToSet
<1>15. g # <<>>
  <2>1. id \in ToSet(g) BY <1>8, <1>14, AncClosed, ParentsTyped
  <2> QED BY <2>1 DEF ToSet
<1> HIDE DEF m, n
<1>16. IsInjective(g)
  <2> SUFFICES ASSUME NEW a \in 1 .. m, NEW b \in 1 .. m, g[a] = g[b] PROVE a = b
    BY <1>13 DEF IsInjective
  <2>1. m - a + 1 = m - b + 1 BY <1>7, <1>9, <1>12, <1>13 DEF IsInjective
  <2> QED BY <1>7, <2>1
<1>17. ASSUME NEW i \in 1 .. m, NEW j \in 1 .. m, g[j] \in ParentSet(g[i])
       PROVE  j < i
  <2> DEFINE q == m - i + 1
             p == m - j + 1
  <2>1. q \in 1 .. m /\ p \in 1 .. m /\ g[i] = o[q] /\ g[j] = o[p] BY <1>12, <1>13
  <2>2. p # q
    <3>1. o[q] \in Ids BY <1>7, <2>1
    <3>2. o[p] \in ParentsOf[o[q]] BY <1>17, <2>1, <3>1 DEF ParentsOf
    <3>3. ParentsOf \in Graphs BY ParentsTyped
    <3>4. o[p] \in Ids BY <1>7, <2>1
    <3>5. o[p] \in Anc(ParentsOf, o[p]) BY <3>3, <3>4, AncClosed
    <3>6. o[q] \notin Anc(ParentsOf, o[p]) BY <3>1, <3>2 DEF Acyclic
    <3> HIDE DEF p, q
    <3> QED BY <3>5, <3>6
  <2> HIDE DEF p, q
  <2>3. ASSUME p < q PROVE FALSE
    <3>1. PICK k \in 1 .. n : B[k] = o[q] /\ \A l \in k .. n : B[l] # o[p]
      BY <1>10, <2>1, <2>3
    <3>2. o[p] \in ParentSet(B[k]) BY <1>17, <2>1, <3>1
    <3>3. PICK l \in 1 .. n : k < l /\ B[l] = o[p] BY <1>1, <1>3, <3>2
    <3>4. l \in k .. n BY <1>3, <3>3
    <3> QED BY <3>1, <3>3, <3>4
  <2>4. q < p BY <1>7, <2>1, <2>2, <2>3
  <2> QED BY <1>7, <2>4 DEF p, q
<1>18. IsSound(g, id) BY <1>8, <1>13, <1>14, <1>15, <1>16, <1>17 DEF IsSound
<1> QED BY <1>2, <1>18 DEF g, o

-----------------------------------------------------------------------------
(* Dirtyness.                                                              *)

VersionSpace == InitSentinel .. MaxVersion
SeenSpace == [Ids -> [Ids -> Versions]]

\* What version and seenBy hold, while evaluate_dirty runs.
Running == [version : [Ids -> VersionSpace], seenBy : SeenSpace, threw : BOOLEAN]

\* What make_dirty does to the node's version and to what its children saw.
NextVersion(n) == IF n = MaxVersion THEN InitSentinel ELSE n + 1

Forgotten == [c \in Ids |-> DirtySentinel]

\* The next version is another one, and none is a sentinel of a child that
\* saw nothing.
LEMMA VersionsTyped ==
  /\ DirtySentinel \in Versions /\ Forgotten \in [Ids -> Versions]
  /\ \A n \in VersionSpace : /\ NextVersion(n) \in VersionSpace
                             /\ NextVersion(n) # n
                             /\ n \in Versions
BY VersionsAssumption
   DEF VersionSpace, Versions, DirtySentinel, InitSentinel, NextVersion, Forgotten

\* Bumped leaves the record a record and changes the entries of id alone.
LEMMA BumpedIs ==
  ASSUME NEW v \in Running, NEW id \in Ids
  PROVE  /\ Bumped(v, id) \in Running
         /\ Bumped(v, id).version = [v.version EXCEPT ![id] = NextVersion(@)]
         /\ Bumped(v, id).seenBy = IF v.version[id] = MaxVersion
                                   THEN [v.seenBy EXCEPT ![id] = Forgotten]
                                   ELSE v.seenBy
         /\ Bumped(v, id).threw = v.threw
<1>1. /\ v.version \in [Ids -> VersionSpace] /\ v.seenBy \in SeenSpace
      /\ v.threw \in BOOLEAN
      /\ v = [version |-> v.version, seenBy |-> v.seenBy, threw |-> v.threw]
  BY DEF Running
<1> DEFINE m == [v.version EXCEPT ![id] = NextVersion(@)]
           s == [v.seenBy EXCEPT ![id] = Forgotten]
<1>2. m \in [Ids -> VersionSpace]
  BY <1>1, VersionsTyped
<1>3. s \in SeenSpace BY <1>1, VersionsTyped DEF SeenSpace
<1>4. CASE v.version[id] = MaxVersion
  <2>1. Bumped(v, id) = [version |-> m, seenBy |-> s, threw |-> v.threw]
    BY <1>1, <1>4 DEF Bumped, NextVersion, Forgotten, Running
  <2> HIDE DEF m, s
  <2>2. Bumped(v, id) \in Running BY <1>1, <1>2, <1>3, <2>1 DEF Running
  <2> QED BY <1>4, <2>1, <2>2 DEF m, s
<1>5. CASE v.version[id] # MaxVersion
  <2>1. Bumped(v, id) = [version |-> m, seenBy |-> v.seenBy, threw |-> v.threw]
    BY <1>1, <1>5 DEF Bumped, NextVersion, Running
  <2> HIDE DEF m, s
  <2>2. Bumped(v, id) \in Running BY <1>1, <1>2, <1>3, <2>1 DEF Running
  <2> QED BY <1>5, <2>1, <2>2 DEF m, s
<1> QED BY <1>4, <1>5

\* make_dirty changes the version of its node and, on a wrap, what the
\* children saw.
LEMMA BumpedCurrent ==
  ASSUME TypeOK, NEW id \in Ids
  PROVE  /\ Bumped(Current, id).version = [version EXCEPT ![id] = NextVersion(@)]
         /\ Bumped(Current, id).seenBy = IF version[id] = MaxVersion
                                         THEN [seenBy EXCEPT ![id] = Forgotten]
                                         ELSE seenBy
BY DEF Bumped, Current, NextVersion, Forgotten, TypeOK

\* What x has seen once clean's callback returned.
LEMMA SeenIs ==
  ASSUME NEW v \in Running, NEW x \in Ids
  PROVE  /\ Seen(v, x) \in Running
         /\ Seen(v, x).version = v.version
         /\ Seen(v, x).threw = v.threw
         /\ \A p, c \in Ids : Seen(v, x).seenBy[p][c] =
              IF c = x /\ p \in DirtyParents(v, x) THEN v.version[p]
              ELSE v.seenBy[p][c]
<1>1. /\ v.version \in [Ids -> VersionSpace] /\ v.seenBy \in SeenSpace
      /\ v.threw \in BOOLEAN
      /\ v = [version |-> v.version, seenBy |-> v.seenBy, threw |-> v.threw]
  BY DEF Running
<1> DEFINE s == [p \in Ids |-> IF p \in DirtyParents(v, x)
                               THEN [v.seenBy[p] EXCEPT ![x] = v.version[p]]
                               ELSE v.seenBy[p]]
<1>2. s \in SeenSpace
  <2>1. ASSUME NEW p \in Ids
        PROVE  /\ v.version[p] \in Versions
               /\ v.seenBy[p] \in [Ids -> Versions]
    BY <1>1, VersionsTyped DEF SeenSpace
  <2> QED BY <2>1 DEF SeenSpace
<1>3. Seen(v, x) = [version |-> v.version, seenBy |-> s, threw |-> v.threw]
  BY <1>1 DEF Seen, Running
<1>4. \A p, c \in Ids : s[p][c] =
              IF c = x /\ p \in DirtyParents(v, x) THEN v.version[p]
              ELSE v.seenBy[p][c]
  BY <1>1 DEF SeenSpace
<1> HIDE DEF s
<1>5. Seen(v, x) \in Running BY <1>1, <1>2, <1>3 DEF Running
<1> QED BY <1>3, <1>4, <1>5

\* A turn of evaluate_dirty's loop keeps versions versions.
LEMMA TurnTyped ==
  ASSUME NEW v \in Running, NEW x \in Ids, NEW cleans
  PROVE  Turn(v, x, cleans) \in Running
<1>1. [v EXCEPT !.threw = TRUE] \in Running BY DEF Running
<1>2. Bumped(v, x) \in Running BY BumpedIs
<1>3. Bumped(Seen(v, x), x) \in Running BY SeenIs, BumpedIs
<1> QED BY <1>1, <1>2, <1>3 DEF Turn

\* The turns of evaluate_dirty's loop over graph, from the versions v.
IsTurns(turn, v, graph, cleans) ==
  /\ turn \in [0 .. Len(graph) -> Running]
  /\ turn[0] = v
  /\ \A i \in 1 .. Len(graph) : turn[i] = Turn(turn[i - 1], graph[i], cleans)

\* evaluate_dirty's loop is its turns, one after the other, from wherever it
\* starts.
LEMMA SweptTurns ==
  ASSUME TypeOK, NEW base \in Running, NEW id \in Ids, NEW cleans,
         EvalGraphOf(id) \in Seq(Ids)
  PROVE  \E turn : /\ IsTurns(turn, base, EvalGraphOf(id), cleans)
                   /\ Swept(base, id, cleans) = turn[Len(EvalGraphOf(id))]
<1> DEFINE s == EvalGraphOf(id)
           n == Len(s)
           V == Running
           last == [t \in SUBSET (1 .. n) |-> Max(t)]
           step == [i \in 1 .. n |-> [v \in V |-> Turn(v, s[i], cleans)]]
           IsRun(g) ==
             g = [t \in SUBSET (1 .. n) |->
                    IF t = {} THEN base
                    ELSE Turn(g[t \ {Max(t)}], s[Max(t)], cleans)]
           c == CHOOSE g : IsRun(g)
<1>1. /\ n \in Nat /\ DOMAIN s = 1 .. n
      /\ \A i \in 1 .. n : s[i] \in Ids
  OBVIOUS
<1>0. base \in V OBVIOUS
<1>2. \A v \in V : \A x \in Ids : Turn(v, x, cleans) \in V BY TurnTyped
<1>9. Swept(base, id, cleans) = c[1 .. n]
  BY <1>1 DEF Swept, FoldLeft, MapThenFoldSet
<1>3. step \in StepsOver(1 .. n, V)
  <2> HIDE DEF V, n
  <2> QED BY <1>1, <1>2 DEF StepsOver
<1>4. PICK g : IsFold(g, 1 .. n, V, base, step, last)
  <2> HIDE DEF step, V, n
  <2> QED BY <1>0, <1>1, <1>3, FoldLeftExists
<1>5. /\ g \in [SUBSET (1 .. n) -> V]
      /\ \A t \in SUBSET (1 .. n) :
            g[t] = IF t = {} THEN base ELSE step[Max(t)][g[t \ {Max(t)}]]
  BY <1>4 DEF IsFold
<1>6. ASSUME NEW t \in SUBSET (1 .. n), t # {}
      PROVE  g[t] = Turn(g[t \ {Max(t)}], s[Max(t)], cleans)
  <2>1. Max(t) \in 1 .. n BY <1>1, <1>6, LastMember
  <2>2. g[t \ {Max(t)}] \in V
    <3> HIDE DEF V, n
    <3> QED BY <1>5
  <2> HIDE DEF V, n
  <2> QED BY <1>5, <1>6, <2>1, <2>2
<1>7. IsRun(g)
  <2> HIDE DEF V, n
  <2> QED BY <1>5, <1>6
<1>8. IsRun(c)
  <2> HIDE DEF IsRun
  <2> QED BY <1>7
<1> HIDE DEF c
<1>10. /\ c[{}] = base
       /\ \A t \in SUBSET (1 .. n) : t # {} =>
             c[t] = Turn(c[t \ {Max(t)}], s[Max(t)], cleans)
  <2> HIDE DEF n
  <2> QED BY <1>8
<1> HIDE DEF IsRun
<1>11. ASSUME NEW i \in 1 .. n
       PROVE  c[1 .. i] = Turn(c[1 .. (i - 1)], s[i], cleans)
  <2>1. 1 .. i \in SUBSET (1 .. n) /\ 1 \in 1 .. i BY <1>1
  <2>2. Max(1 .. i) = i /\ (1 .. i) \ {i} = 1 .. (i - 1) BY <1>1, LastIndex
  <2> HIDE DEF n
  <2> QED BY <1>10, <2>1, <2>2
<1> DEFINE turn == [i \in 0 .. n |-> c[1 .. i]]
<1>12. turn \in [0 .. n -> V]
  <2>1. ASSUME NEW i \in 1 .. n, c[1 .. (i - 1)] \in V PROVE c[1 .. i] \in V
    <3> HIDE DEF V, n
    <3> QED BY <1>1, <1>2, <1>11, <2>1
  <2> HIDE DEF V, n
  <2>2. \A i \in 0 .. n : c[1 .. i] \in V BY <1>0, <1>1, <1>10, <2>1, FoldLeftTurns
  <2> QED BY <2>2
<1>13. turn[0] = base
  <2> 1 .. 0 = {} OBVIOUS
  <2> HIDE DEF n
  <2> QED BY <1>1, <1>10
<1>14. \A i \in 1 .. n : turn[i] = Turn(turn[i - 1], s[i], cleans)
  <2> \A i \in 1 .. n : i \in 0 .. n /\ i - 1 \in 0 .. n BY <1>1
  <2> HIDE DEF n
  <2> QED BY <1>11
<1>15. Swept(base, id, cleans) = turn[n]
  <2> n \in 0 .. n BY <1>1
  <2> HIDE DEF n
  <2> QED BY <1>9
<1> HIDE DEF turn
<1>16. IsTurns(turn, base, s, cleans) BY <1>12, <1>13, <1>14 DEF IsTurns
<1> QED BY <1>15, <1>16

\* The same from the graph's current versions.
LEMMA EvaluatedTurns ==
  ASSUME TypeOK, NEW id \in Ids, NEW cleans, EvalGraphOf(id) \in Seq(Ids)
  PROVE  \E turn : /\ IsTurns(turn, Entered, EvalGraphOf(id), cleans)
                   /\ Evaluated(id, cleans) = turn[Len(EvalGraphOf(id))]
<1>1. Entered \in Running BY DEF TypeOK, Running, VersionSpace, SeenSpace, Entered
<1> QED BY <1>1, SweptTurns DEF Evaluated

-----------------------------------------------------------------------------
(* The edits keep the structure.                                           *)

\* The inductive invariant of the structure.  Acyclic is its last conjunct for
\* every node, over the ancestors as a least set.
Linked ==
  /\ TypeOK
  /\ \A p, c \in Ids : p \in ParentSet(c) <=> c \in children[p]
  /\ \A id \in Ids : ParentSet(id) \cup children[id] # {} => id \in nodes
  /\ \A id \in Ids : IsInjective(parents[id])
  /\ Acyclic(ParentsOf)

\* The inductive invariant gives the structure the run checks.
LEMMA LinkedIsStructure == Linked => StructureOK
<1> SUFFICES ASSUME Linked PROVE StructureOK OBVIOUS
<1>1. parents \in [Ids -> Seq(Ids)] BY DEF Linked, TypeOK
<1>2. ASSUME NEW id \in Ids, NEW p \in ParentSet(id) PROVE id \notin Upward(p)
  <2>1. p \in Ids BY <1>1 DEF ParentSet, ToSet
  <2>2. Upward(p) = Anc(ParentsOf, p) BY <1>1, <2>1, UpwardIsAnc
  <2>3. p \in ParentsOf[id] BY DEF ParentsOf
  <2> QED BY <2>2, <2>3 DEF Linked, Acyclic
<1> QED BY <1>2 DEF Linked, StructureOK

\* The order a node is evaluated in is a sequence of nodes.
LEMMA GraphTyped ==
  ASSUME Linked, NEW id \in Ids
  PROVE  EvalGraphOf(id) \in Seq(Ids)
<1>1. parents \in [Ids -> Seq(Ids)] /\ evalGraph \in [Ids -> Seq(Ids)]
  BY DEF Linked, TypeOK
<1>2. SortedUpward(id) \in Seq(Ids)
  BY <1>1, SortedUpwardSound DEF Linked, IsSound
<1> QED BY <1>1, <1>2 DEF EvalGraphOf

\* The empty graph is linked.
LEMMA LinkedInit == Init => Linked
<1> SUFFICES ASSUME Init PROVE Linked OBVIOUS
<1>1. TypeOK
  <2> InitSentinel \in InitSentinel .. MaxVersion /\ DirtySentinel \in Versions
    BY VersionsAssumption DEF InitSentinel, DirtySentinel, Versions
  <2> QED BY DEF Init, TypeOK
<1>2. \A id \in Ids : ParentSet(id) = {} /\ children[id] = {} /\ parents[id] = <<>>
  BY DEF Init, ParentSet, ToSet
<1>3. IsInjective(<<>>) BY DEF IsInjective
<1>4. Acyclic(ParentsOf) BY <1>2 DEF Acyclic, ParentsOf
<1> QED BY <1>1, <1>2, <1>3, <1>4 DEF Linked

\* A step that leaves nodes and dependencies alone.
LEMMA LinkedSame ==
  ASSUME Linked, TypeOK', UNCHANGED <<parents, children>>, nodes \subseteq nodes'
  PROVE  Linked'
<1>1. \A id : ParentSet(id)' = ParentSet(id) BY DEF ParentSet
<1>2. ParentsOf' = ParentsOf BY <1>1 DEF ParentsOf
<1>3. Acyclic(ParentsOf)' BY <1>2 DEF Linked, Acyclic, Anc
<1>4. \A id \in Ids : IsInjective(parents[id])' BY DEF Linked
<1>5. \A id \in Ids : (ParentSet(id) \cup children[id] # {} => id \in nodes)'
  BY <1>1 DEF Linked
<1>6. \A p, c \in Ids : (p \in ParentSet(c) <=> c \in children[p])' BY <1>1 DEF Linked
<1> QED BY <1>3, <1>4, <1>5, <1>6 DEF Linked

\* add_node keeps the graph linked.
LEMMA LinkedAddNode ==
  ASSUME Linked, NEW id \in Ids, AddNode(id)
  PROVE  Linked'
<1>1. TypeOK' BY DEF Linked, TypeOK, AddNode, versions
<1> QED BY <1>1, LinkedSame DEF AddNode

\* What is left of the parents after nodes were erased.
LEMMA ErasedGraph ==
  ASSUME TypeOK, NEW S, Erase(S)
  PROVE  /\ TypeOK'
         /\ \A id \in Ids : ParentSet(id)' = IF id \in S THEN {}
                                             ELSE ParentSet(id) \ S
<1>0. parents \in [Ids -> Seq(Ids)] BY DEF TypeOK
<1>1. ASSUME NEW id \in Ids
      PROVE  /\ Without(parents[id], S) \in Seq(Ids)
             /\ ToSet(Without(parents[id], S)) = ParentSet(id) \ S
  <2> parents[id] \in Seq(Ids) BY <1>0
  <2> QED BY WithoutProperties DEF ParentSet
<1>2. \A id \in Ids : parents'[id] \in Seq(Ids) BY <1>1 DEF Erase
<1>3. parents' \in [Ids -> Seq(Ids)] BY <1>2 DEF Erase
<1>4. \A id \in Ids : ParentSet(id)' = IF id \in S THEN {} ELSE ParentSet(id) \ S
  <2>1. ToSet(<<>>) = {} BY DEF ToSet
  <2> QED BY <1>1, <2>1 DEF Erase, ParentSet
<1>5. version' \in [Ids -> InitSentinel .. MaxVersion]
  BY VersionsAssumption DEF TypeOK, Erase, InitSentinel
<1>6. seenBy' \in [Ids -> [Ids -> Versions]]
  BY VersionsTyped DEF TypeOK, Erase
<1>7. nodes' \subseteq Ids /\ children' \in [Ids -> SUBSET Ids]
  BY DEF TypeOK, Erase
<1>8. evalGraph' \in [Ids -> Seq(Ids)] BY DEF TypeOK, Erase
<1> QED BY <1>3, <1>4, <1>5, <1>6, <1>7, <1>8 DEF TypeOK

\* Erasing nodes (remove_node, remove_subgraph, clear) keeps the graph
\* linked.
LEMMA LinkedErase ==
  ASSUME Linked, NEW S, Erase(S)
  PROVE  Linked'
<1>1. TypeOK BY DEF Linked
<1>2. /\ TypeOK'
      /\ \A id \in Ids : ParentSet(id)' = IF id \in S THEN {}
                                          ELSE ParentSet(id) \ S
  BY <1>1, ErasedGraph
<1>3. \A id \in Ids : children'[id] = IF id \in S THEN {} ELSE children[id] \ S
  BY DEF Erase
<1>4. \A p, c \in Ids : (p \in ParentSet(c) <=> c \in children[p])'
  <2> SUFFICES ASSUME NEW p \in Ids, NEW c \in Ids
               PROVE  p \in ParentSet(c)' <=> c \in children'[p]
    OBVIOUS
  <2>1. p \in ParentSet(c) <=> c \in children[p] BY DEF Linked
  <2> QED BY <1>2, <1>3, <2>1
<1>5. \A id \in Ids : (ParentSet(id) \cup children[id] # {} => id \in nodes)'
  BY <1>2, <1>3 DEF Linked, Erase
<1>6. ASSUME NEW id \in Ids PROVE IsInjective(parents[id])'
  <2>1. parents[id] \in Seq(Ids) /\ IsInjective(parents[id])
    BY <1>1 DEF Linked, TypeOK
  <2>2. IsInjective(Without(parents[id], S)) BY <2>1, WithoutInjective
  <2>3. IsInjective(<<>>) BY DEF IsInjective
  <2>4. parents'[id] = IF id \in S THEN <<>> ELSE Without(parents[id], S)
    BY DEF Erase
  <2> QED BY <2>2, <2>3, <2>4
<1>7. Acyclic(ParentsOf)'
  <2>1. ParentsOf \in Graphs BY <1>1, ParentsTyped DEF TypeOK
  <2>a. (parents \in [Ids -> Seq(Ids)])' BY <1>2 DEF TypeOK
  <2>2. (ParentsOf \in Graphs)' BY <2>a, ParentsTyped, PTL
  <2> DEFINE P == ParentsOf
             Q == ParentsOf'
  <2>3. \A y \in Ids : Q[y] \subseteq P[y] BY <1>2 DEF ParentsOf
  <2>4. Acyclic(P) BY DEF Linked
  <2> HIDE DEF P, Q
  <2>5. Acyclic(Q) BY <2>1, <2>2, <2>3, <2>4, AcyclicRemoved DEF P, Q
  <2> QED BY <2>5 DEF Acyclic, Anc, Q
<1> QED BY <1>2, <1>4, <1>5, <1>6, <1>7 DEF Linked

\* is_invalid_child finds every loop: what it lets through is not above p.
LEMMA NotAbove ==
  ASSUME Linked, NEW c \in Ids, NEW p \in Ids, ~IsInvalidChild(c, p)
  PROVE  c # p /\ c \notin Anc(ParentsOf, p)
<1>1. parents \in [Ids -> Seq(Ids)] BY DEF Linked, TypeOK
<1>3. /\ c # p
      /\ {c, p} \subseteq nodes => /\ c \notin children[p]
                                  /\ \A x \in Upward(p) : c \notin ParentSet(x)
  BY DEF IsInvalidChild
<1>4. ParentsOf \in Graphs /\ Upward(p) = Anc(ParentsOf, p)
  BY <1>1, ParentsTyped, UpwardIsAnc
<1>5. \A x \in Ids : ParentSet(x) \subseteq Ids /\ ParentsOf[x] = ParentSet(x)
  BY <1>1 DEF ParentsOf, ParentSet, ToSet
<1>6. /\ \A x, y \in Ids : x \in ParentSet(y) <=> y \in children[x]
      /\ \A x \in Ids : x \notin nodes => ParentSet(x) = {} /\ children[x] = {}
  BY DEF Linked
<1>7. c \notin Anc(ParentsOf, p)
  <2>1. CASE {c, p} \subseteq nodes
    <3> \A y \in Anc(ParentsOf, p) : c \notin ParentsOf[y]
      BY <1>3, <1>4, <1>5, <2>1, AncClosed
    <3> QED BY <1>3, <1>4, NoAncestor
  <2>2. CASE c \notin nodes
    <3> \A y \in Anc(ParentsOf, p) : c \notin ParentsOf[y]
      BY <1>4, <1>5, <1>6, <2>2, AncClosed
    <3> QED BY <1>3, <1>4, NoAncestor
  <2>3. CASE p \notin nodes
    <3>1. \A y \in {p} \cap Ids : ParentsOf[y] \subseteq {p} BY <1>5, <1>6, <2>3
    <3>2. Anc(ParentsOf, p) \subseteq {p}
      <4> DEFINE W == {p}
      <4>1. p \in W /\ \A y \in W \cap Ids : ParentsOf[y] \subseteq W BY <3>1
      <4> HIDE DEF W
      <4>2. Anc(ParentsOf, p) \subseteq W BY <1>4, <4>1, AncLeast
      <4> QED BY <4>2 DEF W
    <3> QED BY <1>3, <3>2
  <2> QED BY <2>1, <2>2, <2>3
<1> QED BY <1>3, <1>7

\* add_dependency keeps the graph linked: is_invalid_child refuses what would
\* close a loop.
LEMMA LinkedAddDependency ==
  ASSUME Linked, NEW c \in Ids, NEW p \in Ids, AddDependency(c, p)
  PROVE  Linked'
<1>1. TypeOK /\ parents \in [Ids -> Seq(Ids)] BY DEF Linked, TypeOK
<1>2. TypeOK'
  <2>1. parents' \in [Ids -> Seq(Ids)] BY <1>1 DEF AddDependency
  <2>2. seenBy' \in [Ids -> [Ids -> Versions]]
    BY <1>1, VersionsTyped DEF AddDependency, TypeOK
  <2>3. children' \in [Ids -> SUBSET Ids] /\ evalGraph' \in [Ids -> Seq(Ids)]
    BY <1>1 DEF AddDependency, TypeOK
  <2> QED BY <1>1, <2>1, <2>2, <2>3 DEF TypeOK, AddDependency
<1>3. /\ c # p
      /\ {c, p} \subseteq nodes => /\ c \notin children[p]
                                  /\ \A x \in Upward(p) : c \notin ParentSet(x)
  BY DEF AddDependency, IsInvalidChild
<1>4. ParentsOf \in Graphs /\ Upward(p) = Anc(ParentsOf, p)
  BY <1>1, ParentsTyped, UpwardIsAnc
<1>5. \A x \in Ids : ParentSet(x) \subseteq Ids /\ ParentsOf[x] = ParentSet(x)
  BY <1>1 DEF ParentsOf, ParentSet, ToSet
<1>6. /\ \A x, y \in Ids : x \in ParentSet(y) <=> y \in children[x]
      /\ \A x \in Ids : x \notin nodes => ParentSet(x) = {} /\ children[x] = {}
  BY DEF Linked
<1>7. c \notin Anc(ParentsOf, p) BY NotAbove DEF AddDependency
<1>8. p \notin ParentSet(c) BY <1>3, <1>6
<1>9. \A x \in Ids : ParentSet(x)' = IF x = c THEN ParentSet(x) \cup {p}
                                     ELSE ParentSet(x)
  <2>1. ASSUME NEW s \in Seq(Ids) PROVE ToSet(Append(s, p)) = ToSet(s) \cup {p}
    <3>1. /\ DOMAIN Append(s, p) = 1 .. (Len(s) + 1) /\ DOMAIN s = 1 .. Len(s)
          /\ Append(s, p)[Len(s) + 1] = p /\ Len(s) \in Nat
          /\ \A i \in 1 .. Len(s) : Append(s, p)[i] = s[i]
      OBVIOUS
    <3> QED BY <3>1 DEF ToSet
  <2>2. \A x \in Ids : parents'[x] = IF x = c THEN Append(parents[x], p)
                                     ELSE parents[x]
    BY <1>1 DEF AddDependency
  <2> QED BY <1>1, <2>1, <2>2 DEF ParentSet
<1>10. \A x \in Ids : children'[x] = IF x = p THEN children[x] \cup {c}
                                     ELSE children[x]
  BY <1>1 DEF AddDependency, TypeOK
<1>11. \A x, y \in Ids : (x \in ParentSet(y) <=> y \in children[x])'
  <2> SUFFICES ASSUME NEW x \in Ids, NEW y \in Ids
               PROVE  x \in ParentSet(y)' <=> y \in children'[x]
    OBVIOUS
  <2>1. x \in ParentSet(y) <=> y \in children[x] BY <1>6
  <2> QED BY <1>9, <1>10, <2>1
<1>12. \A id \in Ids : (ParentSet(id) \cup children[id] # {} => id \in nodes)'
  BY <1>6, <1>9, <1>10 DEF AddDependency
<1>13. ASSUME NEW id \in Ids PROVE IsInjective(parents[id])'
  <2>1. parents[id] \in Seq(Ids) /\ IsInjective(parents[id])
    BY <1>1 DEF Linked
  <2>2. CASE id # c BY <1>1, <2>1, <2>2 DEF AddDependency
  <2>3. CASE id = c
    <3> DEFINE s == parents[id]
               o == Append(s, p)
    <3>1. parents'[id] = o BY <1>1, <2>3 DEF AddDependency
    <3>2. /\ DOMAIN o = 1 .. (Len(s) + 1) /\ DOMAIN s = 1 .. Len(s)
          /\ o[Len(s) + 1] = p /\ Len(s) \in Nat
          /\ \A i \in 1 .. Len(s) : o[i] = s[i]
      BY <2>1
    <3>3. \A i \in 1 .. Len(s) : s[i] # p BY <1>8, <2>3, <3>2 DEF ParentSet, ToSet
    <3>4. \A i, j \in 1 .. Len(s) : s[i] = s[j] => i = j
      BY <2>1, <3>2 DEF IsInjective
    <3> HIDE DEF s, o
    <3>5. \A i \in DOMAIN o : i \in 1 .. Len(s) \/ i = Len(s) + 1 BY <3>2
    <3>6. IsInjective(o) BY <3>2, <3>3, <3>4, <3>5 DEF IsInjective
    <3> QED BY <3>1, <3>6
  <2> QED BY <2>2, <2>3
<1>14. Acyclic(ParentsOf)'
  <2>1. (parents \in [Ids -> Seq(Ids)])' BY <1>2 DEF TypeOK
  <2>2. (ParentsOf \in Graphs)' BY <2>1, ParentsTyped, PTL
  <2> DEFINE P == ParentsOf
             Q == ParentsOf'
  <2>3. Adds(P, Q, c, p) BY <1>9 DEF ParentsOf, Adds
  <2>4. Acyclic(P) /\ P \in Graphs /\ Q \in Graphs /\ c \notin Anc(P, p)
    BY <1>4, <1>7, <2>2 DEF Linked
  <2> HIDE DEF P, Q
  <2>5. Acyclic(Q) BY <2>3, <2>4, AcyclicAdded
  <2> QED BY <2>5 DEF Acyclic, Anc, Q
<1> QED BY <1>2, <1>11, <1>12, <1>13, <1>14 DEF Linked

\* remove_dependency keeps the graph linked.
LEMMA LinkedRemoveDependency ==
  ASSUME Linked, NEW c \in Ids, NEW p \in Ids, RemoveDependency(c, p)
  PROVE  Linked'
<1>1. TypeOK /\ parents \in [Ids -> Seq(Ids)] BY DEF Linked, TypeOK
<1>2. /\ Without(parents[c], {p}) \in Seq(Ids)
      /\ ToSet(Without(parents[c], {p})) = ParentSet(c) \ {p}
      /\ IsInjective(Without(parents[c], {p}))
  <2>1. parents[c] \in Seq(Ids) /\ IsInjective(parents[c]) BY <1>1 DEF Linked
  <2> DEFINE S == {p}
  <2> HIDE DEF S
  <2>2. Without(parents[c], S) \in Seq(Ids) BY <2>1, WithoutProperties
  <2>3. ToSet(Without(parents[c], S)) = ToSet(parents[c]) \ S
    BY <2>1, WithoutProperties
  <2>4. IsInjective(Without(parents[c], S)) BY <2>1, WithoutInjective
  <2> QED BY <2>2, <2>3, <2>4 DEF S, ParentSet
<1>3. \A x \in Ids : parents'[x] = IF x = c THEN Without(parents[x], {p})
                                   ELSE parents[x]
  BY <1>1 DEF RemoveDependency
<1>4. TypeOK'
  <2>1. parents' \in [Ids -> Seq(Ids)] BY <1>1, <1>2 DEF RemoveDependency
  <2>2. seenBy' \in [Ids -> [Ids -> Versions]]
    BY <1>1, VersionsTyped DEF RemoveDependency, TypeOK
  <2>3. children' \in [Ids -> SUBSET Ids] /\ evalGraph' \in [Ids -> Seq(Ids)]
    BY <1>1 DEF RemoveDependency, TypeOK
  <2> QED BY <1>1, <2>1, <2>2, <2>3 DEF TypeOK, RemoveDependency
<1>5. \A x \in Ids : ParentSet(x)' = IF x = c THEN ParentSet(x) \ {p}
                                     ELSE ParentSet(x)
  BY <1>2, <1>3 DEF ParentSet
<1>6. \A x \in Ids : children'[x] = IF x = p THEN children[x] \ {c}
                                    ELSE children[x]
  BY <1>1 DEF RemoveDependency, TypeOK
<1>7. \A x, y \in Ids : (x \in ParentSet(y) <=> y \in children[x])'
  <2> SUFFICES ASSUME NEW x \in Ids, NEW y \in Ids
               PROVE  x \in ParentSet(y)' <=> y \in children'[x]
    OBVIOUS
  <2>1. x \in ParentSet(y) <=> y \in children[x] BY DEF Linked
  <2> QED BY <1>5, <1>6, <2>1
<1>8. \A id \in Ids : (ParentSet(id) \cup children[id] # {} => id \in nodes)'
  BY <1>5, <1>6 DEF Linked, RemoveDependency
<1>9. \A id \in Ids : IsInjective(parents[id])' BY <1>2, <1>3 DEF Linked
<1>10. Acyclic(ParentsOf)'
  <2>1. (parents \in [Ids -> Seq(Ids)])' BY <1>4 DEF TypeOK
  <2>2. (ParentsOf \in Graphs)' BY <2>1, ParentsTyped, PTL
  <2> DEFINE P == ParentsOf
             Q == ParentsOf'
  <2>3. \A y \in Ids : Q[y] \subseteq P[y] BY <1>5 DEF ParentsOf
  <2>4. Acyclic(P) /\ P \in Graphs /\ Q \in Graphs
    BY <1>1, <2>2, ParentsTyped DEF Linked
  <2> HIDE DEF P, Q
  <2>5. Acyclic(Q) BY <2>3, <2>4, AcyclicRemoved
  <2> QED BY <2>5 DEF Acyclic, Anc, Q
<1> QED BY <1>4, <1>7, <1>8, <1>9, <1>10 DEF Linked

-----------------------------------------------------------------------------
(* The uses of the graph keep the structure.                               *)

\* What a visit writes has its type.
LEMMA VisitTyped ==
  ASSUME Linked, NEW id \in Ids, NEW cleans
  PROVE  Evaluated(id, cleans) \in Running
<1>1. EvalGraphOf(id) \in Seq(Ids) BY GraphTyped
<1>2. PICK turn : /\ IsTurns(turn, Entered, EvalGraphOf(id), cleans)
                  /\ Evaluated(id, cleans) = turn[Len(EvalGraphOf(id))]
  BY <1>1, EvaluatedTurns DEF Linked
<1>3. Len(EvalGraphOf(id)) \in 0 .. Len(EvalGraphOf(id)) BY <1>1
<1> QED BY <1>2, <1>3 DEF IsTurns

\* Dirtying and evaluating do not touch the links.
LEMMA LinkedUse ==
  ASSUME Linked, Use
  PROVE  Linked'
<1>1. TypeOK BY DEF Linked
<1>2. ASSUME NEW id \in Ids, SetVersions(Bumped(Current, id)),
             UNCHANGED <<nodes, parents, children, evalGraph>>
      PROVE  Linked'
  <2>1. version' \in [Ids -> InitSentinel .. MaxVersion]
    <3>1. version \in [Ids -> VersionSpace] BY <1>1 DEF TypeOK, VersionSpace
    <3>2. version' = [version EXCEPT ![id] = NextVersion(@)]
      BY <1>1, <1>2, BumpedCurrent DEF SetVersions
    <3>3. version' \in [Ids -> VersionSpace] BY <3>1, <3>2, VersionsTyped
    <3> QED BY <3>3 DEF VersionSpace
  <2>2. seenBy' \in [Ids -> [Ids -> Versions]]
    BY ZenonT(30), <1>1, <1>2, BumpedCurrent, VersionsTyped DEF TypeOK, SetVersions
  <2>3. TypeOK' BY <1>1, <1>2, <2>1, <2>2 DEF TypeOK
  <2> QED BY <1>2, <2>3, LinkedSame
<1>3. ASSUME NEW id \in Ids, EvaluationGraph(id) PROVE Linked'
  <2>1. evalGraph' \in [Ids -> Seq(Ids)]
    BY <1>1, <1>3, GraphTyped DEF TypeOK, EvaluationGraph
  <2>2. TypeOK' BY <1>1, <1>3, <2>1 DEF TypeOK, EvaluationGraph, versions
  <2> QED BY <1>3, <2>2, LinkedSame DEF EvaluationGraph
<1>4. ASSUME NEW id \in Ids, NEW cleans, Visit(id, cleans) PROVE Linked'
  <2>1. evalGraph' \in [Ids -> Seq(Ids)]
    BY <1>1, <1>4, GraphTyped DEF TypeOK, Visit
  <2>2. Evaluated(id, cleans) \in Running BY VisitTyped
  <2>3. /\ version' \in [Ids -> InitSentinel .. MaxVersion]
        /\ seenBy' \in [Ids -> [Ids -> Versions]]
    BY <1>4, <2>2 DEF Visit, SetVersions, Running, VersionSpace, SeenSpace
  <2>4. TypeOK' BY <1>1, <1>4, <2>1, <2>3 DEF TypeOK, Visit
  <2> QED BY <1>4, <2>4, LinkedSame DEF Visit
<1>5. ASSUME NEW id \in Writable, MakeDirty(id) \/ MakeDirtyIfNot(id) PROVE Linked'
  BY <1>2, <1>5, WritableAssumption DEF MakeDirty, MakeDirtyIfNot
<1>6. ASSUME NEW id \in Ids, EvaluateDirty(id) \/ Clean(id) PROVE Linked'
  BY <1>4, <1>6 DEF EvaluateDirty, Clean
<1> QED BY <1>3, <1>5, <1>6 DEF Use

\* No edit disturbs the links.
LEMMA LinkedEdit ==
  ASSUME Linked, Edit
  PROVE  Linked'
<1>1. ASSUME NEW id \in Ids, AddNode(id) PROVE Linked' BY <1>1, LinkedAddNode
<1>2. ASSUME NEW id \in Ids, RemoveNode(id) \/ RemoveSubgraph(id) PROVE Linked'
  BY <1>2, LinkedErase DEF RemoveNode, RemoveSubgraph
<1>3. ASSUME NEW c \in Ids, NEW p \in Ids, AddDependency(c, p) PROVE Linked'
  BY <1>3, LinkedAddDependency
<1>4. ASSUME NEW c \in Ids, NEW p \in Ids, RemoveDependency(c, p) PROVE Linked'
  BY <1>4, LinkedRemoveDependency
<1>5. ASSUME Clear PROVE Linked' BY <1>5, LinkedErase DEF Clear
<1> QED BY <1>1, <1>2, <1>3, <1>4, <1>5 DEF Edit

\* Linked is inductive.
LEMMA LinkedNext == Linked /\ [Next]_vars => Linked'
<1> SUFFICES ASSUME Linked, [Next]_vars PROVE Linked' OBVIOUS
<1>1. CASE UNCHANGED vars
  <2>1. TypeOK' BY <1>1 DEF Linked, TypeOK, vars, versions
  <2> QED BY <1>1, <2>1, LinkedSame DEF vars
<1> QED BY <1>1, LinkedUse, LinkedEdit DEF Next

\* The graph is linked in every state.
LEMMA LinkedAlways == Spec => []Linked
BY LinkedInit, LinkedNext, PTL DEF Spec

\* Whatever is added, removed and cleared, in any order, the two ends of every
\* dependency agree, no parent is listed twice and no loop is ever closed.
THEOREM StructureCorrect == Spec => []StructureOK
BY LinkedAlways, LinkedIsStructure, PTL

\* Every variable keeps its type.
THEOREM TypeCorrect == Spec => []TypeOK
<1>1. Linked => TypeOK BY DEF Linked
<1> QED BY <1>1, LinkedAlways, PTL

-----------------------------------------------------------------------------
(* No child has seen a version its parent has not reached.                 *)

Behind(v) == \A p, c \in Ids : v.seenBy[p][c] <= v.version[p]

\* make_dirty leaves no child ahead of its parent, the wrap included.
LEMMA BumpedBehind ==
  ASSUME NEW v \in Running, Behind(v), NEW id \in Ids
  PROVE  Behind(Bumped(v, id))
<1>1. v.version \in [Ids -> VersionSpace] /\ v.seenBy \in SeenSpace
  BY DEF Running
<1> SUFFICES ASSUME NEW p \in Ids, NEW c \in Ids
             PROVE  Bumped(v, id).seenBy[p][c] <= Bumped(v, id).version[p]
  BY DEF Behind
<1>2. /\ v.seenBy[p][c] <= v.version[p]
      /\ v.seenBy[p][c] \in Nat /\ v.version[p] \in Nat /\ v.version[p] >= 2
  BY <1>1, VersionsAssumption
     DEF Behind, SeenSpace, VersionSpace, Versions, InitSentinel
<1>3. Bumped(v, id).version[p] = IF p = id THEN NextVersion(v.version[p])
                                 ELSE v.version[p]
  <2>1. Bumped(v, id).version = [v.version EXCEPT ![id] = NextVersion(@)] BY BumpedIs
  <2> QED BY <1>1, <2>1
<1>4. Bumped(v, id).seenBy[p][c] = IF p = id /\ v.version[id] = MaxVersion
                                   THEN 0 ELSE v.seenBy[p][c]
  <2>1. Bumped(v, id).seenBy = IF v.version[id] = MaxVersion
                               THEN [v.seenBy EXCEPT ![id] = Forgotten]
                               ELSE v.seenBy
    BY BumpedIs
  <2> QED BY <1>1, <2>1 DEF SeenSpace, Forgotten, DirtySentinel
<1> QED BY <1>2, <1>3, <1>4, VersionsAssumption DEF NextVersion, InitSentinel

\* A child that sees its parents is not ahead of them.
LEMMA SeenBehind ==
  ASSUME NEW v \in Running, Behind(v), NEW x \in Ids
  PROVE  Behind(Seen(v, x))
<1> SUFFICES ASSUME NEW p \in Ids, NEW c \in Ids
             PROVE  Seen(v, x).seenBy[p][c] <= Seen(v, x).version[p]
  BY DEF Behind
<1>1. v.seenBy[p][c] <= v.version[p] /\ v.version[p] \in Nat
  BY VersionsAssumption DEF Behind, Running, VersionSpace, InitSentinel
<1>2. Seen(v, x).seenBy[p][c] = IF c = x /\ p \in DirtyParents(v, x)
                                THEN v.version[p] ELSE v.seenBy[p][c]
  BY SeenIs
<1>3. Seen(v, x).version[p] = v.version[p] BY SeenIs
<1> QED BY <1>1, <1>2, <1>3

\* Nor is any after a turn of the loop.
LEMMA TurnBehind ==
  ASSUME NEW v \in Running, Behind(v), NEW x \in Ids, NEW cleans
  PROVE  Behind(Turn(v, x, cleans))
<1>1. Behind([v EXCEPT !.threw = TRUE]) BY DEF Behind, Running
<1>2. Behind(Bumped(v, x)) BY BumpedBehind
<1>3. Behind(Bumped(Seen(v, x), x)) BY SeenIs, SeenBehind, BumpedBehind
<1> QED BY <1>1, <1>2, <1>3 DEF Turn

\* Nor after the whole of evaluate_dirty or clean.
LEMMA VisitBehind ==
  ASSUME Linked, NEW id \in Ids, NEW cleans,
         \A p, c \in Ids : seenBy[p][c] <= version[p]
  PROVE  Behind(Evaluated(id, cleans))
<1> DEFINE s == EvalGraphOf(id)
           n == Len(s)
<1>1. s \in Seq(Ids) BY GraphTyped
<1>2. PICK turn : IsTurns(turn, Entered, s, cleans) /\ Evaluated(id, cleans) = turn[n]
  BY <1>1, EvaluatedTurns DEF Linked
<1>3. n \in Nat /\ \A i \in 1 .. n : s[i] \in Ids /\ i - 1 \in 0 .. n BY <1>1
<1> DEFINE T == {i \in 0 .. n : Behind(turn[i])}
<1>4. 0 \in T BY <1>2, <1>3 DEF IsTurns, Behind, Entered
<1>5. ASSUME NEW i \in 1 .. n, i - 1 \in T PROVE i \in T
  <2>1. turn[i - 1] \in Running /\ Behind(turn[i - 1]) /\ s[i] \in Ids
    BY <1>2, <1>3, <1>5 DEF IsTurns
  <2>2. Behind(turn[i]) BY <1>2, <2>1, TurnBehind DEF IsTurns
  <2> QED BY <1>3, <2>2
<1>6. 0 .. n \subseteq T
  <2> HIDE DEF T, n
  <2> QED BY <1>3, <1>4, <1>5, BoundedInduction
<1>7. n \in 0 .. n BY <1>3
<1> QED BY <1>2, <1>6, <1>7

\* The inductive invariant of the versions.
AllBehind == Linked /\ \A p, c \in Ids : seenBy[p][c] <= version[p]

\* No child gets ahead when the graph is used.
LEMMA AllBehindUse ==
  ASSUME AllBehind, Use
  PROVE  \A p, c \in Ids : seenBy'[p][c] <= version'[p]
<1>1. Linked /\ TypeOK BY DEF AllBehind, Linked
<1> DEFINE v == [version |-> version, seenBy |-> seenBy, threw |-> FALSE]
<1>2. v \in Running /\ Behind(v)
  BY <1>1 DEF AllBehind, TypeOK, Running, VersionSpace, SeenSpace, Behind
<1>3. ASSUME NEW id \in Ids, SetVersions(Bumped(Current, id))
      PROVE  \A p, c \in Ids : seenBy'[p][c] <= version'[p]
  <2>1. Behind(Bumped(v, id)) BY <1>2, BumpedBehind
  <2>2. /\ Bumped(v, id).version = [version EXCEPT ![id] = NextVersion(@)]
        /\ Bumped(v, id).seenBy = IF version[id] = MaxVersion
                                  THEN [seenBy EXCEPT ![id] = Forgotten]
                                  ELSE seenBy
    BY <1>2, BumpedIs
  <2>3. version' = Bumped(v, id).version /\ seenBy' = Bumped(v, id).seenBy
    BY <1>1, <1>3, <2>2, BumpedCurrent DEF SetVersions
  <2> HIDE DEF v
  <2> QED BY <2>1, <2>3 DEF Behind
<1>4. ASSUME NEW id \in Ids, NEW cleans, Visit(id, cleans)
      PROVE  \A p, c \in Ids : seenBy'[p][c] <= version'[p]
  <2>1. Behind(Evaluated(id, cleans)) BY <1>1, VisitBehind DEF AllBehind
  <2> QED BY <1>4, <2>1 DEF Visit, SetVersions, Behind
<1>5. ASSUME NEW id \in Ids, EvaluationGraph(id)
      PROVE  \A p, c \in Ids : seenBy'[p][c] <= version'[p]
  BY <1>5 DEF EvaluationGraph, versions, AllBehind
<1> QED
  BY <1>3, <1>4, <1>5, WritableAssumption
     DEF Use, MakeDirty, MakeDirtyIfNot, EvaluateDirty, Clean

\* No child gets ahead when the graph is edited.
LEMMA AllBehindEdit ==
  ASSUME AllBehind, Edit
  PROVE  \A p, c \in Ids : seenBy'[p][c] <= version'[p]
<1>1. /\ \A p \in Ids : version[p] \in Nat
      /\ \A p, c \in Ids : seenBy[p][c] <= version[p]
  BY VersionsAssumption DEF AllBehind, Linked, TypeOK, InitSentinel
<1>2. ASSUME NEW S, Erase(S) PROVE \A p, c \in Ids : seenBy'[p][c] <= version'[p]
  <2> SUFFICES ASSUME NEW p \in Ids, NEW c \in Ids PROVE seenBy'[p][c] <= version'[p]
    OBVIOUS
  <2>1. seenBy'[p][c] = IF {p, c} \cap S # {} THEN 0 ELSE seenBy[p][c]
    BY <1>2 DEF Erase, DirtySentinel
  <2>2. version'[p] = IF p \in S THEN 2 ELSE version[p]
    BY <1>2 DEF Erase, InitSentinel
  <2> QED BY <1>1, <2>1, <2>2
<1>3. ASSUME NEW c \in Ids, NEW p \in Ids, UNCHANGED version,
             seenBy' = [seenBy EXCEPT ![p][c] = DirtySentinel]
      PROVE  \A x, y \in Ids : seenBy'[x][y] <= version'[x]
  <2> SUFFICES ASSUME NEW x \in Ids, NEW y \in Ids PROVE seenBy'[x][y] <= version'[x]
    OBVIOUS
  <2>1. seenBy'[x][y] = IF x = p /\ y = c THEN 0 ELSE seenBy[x][y]
    BY <1>3 DEF AllBehind, Linked, TypeOK, DirtySentinel
  <2> QED BY <1>1, <1>3, <2>1
<1> QED
  BY <1>1, <1>2, <1>3
     DEF Edit, AddNode, RemoveNode, RemoveSubgraph, Clear, AddDependency,
         RemoveDependency, versions

\* No child, of a dependency there is or was, is ever ahead of the node.
LEMMA AllBehindAlways == Spec => []AllBehind
<1>1. Init => AllBehind
  <2>1. Init => \A p, c \in Ids : seenBy[p][c] <= version[p]
    BY DEF Init, DirtySentinel, InitSentinel
  <2> QED BY <2>1, LinkedInit DEF AllBehind
<1>2. AllBehind /\ [Next]_vars => AllBehind'
  <2> SUFFICES ASSUME AllBehind, [Next]_vars PROVE AllBehind' OBVIOUS
  <2>1. Linked' BY LinkedNext DEF AllBehind
  <2>2. CASE UNCHANGED vars BY <2>1, <2>2 DEF AllBehind, vars
  <2> QED BY <2>1, <2>2, AllBehindUse, AllBehindEdit DEF Next, AllBehind
<1> QED BY <1>1, <1>2, PTL DEF Spec

\* The version a child was cleaned against is never ahead of its parent's, on
\* either side of a wrap: a stale child cannot look clean by coincidence.
THEOREM NeverAheadCorrect == Spec => []NeverAhead
<1>1. AllBehind => NeverAhead BY DEF AllBehind, NeverAhead, Linked, TypeOK
<1> QED BY <1>1, AllBehindAlways, PTL

-----------------------------------------------------------------------------
(* The cached evaluation graphs, for a caller that edits settled nodes.    *)

\* The inductive invariant of the cached graphs.
SoundGraphs ==
  /\ Linked
  /\ \A id \in Ids : evalGraph[id] # <<>> => id \in nodes /\ IsSound(evalGraph[id], id)

\* An order that is sound stays so while the parents of its nodes do.
LEMMA SoundKept ==
  ASSUME Linked, (parents \in [Ids -> Seq(Ids)])', NEW id \in Ids, NEW graph,
         IsSound(graph, id), \A x \in Upward(id) : parents'[x] = parents[x]
  PROVE  IsSound(graph, id)'
<1>1. parents \in [Ids -> Seq(Ids)] BY DEF Linked, TypeOK
<1>2. ParentsOf \in Graphs /\ Upward(id) = Anc(ParentsOf, id)
  BY <1>1, ParentsTyped, UpwardIsAnc
<1>3. (ParentsOf \in Graphs)' BY ParentsTyped, PTL
<1>4. \A x \in Anc(ParentsOf, id) : ParentSet(x)' = ParentSet(x)
  BY <1>2 DEF ParentSet
<1>5. Anc(ParentsOf, id)' = Anc(ParentsOf, id)
  <2> DEFINE P == ParentsOf
             Q == ParentsOf'
  <2>1. \A y \in Anc(P, id) : Q[y] = P[y]
    BY <1>2, <1>4, AncClosed DEF ParentsOf
  <2>2. P \in Graphs /\ Q \in Graphs BY <1>2, <1>3
  <2> HIDE DEF P, Q
  <2>3. Anc(Q, id) = Anc(P, id) BY <2>1, <2>2, AncSame
  <2> QED BY <2>3 DEF Anc, P, Q, ClosedIn
<1>6. ToSet(graph) = Anc(ParentsOf, id) BY DEF IsSound
<1>7. \A i \in DOMAIN graph : ParentSet(graph[i])' = ParentSet(graph[i])
  BY <1>4, <1>6 DEF ToSet
<1>8. ASSUME NEW i \in DOMAIN graph, NEW j \in DOMAIN graph,
             graph[j] \in ParentSet(graph[i])'
      PROVE  j < i
  BY <1>7, <1>8 DEF IsSound
<1> QED BY <1>5, <1>6, <1>8 DEF IsSound

\* Orders kept by an edit that leaves their nodes' parents alone stay sound.
LEMMA SoundEdited ==
  ASSUME SoundGraphs, Linked', Settled,
         \A id \in Ids : evalGraph'[id] # <<>> =>
            /\ evalGraph'[id] = evalGraph[id]
            /\ parents'[id] = parents[id]
            /\ id \in nodes => id \in nodes'
  PROVE  SoundGraphs'
<1> SUFFICES ASSUME NEW id \in Ids, evalGraph'[id] # <<>>
             PROVE  id \in nodes' /\ IsSound(evalGraph[id], id)'
  BY DEF SoundGraphs
<1>1. /\ evalGraph[id] # <<>> /\ id \in nodes' /\ evalGraph'[id] = evalGraph[id]
      /\ IsSound(evalGraph[id], id)
      /\ parents'[id] = parents[id]
  BY DEF SoundGraphs
<1>2. \A x \in Upward(id) : parents'[x] = parents[x] BY <1>1 DEF Settled
<1> DEFINE graph == evalGraph[id]
<1>3. Linked /\ IsSound(graph, id) /\ (parents \in [Ids -> Seq(Ids)])'
  BY <1>1 DEF SoundGraphs, Linked, TypeOK
<1> HIDE DEF graph
<1>4. graph = evalGraph'[id] BY <1>1 DEF graph
<1>5. ASSUME NEW g, g = graph PROVE IsSound(g, id)'
  <2>1. IsSound(g, id) BY <1>3, <1>5
  <2> QED BY <1>2, <1>3, <2>1, SoundKept
<1> QED BY <1>1, <1>4, <1>5

\* No edit of a settled caller leaves an unsound order in a cache.
LEMMA SoundEdit ==
  ASSUME SoundGraphs, Edit, Settled
  PROVE  SoundGraphs'
<1>1. Linked /\ parents \in [Ids -> Seq(Ids)] /\ evalGraph \in [Ids -> Seq(Ids)]
  BY DEF SoundGraphs, Linked, TypeOK
<1>2. Linked' BY <1>1, LinkedEdit
<1> DEFINE Kept == \A id \in Ids : evalGraph'[id] # <<>> =>
                      /\ evalGraph'[id] = evalGraph[id]
                      /\ parents'[id] = parents[id]
                      /\ id \in nodes => id \in nodes'
<1>3. ASSUME NEW id \in Ids, AddNode(id) PROVE Kept BY <1>3 DEF AddNode
<1>4. ASSUME NEW S, Erase(S) PROVE Kept
  <2> SUFFICES ASSUME NEW id \in Ids, evalGraph'[id] # <<>>
               PROVE  /\ evalGraph'[id] = evalGraph[id]
                      /\ parents'[id] = parents[id]
                      /\ id \in nodes => id \in nodes'
    OBVIOUS
  <2>1. id \notin S /\ ParentSet(id) \cap S = {} /\ evalGraph'[id] = evalGraph[id]
    BY <1>4 DEF Erase
  <2>2. parents[id] \in Seq(Ids) BY <1>1
  <2>3. Without(parents[id], S) = parents[id]
    BY <2>1, <2>2, WithoutNone DEF ParentSet
  <2> QED BY <1>4, <2>1, <2>3 DEF Erase
<1>5. ASSUME NEW c \in Ids, NEW p \in Ids, AddDependency(c, p) PROVE Kept
  BY <1>1, <1>5 DEF AddDependency
<1>6. ASSUME NEW c \in Ids, NEW p \in Ids, RemoveDependency(c, p) PROVE Kept
  BY <1>1, <1>6 DEF RemoveDependency
<1>7. Kept
  <2> HIDE DEF Kept
  <2> QED BY <1>3, <1>4, <1>5, <1>6 DEF Edit, RemoveNode, RemoveSubgraph, Clear
<1> QED BY <1>2, <1>7, SoundEdited

\* An order that is newly cached is sound.
LEMMA SoundUsed ==
  ASSUME SoundGraphs, Linked', UNCHANGED <<nodes, parents>>,
         \A id \in Ids : \/ evalGraph'[id] = evalGraph[id]
                         \/ id \in nodes /\ evalGraph'[id] = EvalGraphOf(id)
  PROVE  SoundGraphs'
<1>1. Linked /\ Acyclic(ParentsOf) /\ parents \in [Ids -> Seq(Ids)]
  BY DEF SoundGraphs, Linked, TypeOK
<1> SUFFICES ASSUME NEW id \in Ids, evalGraph'[id] # <<>>
             PROVE  id \in nodes' /\ IsSound(evalGraph[id], id)'
  BY DEF SoundGraphs
<1>2. /\ id \in nodes
      /\ evalGraph'[id] = EvalGraphOf(id)
      /\ IsSound(EvalGraphOf(id), id)
  <2>1. IsSound(SortedUpward(id), id) BY <1>1, SortedUpwardSound
  <2>2. evalGraph'[id] = EvalGraphOf(id) /\ id \in nodes BY DEF SoundGraphs, EvalGraphOf
  <2> QED BY <2>1, <2>2 DEF SoundGraphs, EvalGraphOf
<1>3. ASSUME NEW g, g = EvalGraphOf(id) PROVE IsSound(g, id)'
  <2>1. IsSound(g, id) BY <1>2, <1>3
  <2>2. \A x \in Upward(id) : parents'[x] = parents[x] OBVIOUS
  <2> QED BY <1>1, <2>1, <2>2, SoundKept
<1> QED BY <1>2, <1>3

\* No use of the graph leaves an unsound order in a cache.
LEMMA SoundUse ==
  ASSUME SoundGraphs, Use
  PROVE  SoundGraphs'
<1>1. Linked /\ evalGraph \in [Ids -> Seq(Ids)]
  BY DEF SoundGraphs, Linked, TypeOK
<1>2. Linked' BY <1>1, LinkedUse
<1>3. ASSUME NEW id \in Writable, MakeDirty(id) \/ MakeDirtyIfNot(id)
      PROVE  SoundGraphs'
  BY <1>2, <1>3, SoundUsed DEF MakeDirty, MakeDirtyIfNot
<1>4. ASSUME NEW id \in Ids, id \in nodes, UNCHANGED <<nodes, parents>>,
             evalGraph' = [evalGraph EXCEPT ![id] = EvalGraphOf(id)]
      PROVE  SoundGraphs'
  <2> \A x \in Ids : evalGraph'[x] = IF x = id THEN EvalGraphOf(id) ELSE evalGraph[x]
    BY <1>1, <1>4
  <2> QED BY <1>2, <1>4, SoundUsed
<1> QED
  BY <1>3, <1>4 DEF Use, EvaluationGraph, EvaluateDirty, Clean, Visit

\* SoundGraphs is inductive for settled callers.
LEMMA SoundNext == SoundGraphs /\ [NextSettled]_vars => SoundGraphs'
<1> SUFFICES ASSUME SoundGraphs, [NextSettled]_vars PROVE SoundGraphs' OBVIOUS
<1>1. CASE UNCHANGED vars
  <2>1. Linked' BY <1>1, LinkedNext DEF SoundGraphs
  <2> QED BY <1>1, <2>1, SoundUsed DEF vars
<1> QED BY <1>1, SoundEdit, SoundUse DEF NextSettled

\* For settled callers every cached order is sound.
LEMMA SoundAlways == SpecSettled => []SoundGraphs
<1>1. Init => SoundGraphs BY LinkedInit DEF Init, SoundGraphs
<1> QED BY <1>1, SoundNext, PTL DEF SpecSettled

\* What evaluation_graph caches stays right through every settled edit: the
\* node and its ancestors, each once, and every parent before its children.
THEOREM EvalGraphsCorrect == SpecSettled => []EvalGraphsSound
<1>1. SoundGraphs => EvalGraphsSound
  <2> SUFFICES ASSUME SoundGraphs, NEW id \in nodes, evalGraph[id] # <<>>
               PROVE  /\ ToSet(evalGraph[id]) = Upward(id)
                      /\ IsInjective(evalGraph[id])
                      /\ \A i, j \in DOMAIN evalGraph[id] :
                           evalGraph[id][j] \in ParentSet(evalGraph[id][i]) => j < i
    BY DEF EvalGraphsSound
  <2>1. id \in Ids /\ parents \in [Ids -> Seq(Ids)]
    BY DEF SoundGraphs, Linked, TypeOK
  <2>2. IsSound(evalGraph[id], id) BY <2>1 DEF SoundGraphs
  <2>3. Upward(id) = Anc(ParentsOf, id) BY <2>1, UpwardIsAnc
  <2> QED BY <2>2, <2>3 DEF IsSound
<1> QED BY <1>1, SoundAlways, PTL

-----------------------------------------------------------------------------
(* A visit, in terms of what is dirty.                                     *)

\* make_dirty dirties its node's children, those of a wrapped version too,
\* and cleans none.
LEMMA BumpedDirties ==
  ASSUME TypeOK, NEW v \in Running, Behind(v), NEW x \in Ids, NEW c \in Ids, NEW p
  PROVE  p \in DirtyParents(Bumped(v, x), c) <=>
           p \in DirtyParents(v, c) \/ (p = x /\ x \in ParentSet(c))
<1>1. v.version \in [Ids -> VersionSpace] /\ v.seenBy \in SeenSpace
  BY DEF Running
<1>2. CASE p \notin ParentSet(c) BY <1>2 DEF DirtyParents
<1>3. CASE p \in ParentSet(c)
  <2>1. p \in Ids BY <1>3 DEF TypeOK, ParentSet, ToSet
  <2>2. Bumped(v, x).version = [v.version EXCEPT ![x] = NextVersion(@)] BY BumpedIs
  <2>3. Bumped(v, x).seenBy = IF v.version[x] = MaxVersion
                              THEN [v.seenBy EXCEPT ![x] = Forgotten]
                              ELSE v.seenBy
    BY BumpedIs
  <2>4. /\ v.seenBy[p][c] <= v.version[p] /\ v.seenBy[p][c] \in Nat
        /\ v.version[p] \in VersionSpace
    BY <1>1, <2>1, VersionsAssumption DEF Behind, SeenSpace, Versions
  <2>5. CASE p # x
    <3>1. /\ Bumped(v, x).version[p] = v.version[p]
          /\ Bumped(v, x).seenBy[p][c] = v.seenBy[p][c]
      BY <1>1, <2>1, <2>2, <2>3, <2>5 DEF SeenSpace
    <3> QED BY <1>3, <2>5, <3>1 DEF DirtyParents
  <2>6. CASE p = x
    <3>1. Bumped(v, x).version[p] = NextVersion(v.version[p])
      BY <1>1, <2>1, <2>2, <2>6
    <3>2. Bumped(v, x).seenBy[p][c] = IF v.version[p] = MaxVersion THEN 0
                                      ELSE v.seenBy[p][c]
      BY <1>1, <2>1, <2>3, <2>6 DEF SeenSpace, Forgotten, DirtySentinel
    <3>3. NextVersion(v.version[p]) # Bumped(v, x).seenBy[p][c]
      BY <2>4, <3>2, VersionsAssumption DEF NextVersion, InitSentinel, VersionSpace
    <3> QED BY <1>3, <2>6, <3>1, <3>3 DEF DirtyParents
  <2> QED BY <2>5, <2>6
<1> QED BY <1>2, <1>3

\* clean's callback cleans its node and no other.
LEMMA SeenCleans ==
  ASSUME TypeOK, NEW v \in Running, NEW x \in Ids, NEW c \in Ids, NEW p
  PROVE  p \in DirtyParents(Seen(v, x), c) <=> p \in DirtyParents(v, c) /\ c # x
<1>1. CASE p \notin ParentSet(c) BY <1>1 DEF DirtyParents
<1>2. CASE p \in ParentSet(c)
  <2>1. p \in Ids BY <1>2 DEF TypeOK, ParentSet, ToSet
  <2>2. Seen(v, x).version = v.version BY SeenIs
  <2>3. Seen(v, x).seenBy[p][c] = IF c = x /\ p \in DirtyParents(v, x)
                                  THEN v.version[p] ELSE v.seenBy[p][c]
    BY <2>1, SeenIs
  <2> QED BY <1>2, <2>2, <2>3 DEF DirtyParents
<1> QED BY <1>1, <1>2

\* One turn: a node with a dirty parent dirties its children, and is clean.
LEMMA TurnDirties ==
  ASSUME TypeOK, NEW v \in Running, Behind(v), ~v.threw,
         NEW x \in Ids, x \in nodes, x \notin ParentSet(x), NEW cleans \in BOOLEAN
  PROVE  LET w == Turn(v, x, cleans)
         IN  /\ ~w.threw
             /\ \A c \in Ids : \A p : p \in DirtyParents(w, c) <=>
                  /\ \/ p \in DirtyParents(v, c)
                     \/ DirtyParents(v, x) # {} /\ p = x /\ x \in ParentSet(c)
                  /\ ~(cleans /\ c = x)
<1> DEFINE w == Turn(v, x, cleans)
<1> SUFFICES ASSUME NEW c \in Ids, NEW p
             PROVE  /\ ~w.threw
                    /\ p \in DirtyParents(w, c) <=>
                         /\ \/ p \in DirtyParents(v, c)
                            \/ DirtyParents(v, x) # {} /\ p = x /\ x \in ParentSet(c)
                         /\ ~(cleans /\ c = x)
  OBVIOUS
<1>1. CASE DirtyParents(v, x) = {} BY <1>1 DEF Turn
<1>2. CASE DirtyParents(v, x) # {} /\ ~cleans
  <2>1. w = Bumped(v, x) BY <1>2 DEF Turn
  <2>2. ~w.threw BY ZenonT(30), <2>1, BumpedIs
  <2> HIDE DEF w
  <2> QED BY <1>2, <2>1, <2>2, BumpedDirties
<1>3. CASE DirtyParents(v, x) # {} /\ cleans
  <2> DEFINE s == Seen(v, x)
  <2>1. w = Bumped(s, x) BY <1>3 DEF Turn
  <2>2. s \in Running /\ Behind(s) /\ s.threw = v.threw BY SeenIs, SeenBehind
  <2>3. p \in DirtyParents(s, c) <=> p \in DirtyParents(v, c) /\ c # x
    BY SeenCleans
  <2> HIDE DEF s, w
  <2>4. ~w.threw BY <2>1, <2>2, BumpedIs
  <2>5. p \in DirtyParents(w, c) <=>
           p \in DirtyParents(s, c) \/ (p = x /\ x \in ParentSet(c))
    BY <2>1, <2>2, BumpedDirties
  <2> QED BY <1>3, <2>3, <2>4, <2>5
<1> QED BY <1>1, <1>2, <1>3

\* A node is dirty through a parent, or as a parent is.
LEMMA DirtyAbove ==
  ASSUME Linked, NEW x \in Ids
  PROVE  IsDirty(x) <=>
           \E p \in ParentSet(x) : p \in DirtyParents(Current, x) \/ IsDirty(p)
<1> DEFINE P == ParentsOf
           Bad(y) == DirtyParents(Current, y) # {}
<1>1. parents \in [Ids -> Seq(Ids)] /\ P \in Graphs
  BY ParentsTyped DEF Linked, TypeOK
<1>2. \A y \in Ids : Upward(y) = Anc(P, y) BY <1>1, UpwardIsAnc
<1>3. P[x] = ParentSet(x) /\ ParentSet(x) \subseteq Ids
  BY <1>1 DEF ParentsOf, Graphs
<1>4. \A y \in Ids : IsDirty(y) <=> \E z \in Anc(P, y) : Bad(z)
  BY <1>2 DEF IsDirty
<1>5. ASSUME NEW z \in Anc(P, x), Bad(z)
      PROVE  \E p \in ParentSet(x) : p \in DirtyParents(Current, x) \/ IsDirty(p)
  <2>1. CASE z = x BY <1>5, <2>1 DEF DirtyParents
  <2>2. CASE z # x
    <3>1. PICK p \in P[x] : z \in Anc(P, p)
      <4> HIDE DEF P
      <4> QED BY <1>1, <2>2, AncOfParents
    <3> HIDE DEF P, Bad
    <3> QED BY <1>3, <1>4, <1>5, <3>1
  <2> QED BY <2>1, <2>2
<1>6. ASSUME NEW p \in ParentSet(x), p \in DirtyParents(Current, x) \/ IsDirty(p)
      PROVE  \E z \in Anc(P, x) : Bad(z)
  <2> HIDE DEF P
  <2>1. x \in Anc(P, x) /\ p \in Anc(P, x) /\ p \in Ids BY <1>1, <1>3, AncClosed
  <2>2. Anc(P, p) \subseteq Anc(P, x) BY <1>1, <2>1, AncTransitive
  <2> QED BY <1>4, <1>6, <2>1, <2>2
<1> HIDE DEF P, Bad
<1> QED BY <1>4, <1>5, <1>6

\* After the first i nodes of graph: those of them that were dirty have dirtied
\* their children, and when cleaning, none of them has a dirty parent.
Visited(v, graph, i, cleans) ==
  /\ v \in Running
  /\ Behind(v)
  /\ ~v.threw
  /\ \A c \in Ids : \A p : p \in DirtyParents(v, c) <=>
       /\ \/ p \in DirtyParents(Current, c)
          \/ p \in ParentSet(c) /\ \E k \in 1 .. i : graph[k] = p /\ IsDirty(p)
       /\ ~(cleans /\ \E k \in 1 .. i : graph[k] = c)

\* A turn of the loop extends what Visited says by one node.
LEMMA VisitedNext ==
  ASSUME Linked, NEW id \in Ids, NEW graph, IsSound(graph, id),
         NEW i \in 1 .. Len(graph), graph[i] \in nodes, NEW cleans \in BOOLEAN,
         NEW v, Visited(v, graph, i - 1, cleans)
  PROVE  Visited(Turn(v, graph[i], cleans), graph, i, cleans)
<1> DEFINE x == graph[i]
           w == Turn(v, x, cleans)
           P == ParentsOf
<1>1. parents \in [Ids -> Seq(Ids)] /\ TypeOK /\ P \in Graphs
  BY ParentsTyped DEF Linked, TypeOK
<1>2. /\ graph \in Seq(Ids) /\ DOMAIN graph = 1 .. Len(graph) /\ Len(graph) \in Nat
      /\ x \in Ids /\ x \in nodes
  BY DEF IsSound
<1>3. \A y \in Ids : ParentSet(y) \subseteq Ids /\ P[y] = ParentSet(y)
  BY <1>1 DEF ParentsOf, Graphs
<1>4. x \notin ParentSet(x)
  <2> HIDE DEF x, P
  <2> SUFFICES ASSUME x \in ParentSet(x) PROVE FALSE OBVIOUS
  <2>1. x \in Anc(P, x) BY <1>1, <1>2, AncClosed
  <2> QED BY <1>2, <1>3, <2>1 DEF Linked, Acyclic, P
<1>5. \A k \in 1 .. (i - 1) : k \in DOMAIN graph /\ graph[k] # x
  BY <1>2 DEF IsSound, IsInjective
<1>6. \A p \in ParentSet(x) : \E k \in 1 .. (i - 1) : graph[k] = p
  <2> SUFFICES ASSUME NEW p \in ParentSet(x) PROVE \E k \in 1 .. (i - 1) : graph[k] = p
    OBVIOUS
  <2>1. x \in Anc(P, id) BY <1>2 DEF IsSound, ToSet
  <2>2. p \in Anc(P, id)
    <3> HIDE DEF x, P
    <3> QED BY <1>1, <1>2, <1>3, <2>1, AncClosed DEF ClosedIn
  <2>3. PICK k \in DOMAIN graph : graph[k] = p BY <2>2 DEF IsSound, ToSet
  <2>4. k < i BY <1>2, <2>3 DEF IsSound
  <2> QED BY <1>2, <2>3, <2>4
<1>7. \A c \in Ids : x \in ParentSet(c) => \A k \in 1 .. i : graph[k] # c
  <2> SUFFICES ASSUME NEW c \in Ids, x \in ParentSet(c), NEW k \in 1 .. i, graph[k] = c
               PROVE  FALSE
    OBVIOUS
  <2>1. k \in DOMAIN graph /\ i \in DOMAIN graph BY <1>2
  <2>2. i < k BY <2>1 DEF IsSound
  <2> QED BY <1>2, <2>2
<1>8. \A c \in Ids : \A p : p \in DirtyParents(v, c) <=>
        /\ \/ p \in DirtyParents(Current, c)
           \/ p \in ParentSet(c) /\ \E k \in 1 .. (i - 1) : graph[k] = p /\ IsDirty(p)
        /\ ~(cleans /\ \E k \in 1 .. (i - 1) : graph[k] = c)
  BY DEF Visited
<1>9. v \in Running /\ Behind(v) /\ ~v.threw BY DEF Visited
<1>10. /\ ~w.threw
       /\ \A c \in Ids : \A p : p \in DirtyParents(w, c) <=>
            /\ \/ p \in DirtyParents(v, c)
               \/ DirtyParents(v, x) # {} /\ p = x /\ x \in ParentSet(c)
            /\ ~(cleans /\ c = x)
  <2> HIDE DEF x
  <2> QED BY <1>1, <1>2, <1>4, <1>9, TurnDirties
<1>11. w \in Running /\ Behind(w)
  <2> HIDE DEF x
  <2> QED BY <1>2, <1>9, TurnTyped, TurnBehind
<1> HIDE DEF w, P
<1>12. DirtyParents(v, x) # {} <=> IsDirty(x)
  <2>1. \A p : p \in DirtyParents(v, x) <=>
           \/ p \in DirtyParents(Current, x)
           \/ p \in ParentSet(x) /\ \E k \in 1 .. (i - 1) : graph[k] = p /\ IsDirty(p)
    BY <1>2, <1>5, <1>8
  <2>2. \A p : p \in DirtyParents(v, x) <=>
           p \in DirtyParents(Current, x) \/ (p \in ParentSet(x) /\ IsDirty(p))
    BY <1>6, <2>1
  <2>3. \A p : p \in DirtyParents(Current, x) => p \in ParentSet(x)
    BY DEF DirtyParents
  <2>4. IsDirty(x) <=>
           \E p \in ParentSet(x) : p \in DirtyParents(Current, x) \/ IsDirty(p)
    BY <1>2, DirtyAbove
  <2> HIDE DEF x
  <2> QED BY <2>2, <2>3, <2>4
<1>13. /\ \A k \in 1 .. i : k \in 1 .. (i - 1) \/ k = i
       /\ \A k \in 1 .. (i - 1) : k \in 1 .. i
       /\ i \in 1 .. i
  OBVIOUS
<1>14. ASSUME NEW c \in Ids, NEW p
       PROVE  p \in DirtyParents(w, c) <=>
                /\ \/ p \in DirtyParents(Current, c)
                   \/ p \in ParentSet(c) /\ \E k \in 1 .. i : graph[k] = p /\ IsDirty(p)
                /\ ~(cleans /\ \E k \in 1 .. i : graph[k] = c)
  <2>1. (\E k \in 1 .. i : graph[k] = p /\ IsDirty(p)) <=>
           \/ \E k \in 1 .. (i - 1) : graph[k] = p /\ IsDirty(p)
           \/ p = x /\ IsDirty(x)
    BY <1>13
  <2>2. (\E k \in 1 .. i : graph[k] = c) <=>
           (\E k \in 1 .. (i - 1) : graph[k] = c) \/ c = x
    BY <1>13
  <2>3. x \in ParentSet(c) => /\ ~\E k \in 1 .. (i - 1) : graph[k] = c
                              /\ c # x
    BY <1>7, <1>13
  <2>4. p \in DirtyParents(w, c) <=>
            /\ \/ p \in DirtyParents(v, c)
               \/ IsDirty(x) /\ p = x /\ x \in ParentSet(c)
            /\ ~(cleans /\ c = x)
    BY <1>10, <1>12
  <2>5. p \in DirtyParents(v, c) <=>
        /\ \/ p \in DirtyParents(Current, c)
           \/ p \in ParentSet(c) /\ \E k \in 1 .. (i - 1) : graph[k] = p /\ IsDirty(p)
        /\ ~(cleans /\ \E k \in 1 .. (i - 1) : graph[k] = c)
    BY <1>8
  <2> HIDE DEF x
  <2> QED BY <2>1, <2>2, <2>3, <2>4, <2>5
<1>15. Visited(w, graph, i, cleans) BY <1>10, <1>11, <1>14 DEF Visited
<1> QED BY <1>15 DEF w

\* The ancestors of a node of the graph are in the graph.
LEMMA NodesAbove ==
  ASSUME Linked, NEW id \in nodes
  PROVE  Anc(ParentsOf, id) \subseteq nodes
<1>1. ParentsOf \in Graphs /\ id \in Ids BY ParentsTyped DEF Linked, TypeOK
<1>2. \A y \in nodes \cap Ids : ParentsOf[y] \subseteq nodes
  <2> SUFFICES ASSUME NEW y \in Ids, NEW p \in ParentsOf[y] PROVE p \in nodes
    OBVIOUS
  <2>1. p \in ParentSet(y) BY DEF ParentsOf
  <2>2. p \in Ids BY <1>1 DEF Graphs
  <2> QED BY <2>1, <2>2 DEF Linked
<1> QED BY <1>1, <1>2, AncLeast

\* What evaluate_dirty and clean do to the dirty dependencies.
LEMMA VisitDirties ==
  ASSUME SoundGraphs, AllBehind, NEW id \in nodes, NEW cleans \in BOOLEAN,
         NEW c \in Ids, NEW p
  PROVE  p \in DirtyParents(Evaluated(id, cleans), c) <=>
           /\ \/ p \in DirtyParents(Current, c)
              \/ p \in ParentSet(c) /\ p \in Anc(ParentsOf, id) /\ IsDirty(p)
           /\ ~(cleans /\ c \in Anc(ParentsOf, id))
<1> DEFINE s == EvalGraphOf(id)
           n == Len(s)
<1>1. /\ Linked /\ TypeOK /\ id \in Ids /\ parents \in [Ids -> Seq(Ids)]
      /\ Acyclic(ParentsOf)
  BY DEF AllBehind, Linked, TypeOK
<1>2. IsSound(s, id)
  <2>1. IsSound(SortedUpward(id), id) BY <1>1, SortedUpwardSound
  <2> QED BY <1>1, <2>1 DEF EvalGraphOf, SoundGraphs
<1>3. s \in Seq(Ids) /\ ToSet(s) = Anc(ParentsOf, id) BY <1>2 DEF IsSound
<1>4. PICK turn : IsTurns(turn, Entered, s, cleans) /\ Evaluated(id, cleans) = turn[n]
  <2> HIDE DEF s
  <2> QED BY <1>1, <1>3, EvaluatedTurns DEF s
<1> HIDE DEF s
<1>5. /\ n \in Nat /\ DOMAIN s = 1 .. n
      /\ \A i \in 1 .. n : s[i] \in nodes /\ i - 1 \in 0 .. n
  <2>1. \A i \in DOMAIN s : s[i] \in nodes BY <1>1, <1>3, NodesAbove DEF ToSet
  <2> QED BY <1>3, <2>1
<1> DEFINE T == {i \in 0 .. n : Visited(turn[i], s, i, cleans)}
<1>6. 0 \in T
  <2> DEFINE v == turn[0]
  <2>1. v = [version |-> version, seenBy |-> seenBy, threw |-> FALSE] /\ v \in Running
    <3>1. turn \in [0 .. n -> Running] /\ 0 \in 0 .. n BY <1>4, <1>5 DEF IsTurns
    <3>2. turn[0] \in Running
      <4> HIDE DEF n
      <4> QED BY <3>1
    <3> QED BY <1>4, <3>2 DEF IsTurns, Entered
  <2>2. Behind(v) /\ ~v.threw BY <2>1 DEF Behind, AllBehind
  <2>3. \A y : DirtyParents(v, y) = DirtyParents(Current, y)
    BY <2>1 DEF DirtyParents, Current
  <2>4. 1 .. 0 = {} OBVIOUS
  <2> HIDE DEF v
  <2>5. Visited(v, s, 0, cleans) BY <2>1, <2>2, <2>3, <2>4 DEF Visited
  <2> QED BY <1>5, <2>5 DEF v
<1>7. ASSUME NEW i \in 1 .. n, i - 1 \in T PROVE i \in T
  <2>1. Visited(turn[i - 1], s, i - 1, cleans) BY <1>7
  <2>2. Visited(Turn(turn[i - 1], s[i], cleans), s, i, cleans)
    BY <1>1, <1>2, <1>5, <2>1, VisitedNext
  <2>3. Visited(turn[i], s, i, cleans) BY <1>4, <2>2 DEF IsTurns
  <2>4. i \in 0 .. n BY <1>5
  <2> HIDE DEF n
  <2> QED BY <2>3, <2>4
<1>8. Visited(turn[n], s, n, cleans)
  <2>1. 0 .. n \subseteq T
    <3> HIDE DEF T, n
    <3> QED BY <1>5, <1>6, <1>7, BoundedInduction
  <2>2. n \in 0 .. n BY <1>5
  <2> QED BY <2>1, <2>2
<1>9. \A y : y \in Anc(ParentsOf, id) <=> \E k \in 1 .. n : s[k] = y
  BY <1>3, <1>5 DEF ToSet
<1> HIDE DEF n
<1> QED BY <1>4, <1>8, <1>9 DEF Visited

-----------------------------------------------------------------------------
(* The refinement of LazyEval.                                             *)

Edges == {e \in Ids \X Ids : e[1] \in ParentSet(e[2])}
Dirty == {e \in Ids \X Ids : e[1] \in DirtyParents(Current, e[2])}

\* The abstract graph has the same ancestors.
LEMMA AbstractUpward ==
  parents \in [Ids -> Seq(Ids)] =>
    \A id \in Ids : Abstract!Upward(id) = Anc(ParentsOf, id)
<1> SUFFICES ASSUME parents \in [Ids -> Seq(Ids)], NEW id \in Ids
             PROVE  Abstract!Upward(id) = Anc(ParentsOf, id)
  OBVIOUS
<1> DEFINE P == ParentsOf
           N == Cardinality(Ids)
           Above(S) == {e[1] : e \in Abstract!InEdges(S)}
           IsUp(up) == up = [n \in 0 .. N |->
                               IF n = 0 THEN {id}
                               ELSE up[n - 1] \cup Above(up[n - 1])]
           c == CHOOSE up : IsUp(up)
<1>1. P \in Graphs BY ParentsTyped
<1>2. N \in Nat /\ IsFiniteSet(Ids) BY IdsAssumption, FS_CardinalityType
<1>3. PICK up : IsChain(up, Ids, N, id, P)
  <2> P \in Pointers(Ids) BY <1>1 DEF Graphs, Pointers
  <2> HIDE DEF N, P
  <2> QED BY <1>1, <1>2, ClosureExists
<1>4. ASSUME NEW S, S \subseteq Ids
      PROVE  \A z : z \in Above(S) <=> \E y \in S : z \in P[y]
  <2>1. Abstract!InEdges(S) = {e \in Edges : e[2] \in S}
    BY DEF Abstract!InEdges, Edges
  <2>2. ASSUME NEW z \in Above(S) PROVE \E y \in S : z \in P[y]
    BY <2>1, <2>2 DEF Edges, ParentsOf
  <2>3. ASSUME NEW y \in S, NEW z \in P[y] PROVE z \in Above(S)
    <3>1. z \in Ids /\ y \in Ids /\ z \in ParentSet(y)
      BY <1>1, <1>4 DEF Graphs, ParentsOf
    <3>2. <<z, y>> \in Abstract!InEdges(S) BY <2>1, <3>1 DEF Edges
    <3>3. <<z, y>>[1] = z OBVIOUS
    <3> QED BY <3>2, <3>3
  <2> QED BY <2>2, <2>3
<1>0. Abstract!Cardinality(Ids) = Cardinality(Ids) BY DEF Abstract!Cardinality, Cardinality
<1>7. Abstract!Upward(id) = c[N] BY <1>0 DEF Abstract!Upward
<1> HIDE DEF Above
<1>5. IsUp(up)
  <2>1. /\ up \in [0 .. N -> SUBSET Ids] /\ up[0] = {id}
        /\ \A n \in 1 .. N : up[n] = up[n - 1] \cup UNION {P[y] : y \in up[n - 1]}
    BY <1>3 DEF IsChain
  <2>2. ASSUME NEW n \in 0 .. N, n # 0
        PROVE  up[n] = up[n - 1] \cup Above(up[n - 1])
    <3>1. n - 1 \in 0 .. N /\ n \in 1 .. N BY <1>2, <2>2
    <3>2. up[n] = up[n - 1] \cup UNION {P[y] : y \in up[n - 1]} BY <2>1, <3>1
    <3>3. up[n - 1] \subseteq Ids
      <4> HIDE DEF N
      <4> QED BY <2>1, <3>1
    <3>4. \A z : z \in Above(up[n - 1]) <=> \E y \in up[n - 1] : z \in P[y]
      BY <1>4, <3>3
    <3> HIDE DEF P, N
    <3>5. UNION {P[y] : y \in up[n - 1]} = Above(up[n - 1]) BY <3>4
    <3> QED BY <3>2, <3>5
  <2> HIDE DEF N
  <2> QED BY <2>1, <2>2
<1>6. IsUp(c)
  <2> HIDE DEF IsUp
  <2> QED BY <1>5
<1> HIDE DEF c
<1>8. c[0] = {id} BY <1>2, <1>6
<1>9. ASSUME NEW n \in 1 .. N PROVE c[n] = c[n - 1] \cup Above(c[n - 1])
  <2> n \in 0 .. N /\ n # 0 BY <1>2
  <2> HIDE DEF N
  <2> QED BY <1>6
<1> HIDE DEF IsUp
<1>10. \A n \in 1 .. N : c[n - 1] \subseteq Ids =>
          \A z : z \in c[n] <=> z \in c[n - 1] \/ \E y \in c[n - 1] : z \in P[y]
  <2> HIDE DEF P, N
  <2> QED BY <1>4, <1>9
<1>11. /\ c[N] \subseteq Ids /\ id \in c[N]
       /\ \A y \in c[N] : P[y] \subseteq c[N]
       /\ \A W : id \in W /\ (\A y \in W \cap Ids : P[y] \subseteq W) => c[N] \subseteq W
  <2> P \in Pointers(Ids) BY <1>1 DEF Graphs, Pointers
  <2> HIDE DEF P
  <2> QED BY <1>2, <1>8, <1>10, ClosureLeast
<1> HIDE DEF P, N
<1>12. c[N] \subseteq Anc(P, id) BY <1>1, <1>11, AncClosed DEF ClosedIn
<1>13. Anc(P, id) \subseteq c[N] BY <1>1, <1>11, AncLeast
<1> QED BY <1>7, <1>12, <1>13 DEF P

\* The abstract graph, dependency by dependency.
LEMMA EdgesAre ==
  /\ Edges \subseteq Ids \X Ids /\ Dirty \subseteq Ids \X Ids
  /\ \A p, c \in Ids : <<p, c>> \in Edges <=> p \in ParentSet(c)
  /\ \A p, c \in Ids : <<p, c>> \in Dirty <=> p \in DirtyParents(Current, c)
BY DEF Edges, Dirty

\* Sets of dependencies that hold the same pairs are equal.
LEMMA PairsEqual ==
  ASSUME NEW A, NEW B, A \subseteq Ids \X Ids, B \subseteq Ids \X Ids,
         \A p, c \in Ids : <<p, c>> \in A <=> <<p, c>> \in B
  PROVE  A = B
<1>1. \A e \in Ids \X Ids : e[1] \in Ids /\ e[2] \in Ids /\ e = <<e[1], e[2]>>
  OBVIOUS
<1>2. \A e \in Ids \X Ids : e \in A <=> e \in B BY <1>1
<1> QED BY <1>2

\* The edges out of and into a set of nodes, of the abstract graph.
LEMMA AbstractEdges ==
  ASSUME NEW S, NEW p \in Ids, NEW c \in Ids
  PROVE  /\ <<p, c>> \in Abstract!OutEdges(S) <=> p \in ParentSet(c) /\ p \in S
         /\ <<p, c>> \in Abstract!InEdges(S) <=> p \in ParentSet(c) /\ c \in S
         /\ Abstract!OutEdges(S) \subseteq Ids \X Ids
         /\ Abstract!InEdges(S) \subseteq Ids \X Ids
BY DEF Abstract!OutEdges, Abstract!InEdges

\* The outdated nodes are the ancestors that are dirty.
LEMMA AbstractOutdated ==
  ASSUME Linked, NEW id \in Ids
  PROVE  \A x : x \in Abstract!Outdated(id) <=> x \in Anc(ParentsOf, id) /\ IsDirty(x)
<1>1. parents \in [Ids -> Seq(Ids)] /\ ParentsOf \in Graphs
  BY ParentsTyped DEF Linked, TypeOK
<1>2. /\ \A x \in Ids : Abstract!Upward(x) = Anc(ParentsOf, x)
      /\ \A x \in Ids : Upward(x) = Anc(ParentsOf, x)
  BY <1>1, AbstractUpward, UpwardIsAnc
<1>3. Anc(ParentsOf, id) \subseteq Ids BY <1>1, AncClosed
<1>4. ASSUME NEW x \in Ids
      PROVE  Abstract!InEdges(Anc(ParentsOf, x)) \cap Dirty # {} <=> IsDirty(x)
  <2> DEFINE A == Anc(ParentsOf, x)
  <2>1. A \subseteq Ids BY <1>1, AncClosed
  <2> HIDE DEF A
  <2>2. ASSUME NEW e \in Abstract!InEdges(A) \cap Dirty
        PROVE  \E y \in A : DirtyParents(Current, y) # {}
    BY <2>2 DEF Abstract!InEdges, Dirty
  <2>3. ASSUME NEW y \in A, NEW p \in DirtyParents(Current, y)
        PROVE  <<p, y>> \in Abstract!InEdges(A) \cap Dirty
    <3>1. p \in ParentSet(y) /\ y \in Ids BY <2>1 DEF DirtyParents
    <3>2. p \in Ids BY <1>1, <3>1 DEF ParentSet, ToSet
    <3> QED BY <2>3, <3>1, <3>2, AbstractEdges, EdgesAre
  <2>4. IsDirty(x) <=> \E y \in A : DirtyParents(Current, y) # {}
    BY <1>2 DEF IsDirty, A
  <2> QED BY <2>2, <2>3, <2>4 DEF A
<1>5. Abstract!Outdated(id) =
        {x \in Anc(ParentsOf, id) :
           Abstract!InEdges(Anc(ParentsOf, x)) \cap Dirty # {}}
  BY <1>2, <1>3 DEF Abstract!Outdated, Dirty
<1> QED BY <1>3, <1>4, <1>5

\* The dependencies and the dirty ones after a step.
LEMMA EdgesThen ==
  /\ Edges' \subseteq Ids \X Ids /\ Dirty' \subseteq Ids \X Ids
  /\ \A p, c \in Ids : <<p, c>> \in Edges' <=> p \in ParentSet(c)'
  /\ \A p, c \in Ids : <<p, c>> \in Dirty' <=>
       p \in ParentSet(c)' /\ seenBy'[p][c] # version'[p]
BY DEF Edges, Dirty, DirtyParents, Current

\* The dependencies and the dirty marks that the parents and the versions
\* stand for.
LEMMA EdgesNow ==
  /\ Edges \subseteq Ids \X Ids /\ Dirty \subseteq Ids \X Ids
  /\ \A p, c \in Ids : <<p, c>> \in Edges <=> p \in ParentSet(c)
  /\ \A p, c \in Ids : <<p, c>> \in Dirty <=>
       p \in ParentSet(c) /\ seenBy[p][c] # version[p]
BY DEF Edges, Dirty, DirtyParents, Current

\* make_dirty marks the dependencies out of its node.
LEMMA WriteRefines ==
  ASSUME AllBehind, NEW id \in nodes, SetVersions(Bumped(Current, id)),
         UNCHANGED <<nodes, parents>>
  PROVE  Abstract!Write(id)
<1>1. TypeOK /\ id \in Ids BY DEF AllBehind, Linked, TypeOK
<1> DEFINE v == [version |-> version, seenBy |-> seenBy, threw |-> FALSE]
           w == Bumped(v, id)
<1>2. v \in Running /\ Behind(v)
  BY <1>1 DEF AllBehind, TypeOK, Running, VersionSpace, SeenSpace, Behind
<1>3. version' = w.version /\ seenBy' = w.seenBy
  <2>1. /\ w.version = [version EXCEPT ![id] = NextVersion(@)]
        /\ w.seenBy = IF version[id] = MaxVersion
                      THEN [seenBy EXCEPT ![id] = Forgotten]
                      ELSE seenBy
    BY <1>1, <1>2, BumpedIs
  <2> HIDE DEF w
  <2> QED BY <1>1, <2>1, BumpedCurrent DEF SetVersions
<1>4. \A y : DirtyParents(v, y) = DirtyParents(Current, y) BY DEF DirtyParents, Current
<1>5. \A p, c \in Ids : p \in DirtyParents(w, c) <=>
         p \in DirtyParents(Current, c) \/ (p = id /\ id \in ParentSet(c))
  <2> HIDE DEF v
  <2> QED BY <1>1, <1>2, <1>4, BumpedDirties
<1> HIDE DEF v, w
<1>6. \A x : ParentSet(x)' = ParentSet(x) BY DEF ParentSet
<1>7. Edges' = Edges BY <1>6 DEF Edges
<1>8. Dirty' = Dirty \cup Abstract!OutEdges({id})
  <2> DEFINE A == Dirty'
             B == Dirty \cup Abstract!OutEdges({id})
  <2>1. A \subseteq Ids \X Ids BY EdgesThen
  <2>2. B \subseteq Ids \X Ids BY <1>1, EdgesAre, AbstractEdges
  <2>3. ASSUME NEW p \in Ids, NEW c \in Ids PROVE <<p, c>> \in A <=> <<p, c>> \in B
    <3>1. <<p, c>> \in A <=> p \in DirtyParents(w, c)
      BY <1>3, <1>6, EdgesThen DEF DirtyParents
    <3>2. <<p, c>> \in B <=>
             p \in DirtyParents(Current, c) \/ (p = id /\ id \in ParentSet(c))
      <4> DEFINE S == {id}
      <4> HIDE DEF S
      <4>1. <<p, c>> \in Abstract!OutEdges(S) <=> p \in ParentSet(c) /\ p \in S
        BY AbstractEdges
      <4> QED BY <4>1, EdgesAre DEF S
    <3> QED BY <1>5, <3>1, <3>2
  <2> HIDE DEF A, B
  <2>4. A = B BY <2>1, <2>2, <2>3, PairsEqual
  <2> QED BY <2>4 DEF A, B
<1> QED BY <1>7, <1>8 DEF Abstract!Write, Edges, Dirty

\* A visit cleans, or only evaluates, what the abstract graph calls outdated.
LEMMA VisitRefines ==
  ASSUME SoundGraphs, AllBehind, NEW id \in Ids, NEW cleans \in BOOLEAN,
         Visit(id, cleans)
  PROVE  /\ id \in nodes
         /\ IF cleans THEN Abstract!Clean(id) ELSE Abstract!Evaluate(id)
<1>1. TypeOK /\ Linked /\ id \in nodes /\ parents \in [Ids -> Seq(Ids)]
  BY DEF AllBehind, Linked, TypeOK, Visit
<1> DEFINE w == Evaluated(id, cleans)
           R == Anc(ParentsOf, id)
           O == Abstract!Outdated(id)
<1>2. version' = w.version /\ seenBy' = w.seenBy BY DEF Visit, SetVersions
<1>3. \A p, c \in Ids : p \in DirtyParents(w, c) <=>
           /\ \/ p \in DirtyParents(Current, c)
              \/ p \in ParentSet(c) /\ p \in R /\ IsDirty(p)
           /\ ~(cleans /\ c \in R)
  BY <1>1, VisitDirties
<1>4. Abstract!Upward(id) = R BY <1>1, AbstractUpward
<1>5. \A x : x \in O <=> x \in R /\ IsDirty(x) BY <1>1, AbstractOutdated
<1> HIDE DEF w, R, O
<1>6. \A x : ParentSet(x)' = ParentSet(x) BY DEF ParentSet, Visit
<1>7. Edges' = Edges /\ nodes' = nodes BY <1>6 DEF Edges, Visit
<1> DEFINE A == Dirty'
           B == IF cleans
                THEN (Dirty \cup Abstract!OutEdges(O)) \ Abstract!InEdges(R)
                ELSE Dirty \cup Abstract!OutEdges(O)
<1>8. A \subseteq Ids \X Ids BY EdgesThen
<1>9. B \subseteq Ids \X Ids
  <2> Abstract!OutEdges(O) \subseteq Ids \X Ids BY AbstractEdges
  <2> QED BY EdgesAre
<1>10. ASSUME NEW p \in Ids, NEW c \in Ids PROVE <<p, c>> \in A <=> <<p, c>> \in B
  <2>1. <<p, c>> \in A <=> p \in DirtyParents(w, c)
    BY <1>2, <1>6, EdgesThen DEF DirtyParents
  <2>2. /\ <<p, c>> \in Abstract!OutEdges(O) <=> p \in ParentSet(c) /\ p \in O
        /\ <<p, c>> \in Abstract!InEdges(R) <=> p \in ParentSet(c) /\ c \in R
        /\ <<p, c>> \in Dirty <=> p \in DirtyParents(Current, c)
    BY EdgesAre, AbstractEdges
  <2>3. p \in DirtyParents(Current, c) => p \in ParentSet(c) BY DEF DirtyParents
  <2>4. <<p, c>> \in B <=>
           /\ <<p, c>> \in Dirty \/ <<p, c>> \in Abstract!OutEdges(O)
           /\ ~(cleans /\ <<p, c>> \in Abstract!InEdges(R))
    OBVIOUS
  <2> QED BY <1>3, <1>5, <2>1, <2>2, <2>3, <2>4
<1>11. A = B
  <2> HIDE DEF A, B
  <2> QED BY <1>8, <1>9, <1>10, PairsEqual
<1>12. CASE cleans
  <2> Dirty' = (Dirty \cup Abstract!OutEdges(O)) \ Abstract!InEdges(R) BY <1>11, <1>12
  <2> QED BY <1>1, <1>4, <1>7, <1>12 DEF Abstract!Clean, Edges, Dirty, O
<1>13. CASE ~cleans
  <2> Dirty' = Dirty \cup Abstract!OutEdges(O) BY <1>11, <1>13
  <2> QED BY <1>1, <1>7, <1>13 DEF Abstract!Evaluate, Edges, Dirty, O
<1> QED BY <1>12, <1>13

\* Erasing nodes erases them and their dependencies from the abstract graph.
LEMMA EraseRefines ==
  ASSUME Linked, NEW S, Erase(S), NEW R, R = S \cap nodes
  PROVE  Abstract!RemoveNodes(R)
<1>1. TypeOK BY DEF Linked
<1>2. \A id \in Ids : ParentSet(id)' = IF id \in S THEN {} ELSE ParentSet(id) \ S
  BY <1>1, ErasedGraph
<1>3. \A p, c \in Ids : p \in ParentSet(c) => p \in nodes /\ c \in nodes
  BY DEF Linked
<1>4. \A p, c \in Ids : p \in ParentSet(c)' <=>
         p \in ParentSet(c) /\ p \notin R /\ c \notin R
  BY <1>2, <1>3
<1>5. Edges' = Edges \ (Abstract!InEdges(R) \cup Abstract!OutEdges(R))
  <2> DEFINE A == Edges'
             B == Edges \ (Abstract!InEdges(R) \cup Abstract!OutEdges(R))
  <2>1. A \subseteq Ids \X Ids /\ B \subseteq Ids \X Ids BY EdgesThen, EdgesNow
  <2>2. ASSUME NEW p \in Ids, NEW c \in Ids PROVE <<p, c>> \in A <=> <<p, c>> \in B
    <3>1. <<p, c>> \in A <=> p \in ParentSet(c)' BY EdgesThen
    <3>2. <<p, c>> \in B <=> p \in ParentSet(c) /\ ~(c \in R) /\ ~(p \in R)
      BY EdgesNow, AbstractEdges
    <3> QED BY <1>4, <3>1, <3>2
  <2> HIDE DEF A, B
  <2>3. A = B BY <2>1, <2>2, PairsEqual
  <2> QED BY <2>3 DEF A, B
<1>6. Dirty' = Dirty \cap Edges'
  <2> DEFINE A == Dirty'
             B == Dirty \cap Edges'
  <2>1. A \subseteq Ids \X Ids /\ B \subseteq Ids \X Ids BY EdgesThen, EdgesNow
  <2>2. ASSUME NEW p \in Ids, NEW c \in Ids PROVE <<p, c>> \in A <=> <<p, c>> \in B
    <3>1. <<p, c>> \in A <=> p \in ParentSet(c)' /\ seenBy'[p][c] # version'[p]
      BY EdgesThen
    <3>2. <<p, c>> \in B <=> /\ p \in ParentSet(c) /\ seenBy[p][c] # version[p]
                             /\ p \in ParentSet(c)'
      BY EdgesThen, EdgesNow
    <3>3. p \in ParentSet(c)' => p \notin S /\ c \notin S /\ p \in ParentSet(c)
      BY <1>2
    <3>4. p \notin S /\ c \notin S => seenBy'[p][c] = seenBy[p][c]
                                     /\ version'[p] = version[p]
      BY DEF Erase
    <3> QED BY <3>1, <3>2, <3>3, <3>4
  <2> HIDE DEF A, B
  <2>3. A = B BY <2>1, <2>2, PairsEqual
  <2> QED BY <2>3 DEF A, B
<1>7. nodes' = nodes \ R BY DEF Erase
<1> QED BY <1>5, <1>6, <1>7 DEF Abstract!RemoveNodes, Edges, Dirty

\* A new dependency is a dirty one.
LEMMA LinkRefines ==
  ASSUME Linked, NEW c \in Ids, NEW p \in Ids, AddDependency(c, p)
  PROVE  Abstract!Link(c, p)
<1>1. TypeOK /\ parents \in [Ids -> Seq(Ids)] BY DEF Linked, TypeOK
<1>2. c \notin Abstract!Upward(p)
  BY <1>1, NotAbove, AbstractUpward DEF AddDependency
<1>3. \A x \in Ids : ParentSet(x)' = IF x = c THEN ParentSet(x) \cup {p}
                                     ELSE ParentSet(x)
  <2>1. ASSUME NEW s \in Seq(Ids) PROVE ToSet(Append(s, p)) = ToSet(s) \cup {p}
    <3>1. /\ DOMAIN Append(s, p) = 1 .. (Len(s) + 1) /\ DOMAIN s = 1 .. Len(s)
          /\ Append(s, p)[Len(s) + 1] = p /\ Len(s) \in Nat
          /\ \A i \in 1 .. Len(s) : Append(s, p)[i] = s[i]
      OBVIOUS
    <3> QED BY <3>1 DEF ToSet
  <2>2. \A x \in Ids : parents'[x] = IF x = c THEN Append(parents[x], p)
                                     ELSE parents[x]
    BY <1>1 DEF AddDependency
  <2> QED BY <1>1, <2>1, <2>2 DEF ParentSet
<1>4. \A x, y \in Ids : /\ seenBy'[x][y] = IF x = p /\ y = c THEN 0 ELSE seenBy[x][y]
                        /\ version'[x] = version[x] /\ version[x] # 0
  BY <1>1, VersionsAssumption DEF AddDependency, TypeOK, DirtySentinel, InitSentinel
<1>5. Edges' = Edges \cup {<<p, c>>}
  <2> DEFINE A == Edges'
             B == Edges \cup {<<p, c>>}
  <2>1. A \subseteq Ids \X Ids /\ B \subseteq Ids \X Ids BY EdgesThen, EdgesNow
  <2>2. ASSUME NEW x \in Ids, NEW y \in Ids PROVE <<x, y>> \in A <=> <<x, y>> \in B
    BY <1>3, EdgesThen, EdgesNow
  <2> HIDE DEF A, B
  <2>3. A = B BY <2>1, <2>2, PairsEqual
  <2> QED BY <2>3 DEF A, B
<1>6. Dirty' = Dirty \cup {<<p, c>>}
  <2> DEFINE A == Dirty'
             B == Dirty \cup {<<p, c>>}
  <2>1. A \subseteq Ids \X Ids /\ B \subseteq Ids \X Ids BY EdgesThen, EdgesNow
  <2>2. ASSUME NEW x \in Ids, NEW y \in Ids PROVE <<x, y>> \in A <=> <<x, y>> \in B
    <3>1. <<x, y>> \in A <=> x \in ParentSet(y)' /\ seenBy'[x][y] # version'[x]
      BY EdgesThen
    <3>2. <<x, y>> \in B <=> \/ x \in ParentSet(y) /\ seenBy[x][y] # version[x]
                             \/ x = p /\ y = c
      BY EdgesNow
    <3>3. x \in ParentSet(y)' <=> x \in ParentSet(y) \/ (x = p /\ y = c) BY <1>3
    <3> QED BY <1>4, <3>1, <3>2, <3>3
  <2> HIDE DEF A, B
  <2>3. A = B BY <2>1, <2>2, PairsEqual
  <2> QED BY <2>3 DEF A, B
<1> QED BY <1>2, <1>5, <1>6 DEF Abstract!Link, AddDependency, Edges, Dirty

\* remove_dependency takes one dependency out.
LEMMA UnlinkRefines ==
  ASSUME Linked, NEW c \in Ids, NEW p \in Ids, RemoveDependency(c, p)
  PROVE  Abstract!Unlink(c, p)
<1>1. TypeOK /\ parents \in [Ids -> Seq(Ids)] BY DEF Linked, TypeOK
<1>2. ToSet(Without(parents[c], {p})) = ParentSet(c) \ {p}
  <2> DEFINE S == {p}
  <2> HIDE DEF S
  <2>1. parents[c] \in Seq(Ids) BY <1>1
  <2>2. ToSet(Without(parents[c], S)) = ToSet(parents[c]) \ S
    BY <2>1, WithoutProperties
  <2> QED BY <2>2 DEF S, ParentSet
<1>3. \A x \in Ids : ParentSet(x)' = IF x = c THEN ParentSet(x) \ {p}
                                     ELSE ParentSet(x)
  <2> \A x \in Ids : parents'[x] = IF x = c THEN Without(parents[x], {p})
                                   ELSE parents[x]
    BY <1>1 DEF RemoveDependency
  <2> QED BY <1>2 DEF ParentSet
<1>4. \A x, y \in Ids : /\ x # p \/ y # c => seenBy'[x][y] = seenBy[x][y]
                        /\ version'[x] = version[x]
  BY <1>1 DEF RemoveDependency, TypeOK
<1>5. Edges' = Edges \ {<<p, c>>}
  <2> DEFINE A == Edges'
             B == Edges \ {<<p, c>>}
  <2>1. A \subseteq Ids \X Ids /\ B \subseteq Ids \X Ids BY EdgesThen, EdgesNow
  <2>2. ASSUME NEW x \in Ids, NEW y \in Ids PROVE <<x, y>> \in A <=> <<x, y>> \in B
    BY <1>3, EdgesThen, EdgesNow
  <2> HIDE DEF A, B
  <2>3. A = B BY <2>1, <2>2, PairsEqual
  <2> QED BY <2>3 DEF A, B
<1>6. Dirty' = Dirty \ {<<p, c>>}
  <2> DEFINE A == Dirty'
             B == Dirty \ {<<p, c>>}
  <2>1. A \subseteq Ids \X Ids /\ B \subseteq Ids \X Ids BY EdgesThen, EdgesNow
  <2>2. ASSUME NEW x \in Ids, NEW y \in Ids PROVE <<x, y>> \in A <=> <<x, y>> \in B
    <3>1. <<x, y>> \in A <=> x \in ParentSet(y)' /\ seenBy'[x][y] # version'[x]
      BY EdgesThen
    <3>2. <<x, y>> \in B <=> /\ x \in ParentSet(y) /\ seenBy[x][y] # version[x]
                             /\ ~(x = p /\ y = c)
      BY EdgesNow
    <3>3. x \in ParentSet(y)' <=> x \in ParentSet(y) /\ ~(x = p /\ y = c) BY <1>3
    <3> QED BY <1>4, <3>1, <3>2, <3>3
  <2> HIDE DEF A, B
  <2>3. A = B BY <2>1, <2>2, PairsEqual
  <2> QED BY <2>3 DEF A, B
<1> QED BY <1>5, <1>6 DEF Abstract!Unlink, RemoveDependency, Edges, Dirty

\* Every step of the graph is a step of the abstract one or changes nothing
\* of it.
LEMMA StepRefines ==
  SoundGraphs /\ AllBehind /\ [NextSettled]_vars
    => [Abstract!Next]_<<nodes, Edges, Dirty>>
<1> SUFFICES ASSUME SoundGraphs, AllBehind, [NextSettled]_vars
             PROVE  [Abstract!Next]_<<nodes, Edges, Dirty>>
  OBVIOUS
<1>1. Linked /\ TypeOK BY DEF AllBehind, Linked
<1>2. ASSUME UNCHANGED <<parents, versions>> PROVE Edges' = Edges /\ Dirty' = Dirty
  <2>1. \A x : ParentSet(x)' = ParentSet(x) BY <1>2 DEF ParentSet
  <2>2. Current' = Current BY <1>2 DEF Current, versions
  <2>3. \A x : DirtyParents(Current, x)' = DirtyParents(Current, x)
    BY <1>2, <2>1 DEF DirtyParents, Current, versions
  <2> QED BY <2>1, <2>3 DEF Edges, Dirty
<1>3. CASE UNCHANGED vars BY <1>2, <1>3 DEF vars, versions
<1>4. ASSUME NEW id \in Ids, AddNode(id) PROVE Abstract!Next
  <2> Abstract!AddNode(id) BY <1>2, <1>4 DEF AddNode, Abstract!AddNode, Edges, Dirty
  <2> QED BY DEF Abstract!Next
<1>5. ASSUME NEW S, Erase(S) PROVE Abstract!Next
  <2>1. PICK R \in SUBSET nodes : R = S \cap nodes OBVIOUS
  <2>2. Abstract!RemoveNodes(R) BY <1>1, <1>5, <2>1, EraseRefines
  <2> QED BY <2>2 DEF Abstract!Next
<1>6. ASSUME NEW c \in Ids, NEW p \in Ids, AddDependency(c, p) PROVE Abstract!Next
  BY <1>1, <1>6, LinkRefines DEF Abstract!Next
<1>7. ASSUME NEW c \in Ids, NEW p \in Ids, RemoveDependency(c, p) PROVE Abstract!Next
  BY <1>1, <1>7, UnlinkRefines DEF Abstract!Next
<1>8. ASSUME NEW id \in Writable, MakeDirty(id) \/ MakeDirtyIfNot(id)
      PROVE  Abstract!Next
  <2> id \in nodes /\ Abstract!Write(id)
    BY <1>8, WriteRefines DEF MakeDirty, MakeDirtyIfNot
  <2> QED BY DEF Abstract!Next
<1>9. ASSUME NEW id \in Ids, EvaluationGraph(id)
      PROVE  UNCHANGED <<nodes, Edges, Dirty>>
  BY <1>2, <1>9 DEF EvaluationGraph
<1>10. ASSUME NEW id \in Ids, EvaluateDirty(id) PROVE Abstract!Next
  <2> id \in nodes /\ Abstract!Evaluate(id) BY <1>10, VisitRefines DEF EvaluateDirty
  <2> QED BY DEF Abstract!Next
<1>11. ASSUME NEW id \in Ids, Clean(id) PROVE Abstract!Next
  <2> id \in nodes /\ Abstract!Clean(id) BY <1>11, VisitRefines DEF Clean
  <2> QED BY DEF Abstract!Next
<1> QED
  BY <1>3, <1>4, <1>5, <1>6, <1>7, <1>8, <1>9, <1>10, <1>11
     DEF NextSettled, Edit, Use, RemoveNode, RemoveSubgraph, Clear

\* For a caller that edits settled nodes, the versions with their wrap, the
\* cached orders and the loop of evaluate_dirty implement one dirty mark per
\* dependency: what is written dirties its readers until they are cleaned.
THEOREM ImplementsLazyEvalCorrect == SpecSettled => ImplementsLazyEval
<1>1. Init => Abstract!Init
  <2> SUFFICES ASSUME Init PROVE Abstract!Init OBVIOUS
  <2>1. \A x \in Ids : ParentSet(x) = {} BY DEF Init, ParentSet, ToSet
  <2>2. Edges = {} /\ Dirty = {} BY <2>1 DEF Edges, Dirty, DirtyParents
  <2> QED BY <2>2 DEF Init, Abstract!Init, Edges, Dirty
<1>2. NextSettled => Next BY DEF NextSettled, Next
<1>3. SpecSettled => Spec BY <1>2, PTL DEF SpecSettled, Spec
<1>4. SpecSettled => [][Abstract!Next]_<<nodes, Edges, Dirty>>
  BY <1>3, SoundAlways, AllBehindAlways, StepRefines, PTL DEF SpecSettled
<1>5. [][Abstract!Next]_<<nodes, Edges, Dirty>> /\ Abstract!Init => Abstract!Spec
  BY DEF Abstract!Spec, Edges, Dirty
<1> QED BY <1>1, <1>4, <1>5, PTL DEF SpecSettled, ImplementsLazyEval

-----------------------------------------------------------------------------
(* remove_subgraph.                                                        *)

\* Parents and children are one graph, read from either end.
Mirrored(P, Q) == \A x, y \in Ids : y \in P[x] <=> x \in Q[y]

\* A node's ancestors have it as a descendant.
LEMMA AncMirrored ==
  ASSUME NEW P \in Graphs, NEW Q \in Graphs, Mirrored(P, Q),
         NEW x \in Ids, NEW y \in Anc(P, x)
  PROVE  x \in Anc(Q, y)
<1> DEFINE W == {z \in Ids : x \in Anc(Q, z)}
<1>1. x \in W BY AncClosed
<1>2. ASSUME NEW z \in W \cap Ids, NEW p \in P[z] PROVE p \in W
  <2>1. p \in Ids /\ z \in Q[p] BY DEF Graphs, Mirrored
  <2>2. z \in Anc(Q, p) BY <2>1, AncClosed
  <2>3. Anc(Q, z) \subseteq Anc(Q, p) BY <2>1, <2>2, AncTransitive
  <2> QED BY <2>1, <2>3
<1>3. Anc(P, x) \subseteq W
  <2> HIDE DEF W
  <2> QED BY <1>1, <1>2, AncLeast
<1> QED BY <1>3

\* No loop upwards, none downwards.
LEMMA AcyclicMirrored ==
  ASSUME NEW P \in Graphs, NEW Q \in Graphs, Mirrored(P, Q), Acyclic(P)
  PROVE  Acyclic(Q)
<1> SUFFICES ASSUME NEW x \in Ids, NEW c \in Q[x], x \in Anc(Q, c) PROVE FALSE
  BY DEF Acyclic
<1>1. c \in Ids /\ x \in P[c] BY DEF Graphs, Mirrored
<1>2. Mirrored(Q, P) BY DEF Mirrored
<1>3. c \in Anc(P, x) BY <1>1, <1>2, AncMirrored
<1> QED BY <1>1, <1>3 DEF Acyclic

\* What the linked graph is for these lemmas.
LEMMA LinkedMirror ==
  ASSUME Linked
  PROVE  /\ ParentsOf \in Graphs /\ children \in Graphs
         /\ Mirrored(ParentsOf, children) /\ Mirrored(children, ParentsOf)
         /\ Acyclic(ParentsOf) /\ Acyclic(children)
         /\ \A x \in Ids : ParentsOf[x] = ParentSet(x)
<1>1. parents \in [Ids -> Seq(Ids)] /\ children \in Graphs
  BY DEF Linked, TypeOK, Graphs
<1>2. ParentsOf \in Graphs BY <1>1, ParentsTyped
<1>3. \A x \in Ids : ParentsOf[x] = ParentSet(x) BY DEF ParentsOf
<1>4. Mirrored(ParentsOf, children) /\ Mirrored(children, ParentsOf)
  BY <1>3 DEF Linked, Mirrored
<1>5. Acyclic(ParentsOf) BY DEF Linked
<1> QED BY <1>1, <1>2, <1>3, <1>4, <1>5, AcyclicMirrored

\* The turns of the loop: S[i] is what the first i candidates leave removed.
OrphanTurns(S, t, id) ==
  /\ S \in [0 .. Len(t) -> SUBSET Ids]
  /\ S[0] = {id}
  /\ \A i \in 1 .. Len(t) :
        S[i] = IF ParentSet(t[i]) \subseteq S[i - 1] THEN S[i - 1] \cup {t[i]} ELSE S[i - 1]

\* The removed nodes are those after the last turn.
LEMMA OrphanedTurns ==
  ASSUME NEW id \in Ids, Tail(BreadthDown(id)) \in Seq(Ids)
  PROVE  \E S : /\ OrphanTurns(S, Tail(BreadthDown(id)), id)
                /\ Orphaned(id) = S[Len(Tail(BreadthDown(id)))]
<1> DEFINE s == Tail(BreadthDown(id))
           n == Len(s)
           V == SUBSET Ids
           base == {id}
           last == [t \in SUBSET (1 .. n) |-> Max(t)]
           Grown(v, x) == IF ParentSet(x) \subseteq v THEN v \cup {x} ELSE v
           step == [i \in 1 .. n |-> [v \in V |-> Grown(v, s[i])]]
           IsRun(g) ==
             g = [t \in SUBSET (1 .. n) |->
                    IF t = {} THEN base
                    ELSE Grown(g[t \ {Max(t)}], s[Max(t)])]
           c == CHOOSE g : IsRun(g)
<1>1. /\ n \in Nat /\ DOMAIN s = 1 .. n
      /\ \A i \in 1 .. n : s[i] \in Ids
  OBVIOUS
<1>0. base \in V OBVIOUS
<1>2. \A v \in V : \A x \in Ids : Grown(v, x) \in V OBVIOUS
<1>9. Orphaned(id) = c[1 .. n]
  BY <1>1 DEF Orphaned, FoldLeft, MapThenFoldSet
<1> HIDE DEF Grown, base
<1>3. step \in StepsOver(1 .. n, V)
  <2> HIDE DEF V, n
  <2> QED BY <1>1, <1>2 DEF StepsOver
<1>4. PICK g : IsFold(g, 1 .. n, V, base, step, last)
  <2> HIDE DEF step, V, n
  <2> QED BY <1>0, <1>1, <1>3, FoldLeftExists
<1>5. /\ g \in [SUBSET (1 .. n) -> V]
      /\ \A t \in SUBSET (1 .. n) :
            g[t] = IF t = {} THEN base ELSE step[Max(t)][g[t \ {Max(t)}]]
  BY <1>4 DEF IsFold
<1>6. ASSUME NEW t \in SUBSET (1 .. n), t # {}
      PROVE  g[t] = Grown(g[t \ {Max(t)}], s[Max(t)])
  <2>1. Max(t) \in 1 .. n BY <1>1, <1>6, LastMember
  <2>2. g[t \ {Max(t)}] \in V
    <3> HIDE DEF V, n
    <3> QED BY <1>5
  <2> HIDE DEF V, n
  <2> QED BY <1>5, <1>6, <2>1, <2>2
<1>7. IsRun(g)
  <2> HIDE DEF V, n
  <2> QED BY <1>5, <1>6
<1>8. IsRun(c)
  <2> HIDE DEF IsRun
  <2> QED BY <1>7
<1> HIDE DEF c
<1>10. /\ c[{}] = base
       /\ \A t \in SUBSET (1 .. n) : t # {} => c[t] = Grown(c[t \ {Max(t)}], s[Max(t)])
  <2> HIDE DEF n
  <2> QED BY <1>8
<1> HIDE DEF IsRun
<1>11. ASSUME NEW i \in 1 .. n
       PROVE  c[1 .. i] = Grown(c[1 .. (i - 1)], s[i])
  <2>1. 1 .. i \in SUBSET (1 .. n) /\ 1 \in 1 .. i BY <1>1
  <2>2. Max(1 .. i) = i /\ (1 .. i) \ {i} = 1 .. (i - 1) BY <1>1, LastIndex
  <2> HIDE DEF n
  <2> QED BY <1>10, <2>1, <2>2
<1> DEFINE S == [i \in 0 .. n |-> c[1 .. i]]
<1>12. S \in [0 .. n -> V]
  <2>1. ASSUME NEW i \in 1 .. n, c[1 .. (i - 1)] \in V PROVE c[1 .. i] \in V
    <3> HIDE DEF V, n
    <3> QED BY <1>1, <1>2, <1>11, <2>1
  <2> HIDE DEF V, n
  <2>2. \A i \in 0 .. n : c[1 .. i] \in V BY <1>0, <1>1, <1>10, <2>1, FoldLeftTurns
  <2> QED BY <2>2
<1>13. S[0] = base
  <2> 1 .. 0 = {} OBVIOUS
  <2> HIDE DEF n
  <2> QED BY <1>1, <1>10
<1>14. \A i \in 1 .. n : S[i] = Grown(S[i - 1], s[i])
  <2> \A i \in 1 .. n : i \in 0 .. n /\ i - 1 \in 0 .. n BY <1>1
  <2> HIDE DEF n
  <2> QED BY <1>11
<1>15. Orphaned(id) = S[n]
  <2> n \in 0 .. n BY <1>1
  <2> HIDE DEF n
  <2> QED BY <1>9
<1> HIDE DEF S
<1>16. OrphanTurns(S, s, id)
  <2> HIDE DEF s
  <2> QED BY <1>12, <1>13, <1>14 DEF OrphanTurns, Grown, base
<1> QED BY <1>15, <1>16

\* R holds id and those of its descendants, no more and no less, whose parents
\* are all in R.
IsOrphans(R, id) ==
  /\ id \in R /\ R \subseteq Anc(children, id)
  /\ \A x \in R : x # id => ParentSet(x) \subseteq R
  /\ \A x \in Anc(children, id) : x # id /\ ParentSet(x) \subseteq R => x \in R

\* The loop goes once through the descendants, breadth by breadth, and takes no
\* node back: a node that appears again is looked at after all its parents.
LEMMA OrphanedIs ==
  ASSUME Linked, NEW id \in Ids
  PROVE  IsOrphans(Orphaned(id), id)
<1> DEFINE B == BreadthDown(id)
           t == Tail(B)
           n == Len(t)
<1>1. /\ ParentsOf \in Graphs /\ children \in Graphs
      /\ Mirrored(ParentsOf, children) /\ Acyclic(children)
      /\ \A x \in Ids : ParentsOf[x] = ParentSet(x)
  BY LinkedMirror
<1>2. /\ B \in Seq(Ids) /\ Len(B) >= 1 /\ B[1] = id /\ ToSet(B) = Anc(children, id)
      /\ \A k \in DOMAIN B : \A c \in children[B[k]] : \E j \in DOMAIN B : k < j /\ B[j] = c
  BY <1>1, BreadthDownProperties
<1> HIDE DEF B
<1>3. /\ t \in Seq(Ids) /\ Len(B) = n + 1 /\ n \in Nat /\ DOMAIN B = 1 .. n + 1
      /\ DOMAIN t = 1 .. n /\ \A i \in 1 .. n : t[i] = B[i + 1] /\ t[i] \in Ids
  <2>1. B # <<>> /\ Len(B) \in Nat BY <1>2
  <2>2. /\ t \in Seq(Ids) /\ Len(t) = Len(B) - 1
        /\ \A i \in 1 .. Len(t) : t[i] = B[i + 1]
    BY <1>2, <2>1
  <2>3. DOMAIN B = 1 .. Len(B) BY <1>2
  <2> HIDE DEF t
  <2>4. \A i \in 1 .. Len(t) : t[i] \in Ids BY <2>2
  <2>5. DOMAIN t = 1 .. Len(t) BY <2>2
  <2> QED BY <2>1, <2>2, <2>3, <2>4, <2>5
<1>4. PICK S : OrphanTurns(S, t, id) /\ Orphaned(id) = S[n]
  BY <1>3, OrphanedTurns DEF B
<1> HIDE DEF t, n
<1>5. /\ S \in [0 .. n -> SUBSET Ids] /\ S[0] = {id}
      /\ \A i \in 1 .. n : S[i] = IF ParentSet(t[i]) \subseteq S[i - 1]
                                  THEN S[i - 1] \cup {t[i]} ELSE S[i - 1]
  BY <1>4 DEF OrphanTurns, n
\* What is in S has been since it was a candidate.
<1> DEFINE Came(i, x) == \E k \in 1 .. (i + 1) : B[k] = x /\ x \in S[k - 1]
<1>6. ASSUME NEW i \in 0 .. n, NEW j \in i .. n PROVE S[i] \subseteq S[j]
  <2> DEFINE T == {k \in 0 .. n : i <= k => S[i] \subseteq S[k]}
  <2>1. 0 \in T
    <3>1. i <= 0 => i = 0 BY <1>3
    <3> QED BY <1>3, <3>1
  <2>2. ASSUME NEW k \in 1 .. n, k - 1 \in T PROVE k \in T
    <3>1. S[k - 1] \subseteq S[k] BY <1>5
    <3>2. i <= k => i = k \/ i <= k - 1 BY <1>3
    <3>3. k \in 0 .. n BY <1>3
    <3>4. CASE i <= k - 1 BY <2>2, <3>1, <3>3, <3>4
    <3>5. CASE i = k BY <3>3, <3>5
    <3> QED BY <3>2, <3>3, <3>4, <3>5
  <2>3. 0 .. n \subseteq T
    <3> HIDE DEF T
    <3> QED BY <1>3, <2>1, <2>2, BoundedInduction
  <2>4. j \in 0 .. n /\ i <= j BY <1>3
  <2> QED BY <2>3, <2>4
<1>7. \A i \in 0 .. n : \A x \in S[i] : \E k \in 1 .. (i + 1) : B[k] = x /\ x \in S[k - 1]
  <2> DEFINE T == {i \in 0 .. n : \A x \in S[i] : Came(i, x)}
  <2>1. 0 \in T
    <3>1. 1 \in 1 .. (0 + 1) /\ 1 - 1 = 0 /\ 0 \in 0 .. n BY <1>3
    <3>2. Came(0, id) BY <1>2, <1>5, <3>1
    <3> HIDE DEF Came
    <3> QED BY <1>5, <3>1, <3>2
  <2>2. ASSUME NEW i \in 1 .. n, i - 1 \in T PROVE i \in T
    <3>0. i \in 0 .. n /\ i - 1 \in 0 .. n /\ (i - 1) + 1 = i /\ (i + 1) - 1 = i
          /\ i + 1 \in 1 .. (i + 1)
      BY <1>3
    <3> SUFFICES ASSUME NEW x \in S[i] PROVE Came(i, x)
      <4> HIDE DEF Came
      <4> QED BY <3>0
    <3>1. CASE x \in S[i - 1]
      <4>1. Came(i - 1, x)
        <5> HIDE DEF Came
        <5> QED BY <2>2, <3>1
      <4>2. PICK k \in 1 .. ((i - 1) + 1) : B[k] = x /\ x \in S[k - 1] BY <4>1
      <4>3. k \in 1 .. (i + 1) BY <3>0
      <4> QED BY <4>2, <4>3
    <3>2. CASE x \notin S[i - 1]
      <4>1. x = t[i] BY <1>5, <3>2
      <4>2. B[i + 1] = x /\ x \in S[(i + 1) - 1] BY <1>3, <3>0, <4>1
      <4> QED BY <3>0, <4>2
    <3> QED BY <3>1, <3>2
  <2>3. 0 .. n \subseteq T
    <3> HIDE DEF T
    <3> QED BY <1>3, <2>1, <2>2, BoundedInduction
  <2> HIDE DEF Came
  <2>4. \A i \in 0 .. n : \A x \in S[i] : Came(i, x) BY <2>3
  <2> QED BY <2>4 DEF Came
<1> HIDE DEF Came
<1> DEFINE R == S[n]
<1>8. n \in 0 .. n /\ 0 \in 0 .. n BY <1>3
<1>9. id \in R BY <1>3, <1>5, <1>6, <1>8
<1>10. R \subseteq Anc(children, id)
  <2> SUFFICES ASSUME NEW x \in S[n] PROVE x \in Anc(children, id) OBVIOUS
  <2>1. PICK k \in 1 .. (n + 1) : B[k] = x BY <1>7, <1>8
  <2> QED BY <1>2, <1>3, <2>1 DEF ToSet
<1>11. ASSUME NEW x \in R, x # id PROVE ParentSet(x) \subseteq R
  <2> DEFINE T == {i \in 0 .. n : x \in S[i] => ParentSet(x) \subseteq R}
  <2>1. 0 \in T BY <1>5, <1>8, <1>11
  <2>2. ASSUME NEW i \in 1 .. n, i - 1 \in T PROVE i \in T
    <3>1. i - 1 \in 0 .. n /\ n \in (i - 1) .. n /\ i \in 0 .. n BY <1>3
    <3>2. S[i - 1] \subseteq R BY <1>6, <3>1
    <3>3. CASE x \in S[i - 1] BY <2>2, <3>1, <3>3
    <3>4. CASE x \notin S[i - 1] /\ x \in S[i]
      <4>1. x = t[i] /\ ParentSet(x) \subseteq S[i - 1] BY <1>5, <3>4
      <4> QED BY <3>1, <3>2, <4>1
    <3> QED BY <3>1, <3>3, <3>4
  <2>3. 0 .. n \subseteq T
    <3> HIDE DEF T
    <3> QED BY <1>3, <2>1, <2>2, BoundedInduction
  <2> QED BY <1>8, <1>11, <2>3
<1>12. ASSUME NEW x \in Anc(children, id), x # id, ParentSet(x) \subseteq R PROVE x \in R
  <2>1. x \in Ids /\ x \in ToSet(B) BY <1>1, <1>2, AncClosed
  <2> DEFINE J == {n + 1 - j : j \in {j \in 1 .. (n + 1) : B[j] = x}}
  <2>2. J # {} /\ J \in SUBSET Nat
    <3>1. PICK k \in 1 .. (n + 1) : B[k] = x BY <1>3, <2>1 DEF ToSet
    <3>2. \A j \in 1 .. (n + 1) : n + 1 - j \in Nat BY <1>3
    <3> QED BY <3>1, <3>2
  <2>3. PICK m \in J : \A k \in J : m <= k
    <3> HIDE DEF J
    <3> QED BY <2>2, LeastNumber
  <2>4. PICK j \in 1 .. (n + 1) : B[j] = x /\ m = n + 1 - j OBVIOUS
  <2>5. ASSUME NEW k \in 1 .. (n + 1), B[k] = x PROVE k <= j
    <3>1. n + 1 - k \in J BY <2>5
    <3>2. n + 1 - j <= n + 1 - k BY <2>3, <2>4, <3>1
    <3> QED BY <1>3, <3>2
  <2> HIDE DEF J
  <2>6. j # 1 BY <1>2, <1>12, <2>4
  <2>7. j - 1 \in 1 .. n /\ (j - 1) - 1 \in 0 .. n /\ (j - 1) + 1 = j BY <1>3, <2>6
  <2>8. t[j - 1] = x BY <1>3, <2>4, <2>7
  <2>9. ASSUME NEW p \in ParentSet(x) PROVE p \in S[(j - 1) - 1]
    <3>1. PICK k \in 1 .. (n + 1) : B[k] = p /\ p \in S[k - 1] BY <1>7, <1>8, <1>12
    <3>2. p \in Ids /\ x \in children[p]
      <4>1. p \in ParentsOf[x] BY <1>1, <2>1
      <4> QED BY <1>1, <2>1, <4>1 DEF Graphs, Mirrored
    <3>3. PICK i \in 1 .. (n + 1) : k < i /\ B[i] = x BY <1>2, <1>3, <3>1, <3>2
    <3>4. i <= j BY <2>5, <3>3
    <3>5. k - 1 \in 0 .. n /\ (j - 1) - 1 \in (k - 1) .. n BY <1>3, <2>7, <3>3, <3>4
    <3>6. S[k - 1] \subseteq S[(j - 1) - 1] BY <1>6, <3>5
    <3> QED BY <3>1, <3>6
  <2>10. x \in S[j - 1]
    <3>1. ParentSet(t[j - 1]) \subseteq S[(j - 1) - 1] BY <2>8, <2>9
    <3>2. S[j - 1] = S[(j - 1) - 1] \cup {t[j - 1]} BY <1>5, <2>7, <3>1
    <3> QED BY <2>8, <3>2
  <2>11. j - 1 \in 0 .. n /\ n \in (j - 1) .. n BY <1>3, <2>7
  <2> QED BY <1>6, <2>10, <2>11
<1> HIDE DEF R
<1>13. IsOrphans(R, id) BY <1>9, <1>10, <1>11, <1>12 DEF IsOrphans
<1> QED BY <1>4, <1>13 DEF R

\* led[n]: the nodes that a chain of n parents that avoids id joins to a node
\* that id does not lead to.
IsLed(led, down, id) ==
  led = [n \in 0 .. Cardinality(Ids) |->
           IF n = 0 THEN nodes \ down
           ELSE led[n - 1] \cup {x \in down \ {id} : ParentSet(x) \cap led[n - 1] # {}}]

\* L is the least set with the nodes id does not lead to and, but for id, every
\* child of its members.
IsLeastLed(L, down, id) ==
  /\ nodes \ down \subseteq L /\ L \subseteq nodes
  /\ \A x \in down \ {id} : ParentSet(x) \cap L # {} => x \in L
  /\ \A W : /\ nodes \ down \subseteq W
            /\ \A x \in down \ {id} : ParentSet(x) \cap W # {} => x \in W
            => L \subseteq W

\* After as many steps as there are ids, the chains have led to all they can.
LEMMA LedLeast ==
  ASSUME Linked, NEW id \in Ids, NEW down \in SUBSET nodes,
         NEW led, led = CHOOSE l : IsLed(l, down, id)
  PROVE  IsLeastLed(led[Cardinality(Ids)], down, id)
<1> DEFINE N == Cardinality(Ids)
           V == SUBSET Ids
           base == nodes \ down
           Hit(L) == {x \in down \ {id} : ParentSet(x) \cap L # {}}
           step == [n \in 1 .. N |-> [L \in V |-> L \cup Hit(L)]]
<1>1. N \in Nat /\ IsFiniteSet(Ids) /\ nodes \subseteq Ids
  BY IdsAssumption, FS_CardinalityType DEF Linked, TypeOK
<1>2. \A L \in V : L \cup Hit(L) \in V BY <1>1
<1>3. step \in StepsOver(1 .. N, V) /\ base \in V
  <2> HIDE DEF Hit, N
  <2> QED BY <1>1, <1>2 DEF StepsOver
<1>4. PICK g : IsIteration(g, N, V, base, step)
  <2> HIDE DEF step, N, V, base
  <2> QED BY <1>1, <1>3, IterationExists
<1>5. /\ g \in [0 .. N -> V] /\ g[0] = base
      /\ \A n \in 1 .. N : g[n] = step[n][g[n - 1]]
  BY <1>4 DEF IsIteration
<1>6. ASSUME NEW n \in 1 .. N PROVE g[n] = g[n - 1] \cup Hit(g[n - 1])
  <2> n - 1 \in 0 .. N BY <1>1
  <2> g[n - 1] \in V
    <3> HIDE DEF V, N
    <3> QED BY <1>5
  <2> HIDE DEF V, Hit
  <2> QED BY <1>5
<1>7. IsLed(g, down, id)
  <2> \A n \in 0 .. N : n = 0 \/ n \in 1 .. N BY <1>1
  <2> HIDE DEF N, V
  <2> QED BY <1>5, <1>6 DEF IsLed, N
<1>8. IsLed(led, down, id) BY <1>7
<1>9. led[0] = base /\ \A n \in 1 .. N : led[n] = led[n - 1] \cup Hit(led[n - 1])
  <2>1. led = [n \in 0 .. N |->
           IF n = 0 THEN nodes \ down
           ELSE led[n - 1] \cup {x \in down \ {id} : ParentSet(x) \cap led[n - 1] # {}}]
    BY <1>8 DEF IsLed
  <2>2. 0 \in 0 .. N BY <1>1
  <2>3. \A n \in 1 .. N : n \in 0 .. N /\ n # 0 BY <1>1
  <2> HIDE DEF N
  <2> QED BY <2>1, <2>2, <2>3
<1>10. \A n \in 0 .. N : led[n] \subseteq nodes /\ nodes \ down \subseteq led[n]
  <2> DEFINE T == {n \in 0 .. N : led[n] \subseteq nodes /\ nodes \ down \subseteq led[n]}
  <2>1. 0 \in T BY <1>1, <1>9
  <2>2. ASSUME NEW n \in 1 .. N, n - 1 \in T PROVE n \in T
    <3>1. n \in 0 .. N BY <1>1
    <3>2. led[n] = led[n - 1] \cup Hit(led[n - 1]) BY <1>9
    <3>3. Hit(led[n - 1]) \subseteq nodes OBVIOUS
    <3> HIDE DEF Hit, N
    <3> QED BY <2>2, <3>1, <3>2, <3>3
  <2> HIDE DEF T
  <2>3. 0 .. N \subseteq T BY <1>1, <2>1, <2>2, BoundedInduction
  <2> QED BY <2>3 DEF T
<1>11. \A n \in 0 .. N : Hit(led[n]) \subseteq led[n] \/ Cardinality(led[n]) >= n
  <2> DEFINE T == {n \in 0 .. N : Hit(led[n]) \subseteq led[n] \/ Cardinality(led[n]) >= n}
  <2>c. \A n \in 0 .. N : IsFiniteSet(led[n]) /\ Cardinality(led[n]) \in Nat
    <3> \A n \in 0 .. N : led[n] \in SUBSET Ids BY <1>1, <1>10
    <3> HIDE DEF N
    <3> QED BY <1>1, FS_Subset, FS_CardinalityType
  <2>1. 0 \in T
    <3> 0 \in 0 .. N BY <1>1
    <3> Cardinality(led[0]) >= 0 BY <2>c
    <3> HIDE DEF Hit, N
    <3> QED OBVIOUS
  <2>2. ASSUME NEW n \in 1 .. N, n - 1 \in T PROVE n \in T
    <3>0. n \in 0 .. N /\ n - 1 \in 0 .. N BY <1>1
    <3>1. led[n] = led[n - 1] \cup Hit(led[n - 1]) BY <1>9
    <3>2. CASE Hit(led[n - 1]) \subseteq led[n - 1]
      <4>1. led[n] = led[n - 1]
        <5> HIDE DEF Hit
        <5> QED BY <3>1, <3>2
      <4>2. Hit(led[n]) \subseteq led[n]
        <5> HIDE DEF Hit
        <5> QED BY <4>1, <3>2
      <4> HIDE DEF Hit, N
      <4> QED BY <3>0, <4>2
    <3>3. CASE ~(Hit(led[n - 1]) \subseteq led[n - 1])
      <4> HIDE DEF Hit, N
      <4>1. led[n - 1] \subseteq led[n] /\ led[n - 1] # led[n] BY <3>1, <3>3
      <4>2. Cardinality(led[n - 1]) <= Cardinality(led[n])
            /\ Cardinality(led[n - 1]) # Cardinality(led[n])
        <5> led[n - 1] \in SUBSET led[n] BY <4>1
        <5> QED BY <2>c, <3>0, <4>1, FS_Subset
      <4>3. Cardinality(led[n - 1]) >= n - 1 BY <2>2, <3>3
      <4>4. Cardinality(led[n]) \in Nat /\ Cardinality(led[n - 1]) \in Nat BY <2>c, <3>0
      <4>5. n \in Nat BY <1>1
      <4>6. Cardinality(led[n]) >= n BY <4>2, <4>3, <4>4, <4>5
      <4> QED BY <3>0, <4>6
    <3> QED BY <3>2, <3>3
  <2>3. 0 .. N \subseteq T
    <3> HIDE DEF T, N
    <3> QED BY <1>1, <2>1, <2>2, BoundedInduction
  <2> HIDE DEF Hit
  <2> QED BY <2>3
<1>12. N \in 0 .. N BY <1>1
<1>13. Hit(led[N]) \subseteq led[N]
  <2>1. CASE Cardinality(led[N]) >= N
    <3>1. led[N] \in SUBSET Ids BY <1>1, <1>10, <1>12
    <3>2. Cardinality(led[N]) <= N /\ Cardinality(led[N]) \in Nat
      BY <1>1, <3>1, FS_Subset, FS_CardinalityType
    <3>3. Cardinality(led[N]) = N
      <4> HIDE DEF N
      <4> QED BY <1>1, <2>1, <3>2
    <3>4. led[N] = Ids BY <1>1, <3>1, <3>3, FS_Subset
    <3> QED BY <1>1, <3>4
  <2> HIDE DEF Hit
  <2> QED BY <1>11, <1>12, <2>1
<1>14. ASSUME NEW W, nodes \ down \subseteq W,
              \A x \in down \ {id} : ParentSet(x) \cap W # {} => x \in W
       PROVE  led[N] \subseteq W
  <2> DEFINE T == {n \in 0 .. N : led[n] \subseteq W}
  <2>1. 0 \in T BY <1>1, <1>9, <1>14
  <2>2. ASSUME NEW n \in 1 .. N, n - 1 \in T PROVE n \in T
    <3>1. n \in 0 .. N BY <1>1
    <3>2. led[n] = led[n - 1] \cup Hit(led[n - 1]) BY <1>9
    <3>3. Hit(led[n - 1]) \subseteq W BY <1>14, <2>2
    <3> HIDE DEF Hit, N
    <3> QED BY <2>2, <3>1, <3>2, <3>3
  <2> HIDE DEF T
  <2>3. 0 .. N \subseteq T BY <1>1, <2>1, <2>2, BoundedInduction
  <2> QED BY <1>12, <2>3 DEF T
<1>15. /\ nodes \ down \subseteq led[N] /\ led[N] \subseteq nodes
       /\ \A x \in down \ {id} : ParentSet(x) \cap led[N] # {} => x \in led[N]
  BY <1>10, <1>12, <1>13
<1> HIDE DEF N, Hit, V, step
<1> DEFINE L == led[N]
<1>16. /\ nodes \ down \subseteq L /\ L \subseteq nodes
       /\ \A x \in down \ {id} : ParentSet(x) \cap L # {} => x \in L
       /\ \A W : /\ nodes \ down \subseteq W
                 /\ \A x \in down \ {id} : ParentSet(x) \cap W # {} => x \in W
                 => L \subseteq W
  BY <1>14, <1>15
<1> HIDE DEF L
<1>17. IsLeastLed(L, down, id) BY <1>16 DEF IsLeastLed
<1> QED BY <1>17 DEF L, N

\* A set of nodes each of which has a parent in it is empty.
LEMMA NoEndlessParents ==
  ASSUME Linked, NEW U \in SUBSET Ids, \A x \in U : ParentSet(x) \cap U # {}
  PROVE  U = {}
<1> SUFFICES ASSUME U # {} PROVE FALSE OBVIOUS
<1> DEFINE P == ParentsOf
           High(x) == Cardinality(Anc(P, x))
           D == {High(x) : x \in U}
<1>1. P \in Graphs /\ Acyclic(P) /\ \A x \in Ids : P[x] = ParentSet(x) BY LinkedMirror
<1> HIDE DEF P
<1>2. ASSUME NEW x \in Ids PROVE IsFiniteSet(Anc(P, x)) /\ High(x) \in Nat
  <2> Anc(P, x) \in SUBSET Ids BY <1>1, AncClosed
  <2> QED BY IdsAssumption, FS_Subset, FS_CardinalityType
<1>3. D # {} /\ D \in SUBSET Nat
  <2> HIDE DEF High
  <2> QED BY <1>2
<1>4. PICK m \in D : \A k \in D : m <= k
  <2> HIDE DEF D
  <2> QED BY <1>3, LeastNumber
<1>5. PICK x \in U : m = High(x) OBVIOUS
<1>6. PICK p \in U : p \in P[x] BY <1>1
<1>7. High(x) <= High(p)
  <2> HIDE DEF High
  <2> QED BY <1>4, <1>5
<1>8. p \in Ids /\ x \in Ids OBVIOUS
<1>9. x \notin Anc(P, p) BY <1>1, <1>6, <1>8 DEF Acyclic
<1>10. Anc(P, p) \subseteq Anc(P, x) /\ x \in Anc(P, x)
  <2>1. p \in Anc(P, x) BY <1>1, <1>6, <1>8, AncClosed
  <2> QED BY <1>1, <1>8, <2>1, AncClosed, AncTransitive
<1>11. High(p) <= High(x) /\ High(p) # High(x)
  <2> Anc(P, p) \in SUBSET Anc(P, x) /\ Anc(P, p) # Anc(P, x) BY <1>9, <1>10
  <2> QED BY <1>2, <1>8, FS_Subset
<1> HIDE DEF High
<1> QED BY <1>2, <1>7, <1>8, <1>11

\* remove_subgraph takes the node and what only it led to.
LEMMA SubgraphStep ==
  ASSUME Linked, NEW id \in nodes, RemoveSubgraph(id),
         NEW down, down = {x \in nodes : id \in Upward(x)},
         NEW led, led = CHOOSE l : IsLed(l, down, id)
  PROVE  nodes' = led[Cardinality(Ids)]
<1> DEFINE R == Orphaned(id)
           L == led[Cardinality(Ids)]
<1>1. /\ ParentsOf \in Graphs /\ children \in Graphs
      /\ Mirrored(ParentsOf, children) /\ Mirrored(children, ParentsOf)
      /\ \A x \in Ids : ParentsOf[x] = ParentSet(x)
  BY LinkedMirror
<1>2. /\ nodes \subseteq Ids /\ id \in Ids /\ parents \in [Ids -> Seq(Ids)]
      /\ \A x \in Ids : ParentSet(x) \cup children[x] # {} => x \in nodes
  BY DEF Linked, TypeOK
<1>3. down = Anc(children, id)
  <2>1. ASSUME NEW x \in down PROVE x \in Anc(children, id)
    <3>1. x \in Ids /\ id \in Upward(x) BY <1>2
    <3>2. id \in Anc(ParentsOf, x) BY <1>2, <3>1, UpwardIsAnc
    <3> QED BY <1>1, <3>1, <3>2, AncMirrored
  <2>2. ASSUME NEW x \in Anc(children, id) PROVE x \in down
    <3>1. x \in Ids BY <1>1, <1>2, AncClosed
    <3>2. id \in Anc(ParentsOf, x) BY <1>1, <1>2, AncMirrored
    <3>3. id \in Upward(x) BY <1>2, <3>1, <3>2, UpwardIsAnc
    <3>4. x \in nodes
      <4>1. CASE x = id BY <4>1
      <4>2. CASE x # id
        <5>1. PICK p \in ParentsOf[x] : TRUE BY <1>1, <3>1, <3>2, <4>2, AncOfParents
        <5> QED BY <1>1, <1>2, <3>1, <5>1
      <4> QED BY <4>1, <4>2
    <3> QED BY <3>3, <3>4
  <2> QED BY <2>1, <2>2
<1>4. IsOrphans(R, id) BY <1>2, OrphanedIs
<1>5. down \in SUBSET nodes OBVIOUS
<1>6. /\ nodes \ down \subseteq L /\ L \subseteq nodes
      /\ \A x \in down \ {id} : ParentSet(x) \cap L # {} => x \in L
      /\ \A W : /\ nodes \ down \subseteq W
                /\ \A x \in down \ {id} : ParentSet(x) \cap W # {} => x \in W
                => L \subseteq W
  <2>1. IsLeastLed(led[Cardinality(Ids)], down, id) BY <1>2, <1>5, LedLeast
  <2>2. IsLeastLed(L, down, id) BY <2>1
  <2> HIDE DEF L
  <2> QED BY <2>2 DEF IsLeastLed
<1> HIDE DEF R, L
<1>7. /\ id \in R /\ R \subseteq down
      /\ \A x \in R : x # id => ParentSet(x) \subseteq R
      /\ \A x \in down : x # id /\ ParentSet(x) \subseteq R => x \in R
  BY <1>3, <1>4 DEF IsOrphans
<1>8. L \subseteq nodes \ R
  <2> DEFINE W == nodes \ R
  <2>1. nodes \ down \subseteq W BY <1>7
  <2>2. \A x \in down \ {id} : ParentSet(x) \cap W # {} => x \in W BY <1>5, <1>7
  <2> HIDE DEF W
  <2>3. L \subseteq W BY <1>6, <2>1, <2>2
  <2> QED BY <2>3 DEF W
<1>9. nodes \ R \subseteq L
  <2> DEFINE U == nodes \ (R \cup L)
  <2>1. ASSUME NEW x \in U PROVE ParentSet(x) \cap U # {}
    <3>1. x \in down \ {id} BY <1>6, <1>7
    <3>2. PICK p \in ParentSet(x) : p \notin R BY <1>7, <3>1
    <3>3. p \notin L BY <1>6, <3>1, <3>2
    <3>4. p \in nodes
      <4>1. x \in Ids /\ p \in ParentsOf[x] BY <1>1, <1>2
      <4>2. p \in Ids /\ x \in children[p] BY <1>1, <4>1 DEF Graphs, Mirrored
      <4> QED BY <1>2, <4>2
    <3> QED BY <3>2, <3>3, <3>4
  <2>2. U \in SUBSET Ids BY <1>2
  <2>3. U = {}
    <3> HIDE DEF U
    <3> QED BY <2>1, <2>2, NoEndlessParents
  <2> QED BY <2>3
<1>10. nodes' = nodes \ R BY DEF RemoveSubgraph, Erase, R
<1> QED BY <1>8, <1>9, <1>10 DEF L

\* remove_subgraph removes the node and those of its descendants that every
\* chain of parents joins to it, in any graph, however often they are met.
THEOREM SubgraphOnlyCorrect == Spec => SubgraphOnly
<1>1. Linked /\ [Next]_vars =>
        [\A id \in nodes : RemoveSubgraph(id) =>
           LET down == {x \in nodes : id \in Upward(x)}
               led[n \in 0 .. Cardinality(Ids)] ==
                 IF n = 0 THEN nodes \ down
                 ELSE led[n - 1] \cup
                      {x \in down \ {id} : ParentSet(x) \cap led[n - 1] # {}}
           IN  nodes' = led[Cardinality(Ids)]]_vars
  <2> SUFFICES ASSUME Linked, NEW id \in nodes, RemoveSubgraph(id)
               PROVE  LET down == {x \in nodes : id \in Upward(x)}
                          led[n \in 0 .. Cardinality(Ids)] ==
                            IF n = 0 THEN nodes \ down
                            ELSE led[n - 1] \cup
                                 {x \in down \ {id} : ParentSet(x) \cap led[n - 1] # {}}
                      IN  nodes' = led[Cardinality(Ids)]
    OBVIOUS
  <2> DEFINE down == {x \in nodes : id \in Upward(x)}
             led == CHOOSE l : IsLed(l, down, id)
  <2>1. nodes' = led[Cardinality(Ids)] BY SubgraphStep
  <2> QED BY <2>1 DEF IsLed
<1> QED BY <1>1, LinkedAlways, PTL DEF Spec, SubgraphOnly

-----------------------------------------------------------------------------
(* clean_mt: the graph under the lanes and the tasks.                      *)

\* Everything below a dependency is greater: there is no loop.
LEMMA NumberedAcyclic ==
  ASSUME parents \in [Ids -> Seq(Ids)], \A c \in Ids : \A p \in ParentSet(c) : p < c
  PROVE  Acyclic(ParentsOf)
<1>1. ParentsOf \in Graphs BY ParentsTyped
<1> SUFFICES ASSUME NEW x \in Ids, NEW p \in ParentsOf[x] PROVE x \notin Anc(ParentsOf, p)
  BY DEF Acyclic
<1>2. p \in Ids /\ p < x BY <1>1 DEF Graphs, ParentsOf
<1> DEFINE W == {y \in Ids : y <= p}
<1>3. p \in W BY <1>2, NumberedAssumption
<1>4. \A y \in W \cap Ids : ParentsOf[y] \subseteq W
  <2> SUFFICES ASSUME NEW y \in Ids, y <= p, NEW q \in ParentsOf[y] PROVE q \in W
    OBVIOUS
  <2>1. q \in Ids /\ q < y BY <1>1 DEF Graphs, ParentsOf
  <2> QED BY <1>2, <2>1, NumberedAssumption
<1>5. x \notin W BY <1>2, NumberedAssumption
<1> HIDE DEF W
<1>6. Anc(ParentsOf, p) \subseteq W BY <1>1, <1>2, <1>3, <1>4, AncLeast
<1> QED BY <1>5, <1>6

\* The graphs clean_mt is called on satisfy the invariants of the sequential
\* one.
LEMMA GraphInit == InitMt => SoundGraphs /\ AllBehind
<1> SUFFICES ASSUME InitMt PROVE SoundGraphs /\ AllBehind OBVIOUS
<1>1. parents \in [Ids -> Seq(Ids)] /\ \A id \in Ids : IsInjective(parents[id])
  <2> DEFINE Rising == {s \in BoundedSeq(Ids, Cardinality(Ids)) :
                          \A i, j \in DOMAIN s : i < j => s[i] < s[j]}
  <2>1. ASSUME NEW s \in Rising PROVE s \in Seq(Ids) /\ IsInjective(s)
    <3>1. PICK m \in Nat : s \in [1 .. m -> Ids]
      <4> Cardinality(Ids) \in Nat BY IdsAssumption, FS_CardinalityType
      <4> QED BY DEF BoundedSeq, SeqOf
    <3>2. s \in Seq(Ids) BY <3>1
    <3>3. \A i, j \in 1 .. m : i < j => s[i] < s[j] BY <3>1
    <3>4. \A i, j \in 1 .. m : s[i] = s[j] => i = j
      <4> SUFFICES ASSUME NEW i \in 1 .. m, NEW j \in 1 .. m, s[i] = s[j] PROVE i = j
        OBVIOUS
      <4>1. s[i] \in Int /\ s[j] \in Int BY <3>1, NumberedAssumption
      <4>2. ~(i < j) /\ ~(j < i) BY <3>3, <4>1
      <4> QED BY <4>2
    <3> QED BY <3>1, <3>2, <3>4 DEF IsInjective
  <2>2. parents \in [Ids -> Rising] BY DEF InitMt
  <2> HIDE DEF Rising
  <2> QED BY <2>1, <2>2
<1>2. \A id \in Ids : ParentSet(id) \subseteq Ids BY <1>1 DEF ParentSet, ToSet
<1>3. TypeOK
  <2> InitSentinel \in InitSentinel .. MaxVersion /\ DirtySentinel \in Versions
    BY VersionsAssumption DEF InitSentinel, DirtySentinel, Versions
  <2> QED BY <1>1 DEF InitMt, TypeOK
<1>4. Acyclic(ParentsOf) BY <1>1, NumberedAcyclic DEF InitMt
<1>5. Linked BY <1>1, <1>2, <1>3, <1>4 DEF Linked, InitMt
<1>6. \A p, c \in Ids : seenBy[p][c] <= version[p]
  BY DEF InitMt, DirtySentinel, InitSentinel
<1>7. \A id \in Ids : evalGraph[id] = <<>> BY DEF InitMt
<1> QED BY <1>5, <1>6, <1>7 DEF SoundGraphs, AllBehind

\* What clean_mt relies on, whatever its lanes do: nothing it does disturbs it.
Ground == SoundGraphs /\ AllBehind /\ nodes = Ids

\* What the proofs use of it.
LEMMA GroundFacts ==
  ASSUME Ground
  PROVE  /\ TypeOK /\ Linked /\ Acyclic(ParentsOf)
         /\ parents \in [Ids -> Seq(Ids)]
         /\ ParentsOf \in Graphs
         /\ \A x \in Ids : /\ ParentsOf[x] = ParentSet(x)
                           /\ ParentSet(x) \subseteq Ids
                           /\ IsSound(EvalGraphOf(x), x)
<1>1. TypeOK /\ Linked /\ Acyclic(ParentsOf) /\ parents \in [Ids -> Seq(Ids)]
  BY DEF Ground, SoundGraphs, Linked, TypeOK
<1>2. ParentsOf \in Graphs BY <1>1, ParentsTyped
<1>3. ASSUME NEW x \in Ids
      PROVE  /\ ParentsOf[x] = ParentSet(x)
             /\ ParentSet(x) \subseteq Ids
             /\ IsSound(EvalGraphOf(x), x)
  <2>1. IsSound(SortedUpward(x), x) BY <1>1, SortedUpwardSound
  <2>2. ParentsOf[x] = ParentSet(x) BY DEF ParentsOf
  <2> QED BY <1>2, <2>1, <2>2 DEF Graphs, EvalGraphOf, Ground, SoundGraphs
<1> QED BY <1>1, <1>2, <1>3

\* Versions may rise and orders be cached: Ground does not notice.
LEMMA GroundKept ==
  ASSUME Ground, TypeOK', UNCHANGED structure,
         \A p, c \in Ids : seenBy'[p][c] <= version'[p],
         \A id \in Ids : \/ evalGraph'[id] = evalGraph[id]
                         \/ evalGraph'[id] = EvalGraphOf(id)
  PROVE  Ground'
<1>1. Linked' BY LinkedSame, GroundFacts DEF structure
<1>2. SoundGraphs' BY <1>1, SoundUsed DEF structure, Ground
<1>3. AllBehind' BY <1>1 DEF AllBehind
<1> QED BY <1>2, <1>3 DEF Ground, structure

\* No step of clean_mt disturbs Ground.
LEMMA GroundNext ==
  ASSUME Ground, \A task \in running : task.node \in Ids, [NextMt]_mtVars
  PROVE  Ground'
<1>1. TypeOK /\ Linked BY GroundFacts
<1>2. \A p, c \in Ids : seenBy[p][c] <= version[p] BY DEF Ground, AllBehind
<1>3. ASSUME UNCHANGED vars PROVE Ground'
  <2>1. TypeOK' BY <1>1, <1>3 DEF TypeOK, vars, versions
  <2> QED BY <1>2, <1>3, <2>1, GroundKept DEF vars, versions, structure
<1>4. ASSUME NEW ids \in Requests, CleanMt(ids) PROVE Ground'
  <2>1. evalGraph' \in [Ids -> Seq(Ids)]
    BY <1>1, <1>4, GraphTyped DEF TypeOK, CleanMt
  <2>2. TypeOK' BY <1>1, <1>4, <2>1 DEF TypeOK, CleanMt, structure, versions
  <2> QED BY <1>2, <1>4, <2>2, GroundKept DEF CleanMt, structure, versions
<1>5. ASSUME NEW id \in Ids, SetVersions(Bumped(Current, id)),
             UNCHANGED <<structure, evalGraph>>
      PROVE  Ground'
  <2> DEFINE v == [version |-> version, seenBy |-> seenBy, threw |-> FALSE]
  <2>1. v \in Running /\ Behind(v)
    BY <1>1, <1>2 DEF TypeOK, Running, VersionSpace, SeenSpace, Behind
  <2>2. Bumped(v, id) \in Running /\ Behind(Bumped(v, id))
    BY <2>1, BumpedIs, BumpedBehind
  <2>3. version' = Bumped(v, id).version /\ seenBy' = Bumped(v, id).seenBy
    <3>1. /\ Bumped(v, id).version = [version EXCEPT ![id] = NextVersion(@)]
          /\ Bumped(v, id).seenBy = IF version[id] = MaxVersion
                                    THEN [seenBy EXCEPT ![id] = Forgotten]
                                    ELSE seenBy
      BY <2>1, BumpedIs
    <3> QED BY <1>1, <1>5, <3>1, BumpedCurrent DEF SetVersions
  <2> HIDE DEF v
  <2>4. TypeOK'
    BY <1>1, <1>5, <2>2, <2>3 DEF TypeOK, Running, VersionSpace, SeenSpace, structure
  <2> QED BY <1>5, <2>2, <2>3, <2>4, GroundKept DEF Behind
<1>6. ASSUME NEW task \in running, task.node \in Ids, TaskSees(task) PROVE Ground'
  <2>1. \A p, c \in Ids : seenBy'[p][c] = IF p \in task.dirty /\ c = task.node
                                          THEN version[p] ELSE seenBy[p][c]
    BY <1>1, <1>6 DEF TaskSees, TypeOK
  <2>2. \A p \in Ids : version[p] \in Versions /\ version[p] \in Nat
    BY <1>1, VersionsAssumption DEF TypeOK, Versions, InitSentinel
  <2>3. seenBy' \in [Ids -> [Ids -> Versions]]
    <3>1. \A p \in Ids : seenBy[p] \in [Ids -> Versions] BY <1>1 DEF TypeOK
    <3> QED BY <1>6, <2>2, <3>1 DEF TaskSees
  <2>4. TypeOK' BY <1>1, <1>6, <2>3 DEF TypeOK, TaskSees, structure
  <2>5. \A p, c \in Ids : seenBy'[p][c] <= version'[p]
    BY <1>2, <1>6, <2>1, <2>2 DEF TaskSees
  <2> QED BY <1>6, <2>4, <2>5, GroundKept DEF TaskSees
<1>7. ASSUME NEW task \in running, task.node \in Ids, TaskEnds(task) PROVE Ground'
  BY <1>5, <1>7 DEF TaskEnds
<1>8. ASSUME NEW id \in Writable, WriteBetween(id) PROVE Ground'
  BY <1>5, <1>8, WritableAssumption DEF WriteBetween, MakeDirty, structure
<1>9. ASSUME NEW l \in Lanes, BeginGraph(l) \/ WalkGraph(l) PROVE Ground'
  BY <1>3, <1>9 DEF BeginGraph, WalkGraph
<1>10. CASE UNCHANGED mtVars BY <1>3, <1>10 DEF mtVars
<1> QED BY <1>4, <1>6, <1>7, <1>8, <1>9, <1>10 DEF NextMt, Work

-----------------------------------------------------------------------------
(* The lanes and the tasks.                                                *)

Tasks == [node : Ids, lane : Lanes, dirty : SUBSET Ids, seen : BOOLEAN]

LanesTyped ==
  /\ todo \in [Lanes -> Seq(Ids)]
  /\ order \in [Lanes -> Seq(Ids)]
  /\ evaluating \in [Lanes -> SUBSET Ids]
  /\ running \subseteq Tasks

\* What is left of an evaluation graph: every parent before its children.
Ordered(s) ==
  /\ IsInjective(s)
  /\ \A i, j \in DOMAIN s : s[j] \in ParentSet(s[i]) => j < i

\* Two nodes of which neither is the other nor its parent.
Apart(x, y) == x # y /\ x \notin ParentSet(y) /\ y \notin ParentSet(x)

\* On one lane: no node to come was given to a task since the last wait, nor
\* is it a parent of one that was; and the tasks that run are apart.
LanesInOrder ==
  /\ \A l \in Lanes : Ordered(order[l])
  /\ \A l \in Lanes : \A y \in evaluating[l] : \A x \in ToSet(order[l]) :
        x # y /\ x \notin ParentSet(y)
  /\ \A t \in running : t.node \in evaluating[t.lane]
  /\ \A s, t \in running : s # t /\ s.lane = t.lane => Apart(s.node, t.node)

\* All that a lane may still look at.
Reach(l) ==
  UNION {Anc(ParentsOf, x) :
           x \in ToSet(todo[l]) \cup ToSet(order[l])
                   \cup {t.node : t \in TasksOf(l)}}

\* Different lanes look at different nodes.
LanesDisjoint == \A l, m \in Lanes : l # m => Reach(l) \cap Reach(m) = {}

\* The inductive invariant of clean_mt.
LanesOK == Ground /\ LanesTyped /\ LanesInOrder /\ LanesDisjoint

\* What is left of a sequence when its first member is taken.
LEMMA TailFacts ==
  ASSUME NEW X, NEW s \in Seq(X), s # <<>>
  PROVE  /\ Tail(s) \in Seq(X) /\ Head(s) \in X /\ Head(s) = s[1]
         /\ 1 \in DOMAIN s /\ Head(s) \in ToSet(s)
         /\ \A i \in DOMAIN Tail(s) : i + 1 \in DOMAIN s /\ Tail(s)[i] = s[i + 1]
                                     /\ i \in Nat /\ i # 0
         /\ \A i \in DOMAIN s : i # 1 => /\ i - 1 \in DOMAIN Tail(s)
                                        /\ Tail(s)[i - 1] = s[i]
<1>1. /\ DOMAIN s = 1 .. Len(s) /\ Len(s) \in Nat /\ Len(s) >= 1
      /\ Tail(s) \in Seq(X) /\ DOMAIN Tail(s) = 1 .. (Len(s) - 1)
      /\ Head(s) = s[1]
      /\ \A i \in 1 .. (Len(s) - 1) : Tail(s)[i] = s[i + 1]
  OBVIOUS
<1>2. 1 \in DOMAIN s BY <1>1
<1>3. Head(s) \in X /\ Head(s) \in ToSet(s) BY <1>1, <1>2 DEF ToSet
<1>4. \A i \in DOMAIN Tail(s) : i + 1 \in DOMAIN s /\ Tail(s)[i] = s[i + 1]
                                /\ i \in Nat /\ i # 0
  BY <1>1
<1>5. \A i \in DOMAIN s : i # 1 => /\ i - 1 \in DOMAIN Tail(s)
                                   /\ Tail(s)[i - 1] = s[i]
  BY <1>1
<1> QED BY <1>1, <1>2, <1>3, <1>4, <1>5

\* The rest of an order is an order, and holds neither its first node nor a
\* parent of it.
LEMMA TailOrdered ==
  ASSUME NEW s \in Seq(Ids), s # <<>>, Ordered(s)
  PROVE  /\ Ordered(Tail(s))
         /\ ToSet(s) = {Head(s)} \cup ToSet(Tail(s))
         /\ \A x \in ToSet(Tail(s)) : x # Head(s) /\ x \notin ParentSet(Head(s))
<1> DEFINE t == Tail(s)
<1>1. /\ t \in Seq(Ids) /\ Head(s) = s[1] /\ 1 \in DOMAIN s
      /\ \A i \in DOMAIN t : i + 1 \in DOMAIN s /\ t[i] = s[i + 1] /\ i \in Nat /\ i # 0
      /\ \A i \in DOMAIN s : i # 1 => i - 1 \in DOMAIN t /\ t[i - 1] = s[i]
  BY TailFacts
<1> HIDE DEF t
<1>2. \A i, j \in DOMAIN s : s[i] = s[j] => i = j BY DEF Ordered, IsInjective
<1>3. \A i, j \in DOMAIN s : s[j] \in ParentSet(s[i]) => j < i BY DEF Ordered
<1>4. ASSUME NEW i \in DOMAIN t, NEW j \in DOMAIN t
      PROVE  /\ t[i] = t[j] => i = j
             /\ t[j] \in ParentSet(t[i]) => j < i
  <2>1. i + 1 \in DOMAIN s /\ j + 1 \in DOMAIN s /\ i \in Nat /\ j \in Nat
        /\ t[i] = s[i + 1] /\ t[j] = s[j + 1]
    BY <1>1
  <2>2. t[i] = t[j] => i + 1 = j + 1 BY <1>2, <2>1
  <2>3. t[j] \in ParentSet(t[i]) => j + 1 < i + 1 BY <1>3, <2>1
  <2> QED BY <2>1, <2>2, <2>3
<1>5. Ordered(t) BY <1>4 DEF Ordered, IsInjective
<1>6. ToSet(s) = {Head(s)} \cup ToSet(t)
  <2>1. ASSUME NEW i \in DOMAIN s PROVE s[i] \in {Head(s)} \cup ToSet(t)
    BY <1>1, <2>1 DEF ToSet
  <2>2. ASSUME NEW i \in DOMAIN t PROVE t[i] \in ToSet(s) BY <1>1, <2>2 DEF ToSet
  <2> QED BY <1>1, <2>1, <2>2 DEF ToSet
<1>7. ASSUME NEW i \in DOMAIN t PROVE t[i] # Head(s) /\ t[i] \notin ParentSet(Head(s))
  <2>1. i + 1 \in DOMAIN s /\ t[i] = s[i + 1] /\ i \in Nat /\ i # 0 BY <1>1
  <2>2. i + 1 # 1 /\ ~(i + 1 < 1) BY <2>1
  <2> QED BY <1>1, <1>2, <1>3, <2>1, <2>2
<1> QED BY <1>5, <1>6, <1>7 DEF t, ToSet

\* Nobody edits the graph meanwhile: ancestors and orders stay what they are.
LEMMA SameParents ==
  ASSUME UNCHANGED parents
  PROVE  /\ \A x : ParentSet(x)' = ParentSet(x)
         /\ ParentsOf' = ParentsOf
         /\ \A x : Anc(ParentsOf, x)' = Anc(ParentsOf, x)
         /\ \A s : Ordered(s)' <=> Ordered(s)
<1>1. \A x : ParentSet(x)' = ParentSet(x) BY DEF ParentSet
<1>2. ParentsOf' = ParentsOf BY <1>1 DEF ParentsOf
<1>3. \A x : Anc(ParentsOf, x)' = Anc(ParentsOf, x) BY <1>2 DEF Anc
<1>4. \A s : Ordered(s)' <=> Ordered(s) BY <1>1 DEF Ordered
<1> QED BY <1>1, <1>2, <1>3, <1>4

-----------------------------------------------------------------------------
(* What a lane may still look at only shrinks, until the next call.        *)

\* x is where the lane still has to start from.
Source(l, x) ==
  \/ x \in ToSet(todo[l])
  \/ x \in ToSet(order[l])
  \/ \E t \in running : t.lane = l /\ t.node = x

\* A lane reaches the ancestors of where it starts from.
LEMMA ReachIs ==
  ASSUME NEW l, NEW z
  PROVE  z \in Reach(l) <=> \E x : Source(l, x) /\ z \in Anc(ParentsOf, x)
BY DEF Reach, Source, TasksOf

\* The same after a step.
LEMMA ReachThen ==
  ASSUME NEW l, NEW z
  PROVE  z \in Reach(l)' <=> \E x : Source(l, x)' /\ z \in Anc(ParentsOf, x)'
BY DEF Reach, Source, TasksOf

\* A lane starts from nodes.
LEMMA SourceTyped ==
  ASSUME LanesTyped, NEW l \in Lanes, NEW x, Source(l, x)
  PROVE  x \in Ids
<1>1. todo[l] \in Seq(Ids) /\ order[l] \in Seq(Ids) BY DEF LanesTyped
<1>2. \A t \in running : t.node \in Ids BY DEF LanesTyped, Tasks
<1> QED BY <1>1, <1>2 DEF Source, ToSet

\* Lanes stay disjoint when each starts from where it could reach before.
LEMMA DisjointKept ==
  ASSUME LanesOK, UNCHANGED parents,
         \A l \in Lanes : \A x : Source(l, x)' =>
            \E y : Source(l, y) /\ x \in Anc(ParentsOf, y)
  PROVE  LanesDisjoint'
<1>1. ParentsOf \in Graphs BY GroundFacts DEF LanesOK
<1>2. ASSUME NEW l \in Lanes PROVE Reach(l)' \subseteq Reach(l)
  <2> SUFFICES ASSUME NEW z, NEW x, Source(l, x)', z \in Anc(ParentsOf, x)'
               PROVE  z \in Reach(l)
    BY ReachThen
  <2>1. z \in Anc(ParentsOf, x) BY SameParents
  <2>2. PICK y : Source(l, y) /\ x \in Anc(ParentsOf, y) OBVIOUS
  <2>3. y \in Ids BY <2>2, SourceTyped DEF LanesOK
  <2>4. z \in Anc(ParentsOf, y) BY <1>1, <2>1, <2>2, <2>3, AncTransitive
  <2> QED BY <2>2, <2>4, ReachIs
<1> QED BY <1>2 DEF LanesOK, LanesDisjoint

\* A step after which each lane starts from no other place.
LEMMA SourcesKept ==
  ASSUME LanesOK, UNCHANGED parents,
         \A l \in Lanes : \A x : Source(l, x)' => Source(l, x)
  PROVE  LanesDisjoint'
<1>1. ParentsOf \in Graphs BY GroundFacts DEF LanesOK
<1>2. ASSUME NEW l \in Lanes, NEW x, Source(l, x)'
      PROVE  \E y : Source(l, y) /\ x \in Anc(ParentsOf, y)
  <2>1. Source(l, x) BY <1>2
  <2>2. x \in Ids BY <2>1, SourceTyped DEF LanesOK
  <2> QED BY <1>1, <2>1, <2>2, AncClosed
<1> QED BY <1>2, DisjointKept

\* The invariant holds when clean_mt is called.
LEMMA LanesInit == InitMt => LanesOK
<1> SUFFICES ASSUME InitMt PROVE LanesOK OBVIOUS
<1>1. Ground BY GraphInit DEF Ground, InitMt
<1>2. LanesTyped BY DEF InitMt, LanesTyped
<1>3. /\ \A l \in Lanes : todo[l] = <<>> /\ order[l] = <<>>
      /\ running = {}
  BY DEF InitMt
<1>4. Ordered(<<>>) BY DEF Ordered, IsInjective
<1>5. ToSet(<<>>) = {} BY DEF ToSet
<1>6. LanesInOrder BY <1>3, <1>4, <1>5 DEF LanesInOrder
<1>7. LanesDisjoint BY <1>3, <1>5, ReachIs DEF LanesDisjoint, Source
<1> QED BY <1>1, <1>2, <1>6, <1>7 DEF LanesOK

\* Steps that leave lanes and tasks alone keep it.
LEMMA LanesSame ==
  ASSUME LanesOK, UNCHANGED <<parents, todo, order, evaluating, running>>
  PROVE  LanesTyped' /\ LanesInOrder' /\ LanesDisjoint'
<1>1. LanesTyped' BY DEF LanesOK, LanesTyped
<1>2. \A x : ParentSet(x)' = ParentSet(x) BY SameParents
<1>3. \A s : Ordered(s)' <=> Ordered(s) BY SameParents
<1>4. \A l \in Lanes : Ordered(order[l])'
  <2>1. \A l \in Lanes : Ordered(order[l]) BY DEF LanesOK, LanesInOrder
  <2> QED BY <1>2, <2>1 DEF Ordered
<1>5. LanesInOrder' BY <1>2, <1>4 DEF LanesOK, LanesInOrder, Apart
<1>6. LanesDisjoint' BY SourcesKept DEF Source
<1> QED BY <1>1, <1>5, <1>6

\* A lane that takes its next id keeps it: all tasks of the last one were
\* waited for.
LEMMA LanesBeginGraph ==
  ASSUME LanesOK, NEW l \in Lanes, BeginGraph(l)
  PROVE  LanesTyped' /\ LanesInOrder' /\ LanesDisjoint'
<1> DEFINE id == Head(todo[l])
           graph == IF parents[id] = <<>> THEN <<>> ELSE EvalGraphOf(id)
<1>1. /\ LanesTyped /\ LanesInOrder /\ Ground
      /\ todo[l] \in Seq(Ids) /\ todo[l] # <<>>
  BY DEF LanesOK, LanesTyped, BeginGraph
<1>2. /\ id \in Ids /\ id \in ToSet(todo[l]) /\ Tail(todo[l]) \in Seq(Ids)
      /\ ToSet(Tail(todo[l])) \subseteq ToSet(todo[l])
  <2>1. \A i \in DOMAIN Tail(todo[l]) : i + 1 \in DOMAIN todo[l]
                                      /\ Tail(todo[l])[i] = todo[l][i + 1]
    BY <1>1, TailFacts
  <2> QED BY <1>1, <2>1, TailFacts DEF ToSet
<1>3. IsSound(EvalGraphOf(id), id) BY <1>1, <1>2, GroundFacts
<1>4. graph \in Seq(Ids) /\ Ordered(graph) /\ ToSet(graph) \subseteq Anc(ParentsOf, id)
  <2>1. Ordered(<<>>) /\ ToSet(<<>>) = {} BY DEF Ordered, IsInjective, ToSet
  <2> QED BY <1>3, <2>1 DEF IsSound, Ordered
<1> HIDE DEF graph
<1>5. /\ todo' = [todo EXCEPT ![l] = Tail(@)]
      /\ order' = [order EXCEPT ![l] = graph]
      /\ evaluating' = [evaluating EXCEPT ![l] = {}]
      /\ running' = running /\ parents' = parents
      /\ \A t \in running : t.lane # l
  BY DEF BeginGraph, graph, vars, TasksOf
<1> HIDE DEF id
<1>6. LanesTyped' BY <1>1, <1>2, <1>4, <1>5 DEF LanesTyped
<1>7. /\ \A x : ParentSet(x)' = ParentSet(x)
      /\ \A s : Ordered(s)' <=> Ordered(s)
  BY <1>5, SameParents
<1>8. \A m \in Lanes : /\ order'[m] = IF m = l THEN graph ELSE order[m]
                       /\ todo'[m] = IF m = l THEN Tail(todo[l]) ELSE todo[m]
                       /\ evaluating'[m] = IF m = l THEN {} ELSE evaluating[m]
  BY <1>1, <1>5 DEF LanesTyped
<1>9. \A m \in Lanes : Ordered(order[m])'
  <2>1. \A m \in Lanes : Ordered(order'[m])
    BY <1>1, <1>4, <1>8 DEF LanesInOrder
  <2> QED BY <1>7, <2>1 DEF Ordered
<1>10. \A m \in Lanes : \A y \in evaluating'[m] : \A x \in ToSet(order'[m]) :
          x # y /\ x \notin ParentSet(y)'
  BY <1>1, <1>7, <1>8 DEF LanesInOrder
<1>11. \A t \in running : t.node \in evaluating'[t.lane]
  BY <1>1, <1>5, <1>8 DEF LanesInOrder, LanesTyped, Tasks
<1>12. LanesInOrder'
  BY <1>1, <1>5, <1>7, <1>9, <1>10, <1>11 DEF LanesInOrder, Apart
<1>13. ASSUME NEW m \in Lanes, NEW x, Source(m, x)'
       PROVE  \E y : Source(m, y) /\ x \in Anc(ParentsOf, y)
  <2>1. CASE Source(m, x)
    <3>1. x \in Ids BY <1>1, <2>1, SourceTyped
    <3> QED BY <1>1, <2>1, <3>1, GroundFacts, AncClosed
  <2>2. CASE ~Source(m, x)
    <3>1. m = l /\ x \in ToSet(graph)
      BY <1>2, <1>5, <1>8, <1>13, <2>2 DEF Source
    <3>2. Source(m, id) BY <1>2, <3>1 DEF Source
    <3> QED BY <1>4, <3>1, <3>2
  <2> QED BY <2>1, <2>2
<1>14. LanesDisjoint' BY <1>5, <1>13, DisjointKept
<1> QED BY <1>6, <1>12, <1>14

\* A lane that gives its next node to a task, waits or passes over keeps it.
LEMMA LanesWalkGraph ==
  ASSUME LanesOK, NEW l \in Lanes, WalkGraph(l)
  PROVE  LanesTyped' /\ LanesInOrder' /\ LanesDisjoint'
<1> DEFINE x == Head(order[l])
           dirty == DirtyParents(Current, x)
           others == IF MustWait(l, x) THEN {} ELSE evaluating[l]
           task == [node |-> x, lane |-> l, dirty |-> dirty, seen |-> FALSE]
           rest == Tail(order[l])
<1>1. /\ LanesTyped /\ LanesInOrder /\ Ground
      /\ order[l] \in Seq(Ids) /\ order[l] # <<>> /\ Ordered(order[l])
  BY DEF LanesOK, LanesTyped, LanesInOrder, WalkGraph
<1>2. /\ x \in Ids /\ rest \in Seq(Ids) /\ Ordered(rest)
      /\ ToSet(order[l]) = {x} \cup ToSet(rest)
      /\ \A y \in ToSet(rest) : y # x /\ y \notin ParentSet(x)
  BY <1>1, TailOrdered
<1>3. dirty \in SUBSET Ids BY <1>1, <1>2, GroundFacts DEF DirtyParents
<1>4. /\ order' = [order EXCEPT ![l] = rest]
      /\ todo' = todo /\ parents' = parents
      /\ evaluating' = [evaluating EXCEPT ![l] =
                           IF dirty = {} THEN others ELSE others \cup {x}]
      /\ running' = IF dirty = {} THEN running ELSE running \cup {task}
      /\ MustWait(l, x) => \A t \in running : t.lane # l
  BY DEF WalkGraph, vars, TasksOf
<1>5. /\ task \in Tasks /\ task.node = x /\ task.lane = l
      /\ others \subseteq evaluating[l]
      /\ ~MustWait(l, x) => others = evaluating[l] /\ ParentSet(x) \cap evaluating[l] = {}
  BY <1>2, <1>3 DEF Tasks, MustWait
<1> HIDE DEF x, dirty, others, rest, task
<1>6. evaluating[l] \subseteq Ids BY <1>1 DEF LanesTyped
<1>7. LanesTyped' BY <1>1, <1>2, <1>4, <1>5, <1>6 DEF LanesTyped
<1>8. /\ \A y : ParentSet(y)' = ParentSet(y)
      /\ \A s : Ordered(s)' <=> Ordered(s)
  BY <1>4, SameParents
<1>9. \A m \in Lanes :
         /\ order'[m] = IF m = l THEN rest ELSE order[m]
         /\ m # l => evaluating'[m] = evaluating[m]
         /\ m = l => /\ others \subseteq evaluating'[m]
                     /\ evaluating'[m] \subseteq evaluating[m] \cup {x}
                     /\ dirty # {} => x \in evaluating'[m]
  BY <1>1, <1>4, <1>5 DEF LanesTyped
<1>10. \A m \in Lanes : Ordered(order[m])'
  <2>1. \A m \in Lanes : Ordered(order'[m])
    BY <1>1, <1>2, <1>9 DEF LanesInOrder
  <2> QED BY <1>8, <2>1 DEF Ordered
<1>11. ASSUME NEW m \in Lanes, NEW y \in evaluating'[m], NEW z \in ToSet(order'[m])
       PROVE  z # y /\ z \notin ParentSet(y)'
  <2>1. \A a \in evaluating[m] : \A b \in ToSet(order[m]) :
           b # a /\ b \notin ParentSet(a)
    BY <1>1 DEF LanesInOrder
  <2>2. CASE m # l BY <1>8, <1>9, <1>11, <2>1, <2>2
  <2>3. CASE m = l
    <3>1. z \in ToSet(rest) /\ z \in ToSet(order[m]) BY <1>2, <1>9, <1>11, <2>3
    <3>2. y \in evaluating[m] \/ y = x BY <1>9, <1>11, <2>3
    <3> QED BY <1>2, <1>8, <2>1, <3>1, <3>2
  <2> QED BY <2>2, <2>3
<1>12. ASSUME NEW t \in running' PROVE t.node \in evaluating'[t.lane]
  <2>1. CASE t \in running
    <3>1. t.lane \in Lanes /\ t.node \in evaluating[t.lane]
      BY <1>1, <2>1 DEF LanesTyped, LanesInOrder, Tasks
    <3>2. CASE t.lane # l BY <1>9, <3>1, <3>2
    <3>3. CASE t.lane = l BY <1>4, <1>5, <1>9, <2>1, <3>1, <3>3
    <3> QED BY <3>2, <3>3
  <2>2. CASE t \notin running BY <1>4, <1>5, <1>9, <1>12, <2>2
  <2> QED BY <2>1, <2>2
<1>13. ASSUME NEW t \in running, t.lane = l, dirty # {} PROVE Apart(t.node, x)
  <2>1. t.node \in evaluating[l] BY <1>1, <1>13 DEF LanesInOrder
  <2>2. x # t.node /\ x \notin ParentSet(t.node)
    BY <1>1, <1>2, <2>1 DEF LanesInOrder
  <2>3. t.node \notin ParentSet(x) BY <1>4, <1>5, <1>13, <2>1
  <2> QED BY <2>2, <2>3 DEF Apart
<1>14. ASSUME NEW s \in running', NEW t \in running', s # t, s.lane = t.lane
       PROVE  Apart(s.node, t.node)'
  <2>1. Apart(s.node, t.node)
    <3>1. CASE s \in running /\ t \in running
      BY <1>1, <1>14, <3>1 DEF LanesInOrder
    <3>2. CASE s \in running /\ t \notin running
      <4>1. t = task /\ dirty # {} BY <1>4, <1>14, <3>2
      <4> QED BY <1>5, <1>13, <1>14, <3>2, <4>1
    <3>3. CASE s \notin running /\ t \in running
      <4>1. s = task /\ dirty # {} BY <1>4, <1>14, <3>3
      <4>2. Apart(t.node, x) BY <1>5, <1>13, <1>14, <3>3, <4>1
      <4> QED BY <1>5, <4>1, <4>2 DEF Apart
    <3>4. CASE s \notin running /\ t \notin running BY <1>4, <1>14, <3>4
    <3> QED BY <3>1, <3>2, <3>3, <3>4
  <2> QED BY <1>8, <2>1 DEF Apart
<1>15. LanesInOrder' BY <1>10, <1>11, <1>12, <1>14 DEF LanesInOrder
<1>16. ASSUME NEW m \in Lanes, NEW y, Source(m, y)' PROVE Source(m, y)
  BY <1>2, <1>4, <1>5, <1>9, <1>16 DEF Source
<1>17. LanesDisjoint' BY <1>4, <1>16, SourcesKept
<1> QED BY <1>7, <1>15, <1>17

\* A task that sees the parents or ends keeps it.
LEMMA LanesTask ==
  ASSUME LanesOK, NEW task \in running, TaskSees(task) \/ TaskEnds(task)
  PROVE  LanesTyped' /\ LanesInOrder' /\ LanesDisjoint'
<1> DEFINE seen == [task EXCEPT !.seen = TRUE]
<1>1. /\ LanesTyped /\ LanesInOrder /\ Ground /\ task \in Tasks
  BY DEF LanesOK, LanesTyped
<1>2. seen \in Tasks /\ seen.node = task.node /\ seen.lane = task.lane
  BY <1>1 DEF Tasks
<1>3. /\ UNCHANGED <<parents, todo, order, evaluating>>
      /\ running' \subseteq (running \ {task}) \cup {seen}
  BY DEF TaskSees, TaskEnds, structure
<1> HIDE DEF seen
<1>4. \A t \in running' : \E u \in running :
         u.node = t.node /\ u.lane = t.lane /\ (t = u \/ (t = seen /\ u = task))
  BY <1>2, <1>3
<1>5. LanesTyped' BY <1>1, <1>2, <1>3 DEF LanesTyped
<1>6. /\ \A y : ParentSet(y)' = ParentSet(y)
      /\ \A s : Ordered(s)' <=> Ordered(s)
  BY <1>3, SameParents
<1>7. \A m \in Lanes : Ordered(order[m])'
  BY <1>1, <1>3, <1>6 DEF LanesInOrder, Ordered
<1>8. \A m \in Lanes : \A y \in evaluating'[m] : \A x \in ToSet(order'[m]) :
         x # y /\ x \notin ParentSet(y)'
  BY <1>1, <1>3, <1>6 DEF LanesInOrder
<1>9. \A t \in running' : t.node \in evaluating'[t.lane]
  BY <1>1, <1>3, <1>4 DEF LanesInOrder
<1>10. ASSUME NEW s \in running', NEW t \in running', s # t, s.lane = t.lane
       PROVE  Apart(s.node, t.node)'
  <2>1. PICK u \in running :
           u.node = s.node /\ u.lane = s.lane /\ (s = u \/ (s = seen /\ u = task))
    BY <1>4
  <2>2. PICK w \in running :
           w.node = t.node /\ w.lane = t.lane /\ (t = w \/ (t = seen /\ w = task))
    BY <1>4
  <2>3. u # w BY <1>3, <1>10, <2>1, <2>2
  <2>4. Apart(s.node, t.node) BY <1>1, <1>10, <2>1, <2>2, <2>3 DEF LanesInOrder
  <2> QED BY <1>6, <2>4 DEF Apart
<1>11. LanesInOrder' BY <1>7, <1>8, <1>9, <1>10 DEF LanesInOrder
<1>12. ASSUME NEW m \in Lanes, NEW y, Source(m, y)' PROVE Source(m, y)
  BY <1>3, <1>4, <1>12 DEF Source
<1>13. LanesDisjoint' BY <1>3, <1>12, SourcesKept
<1> QED BY <1>5, <1>11, <1>13

\* A call: the lanes start from different ids, whose graphs share nothing.
LEMMA LanesCleanMt ==
  ASSUME LanesOK, NEW ids \in Requests, CleanMt(ids)
  PROVE  LanesTyped' /\ LanesInOrder' /\ LanesDisjoint'
<1> DEFINE alone == {i \in DOMAIN ids : IsIndependent(ids, i)}
           S == {ids[i] : i \in alone}
           shared == Without(ids, S)
<1>1. /\ LanesTyped /\ LanesInOrder /\ Ground
      /\ running = {} /\ \A l \in Lanes : order[l] = <<>>
      /\ ids \in Seq(Ids)
  BY RequestsAssumption DEF LanesOK, CleanMt, Idle
<1>2. shared \in Seq(Ids) /\ ToSet(shared) = ToSet(ids) \ S
  <2> HIDE DEF S
  <2> QED BY <1>1, WithoutProperties
<1>3. /\ todo' = [l \in Lanes |->
                    IF l = Shared THEN shared
                    ELSE IF \E i \in alone : ids[i] = l THEN <<l>> ELSE <<>>]
      /\ UNCHANGED <<parents, order, evaluating, running>>
  BY DEF CleanMt, structure
<1> HIDE DEF shared
<1>4. DOMAIN ids = 1 .. Len(ids) /\ \A i \in DOMAIN ids : ids[i] \in Ids BY <1>1
<1>5. LanesTyped'
  <2>1. \A l \in Lanes : l # Shared => <<l>> \in Seq(Ids)
    <3> \A l \in Ids : <<l>> \in Seq(Ids) OBVIOUS
    <3> QED BY DEF Lanes
  <2>2. todo' \in [Lanes -> Seq(Ids)]
    <3> HIDE DEF alone
    <3> QED BY <1>2, <1>3, <2>1
  <2> QED BY <1>1, <1>3, <2>2 DEF LanesTyped
<1>6. LanesInOrder'
  <2>1. Ordered(<<>>)' BY DEF Ordered, IsInjective
  <2>2. ToSet(<<>>) = {} BY DEF ToSet
  <2>3. \A l \in Lanes : order'[l] = <<>> BY <1>1, <1>3
  <2>4. \A l \in Lanes : Ordered(order[l])' BY <2>1, <2>3 DEF Ordered
  <2> QED BY <1>1, <1>3, <2>2, <2>3, <2>4 DEF LanesInOrder
<1>7. ASSUME NEW l \in Lanes, NEW x, Source(l, x)'
      PROVE  \E i \in DOMAIN ids : ids[i] = x /\ IF l = Shared THEN i \notin alone
                                                ELSE i \in alone /\ x = l
  <2>1. x \in ToSet(todo'[l])
    <3> ToSet(<<>>) = {} BY DEF ToSet
    <3> QED BY <1>1, <1>3, <1>7 DEF Source
  <2>2. CASE l = Shared
    <3>1. x \in ToSet(ids) /\ x \notin S BY <1>2, <1>3, <2>1, <2>2
    <3>2. PICK i \in DOMAIN ids : ids[i] = x BY <3>1 DEF ToSet
    <3> QED BY <2>2, <3>1, <3>2
  <2>3. CASE l # Shared
    <3>1. \A y \in ToSet(<<l>>) : y = l BY DEF ToSet
    <3>2. ToSet(<<>>) = {} BY DEF ToSet
    <3> HIDE DEF alone
    <3>3. todo'[l] = IF \E i \in alone : ids[i] = l THEN <<l>> ELSE <<>>
      BY <1>3, <2>3
    <3>4. PICK i \in alone : ids[i] = l BY <2>1, <3>2, <3>3
    <3>5. x = l BY <2>1, <3>1, <3>3, <3>4
    <3> QED BY <2>3, <3>4, <3>5 DEF alone
  <2> QED BY <2>2, <2>3
<1>8. ASSUME NEW i \in alone, NEW j \in DOMAIN ids, i # j
      PROVE  Anc(ParentsOf, ids[i]) \cap Anc(ParentsOf, ids[j]) = {}
  <2>1. i \in DOMAIN ids /\ IsIndependent(ids, i) OBVIOUS
  <2>2. Len(ids) # 1 BY <1>4, <1>8
  <2>3. ToSet(EvalGraphOf(ids[i])) \cap ToSet(EvalGraphOf(ids[j])) = {}
    BY <1>8, <2>1, <2>2 DEF IsIndependent
  <2> QED BY <1>1, <1>4, <2>1, <2>3, GroundFacts DEF IsSound
<1>9. \A x : Anc(ParentsOf, x)' = Anc(ParentsOf, x) BY <1>3, SameParents
<1>10. ASSUME NEW l \in Lanes, NEW m \in Lanes, l # m, l # Shared,
              NEW z, z \in Reach(l)', z \in Reach(m)'
       PROVE  FALSE
  <2>1. PICK x : Source(l, x)' /\ z \in Anc(ParentsOf, x) BY <1>9, <1>10, ReachThen
  <2>2. PICK y : Source(m, y)' /\ z \in Anc(ParentsOf, y) BY <1>9, <1>10, ReachThen
  <2> HIDE DEF alone
  <2>3. PICK i \in DOMAIN ids : ids[i] = x /\ i \in alone /\ x = l
    BY <1>7, <1>10, <2>1
  <2>4. PICK j \in DOMAIN ids : ids[j] = y /\ IF m = Shared THEN j \notin alone
                                             ELSE j \in alone /\ y = m
    BY <1>7, <2>2
  <2>5. i # j BY <1>10, <2>3, <2>4
  <2> QED BY <1>8, <2>1, <2>2, <2>3, <2>4, <2>5
<1>11. LanesDisjoint'
  <2> SUFFICES ASSUME NEW l \in Lanes, NEW m \in Lanes, l # m
               PROVE  Reach(l)' \cap Reach(m)' = {}
    BY DEF LanesDisjoint
  <2> QED BY <1>10
<1> QED BY <1>5, <1>6, <1>11

\* LanesOK is inductive.
LEMMA LanesNext == LanesOK /\ [NextMt]_mtVars => LanesOK'
<1> SUFFICES ASSUME LanesOK, [NextMt]_mtVars PROVE LanesOK' OBVIOUS
<1>1. Ground /\ \A task \in running : task.node \in Ids
  BY DEF LanesOK, LanesTyped, Tasks
<1>2. Ground' BY <1>1, GroundNext
<1> DEFINE Kept == LanesTyped' /\ LanesInOrder' /\ LanesDisjoint'
<1>3. ASSUME UNCHANGED mtVars PROVE Kept BY <1>3, LanesSame DEF mtVars, vars
<1>4. ASSUME NEW ids \in Requests, CleanMt(ids) PROVE Kept BY <1>4, LanesCleanMt
<1>5. ASSUME NEW id \in Writable, WriteBetween(id) PROVE Kept
  BY <1>5, LanesSame DEF WriteBetween, MakeDirty
<1>6. ASSUME NEW l \in Lanes, BeginGraph(l) PROVE Kept BY <1>6, LanesBeginGraph
<1>7. ASSUME NEW l \in Lanes, WalkGraph(l) PROVE Kept BY <1>7, LanesWalkGraph
<1>8. ASSUME NEW task \in running, TaskSees(task) \/ TaskEnds(task) PROVE Kept
  BY <1>8, LanesTask
<1>9. Kept
  <2> HIDE DEF Kept
  <2> QED BY <1>3, <1>4, <1>5, <1>6, <1>7, <1>8 DEF NextMt, Work
<1> QED BY <1>2, <1>9 DEF LanesOK

\* LanesOK holds in every state of clean_mt.
LEMMA LanesAlways == SpecMt => []LanesOK
BY LanesInit, LanesNext, PTL DEF SpecMt

\* No two tasks of the lanes meet.
LEMMA LanesApart == LanesOK => NoConflict
<1> SUFFICES ASSUME LanesOK, NEW s \in running, NEW t \in running, s # t
             PROVE  s.node # t.node /\ s.node \notin ParentSet(t.node)
  BY DEF NoConflict
<1>1. /\ s.node \in Ids /\ t.node \in Ids /\ s.lane \in Lanes /\ t.lane \in Lanes
      /\ LanesInOrder /\ LanesDisjoint /\ Ground
  BY DEF LanesOK, LanesTyped, Tasks
<1>2. CASE s.lane = t.lane BY <1>1, <1>2 DEF LanesInOrder, Apart
<1>3. CASE s.lane # t.lane
  <2>1. Reach(s.lane) \cap Reach(t.lane) = {} BY <1>1, <1>3 DEF LanesDisjoint
  <2>2. Source(s.lane, s.node) /\ Source(t.lane, t.node) BY DEF Source
  <2>3. s.node \in Reach(s.lane)
    BY <1>1, <2>2, ReachIs, AncClosed, GroundFacts
  <2>4. ASSUME s.node = t.node \/ s.node \in ParentSet(t.node)
        PROVE  s.node \in Anc(ParentsOf, t.node)
    <3>1. ParentSet(t.node) = ParentsOf[t.node] /\ ParentsOf \in Graphs
      BY <1>1, GroundFacts
    <3> QED BY <1>1, <2>4, <3>1, AncClosed
  <2>5. s.node \in Anc(ParentsOf, t.node) => s.node \in Reach(t.lane)
    BY <2>2, ReachIs
  <2> QED BY <2>1, <2>3, <2>4, <2>5
<1> QED BY <1>2, <1>3

\* In any graph, for any call and however the lanes and the tasks interleave:
\* two tasks never run the same node, nor a node and its parent.
THEOREM NoConflictCorrect == SpecMt => []NoConflict
BY LanesApart, LanesAlways, PTL

-----------------------------------------------------------------------------
(* What cleaning comes to, whatever the order it is done in.               *)

\* The parents of x that have changed since x was last cleaned.
Stale(P, v, x) == {p \in P[x] : v.seenBy[p][x] # v.version[p]}

\* x is still to be made dirty: it or an ancestor has a parent that changed, or
\* has seen its parents (it is in C) but is not made dirty yet.
Due(P, v, C, x) == \E y \in Anc(P, x) : y \in C \/ Stale(P, v, y) # {}

\* e is what the versions v become once all that is due in R is recomputed:
\* each such node gets its next version, and each node in R has seen the last
\* version of its parents.
Outcome(P, v, C, R, e) ==
  /\ \A x \in Ids : e.version[x] =
       IF x \in R /\ Due(P, v, C, x) THEN NextVersion(v.version[x]) ELSE v.version[x]
  /\ \A p, c \in Ids : e.seenBy[p][c] =
       IF c \in R /\ p \in P[c] THEN e.version[p]
       ELSE IF p \in R /\ Due(P, v, C, p) /\ v.version[p] = MaxVersion
            THEN DirtySentinel
       ELSE v.seenBy[p][c]

\* In the graph, the parents that changed are the dirty ones.
LEMMA StaleIsDirty ==
  \A v, x : x \in Ids => Stale(ParentsOf, v, x) = DirtyParents(v, x)
BY DEF Stale, DirtyParents, ParentsOf

\* Whoever is above a node that is not due is not due.
LEMMA DueBelow ==
  ASSUME NEW P \in Graphs, NEW v, NEW C, NEW x \in Ids, NEW y \in Anc(P, x),
         Due(P, v, C, y)
  PROVE  Due(P, v, C, x)
BY AncTransitive DEF Due

\* A node is due for itself or for a parent.
LEMMA DueParents ==
  ASSUME NEW P \in Graphs, NEW v, NEW C, NEW x \in Ids
  PROVE  Due(P, v, C, x) <=> \/ x \in C
                             \/ Stale(P, v, x) # {}
                             \/ \E p \in P[x] : Due(P, v, C, p)
<1>1. P[x] \subseteq Ids /\ P[x] \subseteq Anc(P, x) /\ x \in Anc(P, x) BY AncClosed DEF Graphs
<1>2. ASSUME NEW y \in Anc(P, x), y # x PROVE \E p \in P[x] : y \in Anc(P, p)
  BY <1>2, AncOfParents
<1>3. ASSUME NEW p \in P[x], Due(P, v, C, p) PROVE Due(P, v, C, x)
  BY <1>1, <1>3, DueBelow
<1> QED BY <1>1, <1>2, <1>3 DEF Due

\* Nodes that are not due may be left out.
LEMMA OutcomeWithout ==
  ASSUME NEW P \in Graphs, NEW v, NEW C, NEW R, NEW e, Outcome(P, v, C, R, e),
         NEW T, T \subseteq R, \A x \in Ids : x \in R /\ x \notin T => ~Due(P, v, C, x)
  PROVE  Outcome(P, v, C, T, e)
<1>1. ASSUME NEW x \in Ids
      PROVE  e.version[x] = IF x \in T /\ Due(P, v, C, x) THEN NextVersion(v.version[x])
                            ELSE v.version[x]
  BY DEF Outcome
<1>2. ASSUME NEW p \in Ids, NEW c \in Ids
      PROVE  e.seenBy[p][c] =
               IF c \in T /\ p \in P[c] THEN e.version[p]
               ELSE IF p \in T /\ Due(P, v, C, p) /\ v.version[p] = MaxVersion
                    THEN DirtySentinel
               ELSE v.seenBy[p][c]
  <2>1. CASE c \in R /\ p \in P[c] /\ c \notin T
    <3>1. ~Due(P, v, C, c) BY <2>1
    <3>2. Stale(P, v, c) = {} /\ ~Due(P, v, C, p) BY <2>1, <3>1, DueParents
    <3>3. v.seenBy[p][c] = v.version[p] BY <2>1, <3>2 DEF Stale
    <3>4. e.version[p] = v.version[p] BY <3>2 DEF Outcome
    <3> QED BY <2>1, <3>2, <3>3, <3>4 DEF Outcome
  <2>2. CASE ~(c \in R /\ p \in P[c] /\ c \notin T) BY <2>2 DEF Outcome
  <2> QED BY <2>1, <2>2
<1> QED BY <1>1, <1>2 DEF Outcome

\* v and w differ in what x has seen: it is all of its parents' now.
Sees(P, v, x, w) ==
  /\ w.version = v.version
  /\ \A p, c \in Ids : c # x => w.seenBy[p][c] = v.seenBy[p][c]
  /\ \A p \in Ids : p \notin Stale(P, v, x) => w.seenBy[p][x] = v.seenBy[p][x]
  /\ \A p \in Ids : p \in Stale(P, v, x) => w.seenBy[p][x] = v.version[p]

\* What changes is what x itself is due for.
LEMMA SeesStale ==
  ASSUME NEW P \in Graphs, NEW v, NEW x \in Ids, NEW w, Sees(P, v, x, w), NEW y \in Ids
  PROVE  Stale(P, w, y) = IF y = x THEN {} ELSE Stale(P, v, y)
<1> P[y] \subseteq Ids BY DEF Graphs
<1> QED BY DEF Sees, Stale

\* x sees its parents: it was due and still is.
LEMMA OutcomeSees ==
  ASSUME NEW P \in Graphs, NEW v, NEW C, NEW R, NEW e, Outcome(P, v, C, R, e),
         NEW x \in Ids, x \in R, Stale(P, v, x) # {}, NEW w, Sees(P, v, x, w)
  PROVE  /\ Outcome(P, w, C \cup {x}, R, e)
         /\ \A y \in Ids : Due(P, w, C \cup {x}, y) <=> Due(P, v, C, y)
<1>1. ASSUME NEW y \in Ids PROVE Due(P, w, C \cup {x}, y) <=> Due(P, v, C, y)
  <2>1. Anc(P, y) \subseteq Ids BY AncClosed
  <2>2. \A z \in Anc(P, y) : (z \in C \cup {x} \/ Stale(P, w, z) # {})
                               <=> (z \in C \/ Stale(P, v, z) # {})
    BY <2>1, SeesStale
  <2> QED BY <2>2 DEF Due
<1>2. ASSUME NEW y \in Ids
      PROVE  e.version[y] = IF y \in R /\ Due(P, w, C \cup {x}, y)
                            THEN NextVersion(w.version[y]) ELSE w.version[y]
  BY <1>1 DEF Outcome, Sees
<1>3. ASSUME NEW p \in Ids, NEW c \in Ids
      PROVE  e.seenBy[p][c] =
               IF c \in R /\ p \in P[c] THEN e.version[p]
               ELSE IF p \in R /\ Due(P, w, C \cup {x}, p) /\ w.version[p] = MaxVersion
                    THEN DirtySentinel
               ELSE w.seenBy[p][c]
  <2>1. CASE c \in R /\ p \in P[c] BY <2>1 DEF Outcome
  <2>2. CASE ~(c \in R /\ p \in P[c])
    <3>1. w.seenBy[p][c] = v.seenBy[p][c] /\ w.version = v.version
      BY <2>2 DEF Sees, Stale
    <3> QED BY <1>1, <2>2, <3>1 DEF Outcome
  <2> QED BY <2>1, <2>2
<1> QED BY <1>1, <1>2, <1>3 DEF Outcome

\* w is v after x was made dirty.
Bumps(P, v, x, w) ==
  /\ \A y \in Ids : w.version[y] = IF y = x THEN NextVersion(v.version[y])
                                   ELSE v.version[y]
  /\ \A p, c \in Ids : w.seenBy[p][c] = IF p = x /\ v.version[p] = MaxVersion
                                        THEN DirtySentinel ELSE v.seenBy[p][c]
  /\ \A y \in Ids : Stale(P, w, y) = Stale(P, v, y) \cup (P[y] \cap {x})

\* x was due, is not any more, and nothing else is not due that was, or due
\* that was not.
LEMMA BumpsDue ==
  ASSUME NEW P \in Graphs, Acyclic(P), NEW v, NEW C, NEW x \in Ids, x \in C,
         Stale(P, v, x) = {}, \A p \in P[x] : ~Due(P, v, C, p),
         NEW w, Bumps(P, v, x, w), NEW y \in Ids
  PROVE  Due(P, w, C \ {x}, y) <=> Due(P, v, C, y) /\ y # x
<1>1. P[x] \subseteq Ids /\ x \in Anc(P, x) /\ Anc(P, y) \subseteq Ids /\ y \in Anc(P, y)
  BY AncClosed DEF Graphs
<1>2. \A z \in Ids : Stale(P, w, z) = Stale(P, v, z) \cup (P[z] \cap {x}) BY DEF Bumps
<1>3. \A z \in Ids : x \in P[z] => x # z
  BY AncClosed DEF Acyclic
<1>4. ~Due(P, w, C \ {x}, x)
  <2> SUFFICES ASSUME NEW z \in Anc(P, x), z \in C \ {x} \/ Stale(P, w, z) # {}
               PROVE  FALSE
    BY DEF Due
  <2>1. z \in Ids BY AncClosed
  <2>2. z \notin C \ {x} /\ Stale(P, v, z) = {}
    <3>1. CASE z = x BY <3>1
    <3>2. CASE z # x
      <4>1. PICK p \in P[x] : z \in Anc(P, p) BY <3>2, AncOfParents
      <4> QED BY <4>1 DEF Due
    <3> QED BY <3>1, <3>2
  <2>3. x \in P[z] BY <1>2, <2>1, <2>2
  <2>4. CASE z = x BY <1>3, <2>3, <2>4
  <2>5. CASE z # x
    <3>1. PICK p \in P[x] : z \in Anc(P, p) BY <2>5, AncOfParents
    <3>2. p \in Ids BY <1>1
    <3>3. x \in Anc(P, p) BY <2>3, <3>1, <3>2, AncClosed DEF ClosedIn
    <3> QED BY <3>3 DEF Acyclic
  <2> QED BY <2>4, <2>5
<1>5. ASSUME ~Due(P, v, C, y) PROVE ~Due(P, w, C \ {x}, y)
  <2>1. \A z \in Anc(P, y) : z \notin C /\ Stale(P, v, z) = {} BY <1>5 DEF Due
  <2>2. x \notin Anc(P, y) BY <2>1
  <2>3. \A z \in Anc(P, y) : x \notin P[z] BY <2>2, AncClosed DEF ClosedIn
  <2>4. \A z \in Anc(P, y) : Stale(P, w, z) = {} BY <1>1, <1>2, <2>1, <2>3
  <2> QED BY <2>1, <2>4 DEF Due
<1>6. ASSUME Due(P, v, C, y), y # x PROVE Due(P, w, C \ {x}, y)
  <2>1. PICK z \in Anc(P, y) : z \in C \/ Stale(P, v, z) # {} BY <1>6 DEF Due
  <2>2. CASE z # x
    <3>1. Stale(P, v, z) \subseteq Stale(P, w, z) BY <1>1, <1>2
    <3> QED BY <2>1, <2>2, <3>1 DEF Due
  <2>3. CASE z = x
    <3>1. PICK u \in Anc(P, y) : x \in P[u] BY <1>6, <2>3, NoAncestor
    <3>2. x \in Stale(P, w, u) BY <1>1, <1>2, <3>1
    <3> QED BY <3>2 DEF Due
  <2> QED BY <2>2, <2>3
<1> QED BY <1>4, <1>5, <1>6

\* x is made dirty, once it has seen its parents and they are not due.
LEMMA OutcomeBumps ==
  ASSUME NEW P \in Graphs, Acyclic(P), NEW v, NEW C, NEW x \in Ids, x \in C,
         Stale(P, v, x) = {}, \A p \in P[x] : ~Due(P, v, C, p),
         NEW w, Bumps(P, v, x, w),
         NEW R, x \in R, NEW e, Outcome(P, v, C, R, e)
  PROVE  Outcome(P, w, C \ {x}, R, e)
<1>0. \A y \in Ids : Due(P, w, C \ {x}, y) <=> Due(P, v, C, y) /\ y # x BY BumpsDue
<1>1. Due(P, v, C, x) BY AncClosed DEF Due
<1>2. ASSUME NEW y \in Ids
      PROVE  e.version[y] = IF y \in R /\ Due(P, w, C \ {x}, y)
                            THEN NextVersion(w.version[y]) ELSE w.version[y]
  BY <1>0, <1>1 DEF Outcome, Bumps
<1>3. ASSUME NEW p \in Ids, NEW c \in Ids
      PROVE  e.seenBy[p][c] =
               IF c \in R /\ p \in P[c] THEN e.version[p]
               ELSE IF p \in R /\ Due(P, w, C \ {x}, p) /\ w.version[p] = MaxVersion
                    THEN DirtySentinel
               ELSE w.seenBy[p][c]
  <2>1. CASE c \in R /\ p \in P[c] BY <2>1 DEF Outcome
  <2>2. CASE ~(c \in R /\ p \in P[c]) /\ p = x
    BY SMTT(30), <1>0, <1>1, <2>2 DEF Outcome, Bumps
  <2>3. CASE ~(c \in R /\ p \in P[c]) /\ p # x
    <3>1. w.version[p] = v.version[p] /\ w.seenBy[p][c] = v.seenBy[p][c]
      BY <2>3 DEF Bumps
    <3>2. Due(P, w, C \ {x}, p) <=> Due(P, v, C, p) BY <1>0, <2>3
    <3> QED BY <2>3, <3>1, <3>2 DEF Outcome
  <2> QED BY <2>1, <2>2, <2>3
<1> QED BY <1>2, <1>3 DEF Outcome

-----------------------------------------------------------------------------
(* Cleaning in turn comes to that.                                         *)

\* Versions of the graph as evaluate_dirty's loop has them.
InOrder(v) == v \in Running /\ Behind(v) /\ ~v.threw

\* clean's callback sees.
LEMMA SeenSees ==
  ASSUME TypeOK, NEW v \in Running, NEW x \in Ids
  PROVE  Sees(ParentsOf, v, x, Seen(v, x))
<1>1. Stale(ParentsOf, v, x) = DirtyParents(v, x) BY StaleIsDirty
<1> QED BY <1>1, SeenIs DEF Sees

\* make_dirty bumps.
LEMMA BumpedBumps ==
  ASSUME TypeOK, NEW v \in Running, Behind(v), NEW x \in Ids
  PROVE  Bumps(ParentsOf, v, x, Bumped(v, x))
<1> DEFINE w == Bumped(v, x)
<1>1. v.version \in [Ids -> VersionSpace] /\ v.seenBy \in SeenSpace BY DEF Running
<1>2. /\ w.version = [v.version EXCEPT ![x] = NextVersion(@)]
      /\ w.seenBy = IF v.version[x] = MaxVersion
                    THEN [v.seenBy EXCEPT ![x] = Forgotten] ELSE v.seenBy
  BY BumpedIs
<1>3. ASSUME NEW y \in Ids
      PROVE  Stale(ParentsOf, w, y) = Stale(ParentsOf, v, y) \cup (ParentsOf[y] \cap {x})
  <2>1. \A p : p \in DirtyParents(w, y) <=>
               p \in DirtyParents(v, y) \/ (p = x /\ x \in ParentSet(y))
    BY BumpedDirties
  <2>2. ParentsOf[y] = ParentSet(y) BY DEF ParentsOf
  <2> HIDE DEF w
  <2> QED BY <2>1, <2>2, StaleIsDirty
<1> HIDE DEF w
<1>4. \A y \in Ids : w.version[y] = IF y = x THEN NextVersion(v.version[y])
                                    ELSE v.version[y]
  BY <1>1, <1>2
<1>5. \A p, c \in Ids : w.seenBy[p][c] = IF p = x /\ v.version[p] = MaxVersion
                                         THEN DirtySentinel ELSE v.seenBy[p][c]
  BY <1>1, <1>2 DEF SeenSpace, Forgotten
<1>6. Bumps(ParentsOf, v, x, w) BY <1>3, <1>4, <1>5 DEF Bumps
<1> QED BY <1>6 DEF w

\* A turn of clean's loop at a node whose parents are not due.
LEMMA TurnOutcome ==
  ASSUME Ground, NEW v, InOrder(v), NEW R, NEW e, Outcome(ParentsOf, v, {}, R, e),
         NEW x \in Ids, x \in R, \A p \in ParentsOf[x] : ~Due(ParentsOf, v, {}, p)
  PROVE  /\ InOrder(Turn(v, x, TRUE))
         /\ Outcome(ParentsOf, Turn(v, x, TRUE), {}, R, e)
         /\ ~Due(ParentsOf, Turn(v, x, TRUE), {}, x)
         /\ \A y \in Ids : ~Due(ParentsOf, v, {}, y)
                             => ~Due(ParentsOf, Turn(v, x, TRUE), {}, y)
<1> DEFINE P == ParentsOf
           s == Seen(v, x)
           w == Bumped(s, x)
<1>1. TypeOK /\ P \in Graphs /\ Acyclic(P) /\ x \in nodes BY GroundFacts DEF Ground
<1>2. Stale(P, v, x) = DirtyParents(v, x) BY StaleIsDirty
<1>3. CASE DirtyParents(v, x) = {}
  <2>1. Turn(v, x, TRUE) = v BY <1>1, <1>3 DEF Turn
  <2>2. ~Due(P, v, {}, x)
    <3> HIDE DEF P
    <3> QED BY <1>1, <1>2, <1>3, DueParents DEF P
  <2> QED BY <2>1, <2>2
<1>4. CASE DirtyParents(v, x) # {}
  <2>1. Turn(v, x, TRUE) = w BY <1>1, <1>4 DEF Turn, InOrder
  <2>2. s \in Running /\ Behind(s) /\ ~s.threw /\ Sees(P, v, x, s)
    BY <1>1, SeenIs, SeenBehind, SeenSees DEF InOrder
  <2>3. w \in Running /\ Behind(w) /\ ~w.threw /\ Bumps(P, s, x, w)
    <3> HIDE DEF s
    <3>1. w \in Running /\ w.threw = s.threw BY <2>2, BumpedIs
    <3>2. Behind(w) BY <2>2, BumpedBehind
    <3>3. Bumps(P, s, x, w) BY <1>1, <2>2, BumpedBumps
    <3> QED BY <2>2, <3>1, <3>2, <3>3
  <2>4. \A p \in P[x] : p \in Ids /\ ~Due(P, v, {}, p) BY <1>1 DEF Graphs
  <2> HIDE DEF P, s, w
  <2> DEFINE C == {} \cup {x}
  <2>5. Outcome(P, s, C, R, e) /\ \A y \in Ids : Due(P, s, C, y) <=> Due(P, v, {}, y)
    BY <1>1, <1>2, <1>4, <2>2, OutcomeSees DEF P
  <2>6. Stale(P, s, x) = {} BY <1>1, <2>2, SeesStale
  <2>7. x \in C /\ C \ {x} = {} OBVIOUS
  <2>8. \A p \in P[x] : ~Due(P, s, C, p) BY <2>4, <2>5
  <2> HIDE DEF C
  <2>9. Outcome(P, w, C \ {x}, R, e)
    BY <1>1, <2>3, <2>5, <2>6, <2>7, <2>8, OutcomeBumps
  <2>10. \A y \in Ids : Due(P, w, C \ {x}, y) <=> Due(P, s, C, y) /\ y # x
    BY <1>1, <2>3, <2>6, <2>7, <2>8, BumpsDue
  <2> QED BY <2>1, <2>3, <2>5, <2>7, <2>9, <2>10 DEF P, InOrder
<1> QED BY <1>3, <1>4

\* w comes after v: nothing that was not due is due.
Onward(v, w, R, e) ==
  /\ InOrder(w)
  /\ Outcome(ParentsOf, w, {}, R, e)
  /\ \A y \in Ids : ~Due(ParentsOf, v, {}, y) => ~Due(ParentsOf, w, {}, y)

\* The whole loop over the evaluation graph of id.
LEMMA SweptOutcome ==
  ASSUME Ground, NEW v, InOrder(v), NEW R, NEW e, Outcome(ParentsOf, v, {}, R, e),
         NEW id \in Ids, Anc(ParentsOf, id) \subseteq R
  PROVE  /\ Onward(v, Swept(v, id, TRUE), R, e)
         /\ ~Due(ParentsOf, Swept(v, id, TRUE), {}, id)
<1> DEFINE P == ParentsOf
           graph == EvalGraphOf(id)
           n == Len(graph)
<1>1. /\ TypeOK /\ P \in Graphs /\ IsSound(graph, id)
      /\ \A x \in Ids : P[x] = ParentSet(x)
  BY GroundFacts
<1>2. /\ graph \in Seq(Ids) /\ DOMAIN graph = 1 .. n /\ n \in Nat
      /\ ToSet(graph) = Anc(P, id)
      /\ \A i \in 1 .. n : graph[i] \in Ids /\ graph[i] \in Anc(P, id)
  BY <1>1 DEF IsSound, ToSet
<1>3. PICK turn : IsTurns(turn, v, graph, TRUE) /\ Swept(v, id, TRUE) = turn[n]
  <2>1. v \in Running BY DEF InOrder
  <2> QED BY <1>1, <1>2, <2>1, SweptTurns
<1>4. /\ turn[0] = v
      /\ \A i \in 1 .. n : turn[i] = Turn(turn[i - 1], graph[i], TRUE)
  BY <1>3 DEF IsTurns
<1> DEFINE Fine(i) == /\ Onward(v, turn[i], R, e)
                      /\ \A k \in 1 .. i : ~Due(P, turn[i], {}, graph[k])
           T == {i \in 0 .. n : Fine(i)}
<1>5. 0 \in T BY <1>2, <1>4 DEF Onward
<1>6. ASSUME NEW i \in 1 .. n, i - 1 \in T PROVE i \in T
  <2> DEFINE x == graph[i]
  <2>1. /\ InOrder(turn[i - 1]) /\ Outcome(P, turn[i - 1], {}, R, e)
        /\ \A y \in Ids : ~Due(P, v, {}, y) => ~Due(P, turn[i - 1], {}, y)
        /\ \A k \in 1 .. (i - 1) : ~Due(P, turn[i - 1], {}, graph[k])
    BY <1>6 DEF Onward
  <2>2. x \in Ids /\ x \in R BY <1>2
  <2>3. ASSUME NEW p \in P[x] PROVE ~Due(P, turn[i - 1], {}, p)
    <3>1. p \in Anc(P, id)
      <4> x \in Anc(P, id) BY <1>2
      <4> QED BY <1>1, AncClosed DEF ClosedIn
    <3>2. PICK k \in 1 .. n : graph[k] = p BY <1>2, <3>1 DEF ToSet
    <3>3. p \in ParentSet(x) BY <1>1, <2>2
    <3>4. k < i BY <1>1, <1>2, <3>2, <3>3 DEF IsSound
    <3>5. k \in 1 .. (i - 1) BY <3>4
    <3> QED BY <2>1, <3>2, <3>5
  <2>4. turn[i] = Turn(turn[i - 1], x, TRUE) BY <1>4
  <2> HIDE DEF x, P
  <2>5. /\ InOrder(turn[i])
        /\ Outcome(P, turn[i], {}, R, e)
        /\ ~Due(P, turn[i], {}, x)
        /\ \A y \in Ids : ~Due(P, turn[i - 1], {}, y) => ~Due(P, turn[i], {}, y)
    BY <2>1, <2>2, <2>3, <2>4, TurnOutcome DEF P
  <2>6. ASSUME NEW k \in 1 .. i PROVE ~Due(P, turn[i], {}, graph[k])
    <3>1. CASE k = i BY <2>5, <3>1 DEF x
    <3>2. CASE k # i
      <4>1. k \in 1 .. (i - 1) /\ k \in 1 .. n BY <1>2, <3>2
      <4> QED BY <1>2, <2>1, <2>5, <4>1
    <3> QED BY <3>1, <3>2
  <2>7. Onward(v, turn[i], R, e) BY <2>1, <2>5 DEF Onward, P
  <2> HIDE DEF n
  <2> QED BY <1>2, <2>6, <2>7
<1>7. n \in T
  <2> HIDE DEF T, n
  <2> QED BY <1>2, <1>5, <1>6, BoundedInduction
<1>8. ~Due(P, turn[n], {}, id)
  <2>1. id \in ToSet(graph) BY <1>1, <1>2, AncClosed
  <2>2. PICK k \in 1 .. n : graph[k] = id BY <1>2, <2>1 DEF ToSet
  <2> QED BY <1>7, <2>2
<1> QED BY <1>3, <1>7, <1>8

\* The versions after each id of clean(ids).
IsPasses(pass, ids) ==
  /\ pass \in [0 .. Len(ids) -> Running]
  /\ pass[0] = Entered
  /\ \A i \in 1 .. Len(ids) : pass[i] = Swept(pass[i - 1], ids[i], TRUE)

\* clean(ids) is one id after the other.
LEMMA CleanedPasses ==
  ASSUME Ground, NEW ids \in Seq(Ids)
  PROVE  \E pass : IsPasses(pass, ids) /\ CleanedInTurn(ids) = pass[Len(ids)]
<1> DEFINE n == Len(ids)
           V == Running
           last == [t \in SUBSET (1 .. n) |-> Max(t)]
           step == [i \in 1 .. n |-> [v \in V |-> Swept(v, ids[i], TRUE)]]
           IsRun(g) ==
             g = [t \in SUBSET (1 .. n) |->
                    IF t = {} THEN Entered
                    ELSE Swept(g[t \ {Max(t)}], ids[Max(t)], TRUE)]
           c == CHOOSE g : IsRun(g)
<1>1. /\ n \in Nat /\ DOMAIN ids = 1 .. n
      /\ \A i \in 1 .. n : ids[i] \in Ids
  OBVIOUS
<1>0. Entered \in V
  <2> TypeOK BY GroundFacts
  <2> QED BY DEF TypeOK, Running, VersionSpace, SeenSpace, Entered
<1>2. ASSUME NEW v \in V, NEW x \in Ids PROVE Swept(v, x, TRUE) \in V
  <2>1. TypeOK /\ EvalGraphOf(x) \in Seq(Ids) BY GroundFacts DEF IsSound
  <2>2. PICK turn : /\ IsTurns(turn, v, EvalGraphOf(x), TRUE)
                    /\ Swept(v, x, TRUE) = turn[Len(EvalGraphOf(x))]
    BY <2>1, SweptTurns
  <2>3. Len(EvalGraphOf(x)) \in 0 .. Len(EvalGraphOf(x)) BY <2>1
  <2> QED BY <2>2, <2>3 DEF IsTurns
<1>9. CleanedInTurn(ids) = c[1 .. n]
  BY <1>1 DEF CleanedInTurn, FoldLeft, MapThenFoldSet
<1>3. step \in StepsOver(1 .. n, V)
  <2> HIDE DEF V, n
  <2> QED BY <1>1, <1>2 DEF StepsOver
<1>4. PICK g : IsFold(g, 1 .. n, V, Entered, step, last)
  <2> HIDE DEF step, V, n
  <2> QED BY <1>0, <1>1, <1>3, FoldLeftExists
<1>5. /\ g \in [SUBSET (1 .. n) -> V]
      /\ \A t \in SUBSET (1 .. n) :
            g[t] = IF t = {} THEN Entered ELSE step[Max(t)][g[t \ {Max(t)}]]
  BY <1>4 DEF IsFold
<1>6. ASSUME NEW t \in SUBSET (1 .. n), t # {}
      PROVE  g[t] = Swept(g[t \ {Max(t)}], ids[Max(t)], TRUE)
  <2>1. Max(t) \in 1 .. n BY <1>1, <1>6, LastMember
  <2>2. g[t \ {Max(t)}] \in V
    <3> HIDE DEF V, n
    <3> QED BY <1>5
  <2> HIDE DEF V, n
  <2> QED BY <1>5, <1>6, <2>1, <2>2
<1>7. IsRun(g)
  <2> HIDE DEF V, n
  <2> QED BY <1>5, <1>6
<1>8. IsRun(c)
  <2> HIDE DEF IsRun
  <2> QED BY <1>7
<1> HIDE DEF c
<1>10. /\ c[{}] = Entered
       /\ \A t \in SUBSET (1 .. n) : t # {} =>
             c[t] = Swept(c[t \ {Max(t)}], ids[Max(t)], TRUE)
  <2> HIDE DEF n
  <2> QED BY <1>8
<1> HIDE DEF IsRun
<1>11. ASSUME NEW i \in 1 .. n
       PROVE  c[1 .. i] = Swept(c[1 .. (i - 1)], ids[i], TRUE)
  <2>1. 1 .. i \in SUBSET (1 .. n) /\ 1 \in 1 .. i BY <1>1
  <2>2. Max(1 .. i) = i /\ (1 .. i) \ {i} = 1 .. (i - 1) BY <1>1, LastIndex
  <2> HIDE DEF n
  <2> QED BY <1>10, <2>1, <2>2
<1> DEFINE pass == [i \in 0 .. n |-> c[1 .. i]]
<1>12. pass \in [0 .. n -> V]
  <2>1. ASSUME NEW i \in 1 .. n, c[1 .. (i - 1)] \in V PROVE c[1 .. i] \in V
    <3> HIDE DEF V, n
    <3> QED BY <1>1, <1>2, <1>11, <2>1
  <2> HIDE DEF V, n
  <2>2. \A i \in 0 .. n : c[1 .. i] \in V BY <1>0, <1>1, <1>10, <2>1, FoldLeftTurns
  <2> QED BY <2>2
<1>13. pass[0] = Entered
  <2> 1 .. 0 = {} OBVIOUS
  <2> HIDE DEF n
  <2> QED BY <1>1, <1>10
<1>14. \A i \in 1 .. n : pass[i] = Swept(pass[i - 1], ids[i], TRUE)
  <2> \A i \in 1 .. n : i \in 0 .. n /\ i - 1 \in 0 .. n BY <1>1
  <2> HIDE DEF n
  <2> QED BY <1>11
<1>15. CleanedInTurn(ids) = pass[n]
  <2> n \in 0 .. n BY <1>1
  <2> HIDE DEF n
  <2> QED BY <1>9
<1> HIDE DEF pass
<1>16. IsPasses(pass, ids) BY <1>12, <1>13, <1>14 DEF IsPasses
<1> QED BY <1>15, <1>16

\* Versions that agree on the nodes are outcomes of the same.
LEMMA OutcomeEqual ==
  ASSUME NEW P \in Graphs, NEW v, NEW C, NEW R, NEW e, Outcome(P, v, C, R, e),
         NEW f, \A x \in Ids : f.version[x] = e.version[x],
         \A p, c \in Ids : f.seenBy[p][c] = e.seenBy[p][c]
  PROVE  Outcome(P, v, C, R, f)
BY DEF Outcome

\* Every state of the versions has an outcome.
LEMMA OutcomeExists ==
  ASSUME NEW P \in Graphs, NEW v, NEW C, NEW R
  PROVE  \E e : Outcome(P, v, C, R, e)
<1> DEFINE after == [x \in Ids |-> IF x \in R /\ Due(P, v, C, x)
                                   THEN NextVersion(v.version[x]) ELSE v.version[x]]
           sees == [p \in Ids |-> [c \in Ids |->
                      IF c \in R /\ p \in P[c] THEN after[p]
                      ELSE IF p \in R /\ Due(P, v, C, p) /\ v.version[p] = MaxVersion
                           THEN DirtySentinel
                      ELSE v.seenBy[p][c]]]
           e == [version |-> after, seenBy |-> sees]
<1>1. e.version = after /\ e.seenBy = sees OBVIOUS
<1>2. \A x \in Ids : after[x] = IF x \in R /\ Due(P, v, C, x)
                                THEN NextVersion(v.version[x]) ELSE v.version[x]
  OBVIOUS
<1>3. \A p, c \in Ids : sees[p][c] =
         IF c \in R /\ p \in P[c] THEN after[p]
         ELSE IF p \in R /\ Due(P, v, C, p) /\ v.version[p] = MaxVersion
              THEN DirtySentinel
         ELSE v.seenBy[p][c]
  OBVIOUS
<1> HIDE DEF after, sees, e
<1>4. Outcome(P, v, C, R, e) BY <1>1, <1>2, <1>3 DEF Outcome
<1> QED BY <1>4

\* All that the ids lead up to.
Above(P, ids) == UNION {Anc(P, ids[i]) : i \in DOMAIN ids}

\* clean(ids) makes dirty what is due above the ids, each once.
LEMMA CleanedOutcome ==
  ASSUME Ground, NEW ids \in Seq(Ids)
  PROVE  Outcome(ParentsOf, Entered, {}, Above(ParentsOf, ids), CleanedInTurn(ids))
<1> DEFINE P == ParentsOf
           R == Above(P, ids)
           n == Len(ids)
<1>1. /\ TypeOK /\ P \in Graphs
      /\ n \in Nat /\ DOMAIN ids = 1 .. n /\ \A i \in 1 .. n : ids[i] \in Ids
  BY GroundFacts
<1>2. PICK e : Outcome(P, Entered, {}, R, e)
  <2> HIDE DEF P, R
  <2> QED BY <1>1, OutcomeExists
<1>3. PICK pass : IsPasses(pass, ids) /\ CleanedInTurn(ids) = pass[n]
  BY CleanedPasses
<1> DEFINE Fine(i) == /\ Onward(Entered, pass[i], R, e)
                      /\ \A k \in 1 .. i : ~Due(P, pass[i], {}, ids[k])
           T == {i \in 0 .. n : Fine(i)}
<1>4. pass[0] = Entered /\ \A i \in 1 .. n : pass[i] = Swept(pass[i - 1], ids[i], TRUE)
  BY <1>3 DEF IsPasses
<1>5. InOrder(Entered)
  <2> \A p, c \in Ids : seenBy[p][c] <= version[p] BY DEF Ground, AllBehind
  <2> QED BY <1>1 DEF TypeOK, Running, VersionSpace, SeenSpace, Entered, InOrder, Behind
<1>6. 0 \in T
  <2>1. Onward(Entered, Entered, R, e) BY <1>2, <1>5 DEF Onward
  <2> QED BY <1>1, <1>4, <2>1
<1>7. ASSUME NEW i \in 1 .. n, i - 1 \in T PROVE i \in T
  <2>1. /\ InOrder(pass[i - 1]) /\ Outcome(P, pass[i - 1], {}, R, e)
        /\ \A y \in Ids : ~Due(P, Entered, {}, y) => ~Due(P, pass[i - 1], {}, y)
        /\ \A k \in 1 .. (i - 1) : ~Due(P, pass[i - 1], {}, ids[k])
    BY <1>7 DEF Onward
  <2>2. ids[i] \in Ids /\ Anc(P, ids[i]) \subseteq R BY <1>1 DEF Above
  <2>3. pass[i] = Swept(pass[i - 1], ids[i], TRUE) BY <1>4
  <2> HIDE DEF P, R
  <2>4. Onward(pass[i - 1], pass[i], R, e) /\ ~Due(P, pass[i], {}, ids[i])
    BY <2>1, <2>2, <2>3, SweptOutcome DEF P
  <2>5. ASSUME NEW k \in 1 .. i PROVE ~Due(P, pass[i], {}, ids[k])
    <3>1. CASE k = i BY <2>4, <3>1
    <3>2. CASE k # i
      <4>1. k \in 1 .. (i - 1) /\ k \in 1 .. n BY <1>1, <3>2
      <4> QED BY <1>1, <2>1, <2>4, <4>1 DEF Onward, P
    <3> QED BY <3>1, <3>2
  <2>6. Onward(Entered, pass[i], R, e) BY <2>1, <2>4 DEF Onward, P
  <2> HIDE DEF n
  <2> QED BY <1>1, <2>5, <2>6
<1>8. n \in T
  <2> HIDE DEF T, n
  <2> QED BY <1>1, <1>6, <1>7, BoundedInduction
<1>9. Outcome(P, pass[n], {}, R, e) BY <1>8 DEF Onward
<1>10. ASSUME NEW x \in Ids, x \in R PROVE ~Due(P, pass[n], {}, x)
  <2>1. PICK i \in 1 .. n : x \in Anc(P, ids[i]) BY <1>1, <1>10 DEF Above
  <2>2. ~Due(P, pass[n], {}, ids[i]) /\ ids[i] \in Ids BY <1>1, <1>8
  <2> HIDE DEF P
  <2> QED BY <1>1, <2>1, <2>2, DueBelow
<1> HIDE DEF P, R, T, n
<1>11. Outcome(P, pass[n], {}, {}, e) BY <1>1, <1>9, <1>10, OutcomeWithout
<1>12. /\ \A x \in Ids : pass[n].version[x] = e.version[x]
       /\ \A p, c \in Ids : pass[n].seenBy[p][c] = e.seenBy[p][c]
  BY <1>11 DEF Outcome
<1>13. Outcome(P, Entered, {}, R, pass[n]) BY <1>1, <1>2, <1>12, OutcomeEqual
<1> QED BY <1>3, <1>13 DEF P, R

-----------------------------------------------------------------------------
(* And so does cleaning on lanes.                                          *)

\* The nodes whose task has seen the parents and has still to make it dirty.
Seeing == {t.node : t \in {u \in running : u.seen}}

\* All that the lanes may still look at.
Reached == UNION {Reach(l) : l \in Lanes}

DueNow(x) == Due(ParentsOf, Entered, Seeing, x)

\* What is left to do brings the versions to what was expected of the call.
Promised == Outcome(ParentsOf, Entered, Seeing, Reached, expected)

\* A task knows its dirty parents until it has seen them, and runs when they
\* are up to date.
TasksReady ==
  \A t \in running :
    /\ t.seen => Stale(ParentsOf, Entered, t.node) = {}
    /\ ~t.seen => t.dirty = Stale(ParentsOf, Entered, t.node) /\ t.dirty # {}
    /\ \A p \in ParentsOf[t.node] : ~DueNow(p)

\* A parent of a node to come is to come too, up to date, or in a task.
OrderReady ==
  \A l \in Lanes : \A x \in ToSet(order[l]) : \A p \in ParentsOf[x] :
    \/ p \in ToSet(order[l])
    \/ ~DueNow(p)
    \/ \E t \in running : t.lane = l /\ t.node = p

ExpectedTyped == expected \in [version : [Ids -> VersionSpace], seenBy : SeenSpace]

\* The inductive invariant of what clean_mt comes to.
Kept == Promised /\ TasksReady /\ OrderReady /\ ExpectedTyped
TurnsOK == LanesOK /\ Kept

\* The lanes reach what is above where they start.
LEMMA ReachedIs ==
  \A z : z \in Reached <=> \E l \in Lanes : \E x : Source(l, x) /\ z \in Anc(ParentsOf, x)
BY ReachIs DEF Reached

\* The same after a step.
LEMMA ReachedThen ==
  ASSUME UNCHANGED parents
  PROVE  \A z : z \in Reached' <=>
           \E l \in Lanes : \E x : Source(l, x)' /\ z \in Anc(ParentsOf, x)
<1>1. \A x : Anc(ParentsOf, x)' = Anc(ParentsOf, x) BY SameParents
<1>2. \A l, z : z \in Reach(l)' <=> \E x : Source(l, x)' /\ z \in Anc(ParentsOf, x)
  BY <1>1, ReachThen
<1>3. Reached' = UNION {Reach(l)' : l \in Lanes} BY DEF Reached
<1> QED BY <1>2, <1>3

\* A step leaves out of reach only what is above a node that is not due.
LEMMA ReachedShrinks ==
  ASSUME LanesOK, UNCHANGED parents, NEW v, NEW C,
         \A l \in Lanes : \A x : Source(l, x)' =>
            \E y : Source(l, y) /\ x \in Anc(ParentsOf, y),
         \A l \in Lanes : \A x : Source(l, x) => x \in Reached' \/ ~Due(ParentsOf, v, C, x)
  PROVE  /\ Reached' \subseteq Reached
         /\ \A x \in Ids : x \in Reached /\ x \notin Reached' => ~Due(ParentsOf, v, C, x)
<1>1. ParentsOf \in Graphs /\ LanesTyped BY GroundFacts DEF LanesOK
<1>2. \A l \in Lanes : \A x : Source(l, x) => x \in Ids BY <1>1, SourceTyped
<1>3. ASSUME NEW z \in Reached' PROVE z \in Reached
  <2>1. PICK l \in Lanes : \E x : Source(l, x)' /\ z \in Anc(ParentsOf, x)
    BY <1>3, ReachedThen
  <2>2. PICK x : Source(l, x)' /\ z \in Anc(ParentsOf, x) BY <2>1
  <2>3. PICK y : Source(l, y) /\ x \in Anc(ParentsOf, y) BY <2>2
  <2>4. z \in Anc(ParentsOf, y) BY <1>1, <1>2, <2>2, <2>3, AncTransitive
  <2> QED BY <2>3, <2>4, ReachedIs
<1>4. ASSUME NEW z \in Ids, z \in Reached, z \notin Reached' PROVE ~Due(ParentsOf, v, C, z)
  <2>1. PICK l \in Lanes : \E x : Source(l, x) /\ z \in Anc(ParentsOf, x)
    BY <1>4, ReachedIs
  <2>2. PICK x : Source(l, x) /\ z \in Anc(ParentsOf, x) BY <2>1
  <2>3. x \in Ids BY <1>2, <2>2
  <2>4. ASSUME x \in Reached' PROVE FALSE
    <3>1. PICK m \in Lanes : \E y : Source(m, y)' /\ x \in Anc(ParentsOf, y)
      BY <2>4, ReachedThen
    <3>2. PICK y : Source(m, y)' /\ x \in Anc(ParentsOf, y) BY <3>1
    <3>3. PICK w : Source(m, w) /\ y \in Anc(ParentsOf, w) BY <3>2
    <3>4. y \in Ids BY <1>1, <1>2, <3>3, AncClosed
    <3>5. z \in Anc(ParentsOf, y) BY <1>1, <2>2, <3>2, <3>4, AncTransitive
    <3> QED BY <1>4, <3>2, <3>5, ReachedThen
  <2>5. ~Due(ParentsOf, v, C, x) BY <2>2, <2>4
  <2> QED BY <1>1, <2>2, <2>3, <2>5, DueBelow
<1> QED BY <1>3, <1>4

\* What is in a task is in no other, nor to come on a lane.
LEMMA TasksApart ==
  ASSUME LanesOK, NEW t \in running
  PROVE  /\ t.node \in Ids /\ t.lane \in Lanes /\ t.node \in Reached
         /\ \A l \in Lanes : t.node \notin ToSet(order[l])
         /\ \A u \in running : u # t => u.node # t.node /\ t.node \notin ParentSet(u.node)
<1>1. /\ LanesTyped /\ LanesInOrder /\ LanesDisjoint /\ ParentsOf \in Graphs
      /\ t.node \in Ids /\ t.lane \in Lanes
  BY GroundFacts DEF LanesOK, LanesTyped, Tasks
<1>2. Source(t.lane, t.node) /\ t.node \in Anc(ParentsOf, t.node)
  BY <1>1, AncClosed DEF Source
<1>3. t.node \in Reached BY <1>1, <1>2, ReachedIs
<1>4. ASSUME NEW l \in Lanes, t.node \in ToSet(order[l]) PROVE FALSE
  <2>1. CASE l = t.lane
    <3>1. t.node \in evaluating[l] BY <1>1, <2>1 DEF LanesInOrder
    <3> QED BY <1>1, <1>4, <3>1 DEF LanesInOrder
  <2>2. CASE l # t.lane
    <3>1. Source(l, t.node) BY <1>4 DEF Source
    <3>2. t.node \in Reach(l) /\ t.node \in Reach(t.lane) BY <1>2, <3>1, ReachIs
    <3> QED BY <1>1, <2>2, <3>2 DEF LanesDisjoint
  <2> QED BY <2>1, <2>2
<1>5. NoConflict BY LanesApart
<1> QED BY <1>1, <1>3, <1>4, <1>5 DEF NoConflict

\* MatchesInTurn is what is left of the promise when nothing is left to do.
LEMMA KeptMatches == TurnsOK => MatchesInTurn
<1> SUFFICES ASSUME TurnsOK, Idle PROVE Current = expected BY DEF MatchesInTurn
<1>1. running = {} /\ \A l \in Lanes : todo[l] = <<>> /\ order[l] = <<>> BY DEF Idle
<1>2. \A l \in Lanes : \A x : ~Source(l, x)
  <2> ToSet(<<>>) = {} BY DEF ToSet
  <2> QED BY <1>1 DEF Source
<1>3. Reached = {} BY <1>2, ReachedIs
<1>4. Outcome(ParentsOf, Entered, Seeing, {}, expected) BY <1>3 DEF TurnsOK, Kept, Promised
<1>5. /\ \A x \in Ids : expected.version[x] = version[x]
      /\ \A p, c \in Ids : expected.seenBy[p][c] = seenBy[p][c]
  BY <1>4 DEF Outcome, Entered
<1>6. /\ version \in [Ids -> VersionSpace] /\ seenBy \in SeenSpace
  BY GroundFacts DEF TurnsOK, LanesOK, TypeOK, VersionSpace, SeenSpace
<1>7. /\ expected.version \in [Ids -> VersionSpace] /\ expected.seenBy \in SeenSpace
      /\ expected = [version |-> expected.version, seenBy |-> expected.seenBy]
  BY DEF TurnsOK, Kept, ExpectedTyped
<1>8. expected.version = version BY <1>5, <1>6, <1>7
<1>9. expected.seenBy = seenBy
  <2>1. \A p \in Ids : expected.seenBy[p] = seenBy[p] BY <1>5, <1>6, <1>7 DEF SeenSpace
  <2> QED BY <1>6, <1>7, <2>1 DEF SeenSpace
<1> QED BY <1>7, <1>8, <1>9 DEF Current

\* The versions, as the loop has them, are those of the graph.
LEMMA EnteredInOrder ==
  ASSUME Ground
  PROVE  InOrder(Entered) /\ Entered.version = version /\ Entered.seenBy = seenBy
<1>1. TypeOK /\ \A p, c \in Ids : seenBy[p][c] <= version[p]
  BY GroundFacts DEF Ground, AllBehind
<1> QED BY <1>1 DEF TypeOK, Running, VersionSpace, SeenSpace, Entered, InOrder, Behind

\* When nobody touches the versions, and the same tasks have seen, only what
\* lanes and tasks start from matters.
LEMMA KeptStill ==
  ASSUME TurnsOK, UNCHANGED <<parents, versions, expected>>, Seeing' = Seeing,
         \A l \in Lanes : \A x : Source(l, x)' =>
            \E y : Source(l, y) /\ x \in Anc(ParentsOf, y),
         \A l \in Lanes : \A x : Source(l, x) => x \in Reached' \/ ~DueNow(x)
  PROVE  Promised' /\ ExpectedTyped' /\ \A x : DueNow(x)' <=> DueNow(x)
<1>1. ParentsOf \in Graphs /\ ParentsOf' = ParentsOf
  BY SameParents, GroundFacts DEF TurnsOK, LanesOK
<1>2. Entered' = Entered BY DEF Entered, versions
<1>3. /\ Reached' \subseteq Reached
      /\ \A x \in Ids : x \in Reached /\ x \notin Reached'
                          => ~Due(ParentsOf, Entered, Seeing, x)
  BY ReachedShrinks DEF TurnsOK, DueNow
<1>4. Outcome(ParentsOf, Entered, Seeing, Reached, expected)
  BY DEF TurnsOK, Kept, Promised
<1>5. Outcome(ParentsOf, Entered, Seeing, Reached', expected)
  BY <1>1, <1>3, <1>4, OutcomeWithout
<1>6. Promised' BY <1>1, <1>2, <1>5 DEF Promised
<1>7. \A x : DueNow(x)' <=> DueNow(x) BY <1>1, <1>2 DEF DueNow
<1> QED BY <1>6, <1>7 DEF TurnsOK, Kept, ExpectedTyped

\* Nothing happens.
LEMMA KeptSame ==
  ASSUME TurnsOK, UNCHANGED <<parents, versions, expected, todo, order, running>>
  PROVE  Kept'
<1>1. Seeing' = Seeing BY DEF Seeing
<1>2. \A l, x : Source(l, x)' <=> Source(l, x) BY DEF Source
<1>3. LanesTyped /\ ParentsOf \in Graphs BY GroundFacts DEF TurnsOK, LanesOK
<1>4. \A l \in Lanes : \A x : Source(l, x) => x \in Ids /\ x \in Anc(ParentsOf, x)
  BY <1>3, SourceTyped, AncClosed
<1>5. \A l \in Lanes : \A x : Source(l, x) => x \in Reached'
  BY <1>2, <1>4, ReachedThen
<1>6. Promised' /\ ExpectedTyped' /\ \A x : DueNow(x)' <=> DueNow(x)
  BY <1>1, <1>2, <1>4, <1>5, KeptStill
<1>7. ParentsOf' = ParentsOf /\ Entered' = Entered BY SameParents DEF Entered, versions
<1>8. TasksReady' BY <1>6, <1>7 DEF TurnsOK, Kept, TasksReady
<1>9. OrderReady' BY <1>6, <1>7 DEF TurnsOK, Kept, OrderReady
<1> QED BY <1>6, <1>8, <1>9 DEF Kept

\* A lane takes its next id: what is not due stays, what is new is in order.
LEMMA KeptBeginGraph ==
  ASSUME TurnsOK, NEW l \in Lanes, BeginGraph(l)
  PROVE  Kept'
<1> DEFINE id == Head(todo[l])
           graph == IF parents[id] = <<>> THEN <<>> ELSE EvalGraphOf(id)
           P == ParentsOf
<1>1. /\ LanesOK /\ LanesTyped /\ LanesDisjoint /\ TypeOK
      /\ P \in Graphs /\ \A x \in Ids : P[x] = ParentSet(x)
      /\ order[l] = <<>> /\ todo[l] # <<>> /\ todo[l] \in Seq(Ids)
  BY GroundFacts DEF TurnsOK, LanesOK, LanesTyped, BeginGraph
<1>2. /\ id \in Ids /\ id \in ToSet(todo[l])
      /\ ToSet(todo[l]) = {id} \cup ToSet(Tail(todo[l]))
  <2>1. /\ Tail(todo[l]) \in Seq(Ids) /\ id \in Ids /\ id = todo[l][1]
        /\ 1 \in DOMAIN todo[l] /\ id \in ToSet(todo[l])
        /\ \A i \in DOMAIN Tail(todo[l]) : i + 1 \in DOMAIN todo[l]
                                         /\ Tail(todo[l])[i] = todo[l][i + 1]
        /\ \A i \in DOMAIN todo[l] : i # 1 => /\ i - 1 \in DOMAIN Tail(todo[l])
                                            /\ Tail(todo[l])[i - 1] = todo[l][i]
    BY <1>1, TailFacts
  <2>2. ASSUME NEW x \in ToSet(todo[l]) PROVE x = id \/ x \in ToSet(Tail(todo[l]))
    <3>1. PICK i \in DOMAIN todo[l] : x = todo[l][i] BY <2>2 DEF ToSet
    <3> HIDE DEF id
    <3> QED BY <2>1, <3>1 DEF ToSet
  <2>3. ASSUME NEW x \in ToSet(Tail(todo[l])) PROVE x \in ToSet(todo[l])
    <3> HIDE DEF id
    <3> QED BY <2>1, <2>3 DEF ToSet
  <2> QED BY <2>1, <2>2, <2>3
<1>3. /\ todo' = [todo EXCEPT ![l] = Tail(@)]
      /\ order' = [order EXCEPT ![l] = graph]
      /\ UNCHANGED <<parents, versions, expected, running>>
      /\ \A t \in running : t.lane # l
  BY DEF BeginGraph, vars, versions, TasksOf
<1>4. IsSound(EvalGraphOf(id), id) /\ IF parents[id] = <<>> THEN P[id] = {} ELSE graph = EvalGraphOf(id)
  <2>1. IsSound(EvalGraphOf(id), id) BY <1>1, <1>2, GroundFacts DEF LanesOK
  <2>2. parents[id] = <<>> => ParentSet(id) = {} BY DEF ParentSet, ToSet
  <2> QED BY <1>1, <1>2, <2>1, <2>2
<1>5. ToSet(graph) = IF parents[id] = <<>> THEN {} ELSE Anc(P, id)
  <2> ToSet(<<>>) = {} BY DEF ToSet
  <2> QED BY <1>4 DEF IsSound
<1> HIDE DEF id, graph, P
<1>6. \A m \in Lanes : /\ order'[m] = IF m = l THEN graph ELSE order[m]
                       /\ todo'[m] = IF m = l THEN Tail(todo[l]) ELSE todo[m]
  BY <1>1, <1>3 DEF LanesTyped
<1>7. \A m \in Lanes : \A x : Source(m, x)' <=>
         IF m = l THEN x \in ToSet(Tail(todo[l])) \/ x \in ToSet(graph) ELSE Source(m, x)
  BY <1>3, <1>6 DEF Source
<1>8. \A m \in Lanes : \A x : Source(m, x) => x \in Ids /\ x \in Anc(P, x)
  BY <1>1, SourceTyped, AncClosed
<1>9. Source(l, id) BY <1>2 DEF Source
<1>10. \A x : Source(l, x) => x = id \/ x \in ToSet(Tail(todo[l]))
  <2> ToSet(<<>>) = {} BY DEF ToSet
  <2> QED BY <1>1, <1>2, <1>3 DEF Source
<1>11. ASSUME NEW m \in Lanes, NEW x, Source(m, x)'
       PROVE  \E y : Source(m, y) /\ x \in Anc(P, y)
  <2>1. CASE m = l /\ x \in ToSet(graph) BY <1>5, <1>9, <2>1
  <2>2. CASE m = l /\ x \in ToSet(Tail(todo[l]))
    <3>1. Source(m, x) BY <1>2, <2>2 DEF Source
    <3> QED BY <1>8, <3>1
  <2>3. CASE m # l BY <1>7, <1>8, <1>11, <2>3
  <2> QED BY <1>7, <1>11, <2>1, <2>2, <2>3
<1>12. id \notin Seeing
  <2> SUFFICES ASSUME NEW t \in running, t.node = id PROVE FALSE BY DEF Seeing
  <2>1. t.lane \in Lanes /\ t.lane # l BY <1>1, <1>3, TasksApart
  <2>2. Source(t.lane, id) BY DEF Source
  <2>3. id \in Anc(ParentsOf, id) BY <1>8, <1>9 DEF P
  <2>4. id \in Reach(t.lane) /\ id \in Reach(l) BY <1>9, <2>2, <2>3, ReachIs
  <2> QED BY <1>1, <2>1, <2>4 DEF LanesDisjoint
<1>13. ASSUME NEW m \in Lanes, NEW x, Source(m, x) PROVE x \in Reached' \/ ~DueNow(x)
  <2>1. CASE Source(m, x)' BY <1>3, <1>8, <1>13, <2>1, ReachedThen DEF P
  <2>2. CASE ~Source(m, x)'
    <3>1. m = l /\ x = id BY <1>7, <1>10, <1>13, <2>2
    <3>2. CASE parents[id] # <<>>
      <4>1. id \in ToSet(graph) BY <1>5, <1>8, <1>9, <3>2
      <4> QED BY <1>7, <2>2, <3>1, <4>1
    <3>3. CASE parents[id] = <<>>
      <4>1. P[id] = {} BY <1>4, <3>3
      <4>2. Stale(P, Entered, id) = {} BY <4>1 DEF Stale
      <4> QED BY <1>1, <1>2, <1>12, <3>1, <4>1, <4>2, DueParents DEF DueNow, P
    <3> QED BY <3>2, <3>3
  <2> QED BY <2>1, <2>2
<1>14. Seeing' = Seeing BY <1>3 DEF Seeing
<1>15. Promised' /\ ExpectedTyped' /\ \A x : DueNow(x)' <=> DueNow(x)
  BY <1>3, <1>11, <1>13, <1>14, KeptStill DEF P
<1>16. ParentsOf' = ParentsOf /\ Entered' = Entered
  BY <1>3, SameParents DEF Entered, versions
<1>17. TasksReady' BY <1>3, <1>15, <1>16 DEF TurnsOK, Kept, TasksReady
<1>18. OrderReady'
  <2>1. ASSUME NEW m \in Lanes, NEW x \in ToSet(order'[m]), NEW p \in P[x]
        PROVE  \/ p \in ToSet(order'[m])
               \/ ~DueNow(p)
               \/ \E t \in running : t.lane = m /\ t.node = p
    <3>1. CASE m # l
      <4>1. order'[m] = order[m] BY <1>6, <3>1
      <4> QED BY <2>1, <4>1 DEF TurnsOK, Kept, OrderReady, P
    <3>2. CASE m = l
      <4>1. order'[m] = graph BY <1>6, <3>2
      <4>2. x \in Anc(P, id) /\ ToSet(graph) = Anc(P, id) BY <1>5, <2>1, <4>1
      <4>3. p \in Anc(P, id) BY <1>1, <1>2, <2>1, <4>2, AncClosed DEF ClosedIn
      <4> QED BY <4>1, <4>2, <4>3
    <3> QED BY <3>1, <3>2
  <2> QED BY <1>3, <1>15, <1>16, <2>1 DEF OrderReady, P
<1> QED BY <1>15, <1>17, <1>18 DEF Kept

\* When a lane has come to a node, and has waited if it must, the parents of
\* the node are up to date and it is in no task.
LEMMA ParentsDone ==
  ASSUME TurnsOK, NEW l \in Lanes, WalkGraph(l)
  PROVE  /\ Head(order[l]) \in Ids /\ Head(order[l]) \in ToSet(order[l])
         /\ \A p \in ParentsOf[Head(order[l])] : ~DueNow(p)
         /\ \A t \in running : t.node # Head(order[l])
<1> DEFINE x == Head(order[l])
<1>1. /\ LanesOK /\ LanesTyped /\ LanesInOrder
      /\ order[l] \in Seq(Ids) /\ order[l] # <<>> /\ Ordered(order[l])
      /\ \A y \in Ids : ParentsOf[y] = ParentSet(y)
  BY GroundFacts DEF TurnsOK, LanesOK, LanesTyped, LanesInOrder, WalkGraph
<1>2. /\ x \in Ids /\ x \in ToSet(order[l]) /\ x = order[l][1] /\ 1 \in DOMAIN order[l]
  BY <1>1, TailFacts
<1>3. MustWait(l, x) => \A t \in running : t.lane # l BY DEF WalkGraph, TasksOf
<1> HIDE DEF x
<1>4. \A t \in running : t.node # x BY <1>1, <1>2, TasksApart
<1>5. ASSUME NEW p \in ParentsOf[x], DueNow(p) PROVE FALSE
  <2>1. p \in ParentSet(x) BY <1>1, <1>2, <1>5
  <2>2. CASE p \in ToSet(order[l])
    <3>1. PICK i \in DOMAIN order[l] : order[l][i] = p BY <2>2 DEF ToSet
    <3>2. i < 1 BY <1>1, <1>2, <2>1, <3>1 DEF Ordered
    <3> QED BY <1>1, <3>1, <3>2
  <2>3. CASE \E t \in running : t.lane = l /\ t.node = p
    <3>1. PICK t \in running : t.lane = l /\ t.node = p BY <2>3
    <3>2. p \in evaluating[l] BY <1>1, <3>1 DEF LanesInOrder
    <3>3. MustWait(l, x) BY <2>1, <3>2 DEF MustWait
    <3> QED BY <1>3, <3>1, <3>3
  <2> QED BY <1>2, <1>5, <2>2, <2>3 DEF TurnsOK, Kept, OrderReady
<1> QED BY <1>2, <1>4, <1>5 DEF x

\* A lane passes over a node that is not due, or gives one that is to a task.
LEMMA KeptWalkGraph ==
  ASSUME TurnsOK, NEW l \in Lanes, WalkGraph(l)
  PROVE  Kept'
<1> DEFINE x == Head(order[l])
           rest == Tail(order[l])
           dirty == DirtyParents(Current, x)
           task == [node |-> x, lane |-> l, dirty |-> dirty, seen |-> FALSE]
           P == ParentsOf
<1>1. /\ LanesOK /\ LanesTyped
      /\ P \in Graphs /\ \A y \in Ids : P[y] = ParentSet(y)
      /\ order[l] \in Seq(Ids) /\ order[l] # <<>> /\ Ordered(order[l])
  BY GroundFacts DEF TurnsOK, LanesOK, LanesTyped, LanesInOrder, WalkGraph
<1>2. /\ x \in Ids /\ x \in ToSet(order[l])
      /\ \A p \in P[x] : ~DueNow(p)
      /\ \A t \in running : t.node # x
  BY ParentsDone
<1>3. ToSet(order[l]) = {x} \cup ToSet(rest) BY <1>1, TailOrdered
<1>4. /\ order' = [order EXCEPT ![l] = rest]
      /\ UNCHANGED <<parents, versions, expected, todo>>
      /\ running' = IF dirty = {} THEN running ELSE running \cup {task}
  BY DEF WalkGraph, vars, versions
<1>5. dirty = Stale(P, Entered, x)
  <2>1. DirtyParents(Current, x) = DirtyParents(Entered, x)
    BY DEF DirtyParents, Current, Entered
  <2> QED BY <1>2, <2>1, StaleIsDirty
<1>6. task.node = x /\ task.lane = l /\ task.dirty = dirty /\ ~task.seen OBVIOUS
<1> HIDE DEF x, rest, dirty, task, P
<1>7. \A m \in Lanes : order'[m] = IF m = l THEN rest ELSE order[m]
  BY <1>1, <1>4 DEF LanesTyped
<1>8. Seeing' = Seeing BY <1>4, <1>6 DEF Seeing
<1>9. \A m \in Lanes : \A y : Source(m, y) => y \in Ids /\ y \in Anc(P, y)
  BY <1>1, SourceTyped, AncClosed
<1>10. ASSUME NEW m \in Lanes, NEW y, Source(m, y)' PROVE Source(m, y)
  BY <1>2, <1>3, <1>4, <1>6, <1>7, <1>10 DEF Source
<1>11. ASSUME NEW m \in Lanes, NEW y, Source(m, y) PROVE y \in Reached' \/ ~DueNow(y)
  <2>1. CASE Source(m, y)' BY <1>4, <1>9, <1>11, <2>1, ReachedThen DEF P
  <2>2. CASE ~Source(m, y)'
    <3>1. m = l /\ y = x BY <1>3, <1>4, <1>7, <1>11, <2>2 DEF Source
    <3>2. dirty = {}
      <4> SUFFICES ASSUME dirty # {} PROVE FALSE OBVIOUS
      <4>1. task \in running' BY <1>4
      <4> QED BY <1>6, <2>2, <3>1, <4>1 DEF Source
    <3>3. x \notin Seeing BY <1>2 DEF Seeing
    <3> QED BY <1>1, <1>2, <1>5, <3>1, <3>2, <3>3, DueParents DEF DueNow, P
  <2> QED BY <2>1, <2>2
<1>12. Promised' /\ ExpectedTyped' /\ \A y : DueNow(y)' <=> DueNow(y)
  BY <1>4, <1>8, <1>9, <1>10, <1>11, KeptStill DEF P
<1>13. ParentsOf' = ParentsOf /\ Entered' = Entered
  BY <1>4, SameParents DEF Entered, versions
<1>14. TasksReady'
  <2>1. ASSUME NEW t \in running'
        PROVE  /\ t.seen => Stale(P, Entered, t.node) = {}
               /\ ~t.seen => t.dirty = Stale(P, Entered, t.node) /\ t.dirty # {}
               /\ \A p \in P[t.node] : ~DueNow(p)
    <3>1. CASE t \in running BY <3>1 DEF TurnsOK, Kept, TasksReady, P
    <3>2. CASE t \notin running
      <4>1. t = task /\ dirty # {} BY <1>4, <2>1, <3>2
      <4> QED BY <1>2, <1>5, <1>6, <4>1
    <3> QED BY <3>1, <3>2
  <2> QED BY <1>12, <1>13, <2>1 DEF TasksReady, P
<1>15. OrderReady'
  <2>1. ASSUME NEW m \in Lanes, NEW y \in ToSet(order'[m]), NEW p \in P[y]
        PROVE  \/ p \in ToSet(order'[m])
               \/ ~DueNow(p)
               \/ \E t \in running' : t.lane = m /\ t.node = p
    <3>1. /\ y \in ToSet(order[m])
          /\ p \in ToSet(order[m]) => p \in ToSet(order'[m]) \/ (m = l /\ p = x)
      BY <1>3, <1>7, <2>1
    <3>2. running \subseteq running' BY <1>4
    <3>3. \/ p \in ToSet(order[m])
          \/ ~DueNow(p)
          \/ \E t \in running : t.lane = m /\ t.node = p
      BY <2>1, <3>1 DEF TurnsOK, Kept, OrderReady, P
    <3>4. CASE m = l /\ p = x
      <4>1. CASE dirty = {}
        <5>1. x \notin Seeing BY <1>2 DEF Seeing
        <5> QED BY <1>1, <1>2, <1>5, <3>4, <4>1, <5>1, DueParents DEF DueNow, P
      <4>2. CASE dirty # {}
        <5>1. task \in running' BY <1>4, <4>2
        <5> QED BY <1>6, <3>4, <5>1
      <4> QED BY <4>1, <4>2
    <3> QED BY <3>1, <3>2, <3>3, <3>4
  <2> QED BY <1>12, <1>13, <2>1 DEF OrderReady, P
<1> QED BY <1>12, <1>14, <1>15 DEF Kept

\* A task marks the dirty parents as seen: its node was due and still is.
LEMMA KeptTaskSees ==
  ASSUME TurnsOK, NEW task \in running, TaskSees(task)
  PROVE  Kept'
<1> DEFINE x == task.node
           seen == [task EXCEPT !.seen = TRUE]
           P == ParentsOf
<1>1. /\ LanesOK /\ LanesTyped /\ task \in Tasks /\ TypeOK
      /\ P \in Graphs /\ \A y \in Ids : P[y] = ParentSet(y) /\ P[y] \subseteq Ids
  BY GroundFacts DEF TurnsOK, LanesOK, LanesTyped
<1>2. /\ x \in Ids /\ x \in Reached
      /\ \A t \in running : t # task => t.node # x /\ x \notin ParentSet(t.node)
  BY <1>1, TasksApart
<1>3. /\ ~task.seen
      /\ task.dirty = Stale(P, Entered, x) /\ task.dirty # {}
      /\ \A p \in P[x] : ~DueNow(p)
  BY DEF TurnsOK, Kept, TasksReady, TaskSees
<1>4. seen.node = x /\ seen.lane = task.lane /\ seen.seen BY <1>1 DEF Tasks
<1>5. /\ seenBy' = [p \in Ids |-> IF p \in task.dirty
                                  THEN [seenBy[p] EXCEPT ![x] = version[p]]
                                  ELSE seenBy[p]]
      /\ running' = (running \ {task}) \cup {seen}
      /\ UNCHANGED <<parents, version, expected, todo, order>>
  BY DEF TaskSees, structure
<1> HIDE DEF x, seen, P
<1>6. Sees(P, Entered, x, Entered')
  <2>1. \A p, c \in Ids : seenBy'[p][c] = IF p \in task.dirty /\ c = x THEN version[p]
                                          ELSE seenBy[p][c]
    BY <1>1, <1>2, <1>5 DEF TypeOK
  <2>2. /\ Entered.version = version /\ Entered.seenBy = seenBy
        /\ Entered'.version = version' /\ Entered'.seenBy = seenBy'
    BY DEF Entered
  <2> QED BY <1>2, <1>3, <1>5, <2>1, <2>2 DEF Sees
<1>7. Seeing' = Seeing \cup {x}
  <2>1. \A y : y \in Seeing' <=> \E t \in running' : t.seen /\ t.node = y BY DEF Seeing
  <2>2. \A y : y \in Seeing <=> \E t \in running : t.seen /\ t.node = y BY DEF Seeing
  <2> QED BY <1>3, <1>4, <1>5, <2>1, <2>2
<1>8. \A l, y : Source(l, y)' <=> Source(l, y)
  <2>1. \A l, y : (\E t \in running' : t.lane = l /\ t.node = y)
                     <=> \E t \in running : t.lane = l /\ t.node = y
    BY <1>4, <1>5 DEF x
  <2> QED BY <1>5, <2>1 DEF Source
<1>9. Reached' = Reached
  <2>1. \A z : z \in Reached' <=> z \in Reached BY <1>5, <1>8, ReachedIs, ReachedThen
  <2> QED BY <2>1
<1>10. P' = P /\ ParentsOf' = ParentsOf BY <1>5, SameParents DEF P
<1>11. /\ Outcome(P, Entered', Seeing \cup {x}, Reached, expected)
       /\ \A y \in Ids : Due(P, Entered', Seeing \cup {x}, y) <=> Due(P, Entered, Seeing, y)
  <2>1. Outcome(P, Entered, Seeing, Reached, expected)
    BY DEF TurnsOK, Kept, Promised, P
  <2> QED BY <1>1, <1>2, <1>3, <1>6, <2>1, OutcomeSees
<1>12. Promised' BY <1>5, <1>7, <1>9, <1>10, <1>11 DEF Promised, P
<1>13. ExpectedTyped' BY <1>5 DEF TurnsOK, Kept, ExpectedTyped
<1>14. \A y \in Ids : DueNow(y)' <=> DueNow(y) BY <1>7, <1>10, <1>11 DEF DueNow, P
<1>15. \A y \in Ids : Stale(P, Entered', y) = IF y = x THEN {} ELSE Stale(P, Entered, y)
  BY <1>1, <1>2, <1>6, SeesStale
<1>16. TasksReady'
  <2>1. ASSUME NEW t \in running'
        PROVE  /\ t.seen => Stale(P, Entered', t.node) = {}
               /\ ~t.seen => t.dirty = Stale(P, Entered', t.node) /\ t.dirty # {}
               /\ \A p \in P[t.node] : p \in Ids /\ ~DueNow(p)
    <3>1. CASE t = seen BY <1>1, <1>2, <1>3, <1>4, <1>15, <3>1
    <3>2. CASE t # seen
      <4>1. t \in running /\ t # task BY <1>5, <2>1, <3>2
      <4>2. t.node \in Ids /\ t.node # x BY <1>1, <1>2, <4>1, TasksApart
      <4> QED BY <1>1, <1>15, <4>1, <4>2 DEF TurnsOK, Kept, TasksReady, P
    <3> QED BY <3>1, <3>2
  <2> QED BY <1>10, <1>14, <2>1 DEF TasksReady, P
<1>17. OrderReady'
  <2>1. ASSUME NEW m \in Lanes, NEW y \in ToSet(order[m]), NEW p \in P[y]
        PROVE  \/ p \in ToSet(order[m])
               \/ ~DueNow(p)'
               \/ \E t \in running' : t.lane = m /\ t.node = p
    <3>1. y \in Ids /\ p \in Ids
      <4>1. order[m] \in Seq(Ids) BY <1>1 DEF LanesTyped
      <4> QED BY <1>1, <2>1, <4>1 DEF ToSet
    <3>2. \/ p \in ToSet(order[m])
          \/ ~DueNow(p)
          \/ \E t \in running : t.lane = m /\ t.node = p
      BY <2>1 DEF TurnsOK, Kept, OrderReady, P
    <3>3. (\E t \in running : t.lane = m /\ t.node = p)
             => \E t \in running' : t.lane = m /\ t.node = p
      BY <1>4, <1>5 DEF x
    <3> QED BY <1>14, <3>1, <3>2, <3>3
  <2> QED BY <1>5, <1>10, <2>1 DEF OrderReady, P
<1> QED BY <1>12, <1>13, <1>16, <1>17 DEF Kept

\* make_dirty of a node bumps it in the graph.
LEMMA DirtiedBumps ==
  ASSUME Ground, NEW x \in Ids, SetVersions(Bumped(Current, x))
  PROVE  Bumps(ParentsOf, Entered, x, Entered')
<1> DEFINE w == Bumped(Entered, x)
<1>1. /\ TypeOK /\ Entered \in Running /\ Behind(Entered)
      /\ Entered.version = version /\ Entered.seenBy = seenBy
  BY GroundFacts, EnteredInOrder DEF InOrder
<1>2. version' = w.version /\ seenBy' = w.seenBy
  <2>1. /\ w.version = [version EXCEPT ![x] = NextVersion(@)]
        /\ w.seenBy = IF version[x] = MaxVersion THEN [seenBy EXCEPT ![x] = Forgotten]
                      ELSE seenBy
    BY <1>1, BumpedIs
  <2> HIDE DEF w
  <2> QED BY <1>1, <2>1, BumpedCurrent DEF SetVersions
<1>3. Bumps(ParentsOf, Entered, x, w) BY <1>1, BumpedBumps
<1>4. Entered'.version = version' /\ Entered'.seenBy = seenBy' BY DEF Entered
<1> HIDE DEF w
<1> QED BY <1>2, <1>3, <1>4 DEF Bumps, Stale

\* A task makes its node dirty: it is not due any more.
LEMMA KeptTaskEnds ==
  ASSUME TurnsOK, NEW task \in running, TaskEnds(task)
  PROVE  Kept'
<1> DEFINE x == task.node
           P == ParentsOf
<1>1. /\ LanesOK /\ LanesTyped /\ Ground
      /\ P \in Graphs /\ Acyclic(P)
      /\ \A y \in Ids : P[y] = ParentSet(y) /\ P[y] \subseteq Ids
  BY GroundFacts DEF TurnsOK, LanesOK
<1>2. /\ x \in Ids /\ x \in Reached
      /\ \A t \in running : t # task => t.node # x /\ x \notin ParentSet(t.node)
  BY <1>1, TasksApart
<1>3. /\ task.seen
      /\ Stale(P, Entered, x) = {}
      /\ \A p \in P[x] : ~DueNow(p)
  BY DEF TurnsOK, Kept, TasksReady, TaskEnds
<1>4. /\ running' = running \ {task}
      /\ SetVersions(Bumped(Current, x))
      /\ UNCHANGED <<parents, expected, todo, order>>
  BY DEF TaskEnds, structure
<1> HIDE DEF x, P
<1>5. Bumps(P, Entered, x, Entered') BY <1>1, <1>2, <1>4, DirtiedBumps DEF P
<1>6. x \in Seeing /\ Seeing' = Seeing \ {x}
  <2>1. \A y : y \in Seeing' <=> \E t \in running' : t.seen /\ t.node = y BY DEF Seeing
  <2>2. \A y : y \in Seeing <=> \E t \in running : t.seen /\ t.node = y BY DEF Seeing
  <2>3. \A y : y \in Seeing' <=> y \in Seeing /\ y # x
    BY <1>2, <1>3, <1>4, <2>1, <2>2 DEF x
  <2> QED BY <1>3, <2>2, <2>3 DEF x
<1>7. \A p \in P[x] : ~Due(P, Entered, Seeing, p) BY <1>3 DEF DueNow, P
<1>8. \A y \in Ids : Due(P, Entered', Seeing \ {x}, y) <=> Due(P, Entered, Seeing, y) /\ y # x
  BY <1>1, <1>2, <1>3, <1>5, <1>6, <1>7, BumpsDue
<1>9. Outcome(P, Entered', Seeing \ {x}, Reached, expected)
  <2>1. Outcome(P, Entered, Seeing, Reached, expected)
    BY DEF TurnsOK, Kept, Promised, P
  <2> QED BY <1>1, <1>2, <1>3, <1>5, <1>6, <1>7, <2>1, OutcomeBumps
<1>10. \A l \in Lanes : \A y : Source(l, y) => y \in Ids /\ y \in Anc(P, y)
  BY <1>1, SourceTyped, AncClosed
<1>11. \A l, y : Source(l, y)' => Source(l, y) BY <1>4 DEF Source
<1>12. ASSUME NEW l \in Lanes, NEW y, Source(l, y)
       PROVE  y \in Reached' \/ ~Due(P, Entered', Seeing \ {x}, y)
  <2>1. CASE Source(l, y)' BY <1>4, <1>10, <1>12, <2>1, ReachedThen DEF P
  <2>2. CASE ~Source(l, y)'
    <3>1. y = x BY <1>4, <1>12, <2>2 DEF Source, x
    <3> QED BY <1>2, <1>8, <3>1
  <2> QED BY <2>1, <2>2
<1>13. /\ Reached' \subseteq Reached
       /\ \A y \in Ids : y \in Reached /\ y \notin Reached'
                           => ~Due(P, Entered', Seeing \ {x}, y)
  <2>1. \A l \in Lanes : \A y : Source(l, y)' => \E z : Source(l, z) /\ y \in Anc(P, z)
    BY <1>10, <1>11
  <2> QED BY <1>1, <1>4, <1>12, <2>1, ReachedShrinks DEF P
<1>14. Outcome(P, Entered', Seeing \ {x}, Reached', expected)
  BY <1>1, <1>9, <1>13, OutcomeWithout
<1>15. P' = P /\ ParentsOf' = ParentsOf BY <1>4, SameParents DEF P
<1>16. Promised' BY <1>4, <1>6, <1>14, <1>15 DEF Promised, P
<1>17. ExpectedTyped' BY <1>4 DEF TurnsOK, Kept, ExpectedTyped
<1>18. \A y \in Ids : DueNow(y)' <=> DueNow(y) /\ y # x
  BY <1>6, <1>8, <1>15 DEF DueNow, P
<1>19. ASSUME NEW y \in Ids, x \notin P[y] PROVE Stale(P, Entered', y) = Stale(P, Entered, y)
  BY ZenonT(30), <1>5, <1>19 DEF Bumps
<1>20. TasksReady'
  <2>1. ASSUME NEW t \in running'
        PROVE  /\ t.seen => Stale(P, Entered', t.node) = {}
               /\ ~t.seen => t.dirty = Stale(P, Entered', t.node) /\ t.dirty # {}
               /\ \A p \in P[t.node] : p \in Ids /\ ~DueNow(p)
    <3>1. t \in running /\ t # task BY <1>4, <2>1
    <3>2. t.node \in Ids /\ x \notin P[t.node] BY <1>1, <1>2, <3>1, TasksApart
    <3>3. Stale(P, Entered', t.node) = Stale(P, Entered, t.node) BY <1>19, <3>2
    <3> QED BY <1>1, <3>1, <3>2, <3>3 DEF TurnsOK, Kept, TasksReady, P
  <2> QED BY <1>15, <1>18, <2>1 DEF TasksReady, P
<1>21. OrderReady'
  <2>1. ASSUME NEW m \in Lanes, NEW y \in ToSet(order[m]), NEW p \in P[y]
        PROVE  \/ p \in ToSet(order[m])
               \/ ~DueNow(p)'
               \/ \E t \in running' : t.lane = m /\ t.node = p
    <3>1. y \in Ids /\ p \in Ids
      <4>1. order[m] \in Seq(Ids) BY <1>1 DEF LanesTyped
      <4> QED BY <1>1, <2>1, <4>1 DEF ToSet
    <3>2. \/ p \in ToSet(order[m])
          \/ ~DueNow(p)
          \/ \E t \in running : t.lane = m /\ t.node = p
      BY <2>1 DEF TurnsOK, Kept, OrderReady, P
    <3>3. (\E t \in running : t.lane = m /\ t.node = p)
             => p = x \/ \E t \in running' : t.lane = m /\ t.node = p
      BY <1>4 DEF x
    <3> QED BY <1>18, <3>1, <3>2, <3>3
  <2> QED BY <1>4, <1>15, <2>1 DEF OrderReady, P
<1> QED BY <1>16, <1>17, <1>20, <1>21 DEF Kept

\* When a call begins, the lanes start from the nodes it asks for, all of them.
LEMMA SourcesCleanMt ==
  ASSUME LanesOK, NEW ids \in Requests, CleanMt(ids)
  PROVE  /\ \A l \in Lanes : \A x : Source(l, x)' => x \in ToSet(ids)
         /\ \A x \in ToSet(ids) : \E l \in Lanes : Source(l, x)'
<1> DEFINE alone == {i \in DOMAIN ids : IsIndependent(ids, i)}
           S == {ids[i] : i \in alone}
           shared == Without(ids, S)
<1>1. /\ running = {} /\ \A l \in Lanes : order[l] = <<>>
      /\ ids \in Seq(Ids)
  BY RequestsAssumption DEF LanesOK, CleanMt, Idle
<1>2. ToSet(shared) = ToSet(ids) \ S
  <2> HIDE DEF S
  <2> QED BY <1>1, WithoutProperties
<1>3. /\ todo' = [l \in Lanes |->
                    IF l = Shared THEN shared
                    ELSE IF \E i \in alone : ids[i] = l THEN <<l>> ELSE <<>>]
      /\ UNCHANGED <<order, running>>
  BY DEF CleanMt, structure
<1> HIDE DEF shared
<1>4. DOMAIN ids = 1 .. Len(ids) /\ \A i \in DOMAIN ids : ids[i] \in Ids BY <1>1
<1>5. ToSet(<<>>) = {} /\ \A l : ToSet(<<l>>) = {l}
  <2>1. ToSet(<<>>) = {} BY DEF ToSet
  <2>2. ASSUME NEW l PROVE ToSet(<<l>>) = {l}
    <3>1. DOMAIN <<l>> = {1} /\ <<l>>[1] = l OBVIOUS
    <3> QED BY <3>1 DEF ToSet
  <2> QED BY <2>1, <2>2
<1>6. \A l \in Lanes : \A x : Source(l, x)' <=> x \in ToSet(todo'[l])
  BY <1>1, <1>3, <1>5 DEF Source
<1> HIDE DEF S
<1>7. ASSUME NEW l \in Lanes, NEW x \in ToSet(todo'[l]) PROVE x \in ToSet(ids)
  <2>1. CASE l = Shared BY <1>2, <1>3, <1>7, <2>1
  <2>2. CASE l # Shared
    <3> HIDE DEF alone
    <3>1. todo'[l] = IF \E i \in alone : ids[i] = l THEN <<l>> ELSE <<>>
      BY <1>3, <2>2
    <3>2. PICK i \in alone : ids[i] = l BY <1>5, <1>7, <3>1
    <3>3. x = l BY <1>5, <1>7, <3>1, <3>2
    <3>4. i \in DOMAIN ids BY DEF alone
    <3> QED BY <3>2, <3>3, <3>4 DEF ToSet
  <2> QED BY <2>1, <2>2
<1>8. ASSUME NEW x \in ToSet(ids) PROVE \E l \in Lanes : x \in ToSet(todo'[l])
  <2>1. CASE x \in S
    <3> HIDE DEF alone
    <3>1. PICK i \in alone : ids[i] = x BY <2>1 DEF S
    <3>2. x \in Ids BY <1>4, <3>1 DEF alone
    <3>3. x \in Lanes /\ x # Shared BY <3>2, LanesAssumption DEF Lanes
    <3>4. todo'[x] = <<x>> BY <1>3, <3>1, <3>3
    <3> QED BY <1>5, <3>3, <3>4
  <2>2. CASE x \notin S
    <3>1. Shared \in Lanes /\ todo'[Shared] = shared BY <1>3 DEF Lanes
    <3> QED BY <1>2, <1>8, <2>2, <3>1
  <2> QED BY <2>1, <2>2
<1> QED BY <1>6, <1>7, <1>8

\* A call begins: all that is due above the ids is what clean(ids) cleans.
LEMMA KeptCleanMt ==
  ASSUME TurnsOK, NEW ids \in Requests, CleanMt(ids)
  PROVE  Kept'
<1> DEFINE P == ParentsOf
           v == CleanedInTurn(ids)
<1>1. /\ LanesOK /\ Ground /\ TypeOK /\ P \in Graphs
      /\ ids \in Seq(Ids) /\ DOMAIN ids = 1 .. Len(ids) /\ Len(ids) \in Nat
      /\ running = {} /\ \A l \in Lanes : order[l] = <<>>
  BY GroundFacts, RequestsAssumption DEF TurnsOK, LanesOK, CleanMt, Idle
<1>2. /\ expected' = [version |-> v.version, seenBy |-> v.seenBy]
      /\ UNCHANGED <<parents, versions, order, running>>
  BY DEF CleanMt, structure
<1>3. P' = P /\ ParentsOf' = ParentsOf /\ Entered' = Entered
  BY <1>2, SameParents DEF Entered, versions
<1>4. Seeing' = {} BY <1>1, <1>2 DEF Seeing
<1>5. v \in Running
  <2>1. PICK pass : IsPasses(pass, ids) /\ CleanedInTurn(ids) = pass[Len(ids)]
    BY <1>1, CleanedPasses
  <2> QED BY <1>1, <2>1 DEF IsPasses
<1>6. Outcome(P, Entered, {}, Above(P, ids), v) BY <1>1, CleanedOutcome
<1> HIDE DEF P, v
<1>7. Reached' = Above(P, ids)
  <2>1. \A z : z \in Reached' <=>
           \E l \in Lanes : \E x : Source(l, x)' /\ z \in Anc(P, x)
    BY <1>2, ReachedThen DEF P
  <2>2. \A z : z \in Above(P, ids) <=> \E x \in ToSet(ids) : z \in Anc(P, x)
    BY DEF Above, ToSet
  <2> QED BY <1>1, <2>1, <2>2, SourcesCleanMt
<1>8. Outcome(P, Entered, {}, Above(P, ids), expected')
  <2>1. expected'.version = v.version /\ expected'.seenBy = v.seenBy BY <1>2
  <2> QED BY <1>1, <1>6, <2>1, OutcomeEqual
<1>9. Promised' BY <1>3, <1>4, <1>7, <1>8 DEF Promised, P
<1>10. ExpectedTyped' BY <1>2, <1>5 DEF ExpectedTyped, Running
<1>11. TasksReady' BY <1>1, <1>2 DEF TasksReady
<1>12. OrderReady'
  <2> ToSet(<<>>) = {} BY DEF ToSet
  <2> QED BY <1>1, <1>2 DEF OrderReady
<1> QED BY <1>9, <1>10, <1>11, <1>12 DEF Kept

\* Where nothing is left to do, what is expected is what there is.
LEMMA KeptAtRest ==
  ASSUME Ground, running = {}, \A l \in Lanes : todo[l] = <<>> /\ order[l] = <<>>,
         expected = Current
  PROVE  Kept
<1>1. /\ TypeOK /\ Entered.version = version /\ Entered.seenBy = seenBy
  BY GroundFacts, EnteredInOrder
<1>2. ToSet(<<>>) = {} BY DEF ToSet
<1>3. Reached = {} BY <1>2, ReachedIs DEF Source
<1>4. expected.version = version /\ expected.seenBy = seenBy BY DEF Current
<1>5. Promised BY <1>1, <1>3, <1>4 DEF Promised, Outcome
<1>6. ExpectedTyped
  BY <1>1 DEF ExpectedTyped, Current, TypeOK, VersionSpace, SeenSpace
<1>7. TasksReady BY DEF TasksReady
<1>8. OrderReady BY <1>2 DEF OrderReady
<1> QED BY <1>5, <1>6, <1>7, <1>8 DEF Kept

\* The user writes between two calls: the same again.
LEMMA KeptWriteBetween ==
  ASSUME LanesOK', NEW id \in Writable, WriteBetween(id)
  PROVE  Kept'
<1>1. Ground' BY DEF LanesOK
<1>2. running' = {} /\ \A l \in Lanes : todo'[l] = <<>> /\ order'[l] = <<>>
  BY DEF WriteBetween, Idle
<1>3. expected' = Current' BY DEF WriteBetween, Current
<1>4. (/\ Ground /\ running = {} /\ \A l \in Lanes : todo[l] = <<>> /\ order[l] = <<>>
       /\ expected = Current
       => Kept)'
  BY KeptAtRest, PTL
<1> QED BY <1>1, <1>2, <1>3, <1>4

\* TurnsOK is inductive.
LEMMA TurnsNext == TurnsOK /\ [NextMt]_mtVars => TurnsOK'
<1> SUFFICES ASSUME TurnsOK, [NextMt]_mtVars PROVE TurnsOK' OBVIOUS
<1>1. LanesOK' BY LanesNext DEF TurnsOK
<1>2. ASSUME UNCHANGED mtVars PROVE Kept'
  BY <1>2, KeptSame DEF mtVars, vars, versions
<1>3. ASSUME NEW ids \in Requests, CleanMt(ids) PROVE Kept' BY <1>3, KeptCleanMt
<1>4. ASSUME NEW id \in Writable, WriteBetween(id) PROVE Kept'
  BY <1>1, <1>4, KeptWriteBetween
<1>5. ASSUME NEW l \in Lanes, BeginGraph(l) PROVE Kept' BY <1>5, KeptBeginGraph
<1>6. ASSUME NEW l \in Lanes, WalkGraph(l) PROVE Kept' BY <1>6, KeptWalkGraph
<1>7. ASSUME NEW task \in running, TaskSees(task) PROVE Kept' BY <1>7, KeptTaskSees
<1>8. ASSUME NEW task \in running, TaskEnds(task) PROVE Kept' BY <1>8, KeptTaskEnds
<1>9. Kept' BY <1>2, <1>3, <1>4, <1>5, <1>6, <1>7, <1>8 DEF NextMt, Work
<1> QED BY <1>1, <1>9 DEF TurnsOK

\* TurnsOK holds in every state of clean_mt.
LEMMA TurnsAlways == SpecMt => []TurnsOK
<1>1. InitMt => TurnsOK
  <2> SUFFICES ASSUME InitMt PROVE TurnsOK OBVIOUS
  <2>1. LanesOK BY LanesInit
  <2>2. /\ running = {} /\ \A l \in Lanes : todo[l] = <<>> /\ order[l] = <<>>
        /\ expected = Current
    BY DEF InitMt
  <2> QED BY <2>1, <2>2, KeptAtRest DEF TurnsOK, LanesOK
<1> QED BY <1>1, TurnsNext, PTL DEF SpecMt

\* In any graph and for any calls, however the lanes and the tasks interleave:
\* when clean_mt has returned, every node has the version, and has seen the
\* versions of its parents, that clean of one id after the other would give.
THEOREM MatchesInTurnCorrect == SpecMt => []MatchesInTurn
BY KeptMatches, TurnsAlways, PTL

=============================================================================
