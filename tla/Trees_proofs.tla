---------------------------- MODULE Trees_proofs ----------------------------
(***************************************************************************)
(* Proofs about the parts that walk trees: about the planner and the runner*)
(* of Htn, for any network whose tasks do not lead back to themselves, any *)
(* predicates, effects and worlds, about FlatBfGraph, for any number of    *)
(* keys, and about FlatRecurse, for any tree and any nodes that are culled.*)
(***************************************************************************)
EXTENDS Trees, Recursion

\* No task leads back to itself.
Layered == \E rank, depth : Planner!Levelled(rank, depth)

-----------------------------------------------------------------------------
(* The planner is a recursive function: the equation by which it is defined  *)
(* has a solution.                                                           *)

\* The plan q begins with the plan p.
Begins(p, q) == Len(p) <= Len(q) /\ \A i \in 1 .. Len(p) : q[i] = p[i]

\* A node adds to the plan, or leaves it.
Adders == {h \in [Planner!Drafts -> Planner!Drafts] : \A d \in Planner!Drafts : Begins(d.p, h[d].p)}
Planners == [Planner!Nodes -> Adders]

\* What the loop of a node calls of f does.
CallsAdders(f, n) ==
  /\ n \in Tasks => \A i \in DOMAIN MethodsOf[n] : f[MethodsOf[n][i]] \in Adders
  /\ n \in Methods => \A i \in DOMAIN SubtasksOf[n] : f[SubtasksOf[n][i]] \in Adders

\* A turn of the loop over a task's methods, of the loop over a method's
\* subtasks, and an action, when f is the planner they call.
Tried(f, r, m) == IF r.ok \/ ~Planner!satisfied(m, r.w) THEN r ELSE f[m][r]
Added(f, r, s) == IF r.ok THEN f[s][r] ELSE r
Acted(n, d) ==
  IF Planner!satisfied(n, d.w)
  THEN [ok |-> TRUE, p |-> Append(d.p, n), w |-> Expected[n][Effect[n][d.w]]]
  ELSE [d EXCEPT !.ok = FALSE]

AllTried(f, n, d) ==
  Planner!FoldLeft(LAMBDA r, m : Tried(f, r, m), [d EXCEPT !.ok = FALSE], MethodsOf[n])
AllAdded(f, n, d) ==
  Planner!FoldLeft(LAMBDA r, s : Added(f, r, s), [d EXCEPT !.ok = TRUE], SubtasksOf[n])

Body(f, n, d) ==
  CASE n \in Tasks   -> AllTried(f, n, d)
    [] n \in Methods -> Planner!Undo(AllAdded(f, n, d), d.p, d.w)
    [] n \in Actions -> Acted(n, d)

\* What the loops have made of the plan after each turn.
IsTrying(turn, f, t, d) ==
  /\ turn \in [0 .. Len(MethodsOf[t]) -> Planner!Drafts]
  /\ turn[0] = [d EXCEPT !.ok = FALSE]
  /\ \A i \in 1 .. Len(MethodsOf[t]) : turn[i] = Tried(f, turn[i - 1], MethodsOf[t][i])

IsAdding(turn, f, m, d) ==
  /\ turn \in [0 .. Len(SubtasksOf[m]) -> Planner!Drafts]
  /\ turn[0] = [d EXCEPT !.ok = TRUE]
  /\ \A i \in 1 .. Len(SubtasksOf[m]) : turn[i] = Added(f, turn[i - 1], SubtasksOf[m][i])

\* What the network is made of, for single nodes.
LEMMA NodesTyped ==
  ASSUME Planner!NetworkAssumption
  PROVE  /\ \A t \in Tasks : /\ MethodsOf[t] \in Seq(Methods)
                             /\ t \in Planner!Nodes /\ t \notin Methods /\ t \notin Actions
         /\ \A m \in Methods : /\ SubtasksOf[m] \in Seq(Tasks \cup Actions)
                               /\ m \in Planner!Nodes /\ m \notin Tasks /\ m \notin Actions
         /\ \A a \in Actions : /\ a \in Planner!Nodes /\ a \notin Tasks /\ a \notin Methods
                               /\ a # Null
                               /\ Effect[a] \in [Worlds -> Worlds]
                               /\ Expected[a] \in [Worlds -> Worlds]
BY DEF Planner!NetworkAssumption, Planner!Valid, Planner!Nodes

\* The effects of an action lead from worlds to worlds.
LEMMA EffectsTyped ==
  ASSUME Planner!NetworkAssumption, NEW a \in Actions, NEW w \in Worlds
  PROVE  Effect[a][w] \in Worlds /\ Expected[a][Effect[a][w]] \in Worlds
<1>1. Effect[a] \in [Worlds -> Worlds] /\ Expected[a] \in [Worlds -> Worlds]
  BY NodesTyped
<1>2. Effect[a][w] \in Worlds BY <1>1
<1> QED BY <1>1, <1>2

\* A turn of a loop makes a draft of a draft.
LEMMA TurnsTyped ==
  ASSUME NEW f, NEW n, f[n] \in Adders, NEW r \in Planner!Drafts
  PROVE  Tried(f, r, n) \in Planner!Drafts /\ Added(f, r, n) \in Planner!Drafts /\ f[n][r] \in Planner!Drafts
<1>1. f[n] \in [Planner!Drafts -> Planner!Drafts] BY DEF Adders
<1>2. f[n][r] \in Planner!Drafts BY <1>1
<1> QED BY <1>2 DEF Tried, Added

\* The loop over the methods of a task makes a draft in every turn.
LEMMA TryingRuns ==
  ASSUME Planner!NetworkAssumption, NEW n \in Tasks, NEW d \in Planner!Drafts, NEW f, CallsAdders(f, n)
  PROVE  \E turn : /\ IsTrying(turn, f, n, d)
                  /\ AllTried(f, n, d) = turn[Len(MethodsOf[n])]
<1> DEFINE s == MethodsOf[n]
           k == Len(s)
           base == [d EXCEPT !.ok = FALSE]
           V == Planner!Drafts
           last == [t \in SUBSET (1 .. k) |-> Max(t)]
           step == [i \in 1 .. k |-> [v \in V |-> Tried(f, v, s[i])]]
           IsRun(g) ==
             g = [t \in SUBSET (1 .. k) |->
                    IF t = {} THEN base
                    ELSE Tried(f, g[t \ {Max(t)}], s[Max(t)])]
           c == CHOOSE g : IsRun(g)
<1>1. /\ k \in Nat /\ DOMAIN s = 1 .. k
  <2> s \in Seq(Methods) BY NodesTyped
  <2> QED OBVIOUS
<1>0. base \in V BY DEF Planner!Drafts
<1>2. \A v \in V : \A i \in 1 .. k : Tried(f, v, s[i]) \in V
  <2> \A i \in 1 .. k : f[s[i]] \in Adders BY <1>1 DEF CallsAdders
  <2> QED BY TurnsTyped
<1>9. AllTried(f, n, d) = c[1 .. k]
  BY <1>1 DEF AllTried, Planner!FoldLeft, Planner!MapThenFoldSet, Planner!Max, Max
<1>3. step \in StepsOver(1 .. k, V)
  <2> HIDE DEF V, k, s
  <2> QED BY <1>1, <1>2 DEF StepsOver
<1>4. PICK g : IsFold(g, 1 .. k, V, base, step, last)
  <2> HIDE DEF step, V, k, base, s
  <2> QED BY <1>0, <1>1, <1>3, FoldLeftExists
<1>5. /\ g \in [SUBSET (1 .. k) -> V]
      /\ \A t \in SUBSET (1 .. k) :
            g[t] = IF t = {} THEN base ELSE step[Max(t)][g[t \ {Max(t)}]]
  BY <1>4 DEF IsFold
<1>6. ASSUME NEW t \in SUBSET (1 .. k), t # {}
      PROVE  g[t] = Tried(f, g[t \ {Max(t)}], s[Max(t)])
  <2>1. Max(t) \in 1 .. k BY <1>1, <1>6, LastMember
  <2>2. g[t \ {Max(t)}] \in V
    <3> HIDE DEF V, k
    <3> QED BY <1>5
  <2> HIDE DEF V, k, base, s
  <2> QED BY <1>5, <1>6, <2>1, <2>2
<1>7. IsRun(g)
  <2> HIDE DEF V, k, base, s
  <2> QED BY <1>5, <1>6
<1>8. IsRun(c)
  <2> HIDE DEF IsRun
  <2> QED BY <1>7
<1> HIDE DEF c
<1>10. /\ c[{}] = base
       /\ \A t \in SUBSET (1 .. k) : t # {} =>
             c[t] = Tried(f, c[t \ {Max(t)}], s[Max(t)])
  <2> HIDE DEF k, base, s
  <2> QED BY <1>8
<1> HIDE DEF IsRun
<1>11. ASSUME NEW i \in 1 .. k
       PROVE  c[1 .. i] = Tried(f, c[1 .. (i - 1)], s[i])
  <2>1. 1 .. i \in SUBSET (1 .. k) /\ 1 \in 1 .. i BY <1>1
  <2>2. Max(1 .. i) = i /\ (1 .. i) \ {i} = 1 .. (i - 1) BY <1>1, LastIndex
  <2> HIDE DEF k, s
  <2> QED BY <1>10, <2>1, <2>2
<1> DEFINE turn == [i \in 0 .. k |-> c[1 .. i]]
<1>12. turn \in [0 .. k -> V]
  <2>1. ASSUME NEW i \in 1 .. k, c[1 .. (i - 1)] \in V PROVE c[1 .. i] \in V
    <3> HIDE DEF V, k, s
    <3> QED BY <1>1, <1>2, <1>11, <2>1
  <2> HIDE DEF V, k, base, s
  <2>2. \A i \in 0 .. k : c[1 .. i] \in V BY <1>0, <1>1, <1>10, <2>1, FoldLeftTurns
  <2> QED BY <2>2
<1>13. turn[0] = base
  <2> 1 .. 0 = {} OBVIOUS
  <2> HIDE DEF k, base
  <2> QED BY <1>1, <1>10
<1>14. \A i \in 1 .. k : turn[i] = Tried(f, turn[i - 1], s[i])
  <2> \A i \in 1 .. k : i \in 0 .. k /\ i - 1 \in 0 .. k BY <1>1
  <2> HIDE DEF k, s
  <2> QED BY <1>11
<1>15. AllTried(f, n, d) = turn[k]
  <2> k \in 0 .. k BY <1>1
  <2> HIDE DEF k
  <2> QED BY <1>9
<1> HIDE DEF turn
<1>16. IsTrying(turn, f, n, d) BY <1>12, <1>13, <1>14 DEF IsTrying
<1> QED BY <1>15, <1>16

\* The loop over the subtasks of a method makes a draft in every turn.
LEMMA AddingRuns ==
  ASSUME Planner!NetworkAssumption, NEW n \in Methods, NEW d \in Planner!Drafts, NEW f, CallsAdders(f, n)
  PROVE  \E turn : /\ IsAdding(turn, f, n, d)
                  /\ AllAdded(f, n, d) = turn[Len(SubtasksOf[n])]
<1> DEFINE s == SubtasksOf[n]
           k == Len(s)
           base == [d EXCEPT !.ok = TRUE]
           V == Planner!Drafts
           last == [t \in SUBSET (1 .. k) |-> Max(t)]
           step == [i \in 1 .. k |-> [v \in V |-> Added(f, v, s[i])]]
           IsRun(g) ==
             g = [t \in SUBSET (1 .. k) |->
                    IF t = {} THEN base
                    ELSE Added(f, g[t \ {Max(t)}], s[Max(t)])]
           c == CHOOSE g : IsRun(g)
<1>1. /\ k \in Nat /\ DOMAIN s = 1 .. k
  <2> s \in Seq(Tasks \cup Actions) BY NodesTyped
  <2> QED OBVIOUS
<1>0. base \in V BY DEF Planner!Drafts
<1>2. \A v \in V : \A i \in 1 .. k : Added(f, v, s[i]) \in V
  <2> \A i \in 1 .. k : f[s[i]] \in Adders BY <1>1 DEF CallsAdders
  <2> QED BY TurnsTyped
<1>9. AllAdded(f, n, d) = c[1 .. k]
  BY <1>1 DEF AllAdded, Planner!FoldLeft, Planner!MapThenFoldSet, Planner!Max, Max
<1>3. step \in StepsOver(1 .. k, V)
  <2> HIDE DEF V, k, s
  <2> QED BY <1>1, <1>2 DEF StepsOver
<1>4. PICK g : IsFold(g, 1 .. k, V, base, step, last)
  <2> HIDE DEF step, V, k, base, s
  <2> QED BY <1>0, <1>1, <1>3, FoldLeftExists
<1>5. /\ g \in [SUBSET (1 .. k) -> V]
      /\ \A t \in SUBSET (1 .. k) :
            g[t] = IF t = {} THEN base ELSE step[Max(t)][g[t \ {Max(t)}]]
  BY <1>4 DEF IsFold
<1>6. ASSUME NEW t \in SUBSET (1 .. k), t # {}
      PROVE  g[t] = Added(f, g[t \ {Max(t)}], s[Max(t)])
  <2>1. Max(t) \in 1 .. k BY <1>1, <1>6, LastMember
  <2>2. g[t \ {Max(t)}] \in V
    <3> HIDE DEF V, k
    <3> QED BY <1>5
  <2> HIDE DEF V, k, base, s
  <2> QED BY <1>5, <1>6, <2>1, <2>2
<1>7. IsRun(g)
  <2> HIDE DEF V, k, base, s
  <2> QED BY <1>5, <1>6
<1>8. IsRun(c)
  <2> HIDE DEF IsRun
  <2> QED BY <1>7
<1> HIDE DEF c
<1>10. /\ c[{}] = base
       /\ \A t \in SUBSET (1 .. k) : t # {} =>
             c[t] = Added(f, c[t \ {Max(t)}], s[Max(t)])
  <2> HIDE DEF k, base, s
  <2> QED BY <1>8
<1> HIDE DEF IsRun
<1>11. ASSUME NEW i \in 1 .. k
       PROVE  c[1 .. i] = Added(f, c[1 .. (i - 1)], s[i])
  <2>1. 1 .. i \in SUBSET (1 .. k) /\ 1 \in 1 .. i BY <1>1
  <2>2. Max(1 .. i) = i /\ (1 .. i) \ {i} = 1 .. (i - 1) BY <1>1, LastIndex
  <2> HIDE DEF k, s
  <2> QED BY <1>10, <2>1, <2>2
<1> DEFINE turn == [i \in 0 .. k |-> c[1 .. i]]
<1>12. turn \in [0 .. k -> V]
  <2>1. ASSUME NEW i \in 1 .. k, c[1 .. (i - 1)] \in V PROVE c[1 .. i] \in V
    <3> HIDE DEF V, k, s
    <3> QED BY <1>1, <1>2, <1>11, <2>1
  <2> HIDE DEF V, k, base, s
  <2>2. \A i \in 0 .. k : c[1 .. i] \in V BY <1>0, <1>1, <1>10, <2>1, FoldLeftTurns
  <2> QED BY <2>2
<1>13. turn[0] = base
  <2> 1 .. 0 = {} OBVIOUS
  <2> HIDE DEF k, base
  <2> QED BY <1>1, <1>10
<1>14. \A i \in 1 .. k : turn[i] = Added(f, turn[i - 1], s[i])
  <2> \A i \in 1 .. k : i \in 0 .. k /\ i - 1 \in 0 .. k BY <1>1
  <2> HIDE DEF k, s
  <2> QED BY <1>11
<1>15. AllAdded(f, n, d) = turn[k]
  <2> k \in 0 .. k BY <1>1
  <2> HIDE DEF k
  <2> QED BY <1>9
<1> HIDE DEF turn
<1>16. IsAdding(turn, f, n, d) BY <1>12, <1>13, <1>14 DEF IsAdding
<1> QED BY <1>15, <1>16

\* A plan begins with itself, and with what its beginning begins with.
LEMMA BeginsWith ==
  ASSUME NEW p \in Seq(Actions), NEW q \in Seq(Actions), NEW o \in Seq(Actions),
         Begins(p, q), Begins(q, o)
  PROVE  Begins(p, p) /\ Begins(p, o)
<1>1. Len(p) \in Nat /\ Len(q) \in Nat /\ Len(o) \in Nat OBVIOUS
<1> QED BY <1>1 DEF Begins

\* A plan cut back to the length of what it begins with is that again.
LEMMA CutBack ==
  ASSUME NEW p \in Seq(Actions), NEW q \in Seq(Actions), Begins(p, q)
  PROVE  SubSeq(q, 1, Len(p)) = p
<1>1. Len(p) \in Nat /\ Len(q) \in Nat /\ Len(p) <= Len(q) BY DEF Begins
<1>2. SubSeq(q, 1, Len(p)) = [i \in 1 .. Len(p) |-> q[i]]
  <2>1. \A i \in 1 .. Len(p) : (1 + i) - 1 = i BY <1>1
  <2>2. Len(SubSeq(q, 1, Len(p))) = Len(p) /\ SubSeq(q, 1, Len(p)) \in Seq(Actions)
    BY <1>1
  <2>3. \A i \in 1 .. Len(p) : SubSeq(q, 1, Len(p))[i] = q[i] BY <1>1
  <2> QED BY <2>2, <2>3
<1>3. p = [i \in 1 .. Len(p) |-> p[i]] OBVIOUS
<1> QED BY <1>2, <1>3 DEF Begins

\* A turn of a loop adds to the plan, or leaves it.
LEMMA TurnsAdd ==
  ASSUME NEW f, NEW n, f[n] \in Adders, NEW r \in Planner!Drafts
  PROVE  /\ Begins(r.p, Tried(f, r, n).p) /\ Begins(r.p, Added(f, r, n).p)
         /\ Begins(r.p, f[n][r].p)
<1>1. r.p \in Seq(Actions) BY DEF Planner!Drafts
<1>2. Begins(r.p, r.p) BY <1>1 DEF Begins
<1>3. Begins(r.p, f[n][r].p) BY DEF Adders
<1> QED BY <1>2, <1>3 DEF Tried, Added

\* After every turn the plan begins with what it was before the loop.
LEMMA TryingAdds ==
  ASSUME Planner!NetworkAssumption, NEW t \in Tasks, NEW d \in Planner!Drafts,
         NEW f, CallsAdders(f, t), NEW turn, IsTrying(turn, f, t, d)
  PROVE  \A i \in 0 .. Len(MethodsOf[t]) : turn[i] \in Planner!Drafts /\ Begins(d.p, turn[i].p)
<1> DEFINE k == Len(MethodsOf[t])
           T == {i \in 0 .. k : Begins(d.p, turn[i].p)}
<1>1. k \in Nat /\ \A i \in 1 .. k : f[MethodsOf[t][i]] \in Adders
  <2> MethodsOf[t] \in Seq(Methods) BY NodesTyped
  <2> QED BY NodesTyped DEF CallsAdders
<1>2. /\ turn \in [0 .. k -> Planner!Drafts]
      /\ turn[0] = [d EXCEPT !.ok = FALSE]
      /\ \A i \in 1 .. k : turn[i] = Tried(f, turn[i - 1], MethodsOf[t][i])
  BY DEF IsTrying
<1>3. d.p \in Seq(Actions) BY DEF Planner!Drafts
<1>4. 0 \in T
  <2> turn[0].p = d.p BY <1>2 DEF Planner!Drafts
  <2> QED BY <1>1, <1>3 DEF Begins
<1>5. ASSUME NEW i \in 1 .. k, i - 1 \in T PROVE i \in T
  <2>1. i - 1 \in 0 .. k /\ i \in 0 .. k BY <1>1
  <2>2. turn[i - 1] \in Planner!Drafts /\ turn[i] \in Planner!Drafts BY <1>2, <2>1
  <2>3. Begins(turn[i - 1].p, turn[i].p) BY <1>1, <1>2, <2>2, TurnsAdd
  <2>4. turn[i - 1].p \in Seq(Actions) /\ turn[i].p \in Seq(Actions) BY <2>2 DEF Planner!Drafts
  <2>5. Begins(d.p, turn[i].p) BY <1>3, <1>5, <2>3, <2>4, BeginsWith
  <2> QED BY <2>1, <2>5
<1>6. 0 .. k \subseteq T
  <2> HIDE DEF T, k
  <2> QED BY <1>1, <1>4, <1>5, BoundedInduction
<1> QED BY <1>2, <1>6

\* The same of the subtasks of a method.
LEMMA AddingAdds ==
  ASSUME Planner!NetworkAssumption, NEW m \in Methods, NEW d \in Planner!Drafts,
         NEW f, CallsAdders(f, m), NEW turn, IsAdding(turn, f, m, d)
  PROVE  \A i \in 0 .. Len(SubtasksOf[m]) : turn[i] \in Planner!Drafts /\ Begins(d.p, turn[i].p)
<1> DEFINE k == Len(SubtasksOf[m])
           T == {i \in 0 .. k : Begins(d.p, turn[i].p)}
<1>1. k \in Nat /\ \A i \in 1 .. k : f[SubtasksOf[m][i]] \in Adders
  <2> SubtasksOf[m] \in Seq(Tasks \cup Actions) BY NodesTyped
  <2> QED BY NodesTyped DEF CallsAdders
<1>2. /\ turn \in [0 .. k -> Planner!Drafts]
      /\ turn[0] = [d EXCEPT !.ok = TRUE]
      /\ \A i \in 1 .. k : turn[i] = Added(f, turn[i - 1], SubtasksOf[m][i])
  BY DEF IsAdding
<1>3. d.p \in Seq(Actions) BY DEF Planner!Drafts
<1>4. 0 \in T
  <2> turn[0].p = d.p BY <1>2 DEF Planner!Drafts
  <2> QED BY <1>1, <1>3 DEF Begins
<1>5. ASSUME NEW i \in 1 .. k, i - 1 \in T PROVE i \in T
  <2>1. i - 1 \in 0 .. k /\ i \in 0 .. k BY <1>1
  <2>2. turn[i - 1] \in Planner!Drafts /\ turn[i] \in Planner!Drafts BY <1>2, <2>1
  <2>3. Begins(turn[i - 1].p, turn[i].p) BY <1>1, <1>2, <2>2, TurnsAdd
  <2>4. turn[i - 1].p \in Seq(Actions) /\ turn[i].p \in Seq(Actions) BY <2>2 DEF Planner!Drafts
  <2>5. Begins(d.p, turn[i].p) BY <1>3, <1>5, <2>3, <2>4, BeginsWith
  <2> QED BY <2>1, <2>5
<1>6. 0 .. k \subseteq T
  <2> HIDE DEF T, k
  <2> QED BY <1>1, <1>4, <1>5, BoundedInduction
<1> QED BY <1>2, <1>6

\* What a node makes of a draft is a draft with a plan that begins like it.
LEMMA BodyTyped ==
  ASSUME Planner!NetworkAssumption, NEW n \in Planner!Nodes, NEW d \in Planner!Drafts, NEW f, CallsAdders(f, n)
  PROVE  Body(f, n, d) \in Planner!Drafts /\ Begins(d.p, Body(f, n, d).p)
<1>0. d.p \in Seq(Actions) /\ d.w \in Worlds /\ Begins(d.p, d.p)
  BY DEF Planner!Drafts, Begins
<1>1. CASE n \in Tasks
  <2>1. PICK turn : IsTrying(turn, f, n, d) /\ AllTried(f, n, d) = turn[Len(MethodsOf[n])]
    BY <1>1, TryingRuns
  <2>2. Len(MethodsOf[n]) \in 0 .. Len(MethodsOf[n])
    <3> MethodsOf[n] \in Seq(Methods) BY <1>1, NodesTyped
    <3> QED OBVIOUS
  <2>3. Body(f, n, d) = AllTried(f, n, d) BY <1>1, NodesTyped DEF Body
  <2> QED BY <1>1, <2>1, <2>2, <2>3, TryingAdds
<1>2. CASE n \in Methods
  <2>1. PICK turn : IsAdding(turn, f, n, d) /\ AllAdded(f, n, d) = turn[Len(SubtasksOf[n])]
    BY <1>2, AddingRuns
  <2>2. Len(SubtasksOf[n]) \in 0 .. Len(SubtasksOf[n])
    <3> SubtasksOf[n] \in Seq(Tasks \cup Actions) BY <1>2, NodesTyped
    <3> QED OBVIOUS
  <2> DEFINE r == AllAdded(f, n, d)
  <2>3. r \in Planner!Drafts /\ Begins(d.p, r.p) BY <1>2, <2>1, <2>2, AddingAdds
  <2>4. Body(f, n, d) = Planner!Undo(r, d.p, d.w) BY <1>2, NodesTyped DEF Body
  <2> HIDE DEF r
  <2>5. CASE r.ok BY <2>3, <2>4, <2>5 DEF Planner!Undo
  <2>6. CASE ~r.ok
    <3>1. r.p \in Seq(Actions) BY <2>3 DEF Planner!Drafts
    <3>2. SubSeq(r.p, 1, Len(d.p)) = d.p BY <1>0, <2>3, <3>1, CutBack
    <3>3. Body(f, n, d) = [ok |-> FALSE, p |-> d.p, w |-> d.w]
      BY <2>4, <2>6, <3>2 DEF Planner!Undo
    <3> QED BY <1>0, <3>3 DEF Planner!Drafts
  <2> QED BY <2>5, <2>6
<1>3. CASE n \in Actions
  <2>1. Body(f, n, d) = Acted(n, d) BY <1>3, NodesTyped DEF Body
  <2>2. Expected[n][Effect[n][d.w]] \in Worlds BY <1>0, <1>3, EffectsTyped
  <2>3. Append(d.p, n) \in Seq(Actions) /\ Begins(d.p, Append(d.p, n))
    BY <1>0, <1>3 DEF Begins
  <2>4. CASE Planner!satisfied(n, d.w)
    <3> Acted(n, d) = [ok |-> TRUE, p |-> Append(d.p, n),
                       w |-> Expected[n][Effect[n][d.w]]]
      BY <2>4 DEF Acted
    <3> QED BY <2>1, <2>2, <2>3 DEF Planner!Drafts
  <2>5. CASE ~Planner!satisfied(n, d.w)
    <3> Acted(n, d) = [d EXCEPT !.ok = FALSE] BY <2>5 DEF Acted
    <3> QED BY <1>0, <2>1 DEF Planner!Drafts
  <2> QED BY <2>4, <2>5
<1> QED BY <1>1, <1>2, <1>3 DEF Planner!Nodes

\* Two planners that agree below a task agree in its loop.
LEMMA TryingAgrees ==
  ASSUME Planner!NetworkAssumption, NEW t \in Tasks, NEW d \in Planner!Drafts,
         NEW f, CallsAdders(f, t), NEW g, CallsAdders(g, t),
         \A i \in 1 .. Len(MethodsOf[t]) : f[MethodsOf[t][i]] = g[MethodsOf[t][i]]
  PROVE  AllTried(f, t, d) = AllTried(g, t, d)
<1> DEFINE k == Len(MethodsOf[t])
<1>1. k \in Nat
  <2> MethodsOf[t] \in Seq(Methods) BY NodesTyped
  <2> QED OBVIOUS
<1>2. PICK a : IsTrying(a, f, t, d) /\ AllTried(f, t, d) = a[k] BY TryingRuns
<1>3. PICK b : IsTrying(b, g, t, d) /\ AllTried(g, t, d) = b[k] BY TryingRuns
<1> DEFINE T == {i \in 0 .. k : a[i] = b[i]}
<1>4. /\ a[0] = b[0]
      /\ \A i \in 1 .. k : a[i] = Tried(f, a[i - 1], MethodsOf[t][i])
      /\ \A i \in 1 .. k : b[i] = Tried(g, b[i - 1], MethodsOf[t][i])
  BY <1>2, <1>3 DEF IsTrying
<1> HIDE DEF k
<1>5. 0 \in T BY <1>1, <1>4
<1>6. ASSUME NEW i \in 1 .. k, i - 1 \in T PROVE i \in T
  <2>1. f[MethodsOf[t][i]] = g[MethodsOf[t][i]] BY DEF k
  <2>2. Tried(f, a[i - 1], MethodsOf[t][i]) = Tried(g, b[i - 1], MethodsOf[t][i])
    BY <1>6, <2>1 DEF Tried
  <2>3. i \in 0 .. k BY <1>1
  <2> QED BY <1>4, <2>2, <2>3
<1>7. 0 .. k \subseteq T
  <2> HIDE DEF T
  <2> QED BY <1>1, <1>5, <1>6, BoundedInduction
<1>8. k \in 0 .. k BY <1>1
<1> QED BY <1>2, <1>3, <1>7, <1>8

\* The same of a method.
LEMMA AddingAgrees ==
  ASSUME Planner!NetworkAssumption, NEW m \in Methods, NEW d \in Planner!Drafts,
         NEW f, CallsAdders(f, m), NEW g, CallsAdders(g, m),
         \A i \in 1 .. Len(SubtasksOf[m]) : f[SubtasksOf[m][i]] = g[SubtasksOf[m][i]]
  PROVE  AllAdded(f, m, d) = AllAdded(g, m, d)
<1> DEFINE k == Len(SubtasksOf[m])
<1>1. k \in Nat
  <2> SubtasksOf[m] \in Seq(Tasks \cup Actions) BY NodesTyped
  <2> QED OBVIOUS
<1>2. PICK a : IsAdding(a, f, m, d) /\ AllAdded(f, m, d) = a[k] BY AddingRuns
<1>3. PICK b : IsAdding(b, g, m, d) /\ AllAdded(g, m, d) = b[k] BY AddingRuns
<1> DEFINE T == {i \in 0 .. k : a[i] = b[i]}
<1>4. /\ a[0] = b[0]
      /\ \A i \in 1 .. k : a[i] = Added(f, a[i - 1], SubtasksOf[m][i])
      /\ \A i \in 1 .. k : b[i] = Added(g, b[i - 1], SubtasksOf[m][i])
  BY <1>2, <1>3 DEF IsAdding
<1> HIDE DEF k
<1>5. 0 \in T BY <1>1, <1>4
<1>6. ASSUME NEW i \in 1 .. k, i - 1 \in T PROVE i \in T
  <2>1. f[SubtasksOf[m][i]] = g[SubtasksOf[m][i]] BY DEF k
  <2>2. Added(f, a[i - 1], SubtasksOf[m][i]) = Added(g, b[i - 1], SubtasksOf[m][i])
    BY <1>6, <2>1 DEF Added
  <2>3. i \in 0 .. k BY <1>1
  <2> QED BY <1>4, <2>2, <2>3
<1>7. 0 .. k \subseteq T
  <2> HIDE DEF T
  <2> QED BY <1>1, <1>5, <1>6, BoundedInduction
<1>8. k \in 0 .. k BY <1>1
<1> QED BY <1>2, <1>3, <1>7, <1>8

\* The planner, as a function of the planner it calls.
PlannerStep == [f \in Planners |-> [n \in Planner!Nodes |-> [d \in Planner!Drafts |-> Body(f, n, d)]]]

\* A planner calls planners.
LEMMA PlannersCall ==
  ASSUME Planner!NetworkAssumption, NEW f \in Planners, NEW n \in Planner!Nodes
  PROVE  CallsAdders(f, n)
<1>1. ASSUME n \in Tasks, NEW i \in DOMAIN MethodsOf[n] PROVE MethodsOf[n][i] \in Planner!Nodes
  <2> MethodsOf[n] \in Seq(Methods) BY <1>1, NodesTyped
  <2> QED BY DEF Planner!Nodes
<1>2. ASSUME n \in Methods, NEW i \in DOMAIN SubtasksOf[n]
    PROVE SubtasksOf[n][i] \in Planner!Nodes
  <2> SubtasksOf[n] \in Seq(Tasks \cup Actions) BY <1>2, NodesTyped
  <2> QED BY DEF Planner!Nodes
<1> QED BY <1>1, <1>2 DEF CallsAdders, Planners

\* The planner calls itself for nodes of a lower rank.
LEMMA PlannerDescends ==
  ASSUME Planner!NetworkAssumption, NEW rank, NEW depth, Planner!Levelled(rank, depth)
  PROVE  CallsLower(PlannerStep, rank, Planner!Nodes, Adders)
<1>1. ASSUME NEW f \in Planners
      PROVE  PlannerStep[f] \in Planners
  <2>1. ASSUME NEW n \in Planner!Nodes PROVE [d \in Planner!Drafts |-> Body(f, n, d)] \in Adders
    <3>1. \A d \in Planner!Drafts : Body(f, n, d) \in Planner!Drafts /\ Begins(d.p, Body(f, n, d).p)
      BY PlannersCall, BodyTyped
    <3> QED BY <3>1 DEF Adders
  <2> QED BY <2>1 DEF PlannerStep, Planners
<1>2. ASSUME NEW f \in Planners, NEW g \in Planners, NEW n \in Planner!Nodes,
             \A y \in Planner!Nodes : rank[y] < rank[n] => f[y] = g[y]
      PROVE  PlannerStep[f][n] = PlannerStep[g][n]
  <2>1. ASSUME NEW d \in Planner!Drafts PROVE Body(f, n, d) = Body(g, n, d)
    <3>0. CallsAdders(f, n) /\ CallsAdders(g, n) BY PlannersCall
    <3>1. CASE n \in Tasks
      <4>1. ASSUME NEW i \in 1 .. Len(MethodsOf[n])
            PROVE  f[MethodsOf[n][i]] = g[MethodsOf[n][i]]
        <5>1. MethodsOf[n] \in Seq(Methods) BY <3>1, NodesTyped
        <5>2. MethodsOf[n][i] \in Planner!Nodes /\ i \in DOMAIN MethodsOf[n]
            BY <5>1 DEF Planner!Nodes
        <5>3. rank[MethodsOf[n][i]] < rank[n] BY <3>1, <5>2 DEF Planner!Levelled
        <5> QED BY <1>2, <5>2, <5>3
      <4>2. AllTried(f, n, d) = AllTried(g, n, d) BY <3>0, <3>1, <4>1, TryingAgrees
      <4> QED BY <3>1, <4>2 DEF Body
    <3>2. CASE n \in Methods
      <4>1. ASSUME NEW i \in 1 .. Len(SubtasksOf[n])
            PROVE  f[SubtasksOf[n][i]] = g[SubtasksOf[n][i]]
        <5>1. SubtasksOf[n] \in Seq(Tasks \cup Actions) BY <3>2, NodesTyped
        <5>2. SubtasksOf[n][i] \in Planner!Nodes /\ i \in DOMAIN SubtasksOf[n]
            BY <5>1 DEF Planner!Nodes
        <5>3. rank[SubtasksOf[n][i]] < rank[n] BY <3>2, <5>2 DEF Planner!Levelled
        <5> QED BY <1>2, <5>2, <5>3
      <4>2. AllAdded(f, n, d) = AllAdded(g, n, d) BY <3>0, <3>2, <4>1, AddingAgrees
      <4> QED BY <3>2, <4>2, NodesTyped DEF Body
    <3>3. CASE n \in Actions
      BY <3>3, NodesTyped DEF Body
    <3> QED BY <3>1, <3>2, <3>3 DEF Planner!Nodes
  <2> QED BY <2>1 DEF PlannerStep
<1>3. PlannerStep \in [Planners -> Planners]
  <2>1. PlannerStep = [f \in Planners |-> PlannerStep[f]] BY DEF PlannerStep
  <2> QED BY <1>1, <2>1
<1> QED BY <1>2, <1>3 DEF CallsLower, Planners

\* The planner satisfies its equation.
LEMMA PlannerIs ==
  ASSUME Planner!NetworkAssumption, NEW rank, NEW depth, Planner!Levelled(rank, depth)
  PROVE  Planner!make_plan_imp = [n \in Planner!Nodes |-> [d \in Planner!Drafts |-> Body(Planner!make_plan_imp, n, d)]]
<1> DEFINE Is(g) == g = [n \in Planner!Nodes |-> [d \in Planner!Drafts |-> Body(g, n, d)]]
<1>1. Planner!make_plan_imp = CHOOSE g : Is(g)
  BY DEF Planner!make_plan_imp, Body, Acted, AllTried, Tried, AllAdded, Added
<1>2. \E f : Is(f)
  <2>1. [n \in Planner!Nodes |-> [d \in Planner!Drafts |-> d]] \in Planners
    <3>1. ASSUME NEW d \in Planner!Drafts PROVE Begins(d.p, d.p)
      <4> d.p \in Seq(Actions) BY DEF Planner!Drafts
      <4> QED BY DEF Begins
    <3>2. [d \in Planner!Drafts |-> d] \in Adders BY <3>1 DEF Adders
    <3> QED BY <3>2 DEF Planners
  <2>2. PICK f \in Planners : f = PlannerStep[f]
    <3> DEFINE start == [n \in Planner!Nodes |-> [d \in Planner!Drafts |-> d]]
               step == PlannerStep
    <3>1. start \in [Planner!Nodes -> Adders] BY <2>1 DEF Planners
    <3>2. depth \in Nat /\ rank \in [Planner!Nodes -> 0 .. depth] BY DEF Planner!Levelled
    <3>3. CallsLower(step, rank, Planner!Nodes, Adders) BY PlannerDescends
    <3> HIDE DEF start, step
    <3>4. \E f \in [Planner!Nodes -> Adders] : f = step[f] BY <3>1, <3>2, <3>3, RankedExists
    <3> QED BY <3>4 DEF Planners, step
  <2>3. Is(f) BY <2>2 DEF PlannerStep
  <2> QED BY <2>3
<1> HIDE DEF Is
<1>3. Is(Planner!make_plan_imp) BY <1>1, <1>2
<1> QED BY <1>3 DEF Is

\* What a node makes of a draft.
LEMMA PlannerAt ==
  ASSUME Planner!NetworkAssumption, NEW rank, NEW depth, Planner!Levelled(rank, depth),
         NEW n \in Planner!Nodes, NEW d \in Planner!Drafts
  PROVE  Planner!make_plan_imp[n][d] = Body(Planner!make_plan_imp, n, d)
<1> DEFINE h == [x \in Planner!Drafts |-> Body(Planner!make_plan_imp, n, x)]
<1>1. Planner!make_plan_imp[n] = h BY PlannerIs
<1>2. h[d] = Body(Planner!make_plan_imp, n, d) OBVIOUS
<1> QED BY <1>1, <1>2

\* The planner makes drafts of drafts.
LEMMA PlannerTyped ==
  ASSUME Planner!NetworkAssumption, NEW rank, NEW depth, Planner!Levelled(rank, depth)
  PROVE  Planner!make_plan_imp \in Planners
<1> DEFINE T == {k \in Nat : \A n \in Planner!Nodes : rank[n] < k => Planner!make_plan_imp[n] \in Adders}
<1>0. \A n \in Planner!Nodes : rank[n] \in Nat /\ rank[n] < depth + 1 /\ depth + 1 \in Nat
  BY DEF Planner!Levelled
<1>1. 0 \in T
  <2> \A n \in Planner!Nodes : ~(rank[n] < 0) BY <1>0
  <2> QED OBVIOUS
<1>2. ASSUME NEW k \in Nat, k \in T PROVE k + 1 \in T
  <2>1. ASSUME NEW n \in Planner!Nodes, rank[n] < k + 1 PROVE Planner!make_plan_imp[n] \in Adders
    <3>1. CallsAdders(Planner!make_plan_imp, n)
      <4>1. ASSUME n \in Tasks, NEW i \in DOMAIN MethodsOf[n]
            PROVE  Planner!make_plan_imp[MethodsOf[n][i]] \in Adders
        <5>1. MethodsOf[n] \in Seq(Methods) BY <4>1, NodesTyped
        <5>2. MethodsOf[n][i] \in Planner!Nodes BY <5>1 DEF Planner!Nodes
        <5>3. rank[MethodsOf[n][i]] < rank[n] BY <4>1 DEF Planner!Levelled
        <5>4. rank[MethodsOf[n][i]] < k BY <1>0, <2>1, <5>2, <5>3
        <5> QED BY <1>2, <5>2, <5>4
      <4>2. ASSUME n \in Methods, NEW i \in DOMAIN SubtasksOf[n]
            PROVE  Planner!make_plan_imp[SubtasksOf[n][i]] \in Adders
        <5>1. SubtasksOf[n] \in Seq(Tasks \cup Actions) BY <4>2, NodesTyped
        <5>2. SubtasksOf[n][i] \in Planner!Nodes BY <5>1 DEF Planner!Nodes
        <5>3. rank[SubtasksOf[n][i]] < rank[n] BY <4>2 DEF Planner!Levelled
        <5>4. rank[SubtasksOf[n][i]] < k BY <1>0, <2>1, <5>2, <5>3
        <5> QED BY <1>2, <5>2, <5>4
      <4> QED BY <4>1, <4>2 DEF CallsAdders
    <3>2. \A d \in Planner!Drafts : /\ Body(Planner!make_plan_imp, n, d) \in Planner!Drafts
                            /\ Begins(d.p, Body(Planner!make_plan_imp, n, d).p)
      BY <3>1, BodyTyped
    <3>3. Planner!make_plan_imp[n] = [d \in Planner!Drafts |-> Body(Planner!make_plan_imp, n, d)] BY PlannerIs
    <3> QED BY <3>2, <3>3 DEF Adders
  <2> QED BY <2>1
<1>3. depth + 1 \in T
  <2> HIDE DEF T
  <2>1. Nat \subseteq T BY <1>1, <1>2, NumberInduction
  <2> QED BY <2>1 DEF Planner!Levelled
<1>4. \A n \in Planner!Nodes : Planner!make_plan_imp[n] \in Adders BY <1>0, <1>3
<1>5. Planner!make_plan_imp = [n \in Planner!Nodes |-> Planner!make_plan_imp[n]]
  BY PlannerIs
<1> QED BY <1>4, <1>5 DEF Planners

-----------------------------------------------------------------------------
(* The ways to carry out a node.                                             *)

Outcomes == [p : Seq(Actions), w : Worlds]

\* The actions of p can be done one after the other from w, each where its
\* predicates hold, and lead to v.
IsCourse(ws, p, w, v) ==
  /\ ws \in [0 .. Len(p) -> Worlds]
  /\ ws[0] = w /\ ws[Len(p)] = v
  /\ \A i \in 1 .. Len(p) :
        Planner!satisfied(p[i], ws[i - 1]) /\ ws[i] = Expected[p[i]][Effect[p[i]][ws[i - 1]]]
Carries(p, w, v) == \E ws : IsCourse(ws, p, w, v)

\* What can be reached from w, and what leads there from every world.
Reached(w) == {a \in Outcomes : Carries(a.p, w, a.w)}
Carriers == {h \in [Worlds -> SUBSET Outcomes] : \A w \in Worlds : h[w] \in SUBSET Reached(w)}

\* No action leads nowhere.
LEMMA CarriesNothing ==
  ASSUME NEW w \in Worlds
  PROVE  [p |-> <<>>, w |-> w] \in Reached(w)
<1>1. IsCourse([i \in 0 .. 0 |-> w], <<>>, w, w) BY DEF IsCourse
<1>2. Carries(<<>>, w, w) BY <1>1 DEF Carries
<1>3. [p |-> <<>>, w |-> w] \in Outcomes BY DEF Outcomes
<1> QED BY <1>2, <1>3 DEF Reached

\* An action leads where its effects do.
LEMMA CarriesAction ==
  ASSUME Planner!NetworkAssumption, NEW a \in Actions, NEW w \in Worlds, Planner!satisfied(a, w)
  PROVE  [p |-> <<a>>, w |-> Expected[a][Effect[a][w]]] \in Reached(w)
<1> DEFINE v == Expected[a][Effect[a][w]]
           ws == [i \in 0 .. 1 |-> IF i = 0 THEN w ELSE v]
           p == <<a>>
<1>0. v \in Worlds BY EffectsTyped
<1>1. Len(p) = 1 /\ p[1] = a /\ p \in Seq(Actions) OBVIOUS
<1>2. ws \in [0 .. 1 -> Worlds] /\ ws[0] = w /\ ws[1] = v BY <1>0
<1>3. ASSUME NEW i \in 1 .. Len(p)
      PROVE  Planner!satisfied(p[i], ws[i - 1]) /\ ws[i] = Expected[p[i]][Effect[p[i]][ws[i - 1]]]
  <2> i = 1 /\ i - 1 = 0 BY <1>1
  <2> HIDE DEF ws, p
  <2> QED BY <1>1, <1>2 DEF v
<1> HIDE DEF ws, p
<1>4. IsCourse(ws, p, w, v) BY <1>1, <1>2, <1>3 DEF IsCourse
<1> HIDE DEF v
<1>5. Carries(p, w, v) BY <1>4 DEF Carries
<1>6. [p |-> p, w |-> v] \in Outcomes BY <1>0, <1>1 DEF Outcomes
<1>7. [p |-> p, w |-> v] \in Reached(w) BY <1>5, <1>6 DEF Reached
<1> QED BY <1>7 DEF p, v

\* One course after another.
LEMMA CarriesBoth ==
  ASSUME NEW w \in Worlds, NEW a \in Reached(w), NEW b \in Reached(a.w)
  PROVE  [p |-> a.p \o b.p, w |-> b.w] \in Reached(w)
<1>0. /\ a.p \in Seq(Actions) /\ a.w \in Worlds /\ b.p \in Seq(Actions) /\ b.w \in Worlds
      /\ Carries(a.p, w, a.w) /\ Carries(b.p, a.w, b.w)
  BY DEF Reached, Outcomes
<1>1. PICK x : IsCourse(x, a.p, w, a.w) BY <1>0 DEF Carries
<1>2. PICK y : IsCourse(y, b.p, a.w, b.w) BY <1>0 DEF Carries
<1> DEFINE m == Len(a.p)
           n == Len(b.p)
           q == a.p \o b.p
           ws == [i \in 0 .. m + n |-> IF i <= m THEN x[i] ELSE y[i - m]]
<1>3. /\ m \in Nat /\ n \in Nat /\ q \in Seq(Actions) /\ Len(q) = m + n
      /\ \A i \in 1 .. m : q[i] = a.p[i]
      /\ \A i \in m + 1 .. m + n : q[i] = b.p[i - m]
  <2>1. m \in Nat /\ n \in Nat BY <1>0
  <2>2. q \in Seq(Actions) /\ Len(q) = m + n BY <1>0
  <2>3. \A i \in 1 .. m + n : q[i] = IF i <= m THEN a.p[i] ELSE b.p[i - m]
    BY <1>0, ConcatProperties
  <2> HIDE DEF m, n, q
  <2> QED BY <2>1, <2>2, <2>3
<1>4. /\ x \in [0 .. m -> Worlds] /\ x[0] = w /\ x[m] = a.w
      /\ \A i \in 1 .. m : /\ Planner!satisfied(a.p[i], x[i - 1])
                           /\ x[i] = Expected[a.p[i]][Effect[a.p[i]][x[i - 1]]]
  BY <1>1 DEF IsCourse
<1>5. /\ y \in [0 .. n -> Worlds] /\ y[0] = a.w /\ y[n] = b.w
      /\ \A i \in 1 .. n : /\ Planner!satisfied(b.p[i], y[i - 1])
                           /\ y[i] = Expected[b.p[i]][Effect[b.p[i]][y[i - 1]]]
  BY <1>2 DEF IsCourse
<1> HIDE DEF m, n, q
<1>6. ws \in [0 .. m + n -> Worlds]
  <2> SUFFICES ASSUME NEW i \in 0 .. m + n
               PROVE  (IF i <= m THEN x[i] ELSE y[i - m]) \in Worlds
    OBVIOUS
  <2>1. CASE i <= m
    <3> i \in 0 .. m BY <1>3, <2>1
    <3> QED BY <1>4, <2>1
  <2>2. CASE ~(i <= m)
    <3> i - m \in 0 .. n BY <1>3, <2>2
    <3> QED BY <1>5, <2>2
  <2> QED BY <2>1, <2>2
<1>7. ws[0] = w BY <1>3, <1>4
<1>8. ws[m + n] = b.w
  <2>1. CASE n = 0 BY <1>3, <1>4, <1>5, <2>1
  <2>2. CASE n # 0
    <3> ~(m + n <= m) /\ (m + n) - m = n /\ m + n \in 0 .. m + n BY <1>3, <2>2
    <3> QED BY <1>5
  <2> QED BY <2>1, <2>2
<1>9. ASSUME NEW i \in 1 .. m + n
      PROVE  Planner!satisfied(q[i], ws[i - 1]) /\ ws[i] = Expected[q[i]][Effect[q[i]][ws[i - 1]]]
  <2>0. i \in 0 .. m + n /\ i - 1 \in 0 .. m + n BY <1>3
  <2>1. CASE i <= m
    <3>1. i \in 1 .. m /\ i - 1 <= m BY <1>3, <2>1
    <3>2. ws[i] = x[i] /\ ws[i - 1] = x[i - 1] BY <2>0, <2>1, <3>1
    <3> HIDE DEF ws
    <3> QED BY <1>3, <1>4, <3>1, <3>2
  <2>2. CASE i = m + 1
    <3>1. i \in m + 1 .. m + n /\ i - m = 1 /\ 1 \in 1 .. n /\ i - 1 = m /\ 1 - 1 = 0
      BY <1>3, <2>2
    <3>2. ws[i] = y[1] /\ ws[i - 1] = x[m]
      <4> ~(i <= m) /\ i - 1 <= m BY <1>3, <2>2
      <4> QED BY <2>0, <3>1
    <3>3. ws[i - 1] = y[0] BY <1>4, <1>5, <3>2
    <3>4. q[i] = b.p[1] BY <1>3, <3>1
    <3> HIDE DEF ws
    <3> QED BY <1>5, <3>1, <3>2, <3>3, <3>4
  <2>3. CASE i > m + 1
    <3>1. /\ i \in m + 1 .. m + n /\ i - m \in 1 .. n /\ ~(i <= m) /\ ~(i - 1 <= m)
          /\ (i - 1) - m = (i - m) - 1
      BY <1>3, <2>3
    <3>2. ws[i] = y[i - m] /\ ws[i - 1] = y[(i - m) - 1] BY <2>0, <3>1
    <3>3. q[i] = b.p[i - m] BY <1>3, <3>1
    <3> HIDE DEF ws
    <3> QED BY <1>5, <3>1, <3>2, <3>3
  <2>4. i <= m \/ i = m + 1 \/ i > m + 1
    <3>1. m \in Nat /\ n \in Nat BY <1>3
    <3> QED BY <3>1
  <2> QED BY <2>1, <2>2, <2>3, <2>4
<1> HIDE DEF ws
<1>10. IsCourse(ws, q, w, b.w) BY <1>3, <1>6, <1>7, <1>8, <1>9 DEF IsCourse
<1>11. Carries(q, w, b.w) BY <1>10 DEF Carries
<1>12. [p |-> q, w |-> b.w] \in Outcomes BY <1>0, <1>3 DEF Outcomes
<1>13. [p |-> q, w |-> b.w] \in Reached(w) BY <1>11, <1>12 DEF Reached
<1> QED BY <1>13 DEF q

\* A turn of the fold over a method's subtasks, and what a node's ways are when
\* those of the nodes below are W.
Onto(h, S) == UNION {{[p |-> a.p \o b.p, w |-> b.w] : b \in h[a.w]} : a \in S}
Extended(W, S, s) == Onto(W[s], S)
AllExtended(W, n, w) ==
  Planner!FoldLeft(LAMBDA S, s : Extended(W, S, s), {[p |-> <<>>, w |-> w]}, SubtasksOf[n])

AnyMethod(W, n, w) == UNION {W[m][w] : m \in {x \in Planner!Range(MethodsOf[n]) : Planner!satisfied(x, w)}}

WayBody(W, n, w) ==
  CASE n \in Tasks   -> AnyMethod(W, n, w)
    [] n \in Methods -> AllExtended(W, n, w)
    [] n \in Actions -> IF Planner!satisfied(n, w)
                        THEN {[p |-> <<n>>, w |-> Expected[n][Effect[n][w]]]}
                        ELSE {}

CallsCarriers(W, n) ==
  /\ n \in Tasks => \A i \in DOMAIN MethodsOf[n] : W[MethodsOf[n][i]] \in Carriers
  /\ n \in Methods => \A i \in DOMAIN SubtasksOf[n] : W[SubtasksOf[n][i]] \in Carriers

IsExtending(turn, W, m, w) ==
  /\ turn \in [0 .. Len(SubtasksOf[m]) -> SUBSET Reached(w)]
  /\ turn[0] = {[p |-> <<>>, w |-> w]}
  /\ \A i \in 1 .. Len(SubtasksOf[m]) : turn[i] = Extended(W, turn[i - 1], SubtasksOf[m][i])

\* What extends a course by a way is a course.
LEMMA ExtendedTyped ==
  ASSUME NEW W, NEW s, W[s] \in Carriers, NEW w \in Worlds, NEW S \in SUBSET Reached(w)
  PROVE  Extended(W, S, s) \in SUBSET Reached(w)
<1>1. ASSUME NEW a \in S, NEW b \in W[s][a.w]
      PROVE  [p |-> a.p \o b.p, w |-> b.w] \in Reached(w)
  <2>1. a \in Reached(w) /\ a.w \in Worlds BY DEF Reached, Outcomes
  <2>2. W[s][a.w] \in SUBSET Reached(a.w) BY <2>1 DEF Carriers
  <2>3. b \in Reached(a.w) BY <2>2
  <2> QED BY <2>1, <2>3, CarriesBoth
<1>2. ASSUME NEW x \in Onto(W[s], S) PROVE x \in Reached(w)
  <2> PICK a \in S : x \in {[p |-> a.p \o b.p, w |-> b.w] : b \in W[s][a.w]} BY DEF Onto
  <2> PICK b \in W[s][a.w] : x = [p |-> a.p \o b.p, w |-> b.w] OBVIOUS
  <2> QED BY <1>1
<1> QED BY <1>2 DEF Extended

\* The fold over the subtasks of a method extends courses in every turn.
LEMMA ExtendingRuns ==
  ASSUME Planner!NetworkAssumption, NEW n \in Methods, NEW w \in Worlds,
         NEW W, CallsCarriers(W, n)
  PROVE  \E turn : /\ IsExtending(turn, W, n, w)
                  /\ AllExtended(W, n, w) = turn[Len(SubtasksOf[n])]
<1> DEFINE s == SubtasksOf[n]
           k == Len(s)
           base == {[p |-> <<>>, w |-> w]}
           V == SUBSET Reached(w)
           last == [t \in SUBSET (1 .. k) |-> Max(t)]
           step == [i \in 1 .. k |-> [v \in V |-> Extended(W, v, s[i])]]
           IsRun(g) ==
             g = [t \in SUBSET (1 .. k) |->
                    IF t = {} THEN base
                    ELSE Extended(W, g[t \ {Max(t)}], s[Max(t)])]
           c == CHOOSE g : IsRun(g)
<1>1. k \in Nat /\ DOMAIN s = 1 .. k
  <2> s \in Seq(Tasks \cup Actions) BY NodesTyped
  <2> QED OBVIOUS
<1>0. base \in V BY CarriesNothing
<1>2. \A v \in V : \A i \in 1 .. k : Extended(W, v, s[i]) \in V
  <2>1. \A i \in 1 .. k : W[s[i]] \in Carriers BY <1>1 DEF CallsCarriers
  <2> QED BY <2>1, ExtendedTyped
<1>9. AllExtended(W, n, w) = c[1 .. k]
  BY <1>1 DEF AllExtended, Planner!FoldLeft, Planner!MapThenFoldSet, Planner!Max, Max
<1>3. step \in StepsOver(1 .. k, V)
  <2> HIDE DEF V, k, s
  <2> QED BY <1>1, <1>2 DEF StepsOver
<1>4. PICK g : IsFold(g, 1 .. k, V, base, step, last)
  <2> HIDE DEF step, V, k, base, s
  <2> QED BY <1>0, <1>1, <1>3, FoldLeftExists
<1>5. /\ g \in [SUBSET (1 .. k) -> V]
      /\ \A t \in SUBSET (1 .. k) :
            g[t] = IF t = {} THEN base ELSE step[Max(t)][g[t \ {Max(t)}]]
  BY <1>4 DEF IsFold
<1>6. ASSUME NEW t \in SUBSET (1 .. k), t # {}
      PROVE  g[t] = Extended(W, g[t \ {Max(t)}], s[Max(t)])
  <2>1. Max(t) \in 1 .. k BY <1>1, <1>6, LastMember
  <2>2. g[t \ {Max(t)}] \in V
    <3> HIDE DEF V, k
    <3> QED BY <1>5
  <2> HIDE DEF V, k, base, s
  <2> QED BY <1>5, <1>6, <2>1, <2>2
<1>7. IsRun(g)
  <2> HIDE DEF V, k, base, s
  <2> QED BY <1>5, <1>6
<1>8. IsRun(c)
  <2> HIDE DEF IsRun
  <2> QED BY <1>7
<1> HIDE DEF c
<1>10. /\ c[{}] = base
       /\ \A t \in SUBSET (1 .. k) : t # {} =>
             c[t] = Extended(W, c[t \ {Max(t)}], s[Max(t)])
  <2> HIDE DEF k, base, s
  <2> QED BY <1>8
<1> HIDE DEF IsRun
<1>11. ASSUME NEW i \in 1 .. k
       PROVE  c[1 .. i] = Extended(W, c[1 .. (i - 1)], s[i])
  <2>1. 1 .. i \in SUBSET (1 .. k) /\ 1 \in 1 .. i BY <1>1
  <2>2. Max(1 .. i) = i /\ (1 .. i) \ {i} = 1 .. (i - 1) BY <1>1, LastIndex
  <2> HIDE DEF k, s
  <2> QED BY <1>10, <2>1, <2>2
<1> DEFINE turn == [i \in 0 .. k |-> c[1 .. i]]
<1>12. turn \in [0 .. k -> V]
  <2>1. ASSUME NEW i \in 1 .. k, c[1 .. (i - 1)] \in V PROVE c[1 .. i] \in V
    <3> HIDE DEF V, k, s
    <3> QED BY <1>1, <1>2, <1>11, <2>1
  <2> HIDE DEF V, k, base, s
  <2>2. \A i \in 0 .. k : c[1 .. i] \in V BY <1>0, <1>1, <1>10, <2>1, FoldLeftTurns
  <2> QED BY <2>2
<1>13. turn[0] = base
  <2> 1 .. 0 = {} OBVIOUS
  <2> HIDE DEF k, base
  <2> QED BY <1>1, <1>10
<1>14. \A i \in 1 .. k : turn[i] = Extended(W, turn[i - 1], s[i])
  <2> \A i \in 1 .. k : i \in 0 .. k /\ i - 1 \in 0 .. k BY <1>1
  <2> HIDE DEF k, s
  <2> QED BY <1>11
<1>15. AllExtended(W, n, w) = turn[k]
  <2> k \in 0 .. k BY <1>1
  <2> HIDE DEF k
  <2> QED BY <1>9
<1> HIDE DEF turn
<1>16. IsExtending(turn, W, n, w) BY <1>12, <1>13, <1>14 DEF IsExtending
<1> QED BY <1>15, <1>16

\* Two that agree below a method agree in its fold.
LEMMA ExtendingAgrees ==
  ASSUME Planner!NetworkAssumption, NEW m \in Methods, NEW w \in Worlds,
         NEW W, CallsCarriers(W, m), NEW X, CallsCarriers(X, m),
         \A i \in 1 .. Len(SubtasksOf[m]) : W[SubtasksOf[m][i]] = X[SubtasksOf[m][i]]
  PROVE  AllExtended(W, m, w) = AllExtended(X, m, w)
<1> DEFINE k == Len(SubtasksOf[m])
<1>1. k \in Nat
  <2> SubtasksOf[m] \in Seq(Tasks \cup Actions) BY NodesTyped
  <2> QED OBVIOUS
<1>2. PICK a : IsExtending(a, W, m, w) /\ AllExtended(W, m, w) = a[k] BY ExtendingRuns
<1>3. PICK b : IsExtending(b, X, m, w) /\ AllExtended(X, m, w) = b[k] BY ExtendingRuns
<1> DEFINE T == {i \in 0 .. k : a[i] = b[i]}
<1>4. /\ a[0] = b[0]
      /\ \A i \in 1 .. k : a[i] = Extended(W, a[i - 1], SubtasksOf[m][i])
      /\ \A i \in 1 .. k : b[i] = Extended(X, b[i - 1], SubtasksOf[m][i])
  BY <1>2, <1>3 DEF IsExtending
<1> HIDE DEF k
<1>5. 0 \in T BY <1>1, <1>4
<1>6. ASSUME NEW i \in 1 .. k, i - 1 \in T PROVE i \in T
  <2>1. W[SubtasksOf[m][i]] = X[SubtasksOf[m][i]] BY DEF k
  <2>2. Extended(W, a[i - 1], SubtasksOf[m][i]) = Extended(X, b[i - 1], SubtasksOf[m][i])
    BY <1>6, <2>1 DEF Extended
  <2>3. i \in 0 .. k BY <1>1
  <2> QED BY <1>4, <2>2, <2>3
<1>7. 0 .. k \subseteq T
  <2> HIDE DEF T
  <2> QED BY <1>1, <1>5, <1>6, BoundedInduction
<1>8. k \in 0 .. k BY <1>1
<1> QED BY <1>2, <1>3, <1>7, <1>8

\* The methods of a task, by their places.
LEMMA MethodsPlaced ==
  ASSUME Planner!NetworkAssumption, NEW t \in Tasks, NEW m \in Planner!Range(MethodsOf[t])
  PROVE  /\ \E i \in DOMAIN MethodsOf[t] : i \in 1 .. Len(MethodsOf[t]) /\ m = MethodsOf[t][i]
         /\ m \in Methods
<1>1. MethodsOf[t] \in Seq(Methods) BY NodesTyped
<1> QED BY <1>1 DEF Planner!Range

\* The ways of a node are courses.
LEMMA WayBodyTyped ==
  ASSUME Planner!NetworkAssumption, NEW n \in Planner!Nodes, NEW w \in Worlds, NEW W, CallsCarriers(W, n)
  PROVE  WayBody(W, n, w) \in SUBSET Reached(w)
<1>1. CASE n \in Tasks
  <2>1. ASSUME NEW m \in Planner!Range(MethodsOf[n]) PROVE W[m][w] \in SUBSET Reached(w)
    <3>1. W[m] \in Carriers BY <1>1, MethodsPlaced DEF CallsCarriers
    <3> QED BY <3>1 DEF Carriers
  <2>2. WayBody(W, n, w) = AnyMethod(W, n, w) BY <1>1, NodesTyped DEF WayBody
  <2> QED BY <2>1, <2>2 DEF AnyMethod
<1>2. CASE n \in Methods
  <2>1. PICK turn : /\ IsExtending(turn, W, n, w)
                    /\ AllExtended(W, n, w) = turn[Len(SubtasksOf[n])]
    BY <1>2, ExtendingRuns
  <2>2. Len(SubtasksOf[n]) \in 0 .. Len(SubtasksOf[n])
    <3> SubtasksOf[n] \in Seq(Tasks \cup Actions) BY <1>2, NodesTyped
    <3> QED OBVIOUS
  <2>3. WayBody(W, n, w) = AllExtended(W, n, w) BY <1>2, NodesTyped DEF WayBody
  <2> QED BY <2>1, <2>2, <2>3 DEF IsExtending
<1>3. CASE n \in Actions
  <2>1. CASE Planner!satisfied(n, w)
    <3>1. [p |-> <<n>>, w |-> Expected[n][Effect[n][w]]] \in Reached(w)
      BY <1>3, <2>1, CarriesAction
    <3>2. WayBody(W, n, w) = {[p |-> <<n>>, w |-> Expected[n][Effect[n][w]]]}
      BY <1>3, <2>1, NodesTyped DEF WayBody
    <3> QED BY <3>1, <3>2
  <2>2. CASE ~Planner!satisfied(n, w)
    <3> WayBody(W, n, w) = {} BY <1>3, <2>2, NodesTyped DEF WayBody
    <3> QED OBVIOUS
  <2> QED BY <2>1, <2>2
<1> QED BY <1>1, <1>2, <1>3 DEF Planner!Nodes

WayTables == [Planner!Nodes -> Carriers]

\* The ways, as a function of the ways they refer to.
WayStep == [W \in WayTables |-> [n \in Planner!Nodes |-> [w \in Worlds |-> WayBody(W, n, w)]]]

\* The ways of all nodes are courses.
LEMMA TablesCall ==
  ASSUME Planner!NetworkAssumption, NEW W \in WayTables, NEW n \in Planner!Nodes
  PROVE  CallsCarriers(W, n)
<1>1. ASSUME n \in Tasks, NEW i \in DOMAIN MethodsOf[n] PROVE MethodsOf[n][i] \in Planner!Nodes
  <2> MethodsOf[n] \in Seq(Methods) BY <1>1, NodesTyped
  <2> QED BY DEF Planner!Nodes
<1>2. ASSUME n \in Methods, NEW i \in DOMAIN SubtasksOf[n]
    PROVE SubtasksOf[n][i] \in Planner!Nodes
  <2> SubtasksOf[n] \in Seq(Tasks \cup Actions) BY <1>2, NodesTyped
  <2> QED BY DEF Planner!Nodes
<1> QED BY <1>1, <1>2 DEF CallsCarriers, WayTables

\* The ways of a node are made of those of nodes of a lower rank.
LEMMA WaysDescend ==
  ASSUME Planner!NetworkAssumption, NEW rank, NEW depth, Planner!Levelled(rank, depth)
  PROVE  CallsLower(WayStep, rank, Planner!Nodes, Carriers)
<1>1. ASSUME NEW W \in WayTables
      PROVE  WayStep[W] \in WayTables
  <2>1. ASSUME NEW n \in Planner!Nodes PROVE [w \in Worlds |-> WayBody(W, n, w)] \in Carriers
    <3>1. \A w \in Worlds : WayBody(W, n, w) \in SUBSET Reached(w)
      BY TablesCall, WayBodyTyped
    <3>2. \A w \in Worlds : Reached(w) \in SUBSET Outcomes BY DEF Reached
    <3> QED BY <3>1, <3>2 DEF Carriers
  <2> QED BY <2>1 DEF WayStep, WayTables
<1>2. ASSUME NEW W \in WayTables, NEW X \in WayTables, NEW n \in Planner!Nodes,
             \A y \in Planner!Nodes : rank[y] < rank[n] => W[y] = X[y]
      PROVE  WayStep[W][n] = WayStep[X][n]
  <2>1. ASSUME NEW w \in Worlds PROVE WayBody(W, n, w) = WayBody(X, n, w)
    <3>0. CallsCarriers(W, n) /\ CallsCarriers(X, n) BY TablesCall
    <3>1. CASE n \in Tasks
      <4>1. ASSUME NEW m \in Planner!Range(MethodsOf[n])
            PROVE  W[m] = X[m]
        <5>1. m \in Planner!Nodes BY <3>1, MethodsPlaced, NodesTyped
        <5>2. rank[m] < rank[n] BY <3>1, MethodsPlaced DEF Planner!Levelled
        <5> QED BY <1>2, <5>1, <5>2
      <4>2. AnyMethod(W, n, w) = AnyMethod(X, n, w) BY <4>1 DEF AnyMethod
      <4> QED BY <3>1, <4>2 DEF WayBody
    <3>2. CASE n \in Methods
      <4>1. ASSUME NEW i \in 1 .. Len(SubtasksOf[n])
            PROVE  W[SubtasksOf[n][i]] = X[SubtasksOf[n][i]]
        <5>1. SubtasksOf[n] \in Seq(Tasks \cup Actions) BY <3>2, NodesTyped
        <5>2. SubtasksOf[n][i] \in Planner!Nodes /\ i \in DOMAIN SubtasksOf[n]
            BY <5>1 DEF Planner!Nodes
        <5>3. rank[SubtasksOf[n][i]] < rank[n] BY <3>2, <5>2 DEF Planner!Levelled
        <5> QED BY <1>2, <5>2, <5>3
      <4>2. AllExtended(W, n, w) = AllExtended(X, n, w)
        BY <3>0, <3>2, <4>1, ExtendingAgrees
      <4> QED BY <3>2, <4>2, NodesTyped DEF WayBody
    <3>3. CASE n \in Actions
      BY <3>3, NodesTyped DEF WayBody
    <3> QED BY <3>1, <3>2, <3>3 DEF Planner!Nodes
  <2> QED BY <2>1 DEF WayStep
<1>3. WayStep \in [WayTables -> WayTables]
  <2>1. WayStep = [W \in WayTables |-> WayStep[W]] BY DEF WayStep
  <2> QED BY <1>1, <2>1
<1> QED BY <1>2, <1>3 DEF CallsLower, WayTables

\* The ways satisfy their equation.
LEMMA WaysAre ==
  ASSUME Planner!NetworkAssumption, NEW rank, NEW depth, Planner!Levelled(rank, depth)
  PROVE  Planner!Ways = [n \in Planner!Nodes |-> [w \in Worlds |-> WayBody(Planner!Ways, n, w)]]
<1> DEFINE Is(g) == g = [n \in Planner!Nodes |-> [w \in Worlds |-> WayBody(g, n, w)]]
<1>1. Planner!Ways = CHOOSE g : Is(g)
  BY DEF Planner!Ways, WayBody, AnyMethod, AllExtended, Extended, Onto
<1>2. \E W : Is(W)
  <2> DEFINE start == [n \in Planner!Nodes |-> [w \in Worlds |-> {}]]
             step == WayStep
  <2>1. start \in [Planner!Nodes -> Carriers] BY DEF Carriers
  <2>2. depth \in Nat /\ rank \in [Planner!Nodes -> 0 .. depth] BY DEF Planner!Levelled
  <2>3. CallsLower(step, rank, Planner!Nodes, Carriers) BY WaysDescend
  <2> HIDE DEF start, step
  <2>4. PICK W \in [Planner!Nodes -> Carriers] : W = step[W] BY <2>1, <2>2, <2>3, RankedExists
  <2>5. W \in WayTables BY <2>4 DEF WayTables
  <2>6. Is(W) BY <2>4, <2>5 DEF WayStep, step
  <2> QED BY <2>6
<1> HIDE DEF Is
<1>3. Is(Planner!Ways) BY <1>1, <1>2
<1> QED BY <1>3 DEF Is

\* The ways of a node.
LEMMA WaysAt ==
  ASSUME Planner!NetworkAssumption, NEW rank, NEW depth, Planner!Levelled(rank, depth),
         NEW n \in Planner!Nodes, NEW w \in Worlds
  PROVE  Planner!Ways[n][w] = WayBody(Planner!Ways, n, w)
<1> DEFINE h == [v \in Worlds |-> WayBody(Planner!Ways, n, v)]
<1>1. Planner!Ways[n] = h BY WaysAre
<1>2. h[w] = WayBody(Planner!Ways, n, w) OBVIOUS
<1> QED BY <1>1, <1>2

\* The actions of a way can be done one after the other.
LEMMA WaysTyped ==
  ASSUME Planner!NetworkAssumption, NEW rank, NEW depth, Planner!Levelled(rank, depth)
  PROVE  Planner!Ways \in WayTables
<1> DEFINE T == {k \in Nat : \A n \in Planner!Nodes : rank[n] < k => Planner!Ways[n] \in Carriers}
<1>0. \A n \in Planner!Nodes : rank[n] \in Nat /\ rank[n] < depth + 1 /\ depth + 1 \in Nat
  BY DEF Planner!Levelled
<1>1. 0 \in T
  <2> \A n \in Planner!Nodes : ~(rank[n] < 0) BY <1>0
  <2> QED OBVIOUS
<1>2. ASSUME NEW k \in Nat, k \in T PROVE k + 1 \in T
  <2>1. ASSUME NEW n \in Planner!Nodes, rank[n] < k + 1 PROVE Planner!Ways[n] \in Carriers
    <3>1. CallsCarriers(Planner!Ways, n)
      <4>1. ASSUME n \in Tasks, NEW i \in DOMAIN MethodsOf[n]
            PROVE  Planner!Ways[MethodsOf[n][i]] \in Carriers
        <5>1. MethodsOf[n] \in Seq(Methods) BY <4>1, NodesTyped
        <5>2. MethodsOf[n][i] \in Planner!Nodes BY <5>1 DEF Planner!Nodes
        <5>3. rank[MethodsOf[n][i]] < rank[n] BY <4>1 DEF Planner!Levelled
        <5>4. rank[MethodsOf[n][i]] < k BY <1>0, <2>1, <5>2, <5>3
        <5> QED BY <1>2, <5>2, <5>4
      <4>2. ASSUME n \in Methods, NEW i \in DOMAIN SubtasksOf[n]
            PROVE  Planner!Ways[SubtasksOf[n][i]] \in Carriers
        <5>1. SubtasksOf[n] \in Seq(Tasks \cup Actions) BY <4>2, NodesTyped
        <5>2. SubtasksOf[n][i] \in Planner!Nodes BY <5>1 DEF Planner!Nodes
        <5>3. rank[SubtasksOf[n][i]] < rank[n] BY <4>2 DEF Planner!Levelled
        <5>4. rank[SubtasksOf[n][i]] < k BY <1>0, <2>1, <5>2, <5>3
        <5> QED BY <1>2, <5>2, <5>4
      <4> QED BY <4>1, <4>2 DEF CallsCarriers
    <3>2. \A w \in Worlds : WayBody(Planner!Ways, n, w) \in SUBSET Reached(w)
      BY <3>1, WayBodyTyped
    <3>3. \A w \in Worlds : Reached(w) \in SUBSET Outcomes BY DEF Reached
    <3>4. Planner!Ways[n] = [w \in Worlds |-> WayBody(Planner!Ways, n, w)] BY WaysAre
    <3> QED BY <3>2, <3>3, <3>4 DEF Carriers
  <2> QED BY <2>1
<1>3. depth + 1 \in T
  <2> HIDE DEF T
  <2>1. Nat \subseteq T BY <1>1, <1>2, NumberInduction
  <2> QED BY <2>1 DEF Planner!Levelled
<1>4. \A n \in Planner!Nodes : Planner!Ways[n] \in Carriers BY <1>0, <1>3
<1>5. Planner!Ways = [n \in Planner!Nodes |-> Planner!Ways[n]] BY WaysAre
<1> QED BY <1>4, <1>5 DEF WayTables

-----------------------------------------------------------------------------
(* What the planner makes of a draft is one of the ways of its node.         *)

\* The draft r is d after one of the ways S, or d as it was.
DoneBy(S, d, r) == r.ok /\ \E a \in S : r.p = d.p \o a.p /\ r.w = a.w
LeftAs(d, r) == ~r.ok /\ r.p = d.p /\ r.w = d.w

Sound(n, d) ==
  \/ DoneBy(Planner!Ways[n][d.w], d, Planner!make_plan_imp[n][d])
  \/ LeftAs(d, Planner!make_plan_imp[n][d])

\* A task is carried out by one of its methods, or not at all.
LEMMA TaskSound ==
  ASSUME Planner!NetworkAssumption, NEW rank, NEW depth, Planner!Levelled(rank, depth),
         NEW t \in Tasks, NEW d \in Planner!Drafts,
         \A i \in 1 .. Len(MethodsOf[t]) : \A e \in Planner!Drafts : Sound(MethodsOf[t][i], e)
  PROVE  Sound(t, d)
<1> DEFINE k == Len(MethodsOf[t])
           S == Planner!Ways[t][d.w]
<1>0. t \in Planner!Nodes /\ d.w \in Worlds /\ Planner!make_plan_imp \in Planners
  BY PlannerTyped, NodesTyped DEF Planner!Drafts
<1>1. MethodsOf[t] \in Seq(Methods) /\ k \in Nat BY NodesTyped
<1>2. CallsAdders(Planner!make_plan_imp, t) BY <1>0, PlannersCall
<1>3. PICK turn : /\ IsTrying(turn, Planner!make_plan_imp, t, d)
                  /\ AllTried(Planner!make_plan_imp, t, d) = turn[k]
  BY <1>2, TryingRuns
<1>4. /\ turn[0] = [d EXCEPT !.ok = FALSE]
      /\ turn \in [0 .. k -> Planner!Drafts]
      /\ \A i \in 1 .. k : turn[i] = Tried(Planner!make_plan_imp, turn[i - 1], MethodsOf[t][i])
  BY <1>3 DEF IsTrying
<1>5. S = AnyMethod(Planner!Ways, t, d.w)
  <2> S = WayBody(Planner!Ways, t, d.w) BY <1>0, WaysAt
  <2> QED BY NodesTyped DEF WayBody
<1> DEFINE T == {i \in 0 .. k : DoneBy(S, d, turn[i]) \/ LeftAs(d, turn[i])}
<1> HIDE DEF k, S
<1>6. 0 \in T
  <2> LeftAs(d, turn[0]) BY <1>4 DEF LeftAs, Planner!Drafts
  <2> QED BY <1>1
<1>7. ASSUME NEW i \in 1 .. k, i - 1 \in T PROVE i \in T
  <2> DEFINE m == MethodsOf[t][i]
             r == turn[i - 1]
  <2>0. i \in 0 .. k /\ i - 1 \in 0 .. k BY <1>1
  <2>1. r \in Planner!Drafts /\ turn[i] = Tried(Planner!make_plan_imp, r, m) BY <1>4, <2>0
  <2>2. CASE r.ok \/ ~Planner!satisfied(m, r.w)
    <3> turn[i] = r BY <2>1, <2>2 DEF Tried
    <3> QED BY <1>7, <2>0
  <2>3. CASE ~r.ok /\ Planner!satisfied(m, r.w)
    <3>1. LeftAs(d, r) BY <1>7, <2>3 DEF DoneBy
    <3>2. r.p = d.p /\ r.w = d.w BY <3>1 DEF LeftAs
    <3>3. turn[i] = Planner!make_plan_imp[m][r] BY <2>1, <2>3 DEF Tried
    <3>4. Sound(m, r) BY <2>1 DEF k
    <3>5. CASE DoneBy(Planner!Ways[m][r.w], r, Planner!make_plan_imp[m][r])
      <4>1. m \in Planner!Range(MethodsOf[t])
        <5> i \in DOMAIN MethodsOf[t] BY <1>1 DEF k
        <5> QED BY DEF Planner!Range
      <4>2. Planner!Ways[m][d.w] \subseteq S BY <1>5, <2>3, <3>2, <4>1 DEF AnyMethod
      <4> HIDE DEF r, m
      <4>3. DoneBy(S, d, turn[i]) BY <3>2, <3>3, <3>5, <4>2 DEF DoneBy
      <4> QED BY <2>0, <4>3
    <3>6. CASE LeftAs(r, Planner!make_plan_imp[m][r])
      <4> HIDE DEF r, m
      <4>1. LeftAs(d, turn[i]) BY <3>2, <3>3, <3>6 DEF LeftAs
      <4> QED BY <2>0, <4>1
    <3> QED BY <3>4, <3>5, <3>6 DEF Sound
  <2> QED BY <2>2, <2>3
<1>8. k \in T
  <2> HIDE DEF T
  <2>1. 0 .. k \subseteq T BY <1>1, <1>6, <1>7, BoundedInduction
  <2> QED BY <1>1, <2>1
<1>9. Planner!make_plan_imp[t][d] = turn[k]
  <2> Planner!make_plan_imp[t][d] = Body(Planner!make_plan_imp, t, d) BY <1>0, PlannerAt
  <2> QED BY <1>3, NodesTyped DEF Body
<1> QED BY <1>8, <1>9 DEF Sound, S

\* Onto has what it is built of.
LEMMA OntoHolds ==
  ASSUME NEW h, NEW S, NEW a \in S, NEW b \in h[a.w]
  PROVE  [p |-> a.p \o b.p, w |-> b.w] \in Onto(h, S)
<1>1. [p |-> a.p \o b.p, w |-> b.w] \in {[p |-> a.p \o x.p, w |-> x.w] : x \in h[a.w]}
  OBVIOUS
<1> QED BY <1>1 DEF Onto

\* A method is carried out by its subtasks in their order; when one fails the
\* plan is what it was.
LEMMA MethodSound ==
  ASSUME Planner!NetworkAssumption, NEW rank, NEW depth, Planner!Levelled(rank, depth),
         NEW m \in Methods, NEW d \in Planner!Drafts,
         \A i \in 1 .. Len(SubtasksOf[m]) : \A e \in Planner!Drafts : Sound(SubtasksOf[m][i], e)
  PROVE  Sound(m, d)
<1> DEFINE k == Len(SubtasksOf[m])
<1>0. /\ m \in Planner!Nodes /\ d.w \in Worlds /\ d.p \in Seq(Actions)
      /\ Planner!make_plan_imp \in Planners /\ Planner!Ways \in WayTables
  BY PlannerTyped, WaysTyped, NodesTyped DEF Planner!Drafts
<1>1. SubtasksOf[m] \in Seq(Tasks \cup Actions) /\ k \in Nat BY NodesTyped
<1>2. CallsAdders(Planner!make_plan_imp, m) /\ CallsCarriers(Planner!Ways, m)
  BY <1>0, PlannersCall, TablesCall
<1>3. PICK turn : /\ IsAdding(turn, Planner!make_plan_imp, m, d)
                  /\ AllAdded(Planner!make_plan_imp, m, d) = turn[k]
  BY <1>2, AddingRuns
<1>4. /\ turn[0] = [d EXCEPT !.ok = TRUE]
      /\ turn \in [0 .. k -> Planner!Drafts]
      /\ \A i \in 1 .. k : turn[i] = Added(Planner!make_plan_imp, turn[i - 1], SubtasksOf[m][i])
  BY <1>3 DEF IsAdding
<1>5. PICK ways : /\ IsExtending(ways, Planner!Ways, m, d.w)
                  /\ AllExtended(Planner!Ways, m, d.w) = ways[k]
  BY <1>0, <1>2, ExtendingRuns
<1>6. /\ ways[0] = {[p |-> <<>>, w |-> d.w]}
      /\ ways \in [0 .. k -> SUBSET Reached(d.w)]
      /\ \A i \in 1 .. k : ways[i] = Extended(Planner!Ways, ways[i - 1], SubtasksOf[m][i])
  BY <1>5 DEF IsExtending
<1>7. turn[k] \in Planner!Drafts /\ Begins(d.p, turn[k].p)
  <2> k \in 0 .. k BY <1>1
  <2> QED BY <1>2, <1>3, AddingAdds
<1> DEFINE T == {i \in 0 .. k : turn[i].ok => DoneBy(ways[i], d, turn[i])}
<1> HIDE DEF k
<1>8. 0 \in T
  <2>1. [p |-> <<>>, w |-> d.w].p = <<>> /\ [p |-> <<>>, w |-> d.w].w = d.w OBVIOUS
  <2>2. turn[0].p = d.p /\ turn[0].w = d.w /\ turn[0].ok BY <1>4 DEF Planner!Drafts
  <2>3. d.p = d.p \o <<>> BY <1>0
  <2>4. DoneBy(ways[0], d, turn[0]) BY <1>6, <2>1, <2>2, <2>3 DEF DoneBy
  <2> QED BY <1>1, <2>4
<1>9. ASSUME NEW i \in 1 .. k, i - 1 \in T PROVE i \in T
  <2> DEFINE s == SubtasksOf[m][i]
             r == turn[i - 1]
             S == ways[i - 1]
  <2>0. i \in 0 .. k /\ i - 1 \in 0 .. k BY <1>1
  <2>1. /\ r \in Planner!Drafts /\ turn[i] = Added(Planner!make_plan_imp, r, s)
        /\ S \in SUBSET Reached(d.w) /\ ways[i] = Extended(Planner!Ways, S, s)
    BY <1>4, <1>6, <2>0
  <2>2. r.ok => DoneBy(S, d, r) BY <1>9
  <2>3. Sound(s, r) BY <2>1 DEF k
  <2>4. Planner!Ways[s] \in Carriers
    <3> i \in DOMAIN SubtasksOf[m] BY <1>1 DEF k
    <3> QED BY <1>2 DEF CallsCarriers
  <2> HIDE DEF s, r, S
  <2>5. ASSUME turn[i].ok PROVE DoneBy(ways[i], d, turn[i])
    <3>1. r.ok /\ turn[i] = Planner!make_plan_imp[s][r] BY <2>1, <2>5 DEF Added
    <3>2. PICK a \in S : r.p = d.p \o a.p /\ r.w = a.w BY <2>2, <3>1 DEF DoneBy
    <3>3. DoneBy(Planner!Ways[s][r.w], r, turn[i]) BY <2>3, <2>5, <3>1 DEF Sound, LeftAs
    <3>4. PICK b \in Planner!Ways[s][a.w] : turn[i].p = r.p \o b.p /\ turn[i].w = b.w
      BY <3>2, <3>3 DEF DoneBy
    <3>5. a.p \in Seq(Actions) /\ a.w \in Worlds
      BY <2>1 DEF Reached, Outcomes
    <3>6. b.p \in Seq(Actions)
      <4> Planner!Ways[s][a.w] \in SUBSET Outcomes BY <2>4, <3>5 DEF Carriers
      <4> QED BY DEF Outcomes
    <3> DEFINE c == [p |-> a.p \o b.p, w |-> b.w]
    <3>7. c \in ways[i]
      <4> c \in Onto(Planner!Ways[s], S) BY OntoHolds
      <4> HIDE DEF c
      <4> QED BY <2>1 DEF Extended
    <3>8. turn[i].p = d.p \o (a.p \o b.p)
      <4>1. (d.p \o a.p) \o b.p = d.p \o (a.p \o b.p)
        <5>1. ASSUME NEW x \in Seq(Actions), NEW y \in Seq(Actions), NEW z \in Seq(Actions)
              PROVE  (x \o y) \o z = x \o (y \o z)
          BY ConcatAssociative
        <5> QED BY <1>0, <3>5, <3>6, <5>1
      <4> QED BY <3>2, <3>4, <4>1
    <3>9. turn[i].p = d.p \o c.p /\ turn[i].w = c.w BY <3>4, <3>8
    <3> HIDE DEF c
    <3> QED BY <2>5, <3>7, <3>9 DEF DoneBy
  <2> QED BY <2>0, <2>5
<1>10. k \in T
  <2> HIDE DEF T
  <2>1. 0 .. k \subseteq T BY <1>1, <1>8, <1>9, BoundedInduction
  <2> QED BY <1>1, <2>1
<1> DEFINE r == turn[k]
<1>11. Planner!make_plan_imp[m][d] = Planner!Undo(r, d.p, d.w)
  <2> Planner!make_plan_imp[m][d] = Body(Planner!make_plan_imp, m, d) BY <1>0, PlannerAt
  <2> QED BY <1>3, NodesTyped DEF Body
<1>12. Planner!Ways[m][d.w] = ways[k]
  <2> Planner!Ways[m][d.w] = WayBody(Planner!Ways, m, d.w) BY <1>0, WaysAt
  <2> QED BY <1>5, NodesTyped DEF WayBody
<1>13. r \in Planner!Drafts /\ Begins(d.p, r.p) /\ (r.ok => DoneBy(ways[k], d, r))
  BY <1>7, <1>10
<1> HIDE DEF r
<1>14. CASE r.ok
  <2> Planner!make_plan_imp[m][d] = r BY <1>11, <1>14 DEF Planner!Undo
  <2> QED BY <1>12, <1>13, <1>14 DEF Sound
<1>15. CASE ~r.ok
  <2>1. r.p \in Seq(Actions) BY <1>13 DEF Planner!Drafts
  <2>2. SubSeq(r.p, 1, Len(d.p)) = d.p BY <1>0, <1>13, <2>1, CutBack
  <2>3. Planner!make_plan_imp[m][d] = [ok |-> FALSE, p |-> d.p, w |-> d.w]
    BY <1>11, <1>15, <2>2 DEF Planner!Undo
  <2> QED BY <2>3 DEF Sound, LeftAs
<1> QED BY <1>14, <1>15

\* An action whose predicates hold is added to the plan.
LEMMA ActionSound ==
  ASSUME Planner!NetworkAssumption, NEW rank, NEW depth, Planner!Levelled(rank, depth),
         NEW n \in Actions, NEW d \in Planner!Drafts
  PROVE  Sound(n, d)
<1>0. n \in Planner!Nodes /\ d.w \in Worlds /\ d.p \in Seq(Actions)
    BY NodesTyped DEF Planner!Drafts
<1>1. Planner!make_plan_imp[n][d] = Acted(n, d)
  <2> Planner!make_plan_imp[n][d] = Body(Planner!make_plan_imp, n, d) BY <1>0, PlannerAt
  <2> QED BY NodesTyped DEF Body
<1>2. Planner!Ways[n][d.w] = WayBody(Planner!Ways, n, d.w) BY <1>0, WaysAt
<1>3. CASE Planner!satisfied(n, d.w)
  <2> DEFINE a == [p |-> <<n>>, w |-> Expected[n][Effect[n][d.w]]]
  <2>1. Planner!Ways[n][d.w] = {a} BY <1>2, <1>3, NodesTyped DEF WayBody
  <2>2. Planner!make_plan_imp[n][d] = [ok |-> TRUE, p |-> Append(d.p, n),
                               w |-> Expected[n][Effect[n][d.w]]]
    BY <1>1, <1>3 DEF Acted
  <2>3. Append(d.p, n) = d.p \o <<n>> BY <1>0, AppendIsConcat
  <2>4. Planner!make_plan_imp[n][d].p = d.p \o a.p /\ Planner!make_plan_imp[n][d].w = a.w /\ Planner!make_plan_imp[n][d].ok
    BY <2>2, <2>3
  <2> HIDE DEF a
  <2> QED BY <2>1, <2>4 DEF Sound, DoneBy
<1>4. CASE ~Planner!satisfied(n, d.w)
  <2>1. Planner!make_plan_imp[n][d] = [d EXCEPT !.ok = FALSE] BY <1>1, <1>4 DEF Acted
  <2>2. /\ Planner!make_plan_imp[n][d].p = d.p /\ Planner!make_plan_imp[n][d].w = d.w
        /\ ~Planner!make_plan_imp[n][d].ok
    BY <2>1 DEF Planner!Drafts
  <2> QED BY <2>2 DEF Sound, LeftAs
<1> QED BY <1>3, <1>4

\* Every node is sound, by induction over the ranks.
LEMMA NodesSound ==
  ASSUME Planner!NetworkAssumption, NEW rank, NEW depth, Planner!Levelled(rank, depth),
         NEW n \in Planner!Nodes, NEW d \in Planner!Drafts
  PROVE  Sound(n, d)
<1> DEFINE T == {k \in Nat : \A x \in Planner!Nodes : rank[x] < k => \A e \in Planner!Drafts : Sound(x, e)}
<1>0. \A x \in Planner!Nodes : rank[x] \in Nat /\ rank[x] < depth + 1 /\ depth + 1 \in Nat
  BY DEF Planner!Levelled
<1>1. 0 \in T
  <2> \A x \in Planner!Nodes : ~(rank[x] < 0) BY <1>0
  <2> QED OBVIOUS
<1>2. ASSUME NEW k \in Nat, k \in T PROVE k + 1 \in T
  <2>1. ASSUME NEW x \in Planner!Nodes, rank[x] < k + 1, NEW e \in Planner!Drafts
      PROVE Sound(x, e)
    <3>1. CASE x \in Tasks
      <4>1. ASSUME NEW i \in 1 .. Len(MethodsOf[x])
            PROVE  \A c \in Planner!Drafts : Sound(MethodsOf[x][i], c)
        <5>1. MethodsOf[x] \in Seq(Methods) BY <3>1, NodesTyped
        <5>2. MethodsOf[x][i] \in Planner!Nodes /\ i \in DOMAIN MethodsOf[x]
            BY <5>1 DEF Planner!Nodes
        <5>3. rank[MethodsOf[x][i]] < rank[x] BY <3>1, <5>2 DEF Planner!Levelled
        <5>4. rank[MethodsOf[x][i]] < k BY <1>0, <2>1, <5>2, <5>3
        <5> QED BY <1>2, <5>2, <5>4
      <4> QED BY <3>1, <4>1, TaskSound
    <3>2. CASE x \in Methods
      <4>1. ASSUME NEW i \in 1 .. Len(SubtasksOf[x])
            PROVE  \A c \in Planner!Drafts : Sound(SubtasksOf[x][i], c)
        <5>1. SubtasksOf[x] \in Seq(Tasks \cup Actions) BY <3>2, NodesTyped
        <5>2. SubtasksOf[x][i] \in Planner!Nodes /\ i \in DOMAIN SubtasksOf[x]
            BY <5>1 DEF Planner!Nodes
        <5>3. rank[SubtasksOf[x][i]] < rank[x] BY <3>2, <5>2 DEF Planner!Levelled
        <5>4. rank[SubtasksOf[x][i]] < k BY <1>0, <2>1, <5>2, <5>3
        <5> QED BY <1>2, <5>2, <5>4
      <4> QED BY <3>2, <4>1, MethodSound
    <3>3. CASE x \in Actions BY <3>3, ActionSound
    <3> QED BY <3>1, <3>2, <3>3 DEF Planner!Nodes
  <2> QED BY <2>1
<1>3. depth + 1 \in T
  <2> HIDE DEF T
  <2>1. Nat \subseteq T BY <1>1, <1>2, NumberInduction
  <2> QED BY <2>1 DEF Planner!Levelled
<1> QED BY <1>0, <1>3

-----------------------------------------------------------------------------
(* Plans that are made.                                                      *)

\* A plan that can be carried out from the world w when actions do what their
\* effects do and nothing else.
IsRunnable(ws, p, w) ==
  /\ ws \in [0 .. Len(p) -> Worlds]
  /\ ws[0] = w
  /\ \A i \in 1 .. Len(p) : Planner!satisfied(p[i], ws[i - 1]) /\ ws[i] = Effect[p[i]][ws[i - 1]]
Runnable(p, w) == \E ws : IsRunnable(ws, p, w)

ExpectsNothing(p) == \A i \in DOMAIN p : \A w \in Worlds : Expected[p[i]][w] = w
Beginning(w) == [ok |-> FALSE, p |-> <<>>, w |-> w]

\* What make_plan leaves is a plan, one of the ways of the task if it succeeds,
\* nothing if it does not, and runs through if it expects nothing.
IsMade(r, t, w) ==
  /\ r.p \in Seq(Actions)
  /\ IF r.ok THEN \E a \in Planner!Ways[t][w] : a.p = r.p ELSE r.p = <<>>
  /\ ExpectsNothing(r.p) => Runnable(r.p, w)

\* The empty plan runs through.
LEMMA NothingRunnable ==
  ASSUME NEW w \in Worlds
  PROVE  Runnable(<<>>, w)
<1>1. IsRunnable([i \in 0 .. 0 |-> w], <<>>, w) BY DEF IsRunnable
<1> QED BY <1>1 DEF Runnable

\* A course of actions that expect nothing beyond their effects is one of the
\* effects alone.
LEMMA CourseRunnable ==
  ASSUME Planner!NetworkAssumption, NEW w \in Worlds, NEW p \in Seq(Actions), NEW v,
         Carries(p, w, v), ExpectsNothing(p)
  PROVE  Runnable(p, w)
<1>1. PICK ws : IsCourse(ws, p, w, v) BY DEF Carries
<1>2. ASSUME NEW i \in 1 .. Len(p)
      PROVE  Planner!satisfied(p[i], ws[i - 1]) /\ ws[i] = Effect[p[i]][ws[i - 1]]
  <2>1. Planner!satisfied(p[i], ws[i - 1]) /\ ws[i] = Expected[p[i]][Effect[p[i]][ws[i - 1]]]
    BY <1>1 DEF IsCourse
  <2>2. ws[i - 1] \in Worlds
    <3> i - 1 \in 0 .. Len(p) OBVIOUS
    <3> QED BY <1>1 DEF IsCourse
  <2>3. p[i] \in Actions /\ i \in DOMAIN p OBVIOUS
  <2>4. Effect[p[i]][ws[i - 1]] \in Worlds BY <2>2, <2>3, EffectsTyped
  <2>5. Expected[p[i]][Effect[p[i]][ws[i - 1]]] = Effect[p[i]][ws[i - 1]]
    BY <2>3, <2>4 DEF ExpectsNothing
  <2> QED BY <2>1, <2>5
<1>3. IsRunnable(ws, p, w) BY <1>1, <1>2 DEF IsCourse, IsRunnable
<1> QED BY <1>3 DEF Runnable

\* What the planner makes of nothing.
LEMMA PlansAreMade ==
  ASSUME Planner!NetworkAssumption, Layered, NEW t \in Tasks, NEW w \in Worlds
  PROVE  IsMade(Planner!make_plan_imp[t][Beginning(w)], t, w)
<1> DEFINE d == Beginning(w)
           r == Planner!make_plan_imp[t][d]
<1>0. PICK rank, depth : Planner!Levelled(rank, depth) BY DEF Layered
<1>1. t \in Planner!Nodes /\ d \in Planner!Drafts /\ d.p = <<>> /\ d.w = w
  BY NodesTyped DEF Beginning, Planner!Drafts
<1>2. r \in Planner!Drafts
  <2> Planner!make_plan_imp[t] \in Adders BY <1>0, <1>1, PlannerTyped DEF Planners
  <2> QED BY <1>1 DEF Adders
<1>3. r.p \in Seq(Actions) BY <1>2 DEF Planner!Drafts
<1>4. Sound(t, d) BY <1>0, <1>1, NodesSound
<1> HIDE DEF d
<1>5. CASE DoneBy(Planner!Ways[t][d.w], d, r)
  <2>1. PICK a \in Planner!Ways[t][w] : r.p = <<>> \o a.p /\ r.w = a.w BY <1>1, <1>5 DEF DoneBy
  <2>2. a \in Reached(w)
    <3> Planner!Ways[t] \in Carriers BY <1>0, <1>1, WaysTyped DEF WayTables
    <3> QED BY DEF Carriers
  <2>3. a.p \in Seq(Actions) /\ Carries(a.p, w, a.w) BY <2>2 DEF Reached, Outcomes
  <2>4. r.p = a.p BY <2>1, <2>3
  <2>5. r.ok BY <1>5 DEF DoneBy
  <2> HIDE DEF r
  <2>6. ExpectsNothing(r.p) => Runnable(r.p, w) BY <2>3, <2>4, CourseRunnable
  <2> QED BY <1>3, <2>4, <2>5, <2>6 DEF IsMade, r, d
<1>6. CASE LeftAs(d, r)
  <2> r.p = <<>> /\ ~r.ok BY <1>1, <1>6 DEF LeftAs
  <2> QED BY <1>3, NothingRunnable DEF IsMade, r, d
<1> QED BY <1>4, <1>5, <1>6 DEF Sound

\* What a step that makes a plan leaves.
LEMMA MakePlanMakes ==
  ASSUME Planner!NetworkAssumption, Layered, Planner!TypeOK, NEW t \in Tasks, Planner!make_plan(t)
  PROVE  /\ plan' \in Seq(Actions)
         /\ told' = "planned" => \E r \in Planner!Ways[t][world] : r.p = plan'
         /\ told' \in {"planned", "no plan"}
         /\ told' = "no plan" => plan' = <<>>
         /\ trust' \in BOOLEAN
         /\ trust' => Runnable(plan', world)
<1> DEFINE r == Planner!make_plan_imp[t][Beginning(world)]
<1>1. IsMade(r, t, world) BY PlansAreMade DEF Planner!TypeOK
<1>2. /\ plan' = r.p
      /\ told' = IF r.ok THEN "planned" ELSE "no plan"
      /\ trust' = ExpectsNothing(r.p)
  BY DEF Planner!make_plan, Beginning, ExpectsNothing
<1> HIDE DEF r
<1>3. trust' \in BOOLEAN BY <1>2 DEF ExpectsNothing
<1> QED BY <1>1, <1>2, <1>3 DEF IsMade

\* What is left of a plan when its first action is done.
LEMMA RunnableTail ==
  ASSUME NEW w \in Worlds, NEW p \in Seq(Actions), p # <<>>, Runnable(p, w)
  PROVE  Planner!satisfied(Head(p), w) /\ Runnable(Tail(p), Effect[Head(p)][w])
<1>1. PICK ws : IsRunnable(ws, p, w) BY DEF Runnable
<1>2. Len(p) \in Nat \ {0} /\ Head(p) = p[1] /\ Tail(p) \in Seq(Actions) BY EmptySeq
<1>3. Len(Tail(p)) = Len(p) - 1 /\ \A i \in 1 .. Len(p) - 1 : Tail(p)[i] = p[i + 1]
  BY <1>2
<1> DEFINE n == Len(p)
           vs == [i \in 0 .. n - 1 |-> ws[i + 1]]
<1>4. /\ ws \in [0 .. n -> Worlds] /\ ws[0] = w
      /\ \A i \in 1 .. n : Planner!satisfied(p[i], ws[i - 1]) /\ ws[i] = Effect[p[i]][ws[i - 1]]
  BY <1>1 DEF IsRunnable
<1> HIDE DEF n
<1>5. n \in Nat /\ 1 \in 1 .. n /\ 1 - 1 = 0 BY <1>2 DEF n
<1>6. Planner!satisfied(p[1], w) /\ ws[1] = Effect[p[1]][w] BY <1>4, <1>5
<1>7. vs \in [0 .. n - 1 -> Worlds]
  <2> \A i \in 0 .. n - 1 : i + 1 \in 0 .. n BY <1>5
  <2> QED BY <1>4
<1>8. vs[0] = ws[1] BY <1>5
<1>9. ASSUME NEW i \in 1 .. n - 1
      PROVE  /\ Planner!satisfied(Tail(p)[i], vs[i - 1])
             /\ vs[i] = Effect[Tail(p)[i]][vs[i - 1]]
  <2>1. i + 1 \in 1 .. n /\ i \in 0 .. n - 1 /\ i - 1 \in 0 .. n - 1 BY <1>5
  <2>2. (i + 1) - 1 = i /\ (i - 1) + 1 = i BY <1>5
  <2>3. vs[i] = ws[i + 1] /\ vs[i - 1] = ws[i] BY <2>1, <2>2
  <2>4. Tail(p)[i] = p[i + 1] BY <1>3 DEF n
  <2> HIDE DEF vs
  <2> QED BY <1>4, <2>1, <2>2, <2>3, <2>4
<1> HIDE DEF vs
<1>10. IsRunnable(vs, Tail(p), Effect[p[1]][w])
  BY <1>3, <1>6, <1>7, <1>8, <1>9 DEF IsRunnable, n
<1> QED BY <1>2, <1>6, <1>10 DEF Runnable

-----------------------------------------------------------------------------
(* The runner.                                                               *)

\* A step of anything is one of the planner and its runner or leaves them.
LEMMA PlannerSteps == [TreesNext]_treeVars => [Planner!Next]_pVars
BY DEF TreesNext, treeVars, pVars, gVars, wVars

\* The asynchronous runner works on the head of the plan, which notify_finished
\* erases, however predicates fail, worlds change and new plans are made.
THEOREM RunnerOnHead == TreesSpec => []Planner!CurrentIsHead
<1>1. Planner!Init => Planner!CurrentIsHead
  BY DEF Planner!Init, Planner!CurrentIsHead
<1>2. Planner!CurrentIsHead /\ [Planner!Next]_pVars => Planner!CurrentIsHead'
  <2> SUFFICES ASSUME Planner!CurrentIsHead, [Planner!Next]_pVars PROVE Planner!CurrentIsHead'
    OBVIOUS
  <2> USE DEF Planner!CurrentIsHead
  <2>1. CASE Planner!RunEmpty
    BY <2>1 DEF Planner!RunEmpty, Planner!Replan
  <2>2. CASE Planner!run_plan_sync
    BY <2>2 DEF Planner!run_plan_sync, Planner!Replan
  <2>3. CASE Planner!run_plan_async
    BY <2>3 DEF Planner!run_plan_async, Planner!Replan
  <2>4. CASE Planner!notify_finished
    BY <2>4 DEF Planner!notify_finished
  <2>5. ASSUME NEW w \in Worlds, Planner!Sense(w) PROVE Planner!CurrentIsHead'
    BY <2>5 DEF Planner!Sense
  <2>6. ASSUME sync \/ pCurrent = Null, NEW t \in Tasks, Planner!make_plan(t)
      PROVE Planner!CurrentIsHead'
    BY <2>6 DEF Planner!make_plan
  <2>7. CASE UNCHANGED pVars
    BY <2>7 DEF pVars
  <2> QED
    BY <2>1, <2>2, <2>3, <2>4, <2>5, <2>6, <2>7 DEF Planner!Next
<1>3. TreesInit => Planner!Init BY DEF TreesInit
<1> QED BY <1>1, <1>2, <1>3, PlannerSteps, PTL DEF TreesSpec

\* The invariant of the runner: what is left of a plan that nothing has disturbed
\* runs through from the world there is.
PlanOK == trust => Runnable(plan, world)
RunnerInv == Planner!TypeOK /\ Planner!CurrentIsHead /\ PlanOK /\ Planner!RunsThrough

\* A call on an empty plan asks for a plan.
LEMMA RunEmptyKeeps ==
  ASSUME Planner!NetworkAssumption, RunnerInv, Planner!RunEmpty
  PROVE  RunnerInv'
BY DEF RunnerInv, Planner!TypeOK, Planner!CurrentIsHead, PlanOK, Planner!RunsThrough, Planner!RunEmpty, Planner!Replan, Runnable,
       IsRunnable, Planner!satisfied

\* A synchronous call does the head of the plan, whose predicates hold when
\* nothing was disturbed.
LEMMA SyncKeeps ==
  ASSUME Planner!NetworkAssumption, RunnerInv, Planner!run_plan_sync
  PROVE  RunnerInv'
<1>1. /\ Planner!TypeOK /\ plan # <<>> /\ plan \in Seq(Actions) /\ world \in Worlds
      /\ sync /\ sync' = sync /\ started' = started /\ started = Null
  BY DEF RunnerInv, Planner!TypeOK, Planner!CurrentIsHead, Planner!run_plan_sync, Planner!Replan
<1>2. Head(plan) \in Actions /\ Tail(plan) \in Seq(Actions) BY <1>1, EmptySeq
<1>3. trust => Planner!satisfied(Head(plan), world) /\ Runnable(Tail(plan), Effect[Head(plan)][world])
  BY <1>1, RunnableTail DEF RunnerInv, PlanOK
<1>4. CASE ~Planner!satisfied(Head(plan), world) /\ pCurrent' = Head(plan) /\ Planner!Replan
  <2>1. ~trust BY <1>3, <1>4
  <2>2. ~trust' BY <1>4, <2>1 DEF Planner!Replan
  <2>3. Planner!TypeOK' BY <1>1, <1>2, <1>4 DEF Planner!TypeOK, Planner!Replan
  <2> QED BY <1>1, <2>2, <2>3 DEF RunnerInv, Planner!CurrentIsHead, PlanOK, Planner!RunsThrough
<1>5. ASSUME NEW w \in Worlds, Planner!Operate(w), world' = w, pCurrent' = Head(plan),
             told' = "running", plan' = plan
      PROVE  RunnerInv'
  <2>1. Planner!TypeOK' BY <1>1, <1>2, <1>5 DEF Planner!TypeOK, Planner!Operate
  <2>2. trust' => trust /\ world' = world BY <1>5 DEF Planner!Operate
  <2>3. PlanOK' BY <1>5, <2>2 DEF RunnerInv, PlanOK
  <2> QED BY <1>1, <1>5, <2>1, <2>3 DEF RunnerInv, Planner!CurrentIsHead, Planner!RunsThrough
<1>6. ASSUME NEW w \in Worlds, Planner!Operate(w), world' = Effect[Head(plan)][w], pCurrent' = Null,
             plan' = Tail(plan),
             told' = IF Len(plan) = 1 THEN "replan" ELSE "running"
      PROVE  RunnerInv'
  <2>1. Effect[Head(plan)][w] \in Worlds BY <1>2, EffectsTyped
  <2>2. Planner!TypeOK' BY <1>1, <1>2, <1>6, <2>1 DEF Planner!TypeOK, Planner!Operate
  <2>3. trust' => trust /\ w = world BY <1>6 DEF Planner!Operate
  <2>4. PlanOK' BY <1>3, <1>6, <2>3 DEF PlanOK
  <2>5. told' = "replan" => plan' = <<>>
    <3>1. Len(plan) = 1 => Len(Tail(plan)) = 0 BY <1>1
    <3>2. Len(plan) = 1 => Tail(plan) = <<>> BY <1>2, <3>1, EmptySeq
    <3> QED BY <1>6, <3>2
  <2> QED BY <1>1, <1>6, <2>2, <2>4, <2>5 DEF RunnerInv, Planner!CurrentIsHead, Planner!RunsThrough
<1> QED BY <1>1, <1>4, <1>5, <1>6 DEF Planner!run_plan_sync

\* An asynchronous call checks the head of the plan, and starts it when it is not
\* current.
LEMMA AsyncKeeps ==
  ASSUME Planner!NetworkAssumption, RunnerInv, Planner!run_plan_async
  PROVE  RunnerInv'
<1>1. /\ Planner!TypeOK /\ plan # <<>> /\ plan \in Seq(Actions) /\ world \in Worlds
      /\ ~sync /\ sync' = sync /\ plan' = plan
  BY DEF RunnerInv, Planner!TypeOK, Planner!run_plan_async, Planner!Replan
<1>2. Head(plan) \in Actions BY <1>1, EmptySeq
<1>3. trust => Planner!satisfied(Head(plan), world)
  BY <1>1, RunnableTail DEF RunnerInv, PlanOK
<1>4. CASE /\ pCurrent # Null
           /\ told' = IF Planner!satisfied(pCurrent, world) THEN "running" ELSE "replan"
           /\ UNCHANGED <<sync, world, plan, pCurrent, started, trust>>
  <2>1. pCurrent = Head(plan) BY <1>1, <1>4 DEF RunnerInv, Planner!CurrentIsHead
  <2>2. trust => told' = "running" BY <1>3, <1>4, <2>1
  <2>3. Planner!TypeOK' BY <1>1, <1>4 DEF Planner!TypeOK
  <2>4. PlanOK' BY <1>4 DEF RunnerInv, PlanOK
  <2> QED BY <1>4, <2>2, <2>3, <2>4 DEF RunnerInv, Planner!CurrentIsHead, Planner!RunsThrough
<1>5. CASE pCurrent = Null /\ ~Planner!satisfied(Head(plan), world) /\ pCurrent' = Head(plan) /\ Planner!Replan
  <2>1. ~trust' BY <1>3, <1>5 DEF Planner!Replan
  <2>2. Planner!TypeOK' BY <1>1, <1>2, <1>5 DEF Planner!TypeOK, Planner!Replan
  <2>3. started' = Null
    BY <1>5 DEF RunnerInv, Planner!CurrentIsHead, Planner!Replan
  <2> QED BY <1>1, <1>5, <2>1, <2>2, <2>3 DEF RunnerInv, Planner!CurrentIsHead, PlanOK, Planner!RunsThrough
<1>6. ASSUME pCurrent = Null, Planner!satisfied(Head(plan), world), pCurrent' = Head(plan),
             started' = Head(plan), told' = "running",
             NEW w \in Worlds, Planner!Operate(w), world' = w
      PROVE  RunnerInv'
  <2>1. Planner!TypeOK' BY <1>1, <1>2, <1>6 DEF Planner!TypeOK, Planner!Operate
  <2>2. trust' => trust /\ world' = world BY <1>6 DEF Planner!Operate
  <2>3. PlanOK' BY <1>1, <2>2 DEF RunnerInv, PlanOK
  <2> QED BY <1>1, <1>6, <2>1, <2>3 DEF RunnerInv, Planner!CurrentIsHead, Planner!RunsThrough
<1> QED BY <1>4, <1>5, <1>6 DEF Planner!run_plan_async

\* What was started is the head of the plan, and is erased from it.
LEMMA FinishKeeps ==
  ASSUME Planner!NetworkAssumption, RunnerInv, Planner!notify_finished
  PROVE  RunnerInv'
<1>1. /\ Planner!TypeOK /\ plan # <<>> /\ plan \in Seq(Actions) /\ world \in Worlds
      /\ pCurrent = Head(plan)
  BY DEF RunnerInv, Planner!TypeOK, Planner!CurrentIsHead, Planner!notify_finished
<1>2. Head(plan) \in Actions /\ Tail(plan) \in Seq(Actions) BY <1>1, EmptySeq
<1>3. trust => Runnable(Tail(plan), Effect[Head(plan)][world])
  BY <1>1, RunnableTail DEF RunnerInv, PlanOK
<1>4. Planner!TypeOK' BY <1>1, <1>2, EffectsTyped DEF Planner!TypeOK, Planner!notify_finished
<1>5. PlanOK' BY <1>1, <1>3 DEF PlanOK, Planner!notify_finished
<1>6. Planner!RunsThrough' BY <1>1 DEF RunnerInv, Planner!RunsThrough, Planner!notify_finished
<1>7. Planner!CurrentIsHead' BY DEF Planner!CurrentIsHead, Planner!notify_finished
<1> QED BY <1>4, <1>5, <1>6, <1>7 DEF RunnerInv

\* A new plan runs through if it expects nothing.
LEMMA MakePlanKeeps ==
  ASSUME Planner!NetworkAssumption, Layered, RunnerInv, sync \/ pCurrent = Null,
         NEW t \in Tasks, Planner!make_plan(t)
  PROVE  RunnerInv'
<1>1. Planner!TypeOK BY DEF RunnerInv
<1>2. /\ plan' \in Seq(Actions) /\ told' \in {"planned", "no plan"} /\ trust' \in BOOLEAN
      /\ trust' => Runnable(plan', world)
  BY <1>1, MakePlanMakes
<1>3. sync' = sync /\ world' = world /\ pCurrent' = pCurrent /\ started' = started
  BY DEF Planner!make_plan
<1>4. Planner!TypeOK' BY <1>1, <1>2, <1>3 DEF Planner!TypeOK
<1>5. PlanOK' BY <1>2, <1>3 DEF PlanOK
<1>6. Planner!CurrentIsHead' BY <1>3 DEF RunnerInv, Planner!CurrentIsHead
<1> QED BY <1>2, <1>4, <1>5, <1>6 DEF RunnerInv, Planner!RunsThrough

\* The invariant holds in every state.
LEMMA RunnerInvariant ==
  ASSUME Planner!NetworkAssumption, Layered
  PROVE  TreesSpec => []RunnerInv
<1>1. Planner!Init => RunnerInv
  <2> SUFFICES ASSUME Planner!Init PROVE RunnerInv OBVIOUS
  <2>1. Planner!TypeOK
    <3>1. plan \in Seq(Actions) BY EmptySeq DEF Planner!Init
    <3>2. sync \in BOOLEAN /\ trust \in BOOLEAN /\ world \in Worlds BY DEF Planner!Init
    <3>3. /\ pCurrent \in Actions \cup {Null} /\ started \in Actions \cup {Null}
          /\ told \in {"nothing", "planned", "no plan", "running", "replan"}
      BY DEF Planner!Init
    <3> QED BY <3>1, <3>2, <3>3 DEF Planner!TypeOK
  <2>2. Planner!CurrentIsHead BY DEF Planner!Init, Planner!CurrentIsHead
  <2>3. ~trust BY DEF Planner!Init
  <2> QED BY <2>1, <2>2, <2>3 DEF RunnerInv, PlanOK, Planner!RunsThrough
<1>2. RunnerInv /\ [Planner!Next]_pVars => RunnerInv'
  <2> SUFFICES ASSUME RunnerInv, [Planner!Next]_pVars PROVE RunnerInv'
    OBVIOUS
  <2>1. CASE Planner!RunEmpty BY <2>1, RunEmptyKeeps
  <2>2. CASE Planner!run_plan_sync BY <2>2, SyncKeeps
  <2>3. CASE Planner!run_plan_async BY <2>3, AsyncKeeps
  <2>4. CASE Planner!notify_finished BY <2>4, FinishKeeps
  <2>5. ASSUME NEW w \in Worlds, Planner!Sense(w) PROVE RunnerInv'
    BY <2>5 DEF Planner!Sense, RunnerInv, Planner!TypeOK, Planner!CurrentIsHead, PlanOK, Planner!RunsThrough
  <2>6. ASSUME sync \/ pCurrent = Null, NEW t \in Tasks, Planner!make_plan(t) PROVE RunnerInv'
    BY <2>6, MakePlanKeeps
  <2>7. CASE UNCHANGED pVars
    BY <2>7 DEF pVars, RunnerInv, Planner!TypeOK, Planner!CurrentIsHead, PlanOK, Planner!RunsThrough
  <2> QED BY <2>1, <2>2, <2>3, <2>4, <2>5, <2>6, <2>7 DEF Planner!Next
<1>3. TreesInit => Planner!Init BY DEF TreesInit
<1> QED BY <1>1, <1>2, <1>3, PlannerSteps, PTL DEF TreesSpec

\* Every variable keeps its type: a plan is a sequence of actions, also after
\* methods that were given up.
THEOREM TypeCorrect ==
  ASSUME Planner!NetworkAssumption, Layered
  PROVE  TreesSpec => []Planner!TypeOK
<1>1. RunnerInv => Planner!TypeOK BY DEF RunnerInv
<1> QED BY <1>1, RunnerInvariant, PTL

\* A plan is one of the ways to carry out its task, in the world it was made
\* from: Undo leaves nothing of the methods that were given up, neither in the
\* plan nor in the world the next ones are tried in.
THEOREM PlanSoundCorrect ==
  ASSUME Planner!NetworkAssumption, Layered
  PROVE  TreesSpec => PlanSound
<1>1. Planner!TypeOK /\ [Planner!Next]_pVars =>
        [told' \in {"planned", "no plan"} =>
           \A t \in Tasks : Planner!make_plan(t) =>
             IF told' = "planned" THEN \E r \in Planner!Ways[t][world] : r.p = plan'
             ELSE plan' = <<>>]_(Planner!vars)
  <2> SUFFICES ASSUME Planner!TypeOK, told' \in {"planned", "no plan"},
                      NEW t \in Tasks, Planner!make_plan(t)
               PROVE  IF told' = "planned" THEN \E r \in Planner!Ways[t][world] : r.p = plan'
                      ELSE plan' = <<>>
    OBVIOUS
  <2> QED BY MakePlanMakes
<1> QED BY <1>1, TypeCorrect, PlannerSteps, PTL DEF TreesSpec, PlanSound, Planner!PlanSound

\* A plan that expects nothing beyond its effects, in a world that only they
\* change, runs to its end without a new plan being asked for: every predicate
\* that held while planning holds again when its action is run.
THEOREM RunsThroughCorrect ==
  ASSUME Planner!NetworkAssumption, Layered
  PROVE  TreesSpec => []RunsThrough
<1>1. RunnerInv => RunsThrough BY DEF RunnerInv, RunsThrough
<1> QED BY <1>1, RunnerInvariant, PTL

\* The runner implements PlanRun: actions are started in the order of the plan,
\* one at a time, and finished once, after their start.
THEOREM ImplementsPlanRunCorrect ==
  ASSUME Planner!NetworkAssumption, Layered
  PROVE  TreesSpec => ImplementsPlanRun
<1>1. Planner!Init => Planner!Runner!Init BY DEF Planner!Init, Planner!Runner!Init
<1> DEFINE Step == Planner!Runner!Plan \/ Planner!Runner!Start \/ Planner!Runner!Finish \/ Planner!Runner!Perform
<1>2. RunnerInv /\ RunnerInv' /\ [Planner!Next]_pVars => [Step]_<<plan, started>>
  <2> SUFFICES ASSUME RunnerInv, RunnerInv', [Planner!Next]_pVars PROVE [Step]_<<plan, started>>
    OBVIOUS
  <2>0. Planner!TypeOK /\ Planner!TypeOK' /\ Planner!CurrentIsHead BY DEF RunnerInv
  <2>1. CASE Planner!RunEmpty BY <2>1 DEF Planner!RunEmpty, Planner!Replan
  <2>2. CASE Planner!run_plan_sync
    <3>1. started = Null /\ plan # <<>>
        BY <2>0, <2>2 DEF Planner!CurrentIsHead, Planner!run_plan_sync
    <3>2. \/ UNCHANGED <<plan, started>>
          \/ plan' = Tail(plan) /\ UNCHANGED started
      BY <2>2 DEF Planner!run_plan_sync, Planner!Replan
    <3> QED BY <3>1, <3>2 DEF Planner!Runner!Perform
  <2>3. CASE Planner!run_plan_async
    <3>1. \/ UNCHANGED <<plan, started>>
          \/ /\ pCurrent = Null /\ plan # <<>> /\ started' = Head(plan) /\ UNCHANGED plan
      BY <2>3 DEF Planner!run_plan_async, Planner!Replan
    <3>2. pCurrent = Null => started = Null BY <2>0 DEF Planner!CurrentIsHead
    <3> QED BY <3>1, <3>2 DEF Planner!Runner!Start
  <2>4. CASE Planner!notify_finished
    <3> started = Head(plan) BY <2>0, <2>4 DEF Planner!notify_finished, Planner!CurrentIsHead
    <3> QED BY <2>4 DEF Planner!notify_finished, Planner!Runner!Finish
  <2>5. ASSUME NEW w \in Worlds, Planner!Sense(w) PROVE UNCHANGED <<plan, started>>
    BY <2>5 DEF Planner!Sense
  <2>6. ASSUME sync \/ pCurrent = Null, NEW t \in Tasks, Planner!make_plan(t)
      PROVE Planner!Runner!Plan
    <3>1. started = Null BY <2>0, <2>6 DEF Planner!CurrentIsHead
    <3> QED BY <2>0, <2>6, <3>1 DEF Planner!make_plan, Planner!TypeOK, Planner!Runner!Plan
  <2>7. CASE UNCHANGED pVars BY <2>7 DEF pVars
  <2> QED BY <2>1, <2>2, <2>3, <2>4, <2>5, <2>6, <2>7 DEF Planner!Next
<1>3. TreesInit => Planner!Init BY DEF TreesInit
<1> QED
  BY <1>1, <1>2, <1>3, RunnerInvariant, PlannerSteps, PTL
  DEF TreesSpec, ImplementsPlanRun, Planner!ImplementsPlanRun, Planner!Runner!Spec

-----------------------------------------------------------------------------
(* FlatBfGraph: the builder.                                               *)

GraphNode == [parent : Graph!Positions, children : Seq(Graph!Keys)]

\* c is a child of k.
HasChild(ns, k, c) == \E r \in DOMAIN ns[k].children : ns[k].children[r] = c

\* How far the nodes are from their roots.
IsDepth(depth, ns) ==
  /\ depth \in [DOMAIN ns -> Nat]
  /\ \A k \in DOMAIN ns :
       depth[k] = IF ns[k].parent = Sentinel THEN 0 ELSE depth[ns[k].parent] + 1

\* The nodes are a forest: each is a root or a child of its parent, and of no
\* other; a child may not have been added yet, a parent was.
ForestOK(rs, ns) ==
  /\ rs \in Seq(Graph!Keys)
  /\ DOMAIN ns \subseteq Graph!Keys /\ ns \in [DOMAIN ns -> GraphNode]
  /\ \A i, j \in DOMAIN rs : rs[i] = rs[j] => i = j
  /\ \A i \in DOMAIN rs : rs[i] \in DOMAIN ns /\ ns[rs[i]].parent = Sentinel
  /\ \A k \in DOMAIN ns : ns[k].parent = Sentinel => \E i \in DOMAIN rs : rs[i] = k
  /\ \A k \in DOMAIN ns : \A r, q \in DOMAIN ns[k].children :
        ns[k].children[r] = ns[k].children[q] => r = q
  /\ \A k \in DOMAIN ns : ns[k].parent # Sentinel =>
        ns[k].parent \in DOMAIN ns /\ HasChild(ns, ns[k].parent, k)
  /\ \A k, c \in DOMAIN ns : HasChild(ns, k, c) => ns[c].parent = k
  /\ \A k, l \in DOMAIN ns : \A c : HasChild(ns, k, c) /\ HasChild(ns, l, c) => k = l
  /\ \E depth : IsDepth(depth, ns)

\* Every child was added.
ChildrenAdded(ns) == \A k \in DOMAIN ns : \A c : HasChild(ns, k, c) => c \in DOMAIN ns

\* A flattening is no longer than the room for it, and keys are numbers.
LEMMA GraphKeys ==
  /\ Sentinel \in Nat /\ Sentinel > 0
  /\ Graph!Keys = 0 .. Sentinel - 1 /\ Graph!Positions = 0 .. Sentinel
BY GraphAssumption DEF Graph!SentinelAssumption, Graph!Keys, Graph!Positions

-----------------------------------------------------------------------------
(* FlatBfGraph: the folds over a breadth.                                  *)

\* The children of the nodes of a breadth.
ChildrenLists(ns, s) == [i \in 1 .. Len(s) |-> ns[s[i]].children]

\* They are sequences of keys.
LEMMA ListsTyped ==
  ASSUME NEW ns, ns \in [DOMAIN ns -> GraphNode], NEW s \in Seq(DOMAIN ns)
  PROVE  /\ ChildrenLists(ns, s) \in Seq(Seq(Graph!Keys))
         /\ Len(ChildrenLists(ns, s)) = Len(s) /\ Len(s) \in Nat /\ DOMAIN s = 1 .. Len(s)
         /\ \A i \in 1 .. Len(s) : /\ s[i] \in DOMAIN ns
                                   /\ ns[s[i]].children \in Seq(Graph!Keys)
                                   /\ Len(ns[s[i]].children) \in Nat
                                   /\ ChildrenLists(ns, s)[i] = ns[s[i]].children
<1>1. Len(s) \in Nat /\ DOMAIN s = 1 .. Len(s) OBVIOUS
<1>2. \A i \in 1 .. Len(s) : s[i] \in DOMAIN ns OBVIOUS
<1>3. ASSUME NEW i \in 1 .. Len(s)
      PROVE  ns[s[i]].children \in Seq(Graph!Keys) /\ Len(ns[s[i]].children) \in Nat
  <2>1. ns[s[i]] \in GraphNode BY <1>2
  <2>2. ns[s[i]].children \in Seq(Graph!Keys) BY <2>1 DEF GraphNode
  <2> QED BY <2>2
<1> DEFINE cs == ChildrenLists(ns, s)
<1>4. cs \in [1 .. Len(s) -> Seq(Graph!Keys)] BY <1>3 DEF ChildrenLists
<1>5. cs \in Seq(Seq(Graph!Keys)) /\ Len(cs) = Len(s) BY <1>1, <1>4, IsASeq
<1> QED BY <1>1, <1>2, <1>3, <1>5 DEF ChildrenLists

\* The next breadth is the children of this one, list after list.
LEMMA NextBreadthIs ==
  ASSUME NEW b, NEW ns, ns = b.nodes, ns \in [DOMAIN ns -> GraphNode],
         NEW s \in Seq(DOMAIN ns), NEW start, IsStart(start, ChildrenLists(ns, s))
  PROVE  IsFlat(Graph!NextBreadth(b, s), start, ChildrenLists(ns, s), Len(s), Graph!Keys)
<1> DEFINE n == Len(s)
           cs == ChildrenLists(ns, s)
           V == Seq(Graph!Keys)
           last == [t \in SUBSET (1 .. n) |-> Max(t)]
           Turn(v, i) == v \o ns[s[i]].children
           step == [i \in 1 .. n |-> [v \in V |-> Turn(v, i)]]
           IsRun(g) ==
             g = [t \in SUBSET (1 .. n) |->
                    IF t = {} THEN <<>> ELSE Turn(g[t \ {Max(t)}], Max(t))]
           c == CHOOSE g : IsRun(g)
<1>0. /\ cs \in Seq(V) /\ Len(cs) = n /\ n \in Nat /\ DOMAIN s = 1 .. n
      /\ \A i \in 1 .. n : /\ ns[s[i]].children \in V /\ cs[i] = ns[s[i]].children
  BY ListsTyped
<1>1. Graph!NextBreadth(b, s) = c[1 .. n]
  BY <1>0 DEF Graph!NextBreadth, Graph!FoldLeft, Graph!MapThenFoldSet, Graph!Max, Max
<1>2. ASSUME NEW v \in V, NEW i \in 1 .. n PROVE Turn(v, i) \in V
  <2>1. ns[s[i]].children \in V BY <1>0
  <2> QED BY <2>1
<1>3. step \in StepsOver(1 .. n, V)
  <2> HIDE DEF V, Turn
  <2> QED BY <1>2 DEF StepsOver
<1>4. PICK g : IsFold(g, 1 .. n, V, <<>>, step, last)
  <2>1. <<>> \in V OBVIOUS
  <2> HIDE DEF step, V
  <2> QED BY <1>0, <1>3, <2>1, FoldLeftExists
<1>5. /\ g \in [SUBSET (1 .. n) -> V]
      /\ \A t \in SUBSET (1 .. n) :
            g[t] = IF t = {} THEN <<>> ELSE step[Max(t)][g[t \ {Max(t)}]]
  BY <1>4 DEF IsFold
<1>6. ASSUME NEW t \in SUBSET (1 .. n), t # {}
      PROVE  g[t] = Turn(g[t \ {Max(t)}], Max(t))
  <2>1. Max(t) \in 1 .. n BY <1>0, <1>6, LastMember
  <2>2. g[t \ {Max(t)}] \in V
    <3> HIDE DEF V
    <3> QED BY <1>5
  <2> HIDE DEF V, Turn
  <2> QED BY <1>5, <1>6, <2>1, <2>2
<1>7. IsRun(g)
  <2> HIDE DEF V, Turn
  <2> QED BY <1>5, <1>6
<1>8. IsRun(c)
  <2> HIDE DEF IsRun
  <2> QED BY <1>7
<1> HIDE DEF c
<1>9. c[{}] = <<>> BY <1>8
<1>10. ASSUME NEW i \in 1 .. n PROVE c[1 .. i] = c[1 .. (i - 1)] \o cs[i]
  <2>1. Max(1 .. i) = i /\ (1 .. i) \ {i} = 1 .. (i - 1) BY <1>0, LastIndex
  <2>2. 1 .. i \in SUBSET (1 .. n) /\ 1 .. i # {}
    <3>1. i \in 1 .. i /\ \A j \in 1 .. i : j \in 1 .. n BY <1>0
    <3> QED BY <3>1
  <2>3. c[1 .. i] = Turn(c[1 .. (i - 1)], i)
    <3> HIDE DEF Turn
    <3> QED BY <1>8, <2>1, <2>2
  <2> QED BY <1>0, <2>3
<1> DEFINE T == {i \in 0 .. n : IsFlat(c[1 .. i], start, cs, i, Graph!Keys)}
<1>11. 0 \in T
  <2>1. start[0] = 0 BY DEF IsStart
  <2>2. <<>> \in V /\ Len(<<>>) = 0 OBVIOUS
  <2>3. 1 .. 0 = {} OBVIOUS
  <2>4. IsFlat(<<>>, start, cs, 0, Graph!Keys) BY <2>1, <2>2, <2>3 DEF IsFlat
  <2> HIDE DEF cs
  <2> QED BY <1>0, <1>9, <2>3, <2>4
<1>12. ASSUME NEW i \in 1 .. n, i - 1 \in T PROVE i \in T
  <2>1. IsFlat(c[1 .. (i - 1)], start, cs, i - 1, Graph!Keys) BY <1>12
  <2>2. IsStart(start, cs) /\ cs \in Seq(Seq(Graph!Keys)) /\ i \in 1 .. Len(cs) BY <1>0
  <2> HIDE DEF cs
  <2>3. IsFlat(c[1 .. (i - 1)] \o cs[i], start, cs, i, Graph!Keys)
    BY <2>1, <2>2, FlatAppend
  <2>4. c[1 .. i] = c[1 .. (i - 1)] \o cs[i] BY <1>10
  <2>5. IsFlat(c[1 .. i], start, cs, i, Graph!Keys) BY <2>3, <2>4
  <2>6. i \in 0 .. n BY <1>0
  <2> HIDE DEF c
  <2> QED BY <2>5, <2>6
<1>13. n \in T
  <2> HIDE DEF T
  <2>1. 0 .. n \subseteq T BY <1>0, <1>11, <1>12, BoundedInduction
  <2> QED BY <1>0, <2>1
<1> QED BY <1>1, <1>13

\* The children counted before a node are the place where its own start.
LEMMA ChildCountIs ==
  ASSUME NEW b, NEW ns, ns = b.nodes, ns \in [DOMAIN ns -> GraphNode],
         NEW s \in Seq(DOMAIN ns), NEW start, IsStart(start, ChildrenLists(ns, s)),
         NEW n \in 0 .. Len(s)
  PROVE  Graph!ChildCount(b, SubSeq(s, 1, n)) = start[n]
<1> DEFINE q == SubSeq(s, 1, n)
           cs == ChildrenLists(ns, s)
           last == [t \in SUBSET (1 .. n) |-> Max(t)]
           Turn(v, i) == v + Len(ns[q[i]].children)
           step == [i \in 1 .. n |-> [v \in Nat |-> Turn(v, i)]]
           IsRun(g) ==
             g = [t \in SUBSET (1 .. n) |->
                    IF t = {} THEN 0 ELSE Turn(g[t \ {Max(t)}], Max(t))]
           c == CHOOSE g : IsRun(g)
<1>0. /\ cs \in Seq(Seq(Graph!Keys)) /\ Len(cs) = Len(s) /\ Len(s) \in Nat /\ n \in Nat
      /\ DOMAIN q = 1 .. n
      /\ \A i \in 1 .. n : /\ q[i] = s[i] /\ i \in 1 .. Len(s)
                           /\ Len(ns[q[i]].children) \in Nat
                           /\ Len(cs[i]) = Len(ns[q[i]].children)
  <2>1. /\ cs \in Seq(Seq(Graph!Keys)) /\ Len(cs) = Len(s) /\ Len(s) \in Nat
        /\ \A i \in 1 .. Len(s) : /\ Len(ns[s[i]].children) \in Nat
                                  /\ cs[i] = ns[s[i]].children
    BY ListsTyped
  <2>2. n \in Nat /\ DOMAIN q = 1 .. n /\ \A i \in 1 .. n : q[i] = s[i] /\ i \in 1 .. Len(s)
    BY <2>1
  <2> HIDE DEF cs, q
  <2> QED BY <2>1, <2>2
<1>1. Graph!ChildCount(b, q) = c[1 .. n]
  <2> HIDE DEF q
  <2> QED BY <1>0 DEF Graph!ChildCount, Graph!FoldLeft, Graph!MapThenFoldSet, Graph!Max, Max
<1> HIDE DEF q, cs
<1>3. step \in StepsOver(1 .. n, Nat)
  <2> \A i \in 1 .. n : \A v \in Nat : Turn(v, i) \in Nat BY <1>0
  <2> HIDE DEF Turn
  <2> QED BY DEF StepsOver
<1>4. PICK g : IsFold(g, 1 .. n, Nat, 0, step, last)
  <2> HIDE DEF step
  <2> QED BY <1>0, <1>3, FoldLeftExists
<1>5. /\ g \in [SUBSET (1 .. n) -> Nat]
      /\ \A t \in SUBSET (1 .. n) :
            g[t] = IF t = {} THEN 0 ELSE step[Max(t)][g[t \ {Max(t)}]]
  BY <1>4 DEF IsFold
<1>6. ASSUME NEW t \in SUBSET (1 .. n), t # {}
      PROVE  g[t] = Turn(g[t \ {Max(t)}], Max(t))
  <2>1. Max(t) \in 1 .. n BY <1>0, <1>6, LastMember
  <2>2. g[t \ {Max(t)}] \in Nat BY <1>5
  <2> HIDE DEF Turn
  <2> QED BY <1>5, <1>6, <2>1, <2>2
<1>7. IsRun(g)
  <2> HIDE DEF Turn
  <2> QED BY <1>5, <1>6
<1>8. IsRun(c)
  <2> HIDE DEF IsRun
  <2> QED BY <1>7
<1> HIDE DEF c
<1>9. c[{}] = 0 BY <1>8
<1>10. ASSUME NEW i \in 1 .. n PROVE c[1 .. i] = c[1 .. (i - 1)] + Len(cs[i])
  <2>1. Max(1 .. i) = i /\ (1 .. i) \ {i} = 1 .. (i - 1) BY <1>0, LastIndex
  <2>2. 1 .. i \in SUBSET (1 .. n) /\ 1 .. i # {}
    <3>1. i \in 1 .. i /\ \A j \in 1 .. i : j \in 1 .. n BY <1>0
    <3> QED BY <3>1
  <2>3. c[1 .. i] = Turn(c[1 .. (i - 1)], i)
    <3> HIDE DEF Turn
    <3> QED BY <1>8, <2>1, <2>2
  <2> QED BY <1>0, <2>3
<1> DEFINE T == {i \in 0 .. n : c[1 .. i] = start[i]}
<1>11. 0 \in T
  <2>1. start[0] = 0 /\ 1 .. 0 = {} BY DEF IsStart
  <2> QED BY <1>0, <1>9, <2>1
<1>12. ASSUME NEW i \in 1 .. n, i - 1 \in T PROVE i \in T
  <2>1. start[i] = start[i - 1] + Len(cs[i])
    <3> i \in 1 .. Len(cs) BY <1>0
    <3> IsStart(start, cs) BY DEF cs
    <3> QED BY DEF IsStart
  <2> QED BY <1>0, <1>10, <1>12, <2>1
<1>13. n \in T
  <2> HIDE DEF T
  <2>1. 0 .. n \subseteq T BY <1>0, <1>11, <1>12, BoundedInduction
  <2> QED BY <1>0, <2>1
<1> QED BY <1>1, <1>13 DEF q

GraphSpan == [first : Nat, size : Nat]

\* The spans of the children of s lie behind s, which begins at pos.
SpansBehind(sp, ns, s, start, pos) ==
  /\ sp \in Seq(GraphSpan) /\ Len(sp) = Len(s)
  /\ \A i \in 1 .. Len(s) : /\ sp[i].first = pos + Len(s) + start[i - 1]
                            /\ sp[i].size = Len(ns[s[i]].children)

\* Where the spans begin.
LEMMA ChildSpansAre ==
  ASSUME NEW b, NEW ns, ns = b.nodes, ns \in [DOMAIN ns -> GraphNode],
         NEW s \in Seq(DOMAIN ns), NEW start, IsStart(start, ChildrenLists(ns, s)),
         NEW pos \in Nat
  PROVE  SpansBehind(Graph!ChildSpans(b, s, pos), ns, s, start, pos)
<1> DEFINE sp == Graph!ChildSpans(b, s, pos)
           cs == ChildrenLists(ns, s)
<1>1. DOMAIN s = 1 .. Len(s) /\ Len(s) \in Nat OBVIOUS
<1>2. ASSUME NEW i \in 1 .. Len(s)
      PROVE  Graph!ChildCount(b, SubSeq(s, 1, i - 1)) = start[i - 1]
  <2> i - 1 \in 0 .. Len(s) BY <1>1
  <2> QED BY ChildCountIs
<1>3. sp = [i \in 1 .. Len(s) |-> [first |-> pos + Len(s) + start[i - 1],
                                 size  |-> Len(ns[s[i]].children)]]
  BY <1>1, <1>2 DEF Graph!ChildSpans
<1>4. ASSUME NEW i \in 1 .. Len(s)
      PROVE  [first |-> pos + Len(s) + start[i - 1], size |-> Len(ns[s[i]].children)]
               \in GraphSpan
  <2>1. cs \in Seq(Seq(Graph!Keys)) /\ i \in 1 .. Len(cs) BY ListsTyped
  <2>2. start[i - 1] \in Nat BY <2>1, StartTyped
  <2>3. Len(ns[s[i]].children) \in Nat BY ListsTyped
  <2> QED BY <1>1, <2>2, <2>3 DEF GraphSpan
<1>5. sp \in [1 .. Len(s) -> GraphSpan] BY <1>3, <1>4
<1>6. sp \in Seq(GraphSpan) /\ Len(sp) = Len(s) BY <1>1, <1>5, IsASeq
<1> QED BY <1>3, <1>6 DEF SpansBehind

-----------------------------------------------------------------------------
(* FlatBfGraph: the lookup.                                                *)

\* The largest of some numbers up to n.
LEMMA LargestKey ==
  ASSUME NEW n \in Nat, NEW S \in SUBSET (0 .. n), S # {}
  PROVE  Graph!Max(S) \in S /\ \A y \in S : Graph!Max(S) >= y
<1> DEFINE T == {n - i : i \in S}
<1>1. T \in SUBSET Nat /\ T # {}
  <2> \A i \in S : n - i \in Nat OBVIOUS
  <2> QED OBVIOUS
<1>2. PICK k \in T : \A m \in T : k <= m
  <2> HIDE DEF T
  <2> QED BY <1>1, LeastNumber
<1>3. PICK i \in S : k = n - i OBVIOUS
<1>4. ASSUME NEW j \in S PROVE i >= j
  <2>1. n - i <= n - j BY <1>2, <1>3
  <2> QED BY <2>1
<1> QED BY <1>4 DEF Graph!Max

\* A position that fits its type is kept as it is.
LEMMA PositionFits ==
  ASSUME NEW p \in Nat, p <= Sentinel
  PROVE  p % (Sentinel + 1) = p
BY GraphKeys

GraphLookups == UNION {[0 .. p - 1 -> Graph!Positions] : p \in Nat}

\* R is the lookup with the positions from pos on for the keys s.
EnteredAt(R, lookup, s, pos) ==
  /\ R \in GraphLookups
  /\ DOMAIN lookup \subseteq DOMAIN R
  /\ \A j \in 1 .. Len(s) : s[j] \in DOMAIN R /\ R[s[j]] = pos + j - 1
  /\ \A k \in DOMAIN lookup : (\A j \in 1 .. Len(s) : s[j] # k) => R[k] = lookup[k]

\* A breadth is entered position after position, and nothing else is touched.
LEMMA InsertedRangeIs ==
  ASSUME NEW lookup \in GraphLookups,
         NEW s \in Seq(Graph!Keys), s # <<>>,
         \A i, j \in 1 .. Len(s) : s[i] = s[j] => i = j,
         NEW pos \in Nat, pos + Len(s) <= Sentinel
  PROVE  EnteredAt(Graph!InsertedRange(lookup, s, pos), lookup, s, pos)
<1> DEFINE S == Graph!ToSet(s)
           top == Graph!Max(S)
           room == Graph!Resized(lookup, top)
           R == Graph!InsertedRange(lookup, s, pos)
<1>0. PICK m \in Nat : lookup \in [0 .. m - 1 -> Graph!Positions] BY DEF GraphLookups
<1>1. /\ Len(s) \in Nat /\ DOMAIN s = 1 .. Len(s) /\ 1 \in 1 .. Len(s)
      /\ \A j \in 1 .. Len(s) : s[j] \in Graph!Keys
  OBVIOUS
<1>2. /\ \A j \in 1 .. Len(s) : s[j] \in S
      /\ \A k \in S : \E j \in 1 .. Len(s) : k = s[j]
  BY <1>1 DEF Graph!ToSet
<1>3. S \in SUBSET (0 .. Sentinel - 1) /\ S # {} BY <1>1, <1>2, GraphKeys
<1>4. top \in S /\ \A y \in S : top >= y
  <2> Sentinel - 1 \in Nat BY GraphKeys
  <2> HIDE DEF S
  <2> QED BY <1>3, LargestKey
<1>5. top \in Nat BY <1>3, <1>4, GraphKeys
<1>6. /\ room \in GraphLookups
      /\ DOMAIN lookup \subseteq DOMAIN room
      /\ \A k \in S : k \in DOMAIN room
      /\ \A k \in DOMAIN lookup : room[k] = lookup[k]
  <2> HIDE DEF S, top
  <2>0. \A k \in S : k \in Nat /\ k <= top BY <1>3, <1>4, <1>5, GraphKeys
  <2>1. CASE top \in DOMAIN lookup
    <3>1. room = lookup BY <2>1 DEF Graph!Resized
    <3>2. top < m BY <1>0, <1>5, <2>1
    <3>3. \A k \in S : k \in 0 .. m - 1 BY <1>5, <2>0, <3>2
    <3> QED BY <1>0, <3>1, <3>3
  <2>2. CASE top \notin DOMAIN lookup
    <3>1. room = [j \in 0 .. top |-> IF j \in DOMAIN lookup THEN lookup[j] ELSE Sentinel]
      BY <2>2 DEF Graph!Resized
    <3>2. top >= m BY <1>0, <1>5, <2>2
    <3>3. \A k \in DOMAIN lookup : k \in 0 .. top BY <1>0, <1>5, <3>2
    <3>4. top + 1 \in Nat /\ (top + 1) - 1 = top BY <1>5
    <3>5. \A k \in S : k \in 0 .. top BY <1>5, <2>0
    <3>6. room \in [0 .. top -> Graph!Positions]
      <4> \A j \in DOMAIN lookup : lookup[j] \in Graph!Positions BY <1>0
      <4> QED BY <3>1, GraphKeys
    <3>7. room \in GraphLookups BY <3>4, <3>6 DEF GraphLookups
    <3> HIDE DEF room
    <3> QED BY <3>1, <3>3, <3>5, <3>6, <3>7
  <2> QED BY <2>1, <2>2
<1> DEFINE Place(k) == Graph!SelectInSeq(s, LAMBDA key : key = k)
<1>7. R = [k \in DOMAIN room |-> IF k \in S THEN (pos + Place(k) - 1) % (Sentinel + 1)
                                 ELSE room[k]]
  BY DEF Graph!InsertedRange
<1>8. ASSUME NEW j \in 1 .. Len(s) PROVE Place(s[j]) = j
  <2> DEFINE I == {i \in 1 .. Len(s) : s[i] = s[j]}
  <2>1. I = {j} OBVIOUS
  <2>2. Place(s[j]) = Graph!Min(I) BY <2>1 DEF Graph!SelectInSeq
  <2>3. Graph!Min({j}) = j BY DEF Graph!Min
  <2> QED BY <2>1, <2>2, <2>3
<1>9. ASSUME NEW j \in 1 .. Len(s) PROVE s[j] \in DOMAIN R /\ R[s[j]] = pos + j - 1
  <2>1. s[j] \in S /\ s[j] \in DOMAIN room BY <1>2, <1>6
  <2>2. pos + j - 1 \in Nat /\ pos + j - 1 <= Sentinel BY <1>1, GraphKeys
  <2>3. (pos + j - 1) % (Sentinel + 1) = pos + j - 1 BY <2>2, PositionFits
  <2> HIDE DEF S, room, R, Place
  <2>4. R[s[j]] = (pos + Place(s[j]) - 1) % (Sentinel + 1) BY <1>7, <2>1
  <2> QED BY <1>7, <1>8, <2>1, <2>3, <2>4
<1>10. ASSUME NEW k \in DOMAIN lookup, \A j \in 1 .. Len(s) : s[j] # k
       PROVE  R[k] = lookup[k]
  <2>1. k \notin S BY <1>2, <1>10
  <2> HIDE DEF S, room, R, Place
  <2> QED BY <1>6, <1>7, <2>1
<1>11. DOMAIN R = DOMAIN room
  <2> HIDE DEF S, room, R, Place
  <2> QED BY <1>7
<1> HIDE DEF R, room
<1>12. R \in GraphLookups
  <2>1. PICK p \in Nat : room \in [0 .. p - 1 -> Graph!Positions] BY <1>6 DEF GraphLookups
  <2>2. ASSUME NEW j \in 1 .. Len(s) PROVE R[s[j]] \in Graph!Positions
    <3> j \in Nat /\ j >= 1 /\ j <= Len(s) BY <1>1
    <3> pos + j - 1 \in 0 .. Sentinel BY <1>1, GraphKeys
    <3> QED BY <1>9, GraphKeys
  <2>3. ASSUME NEW k \in DOMAIN room PROVE R[k] \in Graph!Positions
    <3>1. CASE k \in S BY <1>2, <2>2, <3>1
    <3>2. CASE k \notin S
      <4> HIDE DEF S, Place
      <4> QED BY <1>7, <2>1, <3>2 DEF R
    <3> QED BY <3>1, <3>2
  <2>4. R = [k \in DOMAIN room |-> R[k]] BY <1>7 DEF R
  <2>5. R \in [0 .. p - 1 -> Graph!Positions] BY <2>1, <2>3, <2>4
  <2> QED BY <2>5 DEF GraphLookups
<1>13. EnteredAt(R, lookup, s, pos) BY <1>6, <1>9, <1>10, <1>11, <1>12 DEF EnteredAt
<1> QED BY <1>13 DEF R

-----------------------------------------------------------------------------
(* FlatBfGraph: what is made of the first m breadths, s being the next.    *)

\* s has the nodes at depth m, each once.
IsBreadth(s, ns, depth, m) ==
  /\ m \in Nat /\ s \in Seq(DOMAIN ns)
  /\ \A i, j \in 1 .. Len(s) : s[i] = s[j] => i = j
  /\ \A i \in 1 .. Len(s) : depth[s[i]] = m
  /\ \A k \in DOMAIN ns : depth[k] = m => \E i \in 1 .. Len(s) : s[i] = k

\* The keys are the nodes above depth m, each once; no breadth above is empty.
KeysUpTo(keys, ns, depth, m) ==
  /\ m \in Nat /\ keys \in Seq(DOMAIN ns)
  /\ \A i, j \in 1 .. Len(keys) : keys[i] = keys[j] => i = j
  /\ \A i \in 1 .. Len(keys) : depth[keys[i]] < m
  /\ \A k \in DOMAIN ns : depth[k] < m => \E i \in 1 .. Len(keys) : keys[i] = k
  /\ m <= Len(keys)

\* The roots come first.
RootsFirst(all, rs) ==
  /\ Len(rs) <= Len(all)
  /\ \A i \in 1 .. Len(rs) : all[i] = rs[i]

\* The parents are those of the nodes, and the spans of the children point to
\* them in what is there and the next breadth.
LinksUpTo(keys, parents, children, all, ns) ==
  /\ parents \in Seq(Graph!Positions) /\ Len(parents) = Len(keys)
  /\ children \in Seq(GraphSpan) /\ Len(children) = Len(keys)
  /\ \A i \in 1 .. Len(keys) :
       /\ parents[i] = ns[keys[i]].parent
       /\ children[i].size = Len(ns[keys[i]].children)
       /\ children[i].first + children[i].size <= Len(all)
       /\ \A r \in 1 .. Len(ns[keys[i]].children) :
             all[children[i].first + r] = ns[keys[i]].children[r]

SpanEnds(breadths) ==
  [n \in 0 .. Len(breadths) |-> IF n = 0 THEN 0 ELSE breadths[n].first + breadths[n].size]

\* The breadths are one behind the other, and each is the nodes of a depth.
BreadthsUpTo(keys, breadths, rs, depth, m) ==
  /\ breadths \in Seq(GraphSpan) /\ Len(breadths) = m
  /\ \A n \in 1 .. m : /\ breadths[n].first = SpanEnds(breadths)[n - 1]
                        /\ breadths[n].first + breadths[n].size <= Len(keys)
  /\ SpanEnds(breadths)[m] = Len(keys)
  /\ m > 0 => breadths[1] = [first |-> 0, size |-> Len(rs)]
  /\ \A n \in 1 .. m : \A i \in 1 .. Len(keys) :
       depth[keys[i]] = n - 1
         <=> breadths[n].first < i /\ i <= breadths[n].first + breadths[n].size

\* The lookup has each key where it is.
LookupUpTo(keys, lookup) ==
  /\ lookup \in GraphLookups
  /\ \A i \in 1 .. Len(keys) : keys[i] \in DOMAIN lookup /\ lookup[keys[i]] = i - 1

FlatUpTo(g, s, rs, ns, depth, m) ==
  /\ KeysUpTo(g.keys, ns, depth, m) /\ IsBreadth(s, ns, depth, m)
  /\ RootsFirst(g.keys \o s, rs) /\ (m = 0 => s = rs)
  /\ LinksUpTo(g.keys, g.parents, g.children, g.keys \o s, ns)
  /\ BreadthsUpTo(g.keys, g.breadths, rs, depth, m)
  /\ LookupUpTo(g.keys, g.lookup)

\* The elements of two sequences, one behind the other.
LEMMA ConcatAt ==
  ASSUME NEW X, NEW u \in Seq(X), NEW v \in Seq(X)
  PROVE  /\ u \o v \in Seq(X) /\ Len(u \o v) = Len(u) + Len(v)
         /\ Len(u) \in Nat /\ Len(v) \in Nat
         /\ \A i \in 1 .. Len(u) : (u \o v)[i] = u[i] /\ i \in 1 .. Len(u \o v)
         /\ \A j \in 1 .. Len(v) : /\ (u \o v)[Len(u) + j] = v[j]
                                   /\ Len(u) + j \in 1 .. Len(u \o v)
         /\ \A i \in 1 .. Len(u \o v) :
              i \in 1 .. Len(u) \/ \E j \in 1 .. Len(v) : i = Len(u) + j
<1>1. Len(u) \in Nat /\ Len(v) \in Nat OBVIOUS
<1>2. /\ u \o v \in Seq(X) /\ Len(u \o v) = Len(u) + Len(v)
      /\ \A k \in 1 .. Len(u) + Len(v) :
            (u \o v)[k] = IF k <= Len(u) THEN u[k] ELSE v[k - Len(u)]
  BY ConcatProperties
<1> DEFINE w == u \o v
           a == Len(u)
           d == Len(v)
<1>3. /\ a \in Nat /\ d \in Nat /\ Len(w) = a + d
      /\ \A k \in 1 .. a + d : w[k] = IF k <= a THEN u[k] ELSE v[k - a]
  BY <1>1, <1>2
<1> HIDE DEF w, a, d
<1>4. \A i \in 1 .. a : w[i] = u[i] /\ i \in 1 .. Len(w) BY <1>3
<1>5. ASSUME NEW j \in 1 .. d PROVE w[a + j] = v[j] /\ a + j \in 1 .. Len(w)
  <2> a + j \in 1 .. a + d /\ ~(a + j <= a) /\ (a + j) - a = j BY <1>3
  <2> QED BY <1>3
<1>6. ASSUME NEW i \in 1 .. Len(w)
      PROVE  i \in 1 .. a \/ \E j \in 1 .. d : i = a + j
  <2>1. CASE i <= a BY <1>3, <2>1
  <2>2. CASE i > a
    <3> i - a \in 1 .. d /\ i = a + (i - a) BY <1>3, <2>2
    <3> QED OBVIOUS
  <2> QED BY <1>3, <2>1, <2>2
<1> QED BY <1>1, <1>2, <1>4, <1>5, <1>6 DEF w, a, d

\* A sequence of different keys fits the lookup, and has them all when it is as
\* long as there are keys.
LEMMA DistinctFit ==
  ASSUME NEW D, D \subseteq Graph!Keys, NEW u \in Seq(D),
         \A i, j \in 1 .. Len(u) : u[i] = u[j] => i = j
  PROVE  /\ IsFiniteSet(D) /\ Cardinality(D) \in Nat /\ Len(u) <= Cardinality(D)
         /\ Len(u) <= Sentinel
         /\ Len(u) = Cardinality(D) <=> \A k \in D : \E i \in 1 .. Len(u) : u[i] = k
<1>1. Len(u) \in Nat /\ u \in [1 .. Len(u) -> D] OBVIOUS
<1>2. Sentinel - 1 \in Int /\ Graph!Keys = 0 .. Sentinel - 1 /\ Sentinel \in Nat /\ Sentinel > 0
  BY GraphKeys
<1>3. IsFiniteSet(Graph!Keys) /\ Cardinality(Graph!Keys) = Sentinel
  BY <1>2, FS_Interval
<1>4. IsFiniteSet(D) /\ Cardinality(D) \in Nat /\ Cardinality(D) <= Sentinel
  BY <1>3, FS_Subset, FS_CardinalityType
<1>5. IsFiniteSet(1 .. Len(u)) /\ Cardinality(1 .. Len(u)) = Len(u) BY <1>1, FS_Interval
<1>6. u \in Injection(1 .. Len(u), D) BY <1>1 DEF Injection, IsInjective
<1>7. /\ Cardinality(1 .. Len(u)) <= Cardinality(D)
      /\ Cardinality(1 .. Len(u)) = Cardinality(D) <=> u \in Surjection(1 .. Len(u), D)
  BY <1>4, <1>6, FS_Injection
<1> QED BY <1>1, <1>2, <1>4, <1>5, <1>7 DEF Surjection

-----------------------------------------------------------------------------
(* FlatBfGraph: one breadth more.                                          *)

\* The next breadth has the nodes one deeper, each once.
LEMMA BreadthMembers ==
  ASSUME NEW rs, NEW b, NEW ns, ns = b.nodes, ForestOK(rs, ns), ChildrenAdded(ns),
         NEW depth, IsDepth(depth, ns), NEW m, NEW s, IsBreadth(s, ns, depth, m)
  PROVE  IsBreadth(Graph!NextBreadth(b, s), ns, depth, m + 1)
<1> DEFINE D == DOMAIN ns
           n == Len(s)
           cs == ChildrenLists(ns, s)
           next == Graph!NextBreadth(b, s)
<1>0. /\ ns \in [D -> GraphNode] /\ m \in Nat /\ s \in Seq(D)
      /\ \A i, j \in 1 .. Len(s) : s[i] = s[j] => i = j
      /\ \A i \in 1 .. Len(s) : depth[s[i]] = m
      /\ \A k \in DOMAIN ns : depth[k] = m => \E i \in 1 .. Len(s) : s[i] = k
  BY DEF ForestOK, IsBreadth
<1>1. /\ cs \in Seq(Seq(Graph!Keys)) /\ Len(cs) = n /\ n \in Nat
      /\ \A i \in 1 .. n : /\ s[i] \in D /\ Len(ns[s[i]].children) \in Nat
                           /\ DOMAIN ns[s[i]].children = 1 .. Len(ns[s[i]].children)
                           /\ cs[i] = ns[s[i]].children
  <2>1. /\ cs \in Seq(Seq(Graph!Keys)) /\ Len(cs) = n /\ n \in Nat
        /\ \A i \in 1 .. n : /\ s[i] \in D /\ Len(ns[s[i]].children) \in Nat
                             /\ ns[s[i]].children \in Seq(Graph!Keys)
                             /\ cs[i] = ns[s[i]].children
    BY <1>0, ListsTyped
  <2>2. \A q \in Seq(Graph!Keys) : DOMAIN q = 1 .. Len(q) OBVIOUS
  <2> QED BY <2>1, <2>2
<1>2. PICK start : IsStart(start, cs) BY <1>1, StartExists
<1>3. IsFlat(next, start, cs, n, Graph!Keys) BY <1>0, <1>2, NextBreadthIs
<1>4. /\ next \in Seq(Graph!Keys) /\ Len(next) = start[n]
      /\ \A i \in 1 .. n : \A r \in 1 .. Len(cs[i]) :
            next[start[i - 1] + r] = cs[i][r]
      /\ \A k \in 1 .. Len(next) : \E i \in 1 .. n : \E r \in 1 .. Len(cs[i]) :
            k = start[i - 1] + r
  BY <1>3 DEF IsFlat
<1> HIDE DEF next, cs
<1>5. ASSUME NEW i \in 1 .. n, NEW r \in 1 .. Len(cs[i])
      PROVE  /\ cs[i][r] \in D /\ ns[cs[i][r]].parent = s[i]
             /\ depth[cs[i][r]] = m + 1
  <2>1. s[i] \in D /\ HasChild(ns, s[i], cs[i][r]) BY <1>1 DEF HasChild
  <2>2. cs[i][r] \in D BY <2>1 DEF ChildrenAdded
  <2>3. ns[cs[i][r]].parent = s[i] BY <2>1, <2>2 DEF ForestOK
  <2>4. s[i] # Sentinel BY <2>1, GraphKeys DEF ForestOK
  <2>5. depth[cs[i][r]] = depth[s[i]] + 1 BY <2>2, <2>3, <2>4 DEF IsDepth
  <2> QED BY <1>0, <2>2, <2>3, <2>5
<1>6. ASSUME NEW k \in 1 .. Len(next)
      PROVE  \E i \in 1 .. n : \E r \in 1 .. Len(cs[i]) :
                k = start[i - 1] + r /\ next[k] = cs[i][r]
  <2>1. PICK i \in 1 .. n : \E r \in 1 .. Len(cs[i]) : k = start[i - 1] + r BY <1>4
  <2>2. PICK r \in 1 .. Len(cs[i]) : k = start[i - 1] + r BY <2>1
  <2>3. next[k] = cs[i][r] BY <1>4, <2>2
  <2> QED BY <2>2, <2>3
<1>7. next \in Seq(D)
  <2>1. \A k \in 1 .. Len(next) : next[k] \in D BY <1>5, <1>6
  <2>2. Len(next) \in Nat /\ DOMAIN next = 1 .. Len(next) BY <1>4
  <2>3. next = [k \in 1 .. Len(next) |-> next[k]] BY <1>4
  <2>4. next \in [1 .. Len(next) -> D] BY <2>1, <2>3
  <2> QED BY <2>2, <2>4, IsASeq
<1>8. ASSUME NEW k \in 1 .. Len(next) PROVE depth[next[k]] = m + 1
  <2> PICK i \in 1 .. n : \E r \in 1 .. Len(cs[i]) : next[k] = cs[i][r] BY <1>6
  <2> PICK r \in 1 .. Len(cs[i]) : next[k] = cs[i][r] OBVIOUS
  <2> QED BY <1>5
<1>9. ASSUME NEW k \in 1 .. Len(next), NEW l \in 1 .. Len(next), next[k] = next[l]
      PROVE  k = l
  <2>1. PICK i \in 1 .. n : \E r \in 1 .. Len(cs[i]) :
                k = start[i - 1] + r /\ next[k] = cs[i][r]
    BY <1>6
  <2>2. PICK r \in 1 .. Len(cs[i]) : k = start[i - 1] + r /\ next[k] = cs[i][r]
    BY <2>1
  <2>3. PICK j \in 1 .. n : \E q \in 1 .. Len(cs[j]) :
                l = start[j - 1] + q /\ next[l] = cs[j][q]
    BY <1>6
  <2>4. PICK q \in 1 .. Len(cs[j]) : l = start[j - 1] + q /\ next[l] = cs[j][q]
    BY <2>3
  <2>5. s[i] = s[j]
    <3>1. cs[i][r] = cs[j][q] BY <1>9, <2>2, <2>4
    <3>2. ns[cs[i][r]].parent = s[i] BY <1>5
    <3>3. ns[cs[j][q]].parent = s[j] BY <1>5
    <3> QED BY <3>1, <3>2, <3>3
  <2>6. i = j BY <1>0, <2>5
  <2>7. /\ r \in DOMAIN ns[s[i]].children /\ q \in DOMAIN ns[s[i]].children
        /\ ns[s[i]].children[r] = ns[s[i]].children[q]
    BY <1>1, <1>9, <2>2, <2>4, <2>6
  <2>8. r = q BY <1>1, <2>7 DEF ForestOK
  <2> QED BY <2>2, <2>4, <2>6, <2>8
<1>10. ASSUME NEW k \in D, depth[k] = m + 1 PROVE \E i \in 1 .. Len(next) : next[i] = k
  <2>1. ns[k].parent # Sentinel
    <3> SUFFICES ASSUME ns[k].parent = Sentinel PROVE FALSE OBVIOUS
    <3> depth[k] = 0 BY DEF IsDepth
    <3> QED BY <1>0, <1>10
  <2>2. ns[k].parent \in D /\ HasChild(ns, ns[k].parent, k) BY <2>1 DEF ForestOK
  <2>3. depth[k] = depth[ns[k].parent] + 1 /\ depth[ns[k].parent] \in Nat
    BY <2>1, <2>2 DEF IsDepth
  <2>4. depth[ns[k].parent] = m BY <1>0, <1>10, <2>3
  <2>5. PICK i \in 1 .. n : s[i] = ns[k].parent BY <1>0, <2>2, <2>4
  <2>6. PICK r \in 1 .. Len(cs[i]) : cs[i][r] = k 
    <3>1. HasChild(ns, s[i], k) BY <2>2, <2>5
    <3>2. PICK r \in DOMAIN ns[s[i]].children : ns[s[i]].children[r] = k
      BY <3>1 DEF HasChild
    <3> QED BY <1>1, <3>2
  <2>7. next[start[i - 1] + r] = k BY <1>4, <2>6
  <2>8. start[i - 1] + r \in 1 .. Len(next)
    <3>1. /\ start[i] = start[i - 1] + Len(cs[i]) /\ start[i - 1] \in Nat
          /\ Len(cs[i]) \in Nat
      BY <1>1, <1>2, StartTyped
    <3>2. start[i] <= start[n] /\ start[i] \in Nat /\ start[n] \in Nat
      <4> n \in 0 .. Len(cs) /\ i \in 0 .. n BY <1>1
      <4> QED BY <1>1, <1>2, StartMonotonic
    <3>3. r \in Nat /\ r >= 1 /\ r <= Len(cs[i]) BY <3>1
    <3>4. \A a, q, l, d \in Nat : a + l <= d /\ q >= 1 /\ q <= l => a + q \in 1 .. d
      OBVIOUS
    <3>5. start[i - 1] + Len(cs[i]) <= start[n] BY <3>1, <3>2
    <3>6. start[i - 1] + r \in 1 .. start[n] BY <3>1, <3>2, <3>3, <3>4, <3>5
    <3> QED BY <1>4, <3>6
  <2> QED BY <2>7, <2>8
<1>11. m + 1 \in Nat BY <1>0
<1> QED BY <1>7, <1>8, <1>9, <1>10, <1>11 DEF next, IsBreadth

\* The keys with a breadth more.
LEMMA KeysNext ==
  ASSUME NEW ns, NEW depth, IsDepth(depth, ns), NEW m, NEW keys, NEW s,
         KeysUpTo(keys, ns, depth, m), IsBreadth(s, ns, depth, m), s # <<>>
  PROVE  KeysUpTo(keys \o s, ns, depth, m + 1)
<1> DEFINE D == DOMAIN ns
           all == keys \o s
<1>0. /\ m \in Nat /\ keys \in Seq(D) /\ s \in Seq(D) /\ m <= Len(keys)
      /\ \A k \in D : depth[k] \in Nat
  BY DEF KeysUpTo, IsBreadth, IsDepth
<1>2. /\ all \in Seq(D) /\ Len(all) = Len(keys) + Len(s)
      /\ Len(keys) \in Nat /\ Len(s) \in Nat
      /\ \A i \in 1 .. Len(keys) : all[i] = keys[i] /\ i \in 1 .. Len(all)
      /\ \A j \in 1 .. Len(s) : all[Len(keys) + j] = s[j] /\ Len(keys) + j \in 1 .. Len(all)
      /\ \A i \in 1 .. Len(all) :
              i \in 1 .. Len(keys) \/ \E j \in 1 .. Len(s) : i = Len(keys) + j
  BY <1>0, ConcatAt
<1>3. Len(s) > 0 BY <1>0
<1>4. /\ \A i \in 1 .. Len(keys) : depth[keys[i]] < m /\ keys[i] \in D
      /\ \A i \in 1 .. Len(s) : depth[s[i]] = m /\ s[i] \in D
  BY <1>0 DEF KeysUpTo, IsBreadth
<1> HIDE DEF all, D
<1>5. ASSUME NEW i \in 1 .. Len(all), NEW j \in 1 .. Len(all), all[i] = all[j]
      PROVE  i = j
  <2>1. CASE i \in 1 .. Len(keys) /\ j \in 1 .. Len(keys)
    BY <1>2, <1>5, <2>1 DEF KeysUpTo
  <2>2. CASE i \in 1 .. Len(keys) /\ \E q \in 1 .. Len(s) : j = Len(keys) + q
    <3> PICK q \in 1 .. Len(s) : j = Len(keys) + q BY <2>2
    <3> keys[i] = s[q] BY <1>2, <1>5, <2>2
    <3> QED BY <1>0, <1>4, <2>2
  <2>3. CASE j \in 1 .. Len(keys) /\ \E q \in 1 .. Len(s) : i = Len(keys) + q
    <3> PICK q \in 1 .. Len(s) : i = Len(keys) + q BY <2>3
    <3> keys[j] = s[q] BY <1>2, <1>5, <2>3
    <3> QED BY <1>0, <1>4, <2>3
  <2>4. CASE /\ \E q \in 1 .. Len(s) : i = Len(keys) + q
             /\ \E q \in 1 .. Len(s) : j = Len(keys) + q
    <3>1. PICK q \in 1 .. Len(s) : i = Len(keys) + q BY <2>4
    <3>2. PICK r \in 1 .. Len(s) : j = Len(keys) + r BY <2>4
    <3>3. s[q] = s[r] BY <1>2, <1>5, <3>1, <3>2
    <3>4. q = r BY <3>3 DEF IsBreadth
    <3> QED BY <3>1, <3>2, <3>4
  <2> QED BY <1>2, <2>1, <2>2, <2>3, <2>4
<1>6. ASSUME NEW i \in 1 .. Len(all) PROVE depth[all[i]] < m + 1
  <2>1. CASE i \in 1 .. Len(keys)
    <3> depth[keys[i]] \in Nat /\ depth[keys[i]] < m BY <1>0, <1>4, <2>1
    <3> QED BY <1>0, <1>2, <2>1
  <2>2. CASE \E j \in 1 .. Len(s) : i = Len(keys) + j
    <3> PICK j \in 1 .. Len(s) : i = Len(keys) + j BY <2>2
    <3> depth[all[i]] = m BY <1>2, <1>4
    <3> QED BY <1>0
  <2> QED BY <1>2, <2>1, <2>2
<1>7. ASSUME NEW k \in D, depth[k] < m + 1 PROVE \E i \in 1 .. Len(all) : all[i] = k
  <2>1. CASE depth[k] < m
    <3> PICK i \in 1 .. Len(keys) : keys[i] = k BY <2>1 DEF KeysUpTo, D
    <3> QED BY <1>2
  <2>2. CASE depth[k] = m
    <3> PICK i \in 1 .. Len(s) : s[i] = k BY <2>2 DEF IsBreadth, D
    <3> QED BY <1>2
  <2> QED BY <1>0, <1>7, <2>1, <2>2
<1>8. m + 1 \in Nat /\ m + 1 <= Len(all) BY <1>0, <1>2, <1>3
<1> QED BY <1>2, <1>5, <1>6, <1>7, <1>8 DEF KeysUpTo, D, all

\* A place behind another, within what is there.
LEMMA PlaceWithin ==
  ASSUME NEW a \in Nat, NEW l \in Nat, NEW d \in Nat, a + l <= d, NEW q \in 1 .. l
  PROVE  a + q \in 1 .. d
OBVIOUS

\* The parents and the spans with those of a breadth more.
LEMMA LinksNext ==
  ASSUME NEW b, NEW ns, ns = b.nodes, ns \in [DOMAIN ns -> GraphNode],
         DOMAIN ns \subseteq Graph!Keys,
         NEW keys \in Seq(DOMAIN ns), NEW s \in Seq(DOMAIN ns), NEW parents, NEW children,
         LinksUpTo(keys, parents, children, keys \o s, ns)
  PROVE  LinksUpTo(keys \o s, parents \o [i \in DOMAIN s |-> b.nodes[s[i]].parent],
                   children \o Graph!ChildSpans(b, s, Len(keys)),
                   (keys \o s) \o Graph!NextBreadth(b, s), ns)
<1> DEFINE D == DOMAIN ns
           n == Len(s)
           cs == ChildrenLists(ns, s)
           next == Graph!NextBreadth(b, s)
           all == keys \o s
           top == all \o next
           ps == [i \in DOMAIN s |-> b.nodes[s[i]].parent]
           sp == Graph!ChildSpans(b, s, Len(keys))
           moreParents == parents \o ps
           moreSpans == children \o sp
<1>1. /\ cs \in Seq(Seq(Graph!Keys)) /\ Len(cs) = n /\ n \in Nat /\ DOMAIN s = 1 .. n
      /\ \A i \in 1 .. n : /\ s[i] \in D /\ ns[s[i]].children \in Seq(Graph!Keys)
                           /\ Len(ns[s[i]].children) \in Nat
                           /\ cs[i] = ns[s[i]].children
  BY ListsTyped
<1>2. PICK start : IsStart(start, cs) BY <1>1, StartExists
<1>3. IsFlat(next, start, cs, n, Graph!Keys) BY <1>2, NextBreadthIs
<1>4. /\ next \in Seq(Graph!Keys) /\ Len(next) = start[n]
      /\ \A i \in 1 .. n : \A r \in 1 .. Len(cs[i]) :
            next[start[i - 1] + r] = cs[i][r]
  BY <1>3 DEF IsFlat
<1>5. /\ sp \in Seq(GraphSpan) /\ Len(sp) = n
      /\ \A i \in 1 .. n : /\ sp[i].first = Len(keys) + n + start[i - 1]
                           /\ sp[i].size = Len(ns[s[i]].children)
  <2>1. Len(keys) \in Nat OBVIOUS
  <2>2. IsStart(start, ChildrenLists(ns, s)) BY <1>2
  <2> HIDE DEF cs, next
  <2>3. SpansBehind(sp, ns, s, start, Len(keys)) BY <2>1, <2>2, ChildSpansAre
  <2> HIDE DEF sp
  <2> QED BY <2>3 DEF SpansBehind
<1>6. ASSUME NEW i \in 1 .. n
      PROVE  /\ start[i - 1] \in Nat /\ start[i] = start[i - 1] + Len(cs[i])
             /\ start[i] \in Nat /\ start[n] \in Nat /\ start[i] <= start[n]
             /\ Len(cs[i]) \in Nat
  <2>1. start[i] = start[i - 1] + Len(cs[i]) /\ start[i - 1] \in Nat /\ Len(cs[i]) \in Nat
    BY <1>1, <1>2, StartTyped
  <2>2. n \in 0 .. Len(cs) /\ i \in 0 .. n BY <1>1
  <2> HIDE DEF cs
  <2>3. start[i] <= start[n] /\ start[i] \in Nat /\ start[n] \in Nat
    BY <1>1, <1>2, <2>2, StartMonotonic
  <2> QED BY <2>1, <2>3
<1> HIDE DEF next, cs, sp
<1>7. /\ keys \in Seq(D) /\ s \in Seq(D) /\ Len(keys) \in Nat /\ Len(children) = Len(keys)
      /\ parents \in Seq(Graph!Positions) /\ children \in Seq(GraphSpan)
      /\ Len(parents) = Len(keys)
      /\ \A i \in 1 .. Len(keys) :
           /\ keys[i] \in D /\ ns[keys[i]].children \in Seq(Graph!Keys)
           /\ Len(ns[keys[i]].children) \in Nat
           /\ children[i] \in GraphSpan
           /\ parents[i] = ns[keys[i]].parent
           /\ children[i].size = Len(ns[keys[i]].children)
           /\ children[i].first + children[i].size <= Len(all)
           /\ \A r \in 1 .. Len(ns[keys[i]].children) :
                all[children[i].first + r] = ns[keys[i]].children[r]
  <2>1. \A i \in 1 .. Len(keys) :
           /\ keys[i] \in D /\ ns[keys[i]].children \in Seq(Graph!Keys)
           /\ Len(ns[keys[i]].children) \in Nat
    BY ListsTyped
  <2> HIDE DEF all
  <2>2. /\ parents \in Seq(Graph!Positions) /\ Len(parents) = Len(keys)
        /\ children \in Seq(GraphSpan) /\ Len(children) = Len(keys)
        /\ \A i \in 1 .. Len(keys) :
             /\ parents[i] = ns[keys[i]].parent
             /\ children[i].size = Len(ns[keys[i]].children)
             /\ children[i].first + children[i].size <= Len(all)
             /\ \A r \in 1 .. Len(ns[keys[i]].children) :
                  all[children[i].first + r] = ns[keys[i]].children[r]
    BY DEF LinksUpTo, all
  <2>3. \A i \in 1 .. Len(keys) : children[i] \in GraphSpan BY <2>2
  <2> QED BY <2>1, <2>2, <2>3
<1>8. /\ all \in Seq(D) /\ all \in Seq(Graph!Keys) /\ Len(all) = Len(keys) + n
      /\ \A i \in 1 .. Len(keys) : all[i] = keys[i]
      /\ \A j \in 1 .. n : all[Len(keys) + j] = s[j]
      /\ \A i \in 1 .. Len(all) :
              i \in 1 .. Len(keys) \/ \E j \in 1 .. n : i = Len(keys) + j
  <2>1. \A u \in Seq(D) : u \in Seq(Graph!Keys) OBVIOUS
  <2>2. all \in Seq(D) BY <1>7
  <2> QED BY <1>7, <2>1, <2>2, ConcatAt
<1> HIDE DEF all
<1>9. /\ Len(top) = Len(all) + Len(next) /\ Len(all) \in Nat
      /\ \A i \in 1 .. Len(all) : top[i] = all[i]
      /\ \A j \in 1 .. Len(next) : top[Len(all) + j] = next[j]
  <2>1. all \in Seq(Graph!Keys) /\ next \in Seq(Graph!Keys) BY <1>4, <1>8
  <2>2. /\ Len(all \o next) = Len(all) + Len(next) /\ Len(all) \in Nat
        /\ \A i \in 1 .. Len(all) : (all \o next)[i] = all[i]
        /\ \A j \in 1 .. Len(next) : (all \o next)[Len(all) + j] = next[j]
    BY <2>1, ConcatAt
  <2> QED BY <2>2
<1>10. /\ ps \in Seq(Graph!Positions) /\ Len(ps) = n
       /\ \A j \in 1 .. n : ps[j] = ns[s[j]].parent
  <2>1. \A j \in 1 .. n : ns[s[j]].parent \in Graph!Positions
    <3> \A j \in 1 .. n : ns[s[j]] \in GraphNode BY <1>1
    <3> QED BY DEF GraphNode
  <2>2. ps = [j \in 1 .. n |-> ns[s[j]].parent] BY <1>1
  <2>3. ps \in [1 .. n -> Graph!Positions] BY <2>1, <2>2
  <2> QED BY <1>1, <2>2, <2>3, IsASeq
<1> HIDE DEF ps
<1>11. /\ sp \in Seq(GraphSpan) /\ Len(sp) = n
       /\ \A j \in 1 .. n : /\ sp[j].first = Len(all) + start[j - 1]
                            /\ sp[j].size = Len(ns[s[j]].children)
  BY <1>5, <1>8
<1>12. /\ moreParents \in Seq(Graph!Positions) /\ Len(moreParents) = Len(all)
       /\ \A i \in 1 .. Len(keys) : moreParents[i] = parents[i]
       /\ \A j \in 1 .. n : moreParents[Len(keys) + j] = ps[j]
  <2>1. parents \in Seq(Graph!Positions) /\ ps \in Seq(Graph!Positions) BY <1>7, <1>10
  <2>2. /\ parents \o ps \in Seq(Graph!Positions) /\ Len(parents \o ps) = Len(parents) + Len(ps)
        /\ \A i \in 1 .. Len(parents) : (parents \o ps)[i] = parents[i]
        /\ \A j \in 1 .. Len(ps) : (parents \o ps)[Len(parents) + j] = ps[j]
    BY <2>1, ConcatAt
  <2> QED BY <1>7, <1>8, <1>10, <2>2
<1>13. /\ moreSpans \in Seq(GraphSpan) /\ Len(moreSpans) = Len(all)
       /\ \A i \in 1 .. Len(keys) : moreSpans[i] = children[i]
       /\ \A j \in 1 .. n : moreSpans[Len(keys) + j] = sp[j]
  <2>1. children \in Seq(GraphSpan) /\ sp \in Seq(GraphSpan) BY <1>7, <1>11
  <2>2. /\ children \o sp \in Seq(GraphSpan) /\ Len(children \o sp) = Len(children) + Len(sp)
        /\ \A i \in 1 .. Len(children) : (children \o sp)[i] = children[i]
        /\ \A j \in 1 .. Len(sp) : (children \o sp)[Len(children) + j] = sp[j]
    BY <2>1, ConcatAt
  <2> QED BY <1>7, <1>8, <1>11, <2>2
<1> HIDE DEF moreParents, moreSpans, top
<1>14. ASSUME NEW i \in 1 .. Len(all)
       PROVE  /\ moreParents[i] = ns[all[i]].parent
              /\ moreSpans[i].size = Len(ns[all[i]].children)
              /\ moreSpans[i].first + moreSpans[i].size <= Len(top)
              /\ \A r \in 1 .. Len(ns[all[i]].children) :
                    top[moreSpans[i].first + r] = ns[all[i]].children[r]
  <2>1. CASE i \in 1 .. Len(keys)
    <3>1. all[i] = keys[i] /\ moreParents[i] = parents[i] /\ moreSpans[i] = children[i]
      BY <1>8, <1>12, <1>13, <2>1
    <3>2. children[i].first \in Nat /\ children[i].size \in Nat
      BY <1>7, <2>1 DEF GraphSpan
    <3>3. children[i].first + children[i].size <= Len(top)
      <4>1. children[i].first + children[i].size <= Len(all) BY <1>7, <2>1
      <4>2. Len(next) \in Nat /\ Len(top) = Len(all) + Len(next) BY <1>4, <1>9
      <4> QED BY <1>9, <3>2, <4>1, <4>2
    <3>4. ASSUME NEW r \in 1 .. Len(ns[keys[i]].children)
          PROVE  top[children[i].first + r] = ns[keys[i]].children[r]
      <4>1. /\ children[i].size = Len(ns[keys[i]].children)
            /\ children[i].first + children[i].size <= Len(all)
            /\ all[children[i].first + r] = ns[keys[i]].children[r]
        BY <1>7, <2>1
      <4>2. children[i].first + r \in 1 .. Len(all)
        <5> r \in 1 .. children[i].size BY <4>1
        <5> QED BY <1>9, <3>2, <4>1, PlaceWithin
      <4> QED BY <1>9, <4>1, <4>2
    <3> QED BY <1>7, <2>1, <3>1, <3>3, <3>4
  <2>2. CASE \E j \in 1 .. n : i = Len(keys) + j
    <3>1. PICK j \in 1 .. n : i = Len(keys) + j BY <2>2
    <3>2. /\ all[i] = s[j] /\ moreParents[i] = ns[s[j]].parent
          /\ moreSpans[i].first = Len(all) + start[j - 1]
          /\ moreSpans[i].size = Len(ns[s[j]].children)
      BY <1>8, <1>10, <1>11, <1>12, <1>13, <3>1
    <3>3. /\ start[j - 1] \in Nat /\ start[j] = start[j - 1] + Len(cs[j])
          /\ start[j] <= start[n] /\ start[n] \in Nat /\ start[j] \in Nat
          /\ Len(cs[j]) \in Nat /\ cs[j] = ns[s[j]].children
      BY <1>1, <1>6
    <3>4. moreSpans[i].first + moreSpans[i].size <= Len(top)
      <4>1. Len(top) = Len(all) + start[n] /\ Len(all) \in Nat BY <1>4, <1>9
      <4>2. moreSpans[i].size = Len(cs[j]) BY <3>2, <3>3
      <4>3. \A a, d, l, t \in Nat : d + l <= t => (a + d) + l <= a + t OBVIOUS
      <4>4. start[j - 1] + Len(cs[j]) <= start[n] BY <3>3
      <4> QED BY <3>2, <3>3, <4>1, <4>2, <4>3, <4>4
    <3>5. ASSUME NEW r \in 1 .. Len(cs[j])
          PROVE  top[moreSpans[i].first + r] = cs[j][r]
      <4>1. next[start[j - 1] + r] = cs[j][r] BY <1>4
      <4>2. start[j - 1] + r \in 1 .. Len(next)
        <5>1. start[j - 1] + Len(cs[j]) <= start[n] BY <3>3
        <5>2. start[j - 1] + r \in 1 .. start[n] BY <3>3, <5>1, PlaceWithin
        <5> QED BY <1>4, <5>2
      <4>3. moreSpans[i].first + r = Len(all) + (start[j - 1] + r) BY <1>9, <3>2, <3>3
      <4> QED BY <1>9, <4>1, <4>2, <4>3
    <3> QED BY <3>2, <3>3, <3>4, <3>5
  <2> QED BY <1>8, <2>1, <2>2
<1>15. LinksUpTo(all, moreParents, moreSpans, top, ns)
  BY <1>12, <1>13, <1>14 DEF LinksUpTo
<1> QED BY <1>15 DEF all, moreParents, moreSpans, top, ps, sp, next

\* The breadths with one more.
LEMMA BreadthsNext ==
  ASSUME NEW ns, NEW depth, IsDepth(depth, ns), NEW m, NEW keys, NEW s, NEW rs, NEW breadths,
         KeysUpTo(keys, ns, depth, m), IsBreadth(s, ns, depth, m),
         BreadthsUpTo(keys, breadths, rs, depth, m), m = 0 => s = rs
  PROVE  BreadthsUpTo(keys \o s, Append(breadths, [first |-> Len(keys), size |-> Len(s)]),
                      rs, depth, m + 1)
<1> DEFINE all == keys \o s
           last == [first |-> Len(keys), size |-> Len(s)]
           more == Append(breadths, last)
<1>0. /\ m \in Nat /\ keys \in Seq(DOMAIN ns) /\ s \in Seq(DOMAIN ns)
      /\ Len(keys) \in Nat /\ Len(s) \in Nat
      /\ \A i \in 1 .. Len(keys) : depth[keys[i]] < m /\ depth[keys[i]] \in Nat
      /\ \A j \in 1 .. Len(s) : depth[s[j]] = m
  <2>1. m \in Nat /\ keys \in Seq(DOMAIN ns) /\ s \in Seq(DOMAIN ns)
    BY DEF KeysUpTo, IsBreadth
  <2>2. \A i \in 1 .. Len(keys) : keys[i] \in DOMAIN ns BY <2>1
  <2> QED BY <2>1, <2>2 DEF KeysUpTo, IsBreadth, IsDepth
<1>1. /\ Len(all) = Len(keys) + Len(s)
      /\ \A i \in 1 .. Len(keys) : all[i] = keys[i]
      /\ \A j \in 1 .. Len(s) : all[Len(keys) + j] = s[j]
      /\ \A i \in 1 .. Len(all) :
              i \in 1 .. Len(keys) \/ \E j \in 1 .. Len(s) : i = Len(keys) + j
  BY <1>0, ConcatAt
<1> HIDE DEF all
<1>2. /\ breadths \in Seq(GraphSpan) /\ Len(breadths) = m /\ last \in GraphSpan
  BY <1>0 DEF BreadthsUpTo, GraphSpan
<1>3. /\ more \in Seq(GraphSpan) /\ Len(more) = m + 1
      /\ \A n \in 1 .. m : more[n] = breadths[n] /\ breadths[n] \in GraphSpan
      /\ more[m + 1] = last
  <2> HIDE DEF last
  <2> QED BY <1>0, <1>2
<1>4. last.first = Len(keys) /\ last.size = Len(s) OBVIOUS
<1> HIDE DEF more, last
<1>5. /\ \A n \in 0 .. m : SpanEnds(more)[n] = SpanEnds(breadths)[n]
      /\ SpanEnds(more)[m + 1] = Len(all)
  <2>1. /\ \A n \in 0 .. m + 1 : SpanEnds(more)[n] =
                IF n = 0 THEN 0 ELSE more[n].first + more[n].size
        /\ \A n \in 0 .. m : SpanEnds(breadths)[n] =
                IF n = 0 THEN 0 ELSE breadths[n].first + breadths[n].size
    BY <1>2, <1>3 DEF SpanEnds
  <2>2. \A n \in 0 .. m : n # 0 => n \in 1 .. m BY <1>0
  <2>3. \A n \in 0 .. m : n \in 0 .. m + 1 BY <1>0
  <2>4. m + 1 \in 0 .. m + 1 /\ m + 1 # 0 BY <1>0
  <2>5. SpanEnds(more)[m + 1] = Len(all)
    <3>1. SpanEnds(more)[m + 1] = more[m + 1].first + more[m + 1].size BY <2>1, <2>4
    <3> QED BY <1>1, <1>3, <1>4, <3>1
  <2>6. ASSUME NEW n \in 0 .. m PROVE SpanEnds(more)[n] = SpanEnds(breadths)[n]
    <3>1. CASE n = 0 BY <2>1, <2>3, <3>1
    <3>2. CASE n # 0
      <4>1. more[n] = breadths[n] BY <1>3, <2>2, <3>2
      <4> QED BY <2>1, <2>3, <3>2, <4>1
    <3> QED BY <3>1, <3>2
  <2> QED BY <2>5, <2>6
<1>6. ASSUME NEW n \in 1 .. m + 1
      PROVE  /\ more[n].first = SpanEnds(more)[n - 1]
             /\ more[n].first + more[n].size <= Len(all)
  <2>0. n - 1 \in 0 .. m BY <1>0
  <2>1. CASE n \in 1 .. m
    <3>1. /\ more[n].first = SpanEnds(breadths)[n - 1]
          /\ more[n].first + more[n].size <= Len(keys)
          /\ more[n].first \in Nat /\ more[n].size \in Nat
      BY <1>3, <2>1 DEF BreadthsUpTo, GraphSpan
    <3>2. Len(keys) <= Len(all) /\ Len(all) \in Nat BY <1>0, <1>1
    <3> QED BY <1>0, <1>5, <2>0, <3>1, <3>2
  <2>2. CASE n = m + 1
    <3> SpanEnds(breadths)[m] = Len(keys) BY DEF BreadthsUpTo
    <3> QED BY <1>0, <1>1, <1>3, <1>4, <1>5, <2>0, <2>2
  <2> QED BY <1>0, <2>1, <2>2
<1>7. more[1] = [first |-> 0, size |-> Len(rs)]
  <2>1. CASE m > 0
    <3> 1 \in 1 .. m BY <1>0, <2>1
    <3> QED BY <1>3, <2>1 DEF BreadthsUpTo
  <2>2. CASE m = 0
    <3>1. SpanEnds(breadths)[0] = 0 BY <1>2, <2>2 DEF SpanEnds
    <3>2. Len(keys) = 0 BY <2>2, <3>1 DEF BreadthsUpTo
    <3> QED BY <1>3, <2>2, <3>2 DEF last
  <2> QED BY <1>0, <2>1, <2>2
<1>8. ASSUME NEW n \in 1 .. m + 1, NEW i \in 1 .. Len(all)
      PROVE  depth[all[i]] = n - 1
                <=> more[n].first < i /\ i <= more[n].first + more[n].size
  <2>1. CASE n \in 1 .. m
    <3>0. more[n] = breadths[n] /\ breadths[n].first \in Nat /\ breadths[n].size \in Nat
      BY <1>3, <2>1 DEF GraphSpan
    <3>1. CASE i \in 1 .. Len(keys)
      BY <1>1, <2>1, <3>0, <3>1 DEF BreadthsUpTo
    <3>2. CASE \E j \in 1 .. Len(s) : i = Len(keys) + j
      <4>1. depth[all[i]] = m
        <5> PICK j \in 1 .. Len(s) : i = Len(keys) + j BY <3>2
        <5> QED BY <1>0, <1>1
      <4>2. n - 1 # m BY <1>0, <2>1
      <4>3. breadths[n].first + breadths[n].size <= Len(keys) BY <2>1 DEF BreadthsUpTo
      <4>4. i > Len(keys) BY <1>0, <3>2
      <4> QED BY <1>0, <3>0, <4>1, <4>2, <4>3, <4>4
    <3> QED BY <1>1, <3>1, <3>2
  <2>2. CASE n = m + 1
    <3>0. more[n].first = Len(keys) /\ more[n].size = Len(s) BY <1>3, <1>4, <2>2
    <3>1. CASE i \in 1 .. Len(keys)
      <4>1. depth[all[i]] < m /\ depth[all[i]] \in Nat BY <1>0, <1>1, <3>1
      <4>2. n - 1 = m BY <1>0, <2>2
      <4>3. i <= Len(keys) BY <3>1
      <4> QED BY <1>0, <3>0, <4>1, <4>2, <4>3
    <3>2. CASE \E j \in 1 .. Len(s) : i = Len(keys) + j
      <4> PICK j \in 1 .. Len(s) : i = Len(keys) + j BY <3>2
      <4> depth[all[i]] = m BY <1>0, <1>1
      <4> QED BY <1>0, <2>2, <3>0
    <3> QED BY <1>1, <3>1, <3>2
  <2> QED BY <1>0, <2>1, <2>2
<1>9. BreadthsUpTo(all, more, rs, depth, m + 1)
  BY <1>3, <1>5, <1>6, <1>7, <1>8 DEF BreadthsUpTo
<1> QED BY <1>9 DEF all, more, last

\* The lookup with the keys of a breadth more.
LEMMA LookupNext ==
  ASSUME NEW ns, DOMAIN ns \subseteq Graph!Keys, NEW depth, IsDepth(depth, ns),
         NEW m, NEW keys, NEW s, NEW lookup,
         KeysUpTo(keys, ns, depth, m), IsBreadth(s, ns, depth, m), s # <<>>,
         LookupUpTo(keys, lookup)
  PROVE  LookupUpTo(keys \o s, Graph!InsertedRange(lookup, s, Len(keys)))
<1> DEFINE all == keys \o s
           R == Graph!InsertedRange(lookup, s, Len(keys))
<1>0. /\ m \in Nat /\ keys \in Seq(DOMAIN ns) /\ s \in Seq(DOMAIN ns)
      /\ s \in Seq(Graph!Keys) /\ Len(keys) \in Nat /\ Len(s) \in Nat
      /\ \A i \in 1 .. Len(keys) : depth[keys[i]] < m /\ depth[keys[i]] \in Nat
      /\ \A j \in 1 .. Len(s) : depth[s[j]] = m
      /\ \A i, j \in 1 .. Len(s) : s[i] = s[j] => i = j
  <2>1. m \in Nat /\ keys \in Seq(DOMAIN ns) /\ s \in Seq(DOMAIN ns)
    BY DEF KeysUpTo, IsBreadth
  <2>2. \A i \in 1 .. Len(keys) : keys[i] \in DOMAIN ns BY <2>1
  <2>3. s \in Seq(Graph!Keys) BY <2>1
  <2> QED BY <2>1, <2>2, <2>3 DEF KeysUpTo, IsBreadth, IsDepth
<1>1. /\ all \in Seq(DOMAIN ns) /\ Len(all) = Len(keys) + Len(s)
      /\ \A i \in 1 .. Len(keys) : all[i] = keys[i]
      /\ \A j \in 1 .. Len(s) : all[Len(keys) + j] = s[j]
      /\ \A i \in 1 .. Len(all) :
              i \in 1 .. Len(keys) \/ \E j \in 1 .. Len(s) : i = Len(keys) + j
  BY <1>0, ConcatAt
<1>2. Len(keys) + Len(s) <= Sentinel
  <2>1. KeysUpTo(all, ns, depth, m + 1) BY KeysNext
  <2> HIDE DEF all
  <2>2. \A i, j \in 1 .. Len(all) : all[i] = all[j] => i = j BY <2>1 DEF KeysUpTo
  <2> QED BY <1>1, <2>2, DistinctFit
<1>3. lookup \in GraphLookups BY DEF LookupUpTo
<1>4. /\ R \in GraphLookups
      /\ DOMAIN lookup \subseteq DOMAIN R
      /\ \A j \in 1 .. Len(s) : s[j] \in DOMAIN R /\ R[s[j]] = Len(keys) + j - 1
      /\ \A k \in DOMAIN lookup :
           (\A j \in 1 .. Len(s) : s[j] # k) => R[k] = lookup[k]
  <2>1. EnteredAt(R, lookup, s, Len(keys)) BY <1>0, <1>2, <1>3, InsertedRangeIs
  <2> HIDE DEF R
  <2> QED BY <2>1 DEF EnteredAt
<1> HIDE DEF all, R
<1>5. ASSUME NEW i \in 1 .. Len(all) PROVE all[i] \in DOMAIN R /\ R[all[i]] = i - 1
  <2>1. CASE i \in 1 .. Len(keys)
    <3>1. keys[i] \in DOMAIN lookup /\ lookup[keys[i]] = i - 1
      BY <2>1 DEF LookupUpTo
    <3>2. \A j \in 1 .. Len(s) : s[j] # keys[i] BY <1>0, <2>1
    <3> QED BY <1>1, <1>4, <2>1, <3>1, <3>2
  <2>2. CASE \E j \in 1 .. Len(s) : i = Len(keys) + j
    <3> PICK j \in 1 .. Len(s) : i = Len(keys) + j BY <2>2
    <3> all[i] = s[j] BY <1>1
    <3> QED BY <1>4
  <2> QED BY <1>1, <2>1, <2>2
<1>6. LookupUpTo(all, R) BY <1>4, <1>5 DEF LookupUpTo
<1> QED BY <1>6 DEF all, R

\* What a turn of the loop makes of a flattening is one of a breadth more.
LEMMA FlatNext ==
  ASSUME NEW b, NEW ns, ns = b.nodes, NEW rs, ForestOK(rs, ns), ChildrenAdded(ns),
         NEW depth, IsDepth(depth, ns), NEW m, NEW g, NEW s,
         FlatUpTo(g, s, rs, ns, depth, m), s # <<>>
  PROVE  FlatUpTo(Graph!Appended(g, b, s), Graph!NextBreadth(b, s), rs, ns, depth, m + 1)
<1> DEFINE G == Graph!Appended(g, b, s)
           next == Graph!NextBreadth(b, s)
           all == g.keys \o s
<1>1. /\ KeysUpTo(g.keys, ns, depth, m) /\ IsBreadth(s, ns, depth, m)
      /\ RootsFirst(all, rs) /\ (m = 0 => s = rs)
      /\ LinksUpTo(g.keys, g.parents, g.children, all, ns)
      /\ BreadthsUpTo(g.keys, g.breadths, rs, depth, m)
      /\ LookupUpTo(g.keys, g.lookup)
  BY DEF FlatUpTo
<1>2. /\ m \in Nat /\ g.keys \in Seq(DOMAIN ns) /\ s \in Seq(DOMAIN ns)
      /\ DOMAIN ns \subseteq Graph!Keys /\ ns \in [DOMAIN ns -> GraphNode]
  BY <1>1 DEF KeysUpTo, IsBreadth, ForestOK
<1>3. /\ G.lookup = Graph!InsertedRange(g.lookup, s, Len(g.keys))
      /\ G.keys = all
      /\ G.parents = g.parents \o [i \in DOMAIN s |-> b.nodes[s[i]].parent]
      /\ G.children = g.children \o Graph!ChildSpans(b, s, Len(g.keys))
      /\ G.breadths = Append(g.breadths, [first |-> Len(g.keys), size |-> Len(s)])
  BY DEF Graph!Appended
<1> HIDE DEF G, next
<1>4. KeysUpTo(all, ns, depth, m + 1)
  <2> DEFINE keys == g.keys
  <2> KeysUpTo(keys, ns, depth, m) BY <1>1
  <2> HIDE DEF keys
  <2>1. KeysUpTo(keys \o s, ns, depth, m + 1) BY <1>1, KeysNext
  <2> QED BY <2>1 DEF keys
<1>5. IsBreadth(next, ns, depth, m + 1) BY <1>1, BreadthMembers DEF next
<1>6. LookupUpTo(all, G.lookup) 
  <2> DEFINE keys == g.keys
             lookup == g.lookup
  <2>1. KeysUpTo(keys, ns, depth, m) /\ LookupUpTo(keys, lookup) BY <1>1
  <2> HIDE DEF keys, lookup
  <2>2. LookupUpTo(keys \o s, Graph!InsertedRange(lookup, s, Len(keys)))
    BY <1>1, <1>2, <2>1, LookupNext
  <2> QED BY <1>3, <2>2 DEF keys, lookup
<1>7. BreadthsUpTo(all, G.breadths, rs, depth, m + 1)
  <2> DEFINE keys == g.keys
             breadths == g.breadths
  <2>1. KeysUpTo(keys, ns, depth, m) /\ BreadthsUpTo(keys, breadths, rs, depth, m) BY <1>1
  <2> HIDE DEF keys, breadths
  <2>2. BreadthsUpTo(keys \o s, Append(breadths, [first |-> Len(keys), size |-> Len(s)]),
                     rs, depth, m + 1)
    BY <1>1, <2>1, BreadthsNext
  <2> QED BY <1>3, <2>2 DEF keys, breadths
<1>8. LinksUpTo(all, G.parents, G.children, all \o next, ns)
  <2> DEFINE keys == g.keys
             parents == g.parents
             children == g.children
  <2>1. LinksUpTo(keys, parents, children, keys \o s, ns) /\ keys \in Seq(DOMAIN ns)
    BY <1>1, <1>2
  <2> HIDE DEF keys, parents, children
  <2>2. LinksUpTo(keys \o s, parents \o [i \in DOMAIN s |-> b.nodes[s[i]].parent],
                   children \o Graph!ChildSpans(b, s, Len(keys)),
                   (keys \o s) \o Graph!NextBreadth(b, s), ns)
    BY <1>2, <2>1, LinksNext
  <2> QED BY <1>3, <2>2 DEF keys, parents, children, next
<1>9. RootsFirst(all \o next, rs)
  <2>1. all \in Seq(DOMAIN ns) /\ next \in Seq(DOMAIN ns) /\ rs \in Seq(Graph!Keys)
    <3>0. \A u, v \in Seq(DOMAIN ns) : u \o v \in Seq(DOMAIN ns) OBVIOUS
    <3>1. all \in Seq(DOMAIN ns) BY <1>2, <3>0
    <3> HIDE DEF all
    <3> QED BY <1>5, <3>1 DEF IsBreadth, ForestOK
  <2>2. Len(rs) <= Len(all) /\ \A i \in 1 .. Len(rs) : all[i] = rs[i]
    BY <1>1 DEF RootsFirst
  <2> HIDE DEF all
  <2>3. /\ Len(all \o next) = Len(all) + Len(next) /\ Len(all) \in Nat /\ Len(next) \in Nat
        /\ \A i \in 1 .. Len(all) : (all \o next)[i] = all[i]
    BY <2>1, ConcatAt
  <2>4. Len(rs) \in Nat BY <2>1
  <2>5. \A i \in 1 .. Len(rs) : i \in 1 .. Len(all) BY <2>2, <2>3, <2>4
  <2>6. Len(rs) <= Len(all \o next) BY <2>2, <2>3, <2>4
  <2> QED BY <2>2, <2>3, <2>5, <2>6 DEF RootsFirst
<1>10. m + 1 # 0 BY <1>2
<1> HIDE DEF all
<1>11. FlatUpTo(G, next, rs, ns, depth, m + 1)
  BY <1>3, <1>4, <1>5, <1>6, <1>7, <1>8, <1>9, <1>10 DEF FlatUpTo
<1> QED BY <1>11 DEF G, next

\* Before the first breadth there is nothing.
LEMMA FlatFirst ==
  ASSUME NEW rs, NEW ns, ForestOK(rs, ns), NEW depth, IsDepth(depth, ns)
  PROVE  FlatUpTo([lookup |-> Graph!EmptyLookup, keys |-> <<>>, parents |-> <<>>,
                   children |-> <<>>, breadths |-> <<>>], rs, rs, ns, depth, 0)
<1> DEFINE g == [lookup |-> Graph!EmptyLookup, keys |-> <<>>, parents |-> <<>>,
                 children |-> <<>>, breadths |-> <<>>]
<1>1. /\ g.lookup = Graph!EmptyLookup /\ g.keys = <<>> /\ g.parents = <<>>
      /\ g.children = <<>> /\ g.breadths = <<>>
  OBVIOUS
<1> HIDE DEF g
<1>2. rs \in Seq(DOMAIN ns) /\ DOMAIN rs = 1 .. Len(rs)
  <2>1. rs \in Seq(Graph!Keys) /\ \A i \in DOMAIN rs : rs[i] \in DOMAIN ns BY DEF ForestOK
  <2>2. rs \in [1 .. Len(rs) -> DOMAIN ns] /\ Len(rs) \in Nat BY <2>1
  <2> QED BY <2>1, <2>2, IsASeq
<1>3. Len(<<>>) = 0 /\ 1 .. 0 = {} /\ 0 \in Nat /\ ~(0 > 0) OBVIOUS
<1>4. /\ <<>> \in Seq(DOMAIN ns) /\ <<>> \in Seq(Graph!Positions) /\ <<>> \in Seq(GraphSpan)
  OBVIOUS
<1>5. \A k \in DOMAIN ns : depth[k] \in Nat /\ ~(depth[k] < 0) BY DEF IsDepth
<1>6. KeysUpTo(<<>>, ns, depth, 0) BY <1>3, <1>4, <1>5 DEF KeysUpTo
<1>7. IsBreadth(rs, ns, depth, 0)
  <2>1. \A i, j \in 1 .. Len(rs) : rs[i] = rs[j] => i = j BY <1>2 DEF ForestOK
  <2>2. \A i \in 1 .. Len(rs) : depth[rs[i]] = 0 BY <1>2 DEF ForestOK, IsDepth
  <2>3. ASSUME NEW k \in DOMAIN ns, depth[k] = 0 PROVE \E i \in 1 .. Len(rs) : rs[i] = k
    <3>1. ns[k].parent = Sentinel
      <4> SUFFICES ASSUME ns[k].parent # Sentinel PROVE FALSE OBVIOUS
      <4>1. ns[k].parent \in DOMAIN ns BY DEF ForestOK
      <4>2. depth[k] = depth[ns[k].parent] + 1 /\ depth[ns[k].parent] \in Nat
        BY <4>1 DEF IsDepth
      <4> QED BY <2>3, <4>2
    <3> QED BY <1>2, <3>1 DEF ForestOK
  <2> QED BY <1>2, <1>3, <2>1, <2>2, <2>3 DEF IsBreadth
<1>8. <<>> \o rs = rs BY <1>2
<1>9. RootsFirst(rs, rs)
  <2> Len(rs) \in Nat BY <1>2
  <2> QED BY DEF RootsFirst
<1>10. LinksUpTo(<<>>, <<>>, <<>>, rs, ns) BY <1>3, <1>4 DEF LinksUpTo
<1>11. BreadthsUpTo(<<>>, <<>>, rs, depth, 0)
  BY <1>3, <1>4 DEF BreadthsUpTo, SpanEnds
<1>12. LookupUpTo(<<>>, Graph!EmptyLookup)
  <2>1. 0 \in Nat /\ 0 .. 0 - 1 = {} OBVIOUS
  <2>2. Graph!EmptyLookup \in [0 .. 0 - 1 -> Graph!Positions]
    BY <2>1 DEF Graph!EmptyLookup
  <2>3. Graph!EmptyLookup \in GraphLookups BY <2>1, <2>2 DEF GraphLookups
  <2> QED BY <1>3, <2>3 DEF LookupUpTo
<1>13. FlatUpTo(g, rs, rs, ns, depth, 0)
  BY <1>1, <1>6, <1>7, <1>8, <1>9, <1>10, <1>11, <1>12 DEF FlatUpTo
<1> QED BY <1>13 DEF g

-----------------------------------------------------------------------------
(* FlatBfGraph: the flattening.                                            *)

GraphData == [lookup : GraphLookups, keys : Seq(Graph!Keys), parents : Seq(Graph!Positions),
              children : Seq(GraphSpan), breadths : Seq(GraphSpan)]

\* The same number in both modules.
LEMMA SameCardinality ==
  ASSUME NEW S
  PROVE  Graph!Cardinality(S) = Cardinality(S)
BY DEF Graph!Cardinality, Cardinality

\* With no node at a depth there is none below it.
LEMMA NoneDeeper ==
  ASSUME NEW rs, NEW ns, ForestOK(rs, ns), NEW depth, IsDepth(depth, ns), NEW m \in Nat,
         \A k \in DOMAIN ns : depth[k] # m
  PROVE  \A k \in DOMAIN ns : depth[k] < m
<1> DEFINE T == {d \in Nat : \A k \in DOMAIN ns : depth[k] # m + d}
<1>1. 0 \in T OBVIOUS
<1>2. ASSUME NEW d \in Nat, d \in T PROVE d + 1 \in T
  <2> SUFFICES ASSUME NEW k \in DOMAIN ns, depth[k] = m + (d + 1) PROVE FALSE OBVIOUS
  <2>1. ns[k].parent # Sentinel
    <3> SUFFICES ASSUME ns[k].parent = Sentinel PROVE FALSE OBVIOUS
    <3> depth[k] = 0 BY DEF IsDepth
    <3> QED OBVIOUS
  <2>2. ns[k].parent \in DOMAIN ns BY <2>1 DEF ForestOK
  <2>3. depth[k] = depth[ns[k].parent] + 1 /\ depth[ns[k].parent] \in Nat
    BY <2>1, <2>2 DEF IsDepth
  <2>4. depth[ns[k].parent] = m + d BY <2>3
  <2> QED BY <1>2, <2>2, <2>4
<1>3. Nat \subseteq T
  <2> HIDE DEF T
  <2> QED BY <1>1, <1>2, NumberInduction
<1>4. ASSUME NEW k \in DOMAIN ns, ~(depth[k] < m) PROVE FALSE
  <2>1. depth[k] \in Nat BY DEF IsDepth
  <2>2. depth[k] - m \in Nat /\ m + (depth[k] - m) = depth[k] BY <1>4, <2>1
  <2>3. depth[k] - m \in T BY <1>3, <2>2
  <2> QED BY <2>2, <2>3
<1> QED BY <1>4

\* What is flattened so far has the types of the arrays.
LEMMA FlatTyped ==
  ASSUME NEW rs, NEW ns, ForestOK(rs, ns), NEW depth, NEW m, NEW g, NEW s,
         FlatUpTo(g, s, rs, ns, depth, m)
  PROVE  /\ g.lookup \in GraphLookups /\ g.keys \in Seq(Graph!Keys)
         /\ g.parents \in Seq(Graph!Positions) /\ g.children \in Seq(GraphSpan)
         /\ g.breadths \in Seq(GraphSpan) /\ s \in Seq(DOMAIN ns)
<1>1. g.lookup \in GraphLookups BY DEF FlatUpTo, LookupUpTo
<1>2. g.keys \in Seq(DOMAIN ns) /\ s \in Seq(DOMAIN ns)
  BY DEF FlatUpTo, KeysUpTo, IsBreadth
<1>3. g.parents \in Seq(Graph!Positions) /\ g.children \in Seq(GraphSpan)
  BY DEF FlatUpTo, LinksUpTo
<1>4. g.breadths \in Seq(GraphSpan) BY DEF FlatUpTo, BreadthsUpTo
<1>5. DOMAIN ns \subseteq Graph!Keys BY DEF ForestOK
<1> QED BY <1>1, <1>2, <1>3, <1>4, <1>5

\* After as many turns as there are nodes, the flattening has them all.
LEMMA FlattenedIs ==
  ASSUME NEW b, NEW ns, ns = b.nodes, NEW rs, rs = b.roots, ForestOK(rs, ns), ChildrenAdded(ns),
         NEW depth, IsDepth(depth, ns)
  PROVE  \E m \in Nat : /\ FlatUpTo(Graph!Flattened(b), <<>>, rs, ns, depth, m)
                        /\ \A k \in DOMAIN ns : depth[k] < m
<1> DEFINE D == DOMAIN ns
           n == Graph!Cardinality(D)
           empty == [lookup |-> Graph!EmptyLookup, keys |-> <<>>, parents |-> <<>>,
                     children |-> <<>>, breadths |-> <<>>]
           base == [graph |-> empty, breadth |-> rs]
           V == {v \in [graph : GraphData, breadth : Seq(D)] :
                   \E m \in Nat : FlatUpTo(v.graph, v.breadth, rs, ns, depth, m)}
           last == [t \in SUBSET (1 .. n) |-> Max(t)]
           Turn(v) == IF v.breadth = <<>> THEN v
                      ELSE [graph   |-> Graph!Appended(v.graph, b, v.breadth),
                            breadth |-> Graph!NextBreadth(b, v.breadth)]
           step == [i \in 1 .. n |-> [v \in V |-> Turn(v)]]
           IsRun(g) ==
             g = [t \in SUBSET (1 .. n) |-> IF t = {} THEN base ELSE Turn(g[t \ {Max(t)}])]
           c == CHOOSE g : IsRun(g)
<1>0. n = Cardinality(D) /\ n \in Nat /\ D \subseteq Graph!Keys
  <2>1. D \subseteq Graph!Keys BY DEF ForestOK
  <2>2. IsFiniteSet(Graph!Keys) BY GraphKeys, FS_Interval
  <2>3. n = Cardinality(D) BY SameCardinality
  <2> QED BY <2>1, <2>2, <2>3, FS_Subset, FS_CardinalityType
<1>1. Graph!Flattened(b) = c[1 .. n].graph
  <2> DEFINE turns == [i \in 1 .. n |-> i]
  <2>1. Graph!Flattened(b) = Graph!FoldLeft(LAMBDA v, i : Turn(v), base, turns).graph
    BY DEF Graph!Flattened
  <2>2. DOMAIN turns = 1 .. n OBVIOUS
  <2> HIDE DEF turns, base
  <2>3. Graph!FoldLeft(LAMBDA v, i : Turn(v), base, turns) = c[1 .. n]
    BY <2>2 DEF Graph!FoldLeft, Graph!MapThenFoldSet, Graph!Max, Max
  <2> QED BY <2>1, <2>3
<1>2. FlatUpTo(empty, rs, rs, ns, depth, 0) BY FlatFirst
<1>3. base \in V
  <2>1. /\ empty.lookup \in GraphLookups /\ empty.keys \in Seq(Graph!Keys)
        /\ empty.parents \in Seq(Graph!Positions) /\ empty.children \in Seq(GraphSpan)
        /\ empty.breadths \in Seq(GraphSpan) /\ rs \in Seq(D)
    <3> HIDE DEF empty
    <3> QED BY <1>2, FlatTyped
  <2>2. empty \in GraphData BY <2>1 DEF GraphData
  <2> HIDE DEF empty
  <2>3. base \in [graph : GraphData, breadth : Seq(D)] /\ base.graph = empty /\ base.breadth = rs
    BY <2>1, <2>2
  <2> HIDE DEF base
  <2> QED BY <1>2, <2>3
<1>4. ASSUME NEW v \in V, NEW m \in Nat, FlatUpTo(v.graph, v.breadth, rs, ns, depth, m)
      PROVE  /\ Turn(v) \in V
             /\ v.breadth = <<>> => Turn(v) = v
             /\ v.breadth # <<>> => FlatUpTo(Turn(v).graph, Turn(v).breadth, rs, ns, depth, m + 1)
  <2>1. CASE v.breadth = <<>> BY <2>1
  <2>2. CASE v.breadth # <<>>
    <3> DEFINE g == v.graph
               s == v.breadth
               G == Graph!Appended(g, b, s)
               next == Graph!NextBreadth(b, s)
    <3>1. FlatUpTo(G, next, rs, ns, depth, m + 1)
      <4> FlatUpTo(g, s, rs, ns, depth, m) /\ s # <<>> BY <1>4, <2>2
      <4> HIDE DEF g, s
      <4> QED BY FlatNext
    <3>2. /\ G.lookup \in GraphLookups /\ G.keys \in Seq(Graph!Keys)
          /\ G.parents \in Seq(Graph!Positions) /\ G.children \in Seq(GraphSpan)
          /\ G.breadths \in Seq(GraphSpan) /\ next \in Seq(D)
      <4> HIDE DEF G, next
      <4> QED BY <3>1, FlatTyped
    <3>3. G \in GraphData
      <4>1. G = [lookup |-> G.lookup, keys |-> G.keys, parents |-> G.parents,
                 children |-> G.children, breadths |-> G.breadths]
        BY DEF Graph!Appended
      <4> HIDE DEF G
      <4> QED BY <3>2, <4>1 DEF GraphData
    <3>4. Turn(v) = [graph |-> G, breadth |-> next] BY <2>2
    <3> HIDE DEF G, next, Turn
    <3>5. /\ Turn(v) \in [graph : GraphData, breadth : Seq(D)]
          /\ Turn(v).graph = G /\ Turn(v).breadth = next
      BY <3>2, <3>3, <3>4
    <3>6. m + 1 \in Nat OBVIOUS
    <3> QED BY <2>2, <3>1, <3>5, <3>6
  <2> QED BY <2>1, <2>2
<1>5. \A v \in V : Turn(v) \in V
  <2> TAKE v \in V
  <2>1. PICK m \in Nat : FlatUpTo(v.graph, v.breadth, rs, ns, depth, m) OBVIOUS
  <2> HIDE DEF V, Turn
  <2> QED BY <1>4, <2>1
<1> HIDE DEF V, Turn, base
<1>6. step \in StepsOver(1 .. n, V) BY <1>5 DEF StepsOver
<1>7. PICK g : IsFold(g, 1 .. n, V, base, step, last)
  <2> HIDE DEF step
  <2> QED BY <1>0, <1>3, <1>6, FoldLeftExists
<1>8. /\ g \in [SUBSET (1 .. n) -> V]
      /\ \A t \in SUBSET (1 .. n) :
            g[t] = IF t = {} THEN base ELSE step[Max(t)][g[t \ {Max(t)}]]
  BY <1>7 DEF IsFold
<1>9. ASSUME NEW t \in SUBSET (1 .. n), t # {} PROVE g[t] = Turn(g[t \ {Max(t)}])
  <2>1. Max(t) \in 1 .. n BY <1>0, <1>9, LastMember
  <2>2. g[t \ {Max(t)}] \in V BY <1>8
  <2> QED BY <1>8, <1>9, <2>1, <2>2
<1>10. IsRun(g) BY <1>8, <1>9
<1>11. IsRun(c)
  <2> HIDE DEF IsRun
  <2> QED BY <1>10
<1> HIDE DEF c
<1>12. c[{}] = base BY <1>11
<1>13. ASSUME NEW i \in 1 .. n PROVE c[1 .. i] = Turn(c[1 .. (i - 1)])
  <2>1. Max(1 .. i) = i /\ (1 .. i) \ {i} = 1 .. (i - 1) BY <1>0, LastIndex
  <2>2. 1 .. i \in SUBSET (1 .. n) /\ 1 .. i # {}
    <3>1. i \in 1 .. i /\ \A j \in 1 .. i : j \in 1 .. n BY <1>0
    <3> QED BY <3>1
  <2> QED BY <1>11, <2>1, <2>2
<1> DEFINE CameTo(v, i) ==
             /\ v \in V
             /\ \E m \in Nat : /\ FlatUpTo(v.graph, v.breadth, rs, ns, depth, m)
                               /\ m = i \/ v.breadth = <<>>
           T == {i \in 0 .. n : CameTo(c[1 .. i], i)}
<1>14. 0 \in T
  <2>1. 1 .. 0 = {} /\ 0 \in Nat /\ 0 \in 0 .. n BY <1>0
  <2>2. base.graph = empty /\ base.breadth = rs BY DEF base
  <2>3. CameTo(base, 0)
    <3> HIDE DEF empty
    <3> QED BY <1>2, <1>3, <2>1, <2>2
  <2> HIDE DEF CameTo
  <2> QED BY <1>12, <2>1, <2>3
<1>15. ASSUME NEW i \in 1 .. n, i - 1 \in T PROVE i \in T
  <2> DEFINE v == c[1 .. (i - 1)]
             w == c[1 .. i]
  <2>1. v \in V /\ w = Turn(v) BY <1>13, <1>15
  <2>2. PICK m \in Nat : /\ FlatUpTo(v.graph, v.breadth, rs, ns, depth, m)
                         /\ m = i - 1 \/ v.breadth = <<>>
    BY <1>15
  <2> HIDE DEF v, w
  <2>3. CASE v.breadth = <<>>
    <3>1. w = v BY <1>4, <2>1, <2>2, <2>3
    <3> QED BY <2>1, <2>2, <2>3, <3>1 DEF w
  <2>4. CASE v.breadth # <<>>
    <3>1. w \in V /\ FlatUpTo(w.graph, w.breadth, rs, ns, depth, m + 1)
      BY <1>4, <2>1, <2>2, <2>4
    <3>2. m + 1 = i /\ m + 1 \in Nat BY <2>2, <2>4
    <3> QED BY <3>1, <3>2 DEF w
  <2> QED BY <2>3, <2>4
<1>16. n \in T
  <2> HIDE DEF T
  <2>1. 0 .. n \subseteq T BY <1>0, <1>14, <1>15, BoundedInduction
  <2> QED BY <1>0, <2>1
<1>17. PICK m \in Nat : /\ FlatUpTo(c[1 .. n].graph, c[1 .. n].breadth, rs, ns, depth, m)
                        /\ m = n \/ c[1 .. n].breadth = <<>>
  BY <1>16
<1> DEFINE g2 == c[1 .. n].graph
           s == c[1 .. n].breadth
<1> HIDE DEF T
<1>18. FlatUpTo(g2, s, rs, ns, depth, m) /\ (m = n \/ s = <<>>) BY <1>17
<1> HIDE DEF g2, s, c
<1>19. s = <<>>
  <2> SUFFICES ASSUME s # <<>> PROVE FALSE OBVIOUS
  <2> DEFINE keys == g2.keys
  <2>1. KeysUpTo(keys, ns, depth, m) /\ IsBreadth(s, ns, depth, m) /\ m = n
    BY <1>18 DEF FlatUpTo
  <2> HIDE DEF keys
  <2>2. /\ keys \in Seq(D) /\ Len(keys) \in Nat /\ m <= Len(keys)
        /\ \A i, j \in 1 .. Len(keys) : keys[i] = keys[j] => i = j
        /\ \A i \in 1 .. Len(keys) : depth[keys[i]] < m
    <3>1. keys \in Seq(D) BY <2>1 DEF KeysUpTo
    <3> QED BY <2>1, <3>1 DEF KeysUpTo
  <2> HIDE DEF D
  <2>3. Len(keys) <= n /\ (Len(keys) = n => \A k \in D : \E i \in 1 .. Len(keys) : keys[i] = k)
    BY <1>0, <2>2, DistinctFit
  <2>4. Len(keys) = n BY <1>0, <2>1, <2>2, <2>3
  <2>5. s \in Seq(D) /\ 1 \in 1 .. Len(s) /\ s[1] \in D
    <3>1. s \in Seq(D) BY <2>1 DEF IsBreadth, D
    <3> QED BY <3>1
  <2>6. depth[s[1]] = m BY <2>1, <2>5 DEF IsBreadth
  <2>7. PICK i \in 1 .. Len(keys) : keys[i] = s[1] BY <2>3, <2>4, <2>5
  <2> QED BY <2>2, <2>6, <2>7
<1>20. \A k \in D : depth[k] < m
  <2>1. \A k \in D : depth[k] # m
    <3>1. IsBreadth(<<>>, ns, depth, m) BY <1>18, <1>19 DEF FlatUpTo
    <3>2. 1 .. Len(<<>>) = {} OBVIOUS
    <3> QED BY <3>1, <3>2 DEF IsBreadth
  <2> QED BY <2>1, NoneDeeper
<1> QED BY <1>1, <1>18, <1>19, <1>20 DEF g2

-----------------------------------------------------------------------------
(* FlatBfGraph: what the graph shows.                                      *)

\* The elements behind the first a, when they are those of w.
LEMMA SpanIs ==
  ASSUME NEW X, NEW u \in Seq(X), NEW w \in Seq(X), NEW a \in Nat, a + Len(w) <= Len(u),
         \A r \in 1 .. Len(w) : u[a + r] = w[r]
  PROVE  SubSeq(u, a + 1, a + Len(w)) = w
<1> DEFINE q == SubSeq(u, a + 1, a + Len(w))
<1>1. Len(u) \in Nat /\ Len(w) \in Nat /\ DOMAIN w = 1 .. Len(w) OBVIOUS
<1>2. q \in Seq(X) /\ Len(q) = Len(w)
  <2>1. \A i \in a + 1 .. a + Len(w) : u[i] \in X
    <3> TAKE i \in a + 1 .. a + Len(w)
    <3> i \in 1 .. Len(u) BY <1>1
    <3> QED OBVIOUS
  <2>2. Len(q) = IF a + 1 <= a + Len(w) THEN (a + Len(w)) - (a + 1) + 1 ELSE 0
    BY <1>1, <2>1, SubSeqProperties
  <2>3. q \in Seq(X) BY <1>1, <2>1, SubSeqProperties
  <2> HIDE DEF q
  <2> QED BY <1>1, <2>2, <2>3
<1>3. ASSUME NEW r \in 1 .. Len(w) PROVE q[r] = w[r]
  <2>1. r \in 1 .. (a + Len(w)) - (a + 1) + 1 BY <1>1
  <2>2. q[r] = u[(a + 1) + r - 1] BY <1>1, <2>1
  <2>3. (a + 1) + r - 1 = a + r BY <1>1
  <2> QED BY <2>2, <2>3
<1> HIDE DEF q
<1>4. q = w BY <1>1, <1>2, <1>3, SeqEqual
<1> QED BY <1>4 DEF q

\* What a complete flattening is.
IsComplete(g, rs, ns, depth, m) ==
  /\ ForestOK(rs, ns) /\ ChildrenAdded(ns) /\ rs # <<>> /\ IsDepth(depth, ns)
  /\ m \in Nat /\ FlatUpTo(g, <<>>, rs, ns, depth, m)
  /\ \A k \in DOMAIN ns : depth[k] < m

\* The keys of a graph are the nodes, each once, the roots first, with their
\* parents and the spans of their children.
KeysAreNodes(g, rs, ns) ==
  /\ g.keys \in Seq(DOMAIN ns) /\ Len(g.keys) \in Nat
  /\ DOMAIN g.keys = 1 .. Len(g.keys)
  /\ \A k \in DOMAIN ns : \E i \in 1 .. Len(g.keys) : g.keys[i] = k
  /\ \A i, j \in 1 .. Len(g.keys) : g.keys[i] = g.keys[j] => i = j
  /\ \A i \in 1 .. Len(g.keys) :
       /\ g.keys[i] \in DOMAIN ns
       /\ g.parents[i] = ns[g.keys[i]].parent
       /\ Graph!Spanned(g, g.children[i]) = ns[g.keys[i]].children
  /\ rs \in Seq(DOMAIN ns) /\ Len(rs) \in Nat /\ Len(rs) <= Len(g.keys)
  /\ \A i \in 1 .. Len(rs) : g.keys[i] = rs[i]

\* So they are in a complete flattening.
LEMMA CompleteIs ==
  ASSUME NEW g, NEW rs, NEW ns, NEW depth, NEW m, IsComplete(g, rs, ns, depth, m)
  PROVE  KeysAreNodes(g, rs, ns)
<1> DEFINE D == DOMAIN ns
           keys == g.keys
           n == Len(keys)
<1>1. /\ KeysUpTo(keys, ns, depth, m) /\ RootsFirst(keys \o <<>>, rs)
      /\ LinksUpTo(keys, g.parents, g.children, keys \o <<>>, ns)
      /\ ForestOK(rs, ns)
      /\ \A k \in D : depth[k] < m
  BY DEF IsComplete, FlatUpTo
<1>2. /\ keys \in Seq(D) /\ n \in Nat /\ DOMAIN keys = 1 .. n
      /\ \A i \in 1 .. n : keys[i] \in D
  <2> HIDE DEF keys
  <2>1. keys \in Seq(D) BY <1>1 DEF KeysUpTo
  <2> QED BY <2>1
<1>3. keys \o <<>> = keys
  <2> HIDE DEF keys
  <2> QED BY <1>2
<1>4. /\ \A k \in D : \E i \in 1 .. n : keys[i] = k
      /\ \A i, j \in 1 .. n : keys[i] = keys[j] => i = j
  <2> HIDE DEF keys
  <2> QED BY <1>1 DEF KeysUpTo
<1>5. Len(rs) <= n /\ \A i \in 1 .. Len(rs) : keys[i] = rs[i]
  <2> HIDE DEF keys
  <2> QED BY <1>1, <1>3 DEF RootsFirst
<1>6. rs \in Seq(D) /\ Len(rs) \in Nat
  <2>1. rs \in Seq(Graph!Keys) BY <1>1 DEF ForestOK
  <2>2. Len(rs) \in Nat /\ \A i \in 1 .. Len(rs) : i \in 1 .. n
    <3> HIDE DEF keys
    <3> QED BY <1>2, <1>5, <2>1
  <2>3. \A i \in 1 .. Len(rs) : rs[i] \in D BY <1>2, <1>5, <2>2
  <2>4. rs \in [1 .. Len(rs) -> D] BY <2>1, <2>3
  <2> QED BY <2>2, <2>4, IsASeq
<1>7. ASSUME NEW i \in 1 .. n
      PROVE  /\ g.parents[i] = ns[keys[i]].parent
             /\ Graph!Spanned(g, g.children[i]) = ns[keys[i]].children
  <2> DEFINE span == g.children[i]
             w == ns[keys[i]].children
  <2>1. /\ g.parents[i] = ns[keys[i]].parent
        /\ g.children \in Seq(GraphSpan) /\ Len(g.children) = n
        /\ span.size = Len(w)
        /\ span.first + span.size <= n
        /\ \A r \in 1 .. Len(w) : keys[span.first + r] = w[r]
    <3> HIDE DEF keys
    <3> QED BY <1>1, <1>3 DEF LinksUpTo
  <2>2. span \in GraphSpan BY <1>2, <2>1
  <2>3. span.first \in Nat BY <2>2 DEF GraphSpan
  <2>4. ns[keys[i]] \in GraphNode /\ D \subseteq Graph!Keys BY <1>1, <1>2 DEF ForestOK
  <2>5. w \in Seq(Graph!Keys) BY <2>4 DEF GraphNode
  <2>6. keys \in Seq(Graph!Keys) BY <1>2, <2>4
  <2> HIDE DEF keys, span, w
  <2>7. SubSeq(keys, span.first + 1, span.first + Len(w)) = w
    BY <2>1, <2>3, <2>5, <2>6, SpanIs
  <2>8. Graph!Spanned(g, span) = SubSeq(keys, span.first + 1, span.first + span.size)
    BY DEF Graph!Spanned, keys
  <2> QED BY <2>1, <2>7, <2>8 DEF span, w
<1> QED BY <1>2, <1>4, <1>5, <1>6, <1>7 DEF KeysAreNodes

\* The breadths are spans of the keys, one behind the other.
LEMMA BreadthsAre ==
  ASSUME NEW g, NEW rs, NEW ns, NEW depth, NEW m, IsComplete(g, rs, ns, depth, m)
  PROVE  /\ Graph!Spanned(g, Head(g.breadths)) = rs
         /\ FlattenSeq([n \in DOMAIN g.breadths |-> Graph!Spanned(g, g.breadths[n])]) = g.keys
         /\ \A i \in 1 .. Len(g.keys) :
               Graph!BreadthOf(g, i) = depth[g.keys[i]] + 1
<1> DEFINE D == DOMAIN ns
           keys == g.keys
           br == g.breadths
           ends == SpanEnds(br)
<1>0. KeysAreNodes(g, rs, ns) BY CompleteIs
<1>1. /\ keys \in Seq(D) /\ Len(keys) \in Nat
      /\ \A i \in 1 .. Len(keys) : keys[i] \in D
      /\ rs \in Seq(D) /\ Len(rs) \in Nat /\ Len(rs) <= Len(keys)
      /\ \A i \in 1 .. Len(rs) : keys[i] = rs[i]
  BY <1>0 DEF KeysAreNodes
<1>2. /\ m \in Nat /\ rs # <<>> /\ IsDepth(depth, ns)
      /\ BreadthsUpTo(keys, br, rs, depth, m)
      /\ \A k \in D : depth[k] < m
  BY DEF IsComplete, FlatUpTo
<1>3. \A k \in D : depth[k] \in Nat /\ depth[k] < m BY <1>2 DEF IsDepth
<1>4. \A n : Graph!Spanned(g, n) = SubSeq(keys, n.first + 1, n.first + n.size)
  BY DEF Graph!Spanned
<1> HIDE DEF keys, br
<1>5. /\ br \in Seq(GraphSpan) /\ Len(br) = m /\ DOMAIN br = 1 .. m
      /\ \A n \in 1 .. m : /\ br[n].first \in Nat /\ br[n].size \in Nat
                           /\ br[n].first = ends[n - 1]
                           /\ br[n].first + br[n].size <= Len(keys)
      /\ ends[m] = Len(keys)
      /\ m > 0 => br[1] = [first |-> 0, size |-> Len(rs)]
      /\ \A n \in 1 .. m : \A i \in 1 .. Len(keys) :
            depth[keys[i]] = n - 1 <=> br[n].first < i /\ i <= br[n].first + br[n].size
  <2>1. br \in Seq(GraphSpan) /\ Len(br) = m BY <1>2 DEF BreadthsUpTo
  <2>2. DOMAIN br = 1 .. m /\ \A n \in 1 .. m : br[n] \in GraphSpan BY <1>2, <2>1
  <2>3. \A n \in 1 .. m : br[n].first \in Nat /\ br[n].size \in Nat BY <2>2 DEF GraphSpan
  <2> QED BY <1>2, <2>1, <2>2, <2>3 DEF BreadthsUpTo
<1>6. m > 0
  <2>1. 1 \in 1 .. Len(rs) BY <1>1, <1>2
  <2>2. rs[1] \in D BY <1>1, <2>1
  <2> QED BY <1>2, <1>3, <2>2
<1>7. Graph!Spanned(g, Head(br)) = rs
  <2>1. Head(br) = br[1] BY <1>5, <1>6
  <2>2. br[1].first = 0 /\ br[1].size = Len(rs) BY <1>5, <1>6
  <2>3. \A r \in 1 .. Len(rs) : keys[0 + r] = rs[r] BY <1>1
  <2>4. 0 \in Nat /\ 0 + Len(rs) <= Len(keys) BY <1>1
  <2>5. SubSeq(keys, 0 + 1, 0 + Len(rs)) = rs BY <1>1, <2>3, <2>4, SpanIs
  <2> QED BY <1>4, <2>1, <2>2, <2>5
<1> DEFINE ss == [n \in DOMAIN br |-> Graph!Spanned(g, br[n])]
<1>8. ASSUME NEW n \in 1 .. m
      PROVE  /\ ss[n] \in Seq(D) /\ Len(ss[n]) = br[n].size
             /\ \A r \in 1 .. br[n].size : ss[n][r] = keys[br[n].first + r]
  <2> DEFINE a == br[n].first
             l == br[n].size
             q == SubSeq(keys, a + 1, a + l)
  <2>1. ss[n] = q BY <1>4, <1>5
  <2>2. a \in Nat /\ l \in Nat /\ a + l <= Len(keys) BY <1>5
  <2> HIDE DEF a, l, ss
  <2>3. \A i \in a + 1 .. a + l : keys[i] \in D
    <3> TAKE i \in a + 1 .. a + l
    <3> i \in 1 .. Len(keys) BY <1>1, <2>2
    <3> QED BY <1>1
  <2>4. q \in Seq(D) /\ Len(q) = IF a + 1 <= a + l THEN (a + l) - (a + 1) + 1 ELSE 0
    BY <1>1, <2>2, <2>3, SubSeqProperties
  <2>5. Len(q) = l
    <3> HIDE DEF q
    <3> QED BY <2>2, <2>4
  <2>6. ASSUME NEW r \in 1 .. l PROVE q[r] = keys[a + r]
    <3>1. r \in 1 .. (a + l) - (a + 1) + 1 BY <2>2
    <3>2. q[r] = keys[(a + 1) + r - 1] BY <1>1, <2>2, <3>1
    <3>3. (a + 1) + r - 1 = a + r BY <2>2
    <3> QED BY <3>2, <3>3
  <2> HIDE DEF q
  <2> QED BY <2>1, <2>4, <2>5, <2>6 DEF a, l
<1>9. ss \in Seq(Seq(D)) /\ Len(ss) = m
  <2>1. ss = [n \in 1 .. m |-> ss[n]] BY <1>5
  <2> HIDE DEF ss
  <2>2. ss \in [1 .. m -> Seq(D)] BY <1>8, <2>1
  <2> QED BY <1>2, <2>2, IsASeq
<1> HIDE DEF ss
<1>10. /\ DOMAIN ends = 0 .. m
       /\ \A n \in 0 .. m : ends[n] = IF n = 0 THEN 0 ELSE br[n].first + br[n].size
       /\ ends = [n \in 0 .. m |-> ends[n]]
  BY <1>5 DEF SpanEnds
<1> HIDE DEF ends
<1>11. IsStart(ends, ss)
  <2>1. \A n \in 0 .. m : ends[n] \in Nat
    <3> TAKE n \in 0 .. m
    <3>1. CASE n = 0 BY <1>10, <3>1
    <3>2. CASE n # 0
      <4>1. n \in 1 .. m BY <1>2, <3>2
      <4>2. br[n].first \in Nat /\ br[n].size \in Nat BY <1>5, <4>1
      <4>3. ends[n] = br[n].first + br[n].size BY <1>10, <3>2
      <4> QED BY <4>2, <4>3
    <3> QED BY <3>1, <3>2
  <2>2. ends \in [0 .. m -> Nat] BY <1>10, <2>1
  <2>3. ends[0] = 0 BY <1>2, <1>10
  <2>4. ASSUME NEW n \in 1 .. m PROVE ends[n] = ends[n - 1] + Len(ss[n])
    <3>1. ends[n] = br[n].first + br[n].size
      <4> n \in 0 .. m /\ n # 0 BY <1>2
      <4> QED BY <1>10
    <3>2. br[n].first = ends[n - 1] BY <1>5
    <3>3. Len(ss[n]) = br[n].size BY <1>8
    <3> QED BY <3>1, <3>2, <3>3
  <2> QED BY <1>9, <2>2, <2>3, <2>4 DEF IsStart
<1> DEFINE F == FlattenSeq(ss)
<1>12. IsFlat(F, ends, ss, m, D) BY <1>9, <1>11, FlattenIsFlat
<1>13. F = keys
  <2>1. F \in Seq(D) /\ Len(F) = Len(keys) BY <1>5, <1>12 DEF IsFlat
  <2>2. ASSUME NEW k \in 1 .. Len(keys) PROVE F[k] = keys[k]
    <3> HIDE DEF F
    <3>1. PICK n \in 1 .. m : \E r \in 1 .. Len(ss[n]) : k = ends[n - 1] + r
      BY <1>5, <1>12 DEF IsFlat
    <3>2. PICK r \in 1 .. Len(ss[n]) : k = ends[n - 1] + r BY <3>1
    <3>3. F[k] = ss[n][r] BY <1>12, <3>2 DEF IsFlat
    <3>4. ss[n][r] = keys[br[n].first + r] BY <1>8
    <3>5. br[n].first = ends[n - 1] BY <1>5
    <3> QED BY <3>2, <3>3, <3>4, <3>5
  <2> HIDE DEF F
  <2>3. \A k \in 1 .. Len(keys) : F[k] = keys[k] BY <2>2
  <2>4. DOMAIN F = 1 .. Len(keys) /\ DOMAIN keys = 1 .. Len(keys) BY <1>1, <2>1
  <2> QED BY <1>1, <2>1, <2>3, SeqEqual
<1>14. ASSUME NEW i \in 1 .. Len(keys) PROVE Graph!BreadthOf(g, i) = depth[keys[i]] + 1
  <2> DEFINE In(n) == i - 1 \in br[n].first .. br[n].first + br[n].size - 1
  <2>1. \A n \in 1 .. m : In(n) <=> depth[keys[i]] = n - 1
    <3> TAKE n \in 1 .. m
    <3>1. depth[keys[i]] = n - 1 <=> br[n].first < i /\ i <= br[n].first + br[n].size
      BY <1>5
    <3>2. br[n].first \in Nat /\ br[n].size \in Nat BY <1>5
    <3>3. i \in Nat BY <1>1
    <3>4. \A a, l \in Nat : i - 1 \in a .. a + l - 1 <=> a < i /\ i <= a + l BY <3>3
    <3> QED BY <3>1, <3>2, <3>4
  <2>2. keys[i] \in D BY <1>1
  <2>3. depth[keys[i]] + 1 \in 1 .. m /\ depth[keys[i]] \in Nat BY <1>2, <1>3, <2>2
  <2>4. Graph!BreadthOf(g, i) = CHOOSE n \in DOMAIN br : In(n)
    BY DEF Graph!BreadthOf, br
  <2> HIDE DEF In
  <2>5. In(depth[keys[i]] + 1) BY <2>1, <2>3
  <2>6. \A n \in 1 .. m : In(n) => n = depth[keys[i]] + 1 BY <2>1, <2>3
  <2> QED BY <1>5, <2>3, <2>4, <2>5, <2>6
<1> QED BY <1>7, <1>13, <1>14 DEF keys, br, ss

-----------------------------------------------------------------------------
(* FlatBfGraph: the graph and back.                                        *)

\* The builder that is made of a graph is the one the graph was made of.
LEMMA RebuiltIs ==
  ASSUME NEW g, NEW rs, NEW ns, NEW depth, NEW m, IsComplete(g, rs, ns, depth, m)
  PROVE  Graph!Rebuilt(g) = [roots |-> rs, nodes |-> ns]
<1> DEFINE D == DOMAIN ns
           keys == g.keys
           n == Len(keys)
           NodeSets == UNION {[S -> GraphNode] : S \in SUBSET D}
           V == [roots : Seq(D), nodes : NodeSets]
           base == [roots |-> <<>>, nodes |-> Graph!NoNodes]
           last == [t \in SUBSET (1 .. n) |-> Max(t)]
           Turn(v, i) == Graph!Pushed(v, g.parents[i], g.keys[i],
                                      Graph!Spanned(g, g.children[i]))
           step == [i \in 1 .. n |-> [v \in V |-> Turn(v, i)]]
           IsRun(f) ==
             f = [t \in SUBSET (1 .. n) |->
                    IF t = {} THEN base ELSE Turn(f[t \ {Max(t)}], Max(t))]
           c == CHOOSE f : IsRun(f)
           places == [i \in DOMAIN g.keys |-> i]
<1>0. KeysAreNodes(g, rs, ns) BY CompleteIs
<1>1. /\ n \in Nat /\ DOMAIN keys = 1 .. n
      /\ \A k \in D : \E i \in 1 .. n : keys[i] = k
      /\ \A i, j \in 1 .. n : keys[i] = keys[j] => i = j
      /\ \A i \in 1 .. n :
           /\ keys[i] \in D /\ g.parents[i] = ns[keys[i]].parent
           /\ Graph!Spanned(g, g.children[i]) = ns[keys[i]].children
      /\ rs \in Seq(D) /\ Len(rs) \in Nat /\ Len(rs) <= n
      /\ \A i \in 1 .. Len(rs) : keys[i] = rs[i]
  BY <1>0 DEF KeysAreNodes
<1>2. /\ \A k \in D : ns[k] \in GraphNode
      /\ \A i \in 1 .. n : ns[keys[i]].parent = Sentinel <=> i <= Len(rs)
      /\ D \subseteq Graph!Keys /\ ns = [k \in D |-> ns[k]]
  <2>0. ForestOK(rs, ns) BY DEF IsComplete
  <2>1. \A k \in D : ns[k] \in GraphNode BY <2>0 DEF ForestOK
  <2>2. ASSUME NEW i \in 1 .. n PROVE ns[keys[i]].parent = Sentinel <=> i <= Len(rs)
    <3> HIDE DEF keys
    <3>1. ASSUME i <= Len(rs) PROVE ns[keys[i]].parent = Sentinel
      <4> i \in 1 .. Len(rs) /\ i \in DOMAIN rs /\ keys[i] = rs[i] BY <1>1, <3>1
      <4> QED BY <2>0 DEF ForestOK
    <3>2. ASSUME ns[keys[i]].parent = Sentinel PROVE i <= Len(rs)
      <4>1. keys[i] \in D BY <1>1
      <4>2. PICK j \in DOMAIN rs : rs[j] = keys[i] BY <2>0, <3>2, <4>1 DEF ForestOK
      <4>3. j \in 1 .. Len(rs) /\ j \in 1 .. n BY <1>1
      <4>4. i = j BY <1>1, <4>2, <4>3
      <4> QED BY <1>1, <4>3, <4>4
    <3> QED BY <3>1, <3>2
  <2> QED BY <2>0, <2>1, <2>2 DEF ForestOK
<1>3. ASSUME NEW v \in V, NEW i \in 1 .. n
      PROVE  /\ Turn(v, i) =
                  [roots |-> IF i <= Len(rs) THEN Append(v.roots, keys[i]) ELSE v.roots,
                   nodes |-> [k \in DOMAIN v.nodes \cup {keys[i]} |->
                                IF k = keys[i] THEN ns[keys[i]] ELSE v.nodes[k]]]
             /\ Turn(v, i) \in V
  <2>1. ns[keys[i]] \in GraphNode /\ keys[i] \in D BY <1>1, <1>2
  <2>2. ns[keys[i]] = [parent |-> ns[keys[i]].parent, children |-> ns[keys[i]].children]
    BY <2>1 DEF GraphNode
  <2> DEFINE moreRoots == IF i <= Len(rs) THEN Append(v.roots, keys[i]) ELSE v.roots
             moreNodes == [k \in DOMAIN v.nodes \cup {keys[i]} |->
                             IF k = keys[i] THEN ns[keys[i]] ELSE v.nodes[k]]
  <2>3. Turn(v, i) = [roots |-> moreRoots, nodes |-> moreNodes]
    <3>1. /\ g.parents[i] = ns[keys[i]].parent
          /\ Graph!Spanned(g, g.children[i]) = ns[keys[i]].children
          /\ ns[keys[i]].parent = Sentinel <=> i <= Len(rs)
      BY <1>1, <1>2
    <3>2. Turn(v, i) = Graph!Pushed(v, ns[keys[i]].parent, keys[i], ns[keys[i]].children)
      BY <3>1
    <3> HIDE DEF keys, Turn
    <3> QED BY <2>2, <3>1, <3>2 DEF Graph!Pushed, Graph!With
  <2>4. moreRoots \in Seq(D)
    <3>1. v.roots \in Seq(D) OBVIOUS
    <3>2. Append(v.roots, keys[i]) \in Seq(D) BY <2>1, <3>1
    <3> HIDE DEF keys, V
    <3> QED BY <3>1, <3>2
  <2>5. moreNodes \in NodeSets
    <3>1. PICK S \in SUBSET D : v.nodes \in [S -> GraphNode] OBVIOUS
    <3>2. S \cup {keys[i]} \in SUBSET D BY <2>1
    <3>3. moreNodes \in [S \cup {keys[i]} -> GraphNode] BY <2>1, <3>1
    <3> HIDE DEF moreNodes
    <3> QED BY <3>2, <3>3
  <2> HIDE DEF moreRoots, moreNodes, Turn
  <2>6. Turn(v, i) \in V BY <2>3, <2>4, <2>5
  <2> QED BY <2>3, <2>6 DEF moreRoots, moreNodes
<1>4. Graph!Rebuilt(g) = c[1 .. n]
  <2>1. Graph!Rebuilt(g) = Graph!FoldLeft(LAMBDA v, i : Turn(v, i), base, places)
    BY DEF Graph!Rebuilt
  <2>2. DOMAIN places = 1 .. n /\ \A i \in 1 .. n : places[i] = i BY <1>1
  <2> HIDE DEF places, base, Turn
  <2>3. Graph!FoldLeft(LAMBDA v, i : Turn(v, i), base, places)
          = (CHOOSE f : f = [t \in SUBSET (1 .. n) |->
                               IF t = {} THEN base
                               ELSE Turn(f[t \ {Max(t)}], places[Max(t)])])[1 .. n]
    BY <2>2 DEF Graph!FoldLeft, Graph!MapThenFoldSet, Graph!Max, Max
  <2>4. \A f : f = [t \in SUBSET (1 .. n) |->
                               IF t = {} THEN base
                               ELSE Turn(f[t \ {Max(t)}], places[Max(t)])] <=> IsRun(f)
    <3> TAKE f
    <3>1. \A t \in SUBSET (1 .. n) : t # {} => places[Max(t)] = Max(t)
      BY <1>1, <2>2, LastMember
    <3> QED BY <3>1
  <2> HIDE DEF IsRun
  <2>5. (CHOOSE f : f = [t \in SUBSET (1 .. n) |->
                               IF t = {} THEN base
                               ELSE Turn(f[t \ {Max(t)}], places[Max(t)])]) = c
    BY <2>4
  <2> QED BY <2>1, <2>3, <2>5
<1>5. base \in V
  <2>1. Graph!NoNodes \in [{} -> GraphNode] BY DEF Graph!NoNodes
  <2>2. Graph!NoNodes \in NodeSets BY <2>1
  <2>3. <<>> \in Seq(D) OBVIOUS
  <2> HIDE DEF NodeSets
  <2> QED BY <2>2, <2>3
<1> HIDE DEF V, Turn, keys
<1>6. step \in StepsOver(1 .. n, V) BY <1>3 DEF StepsOver
<1>7. PICK f : IsFold(f, 1 .. n, V, base, step, last)
  <2> HIDE DEF step, base
  <2> QED BY <1>1, <1>5, <1>6, FoldLeftExists
<1>8. /\ f \in [SUBSET (1 .. n) -> V]
      /\ \A t \in SUBSET (1 .. n) :
            f[t] = IF t = {} THEN base ELSE step[Max(t)][f[t \ {Max(t)}]]
  BY <1>7 DEF IsFold
<1>9. ASSUME NEW t \in SUBSET (1 .. n), t # {}
      PROVE  f[t] = Turn(f[t \ {Max(t)}], Max(t))
  <2>1. Max(t) \in 1 .. n BY <1>1, <1>9, LastMember
  <2>2. f[t \ {Max(t)}] \in V BY <1>8
  <2> QED BY <1>8, <1>9, <2>1, <2>2
<1>10. IsRun(f)
  <2> HIDE DEF base
  <2> QED BY <1>8, <1>9
<1>11. IsRun(c)
  <2> HIDE DEF IsRun
  <2> QED BY <1>10
<1> HIDE DEF c
<1>12. c[{}] = base BY <1>11
<1>13. ASSUME NEW i \in 1 .. n PROVE c[1 .. i] = Turn(c[1 .. (i - 1)], i)
  <2>1. Max(1 .. i) = i /\ (1 .. i) \ {i} = 1 .. (i - 1) BY <1>1, LastIndex
  <2>2. 1 .. i \in SUBSET (1 .. n) /\ 1 .. i # {}
    <3>1. i \in 1 .. i /\ \A j \in 1 .. i : j \in 1 .. n BY <1>1
    <3> QED BY <3>1
  <2> HIDE DEF base
  <2> QED BY <1>11, <2>1, <2>2
<1> DEFINE FirstRoots(i) == IF i <= Len(rs) THEN SubSeq(rs, 1, i) ELSE rs
           Known(i) == [k \in {keys[j] : j \in 1 .. i} |-> ns[k]]
           Part(i) == [roots |-> FirstRoots(i), nodes |-> Known(i)]
           T == {i \in 0 .. n : c[1 .. i] = Part(i) /\ Part(i) \in V}
<1>14. 0 \in T
  <2>1. 1 .. 0 = {} /\ 0 \in 0 .. n BY <1>1
  <2>2. FirstRoots(0) = <<>> BY <1>1
  <2>3. Known(0) = Graph!NoNodes
    <3>1. {keys[j] : j \in 1 .. 0} = {} BY <2>1
    <3>2. Known(0) = [k \in {} |-> ns[k]] BY <3>1
    <3> QED BY <3>2 DEF Graph!NoNodes
  <2>4. Part(0) = base BY <2>2, <2>3
  <2> HIDE DEF Part, base
  <2> QED BY <1>5, <1>12, <2>1, <2>4
<1>15. ASSUME NEW i \in 1 .. n, i - 1 \in T PROVE i \in T
  <2> DEFINE v == Part(i - 1)
  <2>1. c[1 .. i] = Turn(v, i) /\ v \in V BY <1>13, <1>15
  <2>2. v.roots = FirstRoots(i - 1) /\ v.nodes = Known(i - 1) OBVIOUS
  <2> HIDE DEF v, FirstRoots, Known
  <2>3. Turn(v, i) =
          [roots |-> IF i <= Len(rs) THEN Append(FirstRoots(i - 1), keys[i]) ELSE FirstRoots(i - 1),
           nodes |-> [k \in DOMAIN Known(i - 1) \cup {keys[i]} |->
                        IF k = keys[i] THEN ns[keys[i]] ELSE Known(i - 1)[k]]]
    BY <1>3, <2>1, <2>2
  <2>4. (IF i <= Len(rs) THEN Append(FirstRoots(i - 1), keys[i]) ELSE FirstRoots(i - 1)) = FirstRoots(i)
    <3>1. CASE i <= Len(rs)
      <4>1. FirstRoots(i - 1) = SubSeq(rs, 1, i - 1) /\ FirstRoots(i) = SubSeq(rs, 1, i)
        <5> i - 1 <= Len(rs) BY <1>1, <3>1
        <5> QED BY <3>1 DEF FirstRoots
      <4>2. keys[i] = rs[i] /\ i \in 1 .. Len(rs)
        <5> i \in 1 .. Len(rs) BY <1>1, <3>1
        <5> QED BY <1>1
      <4>3. SubSeq(rs, 1, i) = Append(SubSeq(rs, 1, i - 1), rs[i]) BY <1>1, <4>2
      <4> QED BY <3>1, <4>1, <4>2, <4>3
    <3>2. CASE ~(i <= Len(rs))
      <4>1. FirstRoots(i) = rs BY <3>2 DEF FirstRoots
      <4>2. FirstRoots(i - 1) = rs
        <5>1. CASE i - 1 = Len(rs)
          <6>1. FirstRoots(i - 1) = SubSeq(rs, 1, Len(rs)) BY <1>1, <5>1 DEF FirstRoots
          <6>2. rs \in Seq(D) BY <1>1
          <6>3. SubSeq(rs, 1, Len(rs)) = rs
            <7> HIDE DEF D
            <7> QED BY <6>2
          <6> QED BY <6>1, <6>3
        <5>2. CASE i - 1 # Len(rs)
          <6> ~(i - 1 <= Len(rs)) BY <1>1, <3>2, <5>2
          <6> QED BY DEF FirstRoots
        <5> QED BY <5>1, <5>2
      <4> QED BY <3>2, <4>1, <4>2
    <3> QED BY <3>1, <3>2
  <2>5. [k \in DOMAIN Known(i - 1) \cup {keys[i]} |->
           IF k = keys[i] THEN ns[keys[i]] ELSE Known(i - 1)[k]] = Known(i)
    <3>1. {keys[j] : j \in 1 .. (i - 1)} \cup {keys[i]} = {keys[j] : j \in 1 .. i}
      <4>1. \A j \in 1 .. i : j \in 1 .. (i - 1) \/ j = i BY <1>1
      <4>2. \A j \in 1 .. (i - 1) : j \in 1 .. i BY <1>1
      <4>3. i \in 1 .. i BY <1>1
      <4> QED BY <4>1, <4>2, <4>3
    <3>2. /\ DOMAIN Known(i - 1) = {keys[j] : j \in 1 .. (i - 1)}
          /\ \A k \in {keys[j] : j \in 1 .. (i - 1)} : Known(i - 1)[k] = ns[k]
      BY DEF Known
    <3> QED BY <3>1, <3>2 DEF Known
  <2>6. c[1 .. i] = Part(i) BY <2>1, <2>3, <2>4, <2>5
  <2>7. Turn(v, i) \in V BY <1>3, <2>1
  <2> HIDE DEF Part
  <2> QED BY <1>1, <2>1, <2>6, <2>7
<1>16. n \in T
  <2> HIDE DEF T
  <2>1. 0 .. n \subseteq T BY <1>1, <1>14, <1>15, BoundedInduction
  <2> QED BY <1>1, <2>1
<1>17. FirstRoots(n) = rs
  <2>1. CASE n = Len(rs)
    <3> FirstRoots(n) = SubSeq(rs, 1, Len(rs)) BY <1>1, <2>1
    <3> QED BY <1>1
  <2>2. CASE n # Len(rs)
    <3> ~(n <= Len(rs)) BY <1>1, <2>2
    <3> QED OBVIOUS
  <2> QED BY <2>1, <2>2
<1>18. Known(n) = ns
  <2>1. \A j \in 1 .. n : keys[j] \in D BY <1>1
  <2>2. \A k \in D : \E j \in 1 .. n : keys[j] = k BY <1>1
  <2>3. {keys[j] : j \in 1 .. n} = D BY <2>1, <2>2
  <2> QED BY <1>2, <2>3
<1> HIDE DEF FirstRoots, Known
<1> QED BY <1>4, <1>16, <1>17, <1>18

\* A graph has what its builder had, each where the lookup and the spans say.
AsBuilt(g, b) ==
  /\ Graph!ToSet(g.keys) = DOMAIN b.nodes
  /\ Len(g.keys) = Graph!Cardinality(DOMAIN b.nodes)
  /\ Graph!Spanned(g, Head(g.breadths)) = b.roots
  /\ Graph!FlattenSeq([n \in DOMAIN g.breadths |-> Graph!Spanned(g, g.breadths[n])]) = g.keys
  /\ \A i \in DOMAIN g.keys :
       LET key == g.keys[i]
       IN  /\ Graph!Index(g, key) = i
           /\ g.parents[i] = b.nodes[key].parent
           /\ Graph!Spanned(g, g.children[i]) = b.nodes[key].children
           /\ \A child \in Graph!ToSet(b.nodes[key].children) :
                Graph!BreadthOf(g, Graph!Index(g, child)) = Graph!BreadthOf(g, i) + 1
  /\ Graph!Rebuilt(g) = b

\* So it is for the graph of every forest.
LEMMA AsItWasBuilt ==
  ASSUME NEW b, NEW rs, NEW ns, b = [roots |-> rs, nodes |-> ns],
         ForestOK(rs, ns), ChildrenAdded(ns), rs # <<>>
  PROVE  AsBuilt(Graph!Flattened(b), b)
<1> DEFINE D == DOMAIN ns
           g == Graph!Flattened(b)
           keys == g.keys
<1>0. b.roots = rs /\ b.nodes = ns OBVIOUS
<1>1. PICK depth : IsDepth(depth, ns) BY DEF ForestOK
<1>2. PICK m \in Nat : FlatUpTo(g, <<>>, rs, ns, depth, m) /\ \A k \in D : depth[k] < m
  BY <1>0, <1>1, FlattenedIs
<1> HIDE DEF g
<1>3. IsComplete(g, rs, ns, depth, m) BY <1>1, <1>2 DEF IsComplete
<1>4. KeysAreNodes(g, rs, ns) BY <1>3, CompleteIs
<1>5. /\ keys \in Seq(D) /\ Len(keys) \in Nat /\ DOMAIN keys = 1 .. Len(keys)
      /\ \A k \in D : \E i \in 1 .. Len(keys) : keys[i] = k
      /\ \A i, j \in 1 .. Len(keys) : keys[i] = keys[j] => i = j
      /\ \A i \in 1 .. Len(keys) :
           /\ keys[i] \in D /\ g.parents[i] = ns[keys[i]].parent
           /\ Graph!Spanned(g, g.children[i]) = ns[keys[i]].children
  BY <1>4 DEF KeysAreNodes
<1>6. /\ Graph!Spanned(g, Head(g.breadths)) = rs
      /\ FlattenSeq([n \in DOMAIN g.breadths |-> Graph!Spanned(g, g.breadths[n])]) = keys
      /\ \A i \in 1 .. Len(keys) : Graph!BreadthOf(g, i) = depth[keys[i]] + 1
  BY <1>3, BreadthsAre
<1>7. LookupUpTo(keys, g.lookup) BY <1>2 DEF FlatUpTo
<1>8. D \subseteq Graph!Keys BY DEF ForestOK
<1> HIDE DEF keys
<1>9. Graph!ToSet(keys) = D
  <2>1. \A i \in DOMAIN keys : keys[i] \in D BY <1>5
  <2>2. \A k \in D : \E i \in DOMAIN keys : keys[i] = k BY <1>5
  <2> QED BY <2>1, <2>2 DEF Graph!ToSet
<1>10. Len(keys) = Graph!Cardinality(D)
  <2> Len(keys) = Cardinality(D) BY <1>5, <1>8, DistinctFit
  <2> QED BY SameCardinality
<1>11. Graph!FlattenSeq([n \in DOMAIN g.breadths |-> Graph!Spanned(g, g.breadths[n])]) = keys
  <2>1. \A ss : Graph!FlattenSeq(ss) = FlattenSeq(ss) BY DEF Graph!FlattenSeq, FlattenSeq
  <2> QED BY <1>6, <2>1
<1>12. ASSUME NEW i \in 1 .. Len(keys) PROVE Graph!Index(g, keys[i]) = i
  <2>1. keys[i] \in DOMAIN g.lookup /\ g.lookup[keys[i]] = i - 1 BY <1>7 DEF LookupUpTo
  <2>2. Len(keys) <= Sentinel BY <1>5, <1>8, DistinctFit
  <2>3. i - 1 # Sentinel BY <1>5, <2>2, GraphKeys
  <2> QED BY <1>5, <2>1, <2>3 DEF Graph!Index, Graph!Find, Graph!ContainsKey
<1>13. ASSUME NEW i \in 1 .. Len(keys), NEW child \in Graph!ToSet(ns[keys[i]].children)
       PROVE  Graph!BreadthOf(g, Graph!Index(g, child)) = Graph!BreadthOf(g, i) + 1
  <2>1. keys[i] \in D /\ HasChild(ns, keys[i], child) BY <1>5 DEF Graph!ToSet, HasChild
  <2>2. child \in D BY <2>1 DEF ChildrenAdded
  <2>3. ns[child].parent = keys[i] BY <2>1, <2>2 DEF ForestOK
  <2>4. keys[i] # Sentinel BY <1>8, <2>1, GraphKeys
  <2>5. depth[child] = depth[keys[i]] + 1 BY <1>1, <2>2, <2>3, <2>4 DEF IsDepth
  <2>6. PICK j \in 1 .. Len(keys) : keys[j] = child BY <1>5, <2>2
  <2>7. Graph!Index(g, child) = j BY <1>12, <2>6
  <2>8. Graph!BreadthOf(g, j) = depth[child] + 1 /\ Graph!BreadthOf(g, i) = depth[keys[i]] + 1
    BY <1>6, <2>6
  <2> QED BY <2>5, <2>7, <2>8
<1>14. Graph!Rebuilt(g) = b BY <1>3, RebuiltIs
<1>15. \A i \in DOMAIN keys :
          /\ Graph!Index(g, keys[i]) = i
          /\ g.parents[i] = ns[keys[i]].parent
          /\ Graph!Spanned(g, g.children[i]) = ns[keys[i]].children
          /\ \A child \in Graph!ToSet(ns[keys[i]].children) :
               Graph!BreadthOf(g, Graph!Index(g, child)) = Graph!BreadthOf(g, i) + 1
  BY <1>5, <1>12, <1>13
<1> QED BY <1>0, <1>6, <1>9, <1>10, <1>11, <1>14, <1>15 DEF keys, g, AsBuilt

-----------------------------------------------------------------------------
(* FlatBfGraph: the builder and its graph.                                 *)

\* Who lists a key that was neither added nor declared.
Unlisted(ns, c) == \A k \in DOMAIN ns : ~HasChild(ns, k, c)

\* A node added to a forest: a root that nobody lists, or the child of who
\* lists it; its children are new.
LEMMA PushedKeeps ==
  ASSUME NEW rs, NEW ns, ForestOK(rs, ns), NEW key \in Graph!Keys, key \notin DOMAIN ns,
         NEW parent, \/ parent = Sentinel /\ Unlisted(ns, key)
                     \/ parent \in DOMAIN ns /\ HasChild(ns, parent, key),
         NEW children \in Seq(Graph!Keys),
         \A r, q \in DOMAIN children : children[r] = children[q] => r = q,
         \A r \in DOMAIN children : /\ children[r] \notin DOMAIN ns /\ children[r] # key
                                    /\ Unlisted(ns, children[r])
  PROVE  ForestOK(IF parent = Sentinel THEN Append(rs, key) ELSE rs,
                  Graph!With(ns, key, parent, children))
<1> DEFINE D == DOMAIN ns
           E == D \cup {key}
           node == [parent |-> parent, children |-> children]
           new == Graph!With(ns, key, parent, children)
           more == IF parent = Sentinel THEN Append(rs, key) ELSE rs
<1>1. /\ new = [k \in E |-> IF k = key THEN node ELSE ns[k]]
      /\ DOMAIN new = E /\ new[key] = node /\ \A k \in D : new[k] = ns[k]
  BY DEF Graph!With
<1>2. node.parent = parent /\ node.children = children OBVIOUS
<1>3. /\ rs \in Seq(Graph!Keys) /\ Len(rs) \in Nat /\ DOMAIN rs = 1 .. Len(rs)
      /\ D \subseteq Graph!Keys /\ ns \in [D -> GraphNode]
      /\ \A k \in D : ns[k] \in GraphNode
      /\ Sentinel \notin Graph!Keys
  BY GraphKeys DEF ForestOK
<1>4. parent \in Graph!Positions /\ (parent \in D <=> parent # Sentinel)
  BY <1>3, GraphKeys
<1>5. node \in GraphNode BY <1>4 DEF GraphNode
<1> HIDE DEF node, new
<1>6. /\ \A k \in D : \A c : HasChild(new, k, c) <=> HasChild(ns, k, c)
      /\ \A c : HasChild(new, key, c) <=> \E r \in DOMAIN children : children[r] = c
  BY <1>1, <1>2 DEF HasChild
<1>7. ASSUME NEW k \in D, HasChild(ns, k, key) PROVE parent = k
  <2>1. parent \in D /\ HasChild(ns, parent, key) BY <1>7 DEF Unlisted
  <2> QED BY <1>7, <2>1 DEF ForestOK
<1>8. /\ more \in Seq(Graph!Keys)
      /\ \A i \in DOMAIN more : \/ i \in DOMAIN rs /\ more[i] = rs[i]
                                \/ more[i] = key /\ parent = Sentinel
      /\ \A i \in DOMAIN rs : i \in DOMAIN more /\ more[i] = rs[i]
      /\ parent = Sentinel => \E i \in DOMAIN more : more[i] = key
      /\ \A i, j \in DOMAIN more : more[i] = more[j] => i = j
  <2>1. \A i \in DOMAIN rs : rs[i] # key BY DEF ForestOK
  <2>2. \A i, j \in DOMAIN rs : rs[i] = rs[j] => i = j BY DEF ForestOK
  <2>3. CASE parent # Sentinel
    <3> more = rs BY <2>3
    <3> HIDE DEF more
    <3> QED BY <1>3, <2>2, <2>3
  <2>4. CASE parent = Sentinel
    <3> DEFINE s == Append(rs, key)
    <3>1. /\ s \in Seq(Graph!Keys) /\ DOMAIN s = 1 .. Len(rs) + 1
          /\ \A i \in 1 .. Len(rs) : s[i] = rs[i]
          /\ s[Len(rs) + 1] = key
      BY <1>3
    <3>2. more = s BY <2>4
    <3> HIDE DEF s, more
    <3>3. \A i \in 1 .. Len(rs) + 1 : i \in 1 .. Len(rs) \/ i = Len(rs) + 1 BY <1>3
    <3>4. Len(rs) + 1 \in 1 .. Len(rs) + 1 /\ \A i \in 1 .. Len(rs) : i \in 1 .. Len(rs) + 1
      BY <1>3
    <3> QED BY <1>3, <2>1, <2>2, <2>4, <3>1, <3>2, <3>3, <3>4
  <2> QED BY <2>3, <2>4
<1> HIDE DEF more
<1>9. E \subseteq Graph!Keys /\ new \in [E -> GraphNode] BY <1>1, <1>3, <1>5
<1>10. \A i \in DOMAIN more : more[i] \in E /\ new[more[i]].parent = Sentinel
  <2>1. \A i \in DOMAIN rs : rs[i] \in D /\ ns[rs[i]].parent = Sentinel BY DEF ForestOK
  <2> QED BY <1>1, <1>2, <1>8, <2>1
<1>11. \A k \in E : new[k].parent = Sentinel => \E i \in DOMAIN more : more[i] = k
  <2>1. \A k \in D : ns[k].parent = Sentinel => \E i \in DOMAIN rs : rs[i] = k BY DEF ForestOK
  <2> QED BY <1>1, <1>2, <1>8, <2>1
<1>12. \A k \in E : \A r, q \in DOMAIN new[k].children :
          new[k].children[r] = new[k].children[q] => r = q
  <2>1. \A k \in D : \A r, q \in DOMAIN ns[k].children :
          ns[k].children[r] = ns[k].children[q] => r = q
    BY DEF ForestOK
  <2> QED BY <1>1, <1>2, <2>1
<1>13. \A k \in E : new[k].parent # Sentinel =>
          new[k].parent \in E /\ HasChild(new, new[k].parent, k)
  <2>1. \A k \in D : ns[k].parent # Sentinel =>
          ns[k].parent \in D /\ HasChild(ns, ns[k].parent, k)
    BY DEF ForestOK
  <2>2. parent # Sentinel => parent \in D /\ HasChild(ns, parent, key) OBVIOUS
  <2> TAKE k \in E
  <2>3. CASE k = key
    <3> new[k].parent = parent BY <1>1, <1>2, <2>3
    <3> QED BY <1>6, <2>2, <2>3
  <2>4. CASE k # key
    <3>1. k \in D /\ new[k].parent = ns[k].parent BY <1>1, <2>4
    <3> QED BY <1>6, <2>1, <3>1
  <2> QED BY <2>3, <2>4
<1>14. \A k, c \in E : HasChild(new, k, c) => new[c].parent = k
  <2>1. \A k, c \in D : HasChild(ns, k, c) => ns[c].parent = k BY DEF ForestOK
  <2>2. \A c \in E : ~HasChild(new, key, c) BY <1>6
  <2> SUFFICES ASSUME NEW k \in E, NEW c \in E, HasChild(new, k, c)
               PROVE  new[c].parent = k
    OBVIOUS
  <2>3. k \in D /\ HasChild(ns, k, c) BY <1>6, <2>2
  <2>4. CASE c = key
    <3> new[c].parent = parent BY <1>1, <1>2, <2>4
    <3> QED BY <1>7, <2>3, <2>4
  <2>5. CASE c # key
    <3> c \in D /\ new[c].parent = ns[c].parent BY <1>1, <2>5
    <3> QED BY <2>1, <2>3
  <2> QED BY <2>4, <2>5
<1>15. \A k, l \in E : \A c : HasChild(new, k, c) /\ HasChild(new, l, c) => k = l
  <2>1. \A k, l \in D : \A c : HasChild(ns, k, c) /\ HasChild(ns, l, c) => k = l BY DEF ForestOK
  <2>2. \A c, k : HasChild(new, key, c) /\ k \in D => ~HasChild(ns, k, c)
    BY <1>6 DEF Unlisted
  <2> QED BY <1>6, <2>1, <2>2
<1>16. \E depth : IsDepth(depth, new)
  <2>1. PICK depth : IsDepth(depth, ns) BY DEF ForestOK
  <2>2. /\ depth \in [D -> Nat]
        /\ \A k \in D : depth[k] = IF ns[k].parent = Sentinel THEN 0 ELSE depth[ns[k].parent] + 1
        /\ \A k \in D : ns[k].parent # Sentinel => ns[k].parent \in D
    BY <2>1 DEF IsDepth, ForestOK
  <2> DEFINE own == IF parent = Sentinel THEN 0 ELSE depth[parent] + 1
             deeper == [k \in E |-> IF k = key THEN own ELSE depth[k]]
  <2>3. own \in Nat BY <1>4, <2>2
  <2>4. /\ deeper \in [E -> Nat] /\ deeper[key] = own
        /\ \A k \in D : deeper[k] = depth[k]
    BY <2>2, <2>3
  <2>5. own = IF parent = Sentinel THEN 0 ELSE deeper[parent] + 1 BY <1>4, <2>4
  <2> HIDE DEF own, deeper
  <2>6. \A k \in E : deeper[k] = IF new[k].parent = Sentinel THEN 0 ELSE deeper[new[k].parent] + 1
    BY <1>1, <1>2, <2>2, <2>4, <2>5
  <2>7. IsDepth(deeper, new) BY <1>1, <2>4, <2>6 DEF IsDepth
  <2> QED BY <2>7
<1>17. ForestOK(more, new)
  BY <1>1, <1>8, <1>9, <1>10, <1>11, <1>12, <1>13, <1>14, <1>15, <1>16 DEF ForestOK
<1> QED BY <1>17 DEF more, new

\* A child declared by a node of a forest: nobody listed it.
LEMMA DeclareKeeps ==
  ASSUME NEW rs, NEW ns, ForestOK(rs, ns), NEW key \in Graph!Keys, key \notin DOMAIN ns,
         Unlisted(ns, key), NEW parent \in DOMAIN ns,
         NEW new, new = [ns EXCEPT ![parent].children = Append(@, key)]
  PROVE  ForestOK(rs, new) /\ DOMAIN new = DOMAIN ns /\ HasChild(new, parent, key)
<1> DEFINE D == DOMAIN ns
           cs == ns[parent].children
           s == Append(cs, key)
<1>1. D \subseteq Graph!Keys /\ ns \in [D -> GraphNode] /\ \A k \in D : ns[k] \in GraphNode
  BY DEF ForestOK
<1>2. cs \in Seq(Graph!Keys) /\ Len(cs) \in Nat /\ DOMAIN cs = 1 .. Len(cs)
  <2>1. ns[parent] \in GraphNode BY <1>1
  <2>2. cs \in Seq(Graph!Keys) BY <2>1 DEF GraphNode
  <2> HIDE DEF cs
  <2> QED BY <2>2
<1>3. /\ s \in Seq(Graph!Keys) /\ DOMAIN s = 1 .. Len(cs) + 1
      /\ \A i \in 1 .. Len(cs) : s[i] = cs[i]
      /\ s[Len(cs) + 1] = key
  <2> HIDE DEF cs
  <2> QED BY <1>2
<1>4. /\ DOMAIN new = D
      /\ \A k \in D : new[k].parent = ns[k].parent /\ new[k] \in GraphNode
      /\ \A k \in D : new[k].children = IF k = parent THEN s ELSE ns[k].children
      /\ new \in [D -> GraphNode]
  <2>1. new = [k \in D |-> IF k = parent THEN [ns[parent] EXCEPT !.children = s] ELSE ns[k]]
    BY <1>1
  <2>2. ns[parent] \in [parent : Graph!Positions, children : Seq(Graph!Keys)] BY <1>1 DEF GraphNode
  <2> DEFINE r == [ns[parent] EXCEPT !.children = s]
  <2>3. /\ r \in [parent : Graph!Positions, children : Seq(Graph!Keys)]
        /\ r.parent = ns[parent].parent /\ r.children = s
    <3> HIDE DEF s
    <3> QED BY <1>3, <2>2
  <2>4. r \in GraphNode BY <2>3 DEF GraphNode
  <2> HIDE DEF r, s
  <2> QED BY <1>1, <2>1, <2>3, <2>4 DEF r
<1>5. \A c : (\E r \in DOMAIN s : s[r] = c) <=> (c = key \/ HasChild(ns, parent, c))
  <2>1. \A i \in DOMAIN s : i \in 1 .. Len(cs) \/ i = Len(cs) + 1 BY <1>2, <1>3
  <2>2. \A i \in 1 .. Len(cs) : i \in DOMAIN s BY <1>2, <1>3
  <2>3. Len(cs) + 1 \in DOMAIN s BY <1>2, <1>3
  <2>4. \A c : HasChild(ns, parent, c) <=> \E i \in 1 .. Len(cs) : cs[i] = c BY <1>2 DEF HasChild
  <2> HIDE DEF s, cs
  <2> QED BY <1>3, <2>1, <2>2, <2>3, <2>4
<1> HIDE DEF s, cs
<1>6. \A k \in D : \A c :
         HasChild(new, k, c) <=> HasChild(ns, k, c) \/ (k = parent /\ c = key)
  <2> TAKE k \in D
  <2>1. CASE k = parent
    <3>1. new[k].children = s BY <1>4, <2>1
    <3>2. \A c : HasChild(new, k, c) <=> \E r \in DOMAIN s : s[r] = c BY <3>1 DEF HasChild
    <3> QED BY <1>5, <2>1, <3>2
  <2>2. CASE k # parent
    <3>1. new[k].children = ns[k].children BY <1>4, <2>2
    <3>2. \A c : HasChild(new, k, c) <=> HasChild(ns, k, c) BY <3>1 DEF HasChild
    <3> QED BY <2>2, <3>2
  <2> QED BY <2>1, <2>2
<1>7. \A k \in D : \A r, q \in DOMAIN new[k].children :
         new[k].children[r] = new[k].children[q] => r = q
  <2>1. \A k \in D : \A r, q \in DOMAIN ns[k].children :
          ns[k].children[r] = ns[k].children[q] => r = q
    BY DEF ForestOK
  <2>2. \A i \in 1 .. Len(cs) : cs[i] # key
    BY <1>2 DEF Unlisted, HasChild, cs
  <2>3. \A i, j \in 1 .. Len(cs) : cs[i] = cs[j] => i = j BY <1>2, <2>1 DEF cs
  <2>4. \A i \in DOMAIN s : i \in 1 .. Len(cs) \/ i = Len(cs) + 1 BY <1>2, <1>3
  <2>5. \A i, j \in DOMAIN s : s[i] = s[j] => i = j
    BY <1>3, <2>2, <2>3, <2>4
  <2> TAKE k \in D
  <2>6. CASE k = parent
    <3> new[k].children = s BY <1>4, <2>6
    <3> QED BY <2>5
  <2>7. CASE k # parent
    <3> DEFINE old == ns[k].children
    <3>1. new[k].children = old BY <1>4, <2>7
    <3>2. \A r, q \in DOMAIN old : old[r] = old[q] => r = q BY <2>1
    <3> HIDE DEF old
    <3> QED BY <3>1, <3>2
  <2> QED BY <2>6, <2>7
<1>8. /\ rs \in Seq(Graph!Keys)
      /\ \A i, j \in DOMAIN rs : rs[i] = rs[j] => i = j
      /\ \A i \in DOMAIN rs : rs[i] \in D /\ new[rs[i]].parent = Sentinel
      /\ \A k \in D : new[k].parent = Sentinel => \E i \in DOMAIN rs : rs[i] = k
  BY <1>4 DEF ForestOK
<1>9. /\ \A k \in D : new[k].parent # Sentinel =>
           new[k].parent \in D /\ HasChild(new, new[k].parent, k)
      /\ \A k, c \in D : HasChild(new, k, c) => new[c].parent = k
      /\ \A k, l \in D : \A c : HasChild(new, k, c) /\ HasChild(new, l, c) => k = l
  <2>1. /\ \A k \in D : ns[k].parent # Sentinel =>
             ns[k].parent \in D /\ HasChild(ns, ns[k].parent, k)
        /\ \A k, c \in D : HasChild(ns, k, c) => ns[c].parent = k
        /\ \A k, l \in D : \A c : HasChild(ns, k, c) /\ HasChild(ns, l, c) => k = l
    BY DEF ForestOK
  <2>2. \A k \in D : new[k].parent # Sentinel =>
          new[k].parent \in D /\ HasChild(new, new[k].parent, k)
    <3> TAKE k \in D
    <3> DEFINE p == ns[k].parent
    <3>1. new[k].parent = p BY <1>4
    <3>2. p # Sentinel => p \in D /\ HasChild(ns, p, k) BY <2>1
    <3> HIDE DEF p
    <3>3. p # Sentinel => p \in D /\ HasChild(new, p, k) BY <1>6, <3>2
    <3> QED BY <3>1, <3>3
  <2>3. \A k, c \in D : HasChild(new, k, c) => new[c].parent = k
    <3> TAKE k, c \in D
    <3> new[c].parent = ns[c].parent /\ c # key BY <1>4
    <3> QED BY <1>6, <2>1
  <2>4. \A k, l \in D : \A c : HasChild(new, k, c) /\ HasChild(new, l, c) => k = l
    <3> TAKE k, l \in D
    <3>1. \A j \in D : ~HasChild(ns, j, key) BY DEF Unlisted
    <3> QED BY <1>6, <2>1, <3>1
  <2> QED BY <2>2, <2>3, <2>4
<1>10. \E depth : IsDepth(depth, new)
  <2>1. PICK depth : IsDepth(depth, ns) BY DEF ForestOK
  <2>2. IsDepth(depth, new) BY <1>4, <2>1 DEF IsDepth
  <2> QED BY <2>2
<1>11. ForestOK(rs, new) BY <1>1, <1>4, <1>7, <1>8, <1>9, <1>10 DEF ForestOK
<1> QED BY <1>4, <1>6, <1>11

\* The builder is a forest, and a graph is the one of a whole forest.
GraphInv ==
  /\ ForestOK(roots, nodes)
  /\ graph # Null =>
       /\ built = [roots |-> built.roots, nodes |-> built.nodes]
       /\ ForestOK(built.roots, built.nodes) /\ ChildrenAdded(built.nodes)
       /\ built.roots # <<>> /\ graph = Graph!Flattened(built)

\* An empty builder is one.
LEMMA EmptyForest == ForestOK(<<>>, Graph!NoNodes)
<1> DEFINE ns == Graph!NoNodes
<1>1. DOMAIN ns = {} /\ ns \in [{} -> GraphNode] BY DEF Graph!NoNodes
<1> HIDE DEF ns
<1> DEFINE rs == <<>>
<1>2. rs \in Seq(Graph!Keys) /\ DOMAIN rs = {} OBVIOUS
<1> HIDE DEF rs
<1>3. IsDepth([k \in {} |-> 0], ns) BY <1>1 DEF IsDepth
<1>4. \E depth : IsDepth(depth, ns) BY <1>3
<1>5. ForestOK(rs, ns) BY <1>1, <1>2, <1>4 DEF ForestOK
<1> QED BY <1>5 DEF rs, ns

\* Keys that are fresh are listed by nobody; declared ones are not added.
LEMMA FreshAre ==
  /\ \A k \in Graph!Fresh : k \in Graph!Keys /\ k \notin DOMAIN nodes /\ Unlisted(nodes, k)
  /\ \A k \in Graph!Declared : k \notin DOMAIN nodes
  /\ Graph!Declared = {} => ChildrenAdded(nodes)
<1>1. \A k \in DOMAIN nodes : \A c : HasChild(nodes, k, c) => c \in Graph!ChildrenOf(nodes)
  BY DEF HasChild, Graph!ChildrenOf, Graph!ToSet
<1> QED BY <1>1 DEF Graph!Fresh, Graph!Declared, Unlisted, ChildrenAdded

\* A step of the builder or the graph keeps it.
LEMMA GraphStep == GraphInv /\ [Graph!Next]_gVars => GraphInv'
<1> SUFFICES ASSUME GraphInv, [Graph!Next]_gVars PROVE GraphInv' OBVIOUS
<1>1. CASE UNCHANGED gVars BY <1>1 DEF GraphInv, gVars
<1>2. ASSUME NEW key \in Graph!Keys, NEW parent \in Graph!Positions, Graph!PushNode(parent, key)
      PROVE  GraphInv'
  <2>1. key \notin DOMAIN nodes /\ Unlisted(nodes, key) BY <1>2, FreshAre DEF Graph!PushNode
  <2>2. graph' = graph /\ graph = Null BY <1>2 DEF Graph!PushNode
  <2>3. ForestOK(roots, nodes) BY DEF GraphInv
  <2>4. <<>> \in Seq(Graph!Keys) /\ DOMAIN <<>> = {} OBVIOUS
  <2>5. CASE parent = Sentinel
    <3>1. roots' = Append(roots, key) /\ nodes' = Graph!With(nodes, key, parent, <<>>)
      BY <1>2, <2>5 DEF Graph!PushNode
    <3>2. ForestOK(IF parent = Sentinel THEN Append(roots, key) ELSE roots,
                   Graph!With(nodes, key, parent, <<>>))
      BY <2>1, <2>3, <2>4, <2>5, PushedKeeps
    <3> QED BY <2>2, <2>5, <3>1, <3>2 DEF GraphInv
  <2>6. CASE parent # Sentinel
    <3> DEFINE mid == [nodes EXCEPT ![parent].children = Append(@, key)]
    <3>1. /\ parent \in DOMAIN nodes /\ roots' = roots
          /\ nodes' = Graph!With(mid, key, parent, <<>>)
      BY <1>2, <2>6 DEF Graph!PushNode
    <3>2. ForestOK(roots, mid) /\ DOMAIN mid = DOMAIN nodes /\ HasChild(mid, parent, key)
      BY <2>1, <2>3, <3>1, DeclareKeeps
    <3> HIDE DEF mid
    <3>3. ForestOK(IF parent = Sentinel THEN Append(roots, key) ELSE roots,
                   Graph!With(mid, key, parent, <<>>))
      BY <2>1, <2>4, <3>1, <3>2, PushedKeeps
    <3> QED BY <2>2, <2>6, <3>1, <3>3 DEF GraphInv
  <2> QED BY <2>5, <2>6
<1>3. ASSUME NEW key \in Graph!Keys, NEW parent \in Graph!Positions,
             NEW n \in 0 .. MaxDeclared, NEW children \in [1 .. n -> Graph!Keys],
             Graph!PushDeclared(parent, key, children)
      PROVE  GraphInv'
  <2>1. graph' = graph /\ graph = Null BY <1>3 DEF Graph!PushDeclared
  <2>2. ForestOK(roots, nodes) BY DEF GraphInv
  <2>3. /\ roots' = IF parent = Sentinel THEN Append(roots, key) ELSE roots
        /\ nodes' = Graph!With(nodes, key, parent, children)
    BY <1>3 DEF Graph!PushDeclared, Graph!Pushed, Graph!Builder
  <2>4. children \in Seq(Graph!Keys)
    <3> n \in Nat OBVIOUS
    <3> QED BY IsASeq
  <2>5. \A r, q \in DOMAIN children : children[r] = children[q] => r = q
    BY <1>3 DEF Graph!PushDeclared, Graph!IsInjective
  <2>6. \A r \in DOMAIN children : children[r] \in Graph!Fresh \ {key}
    BY <1>3 DEF Graph!PushDeclared, Graph!ToSet
  <2>7. \A r \in DOMAIN children : /\ children[r] \notin DOMAIN nodes /\ children[r] # key
                                   /\ Unlisted(nodes, children[r])
    BY <2>6, FreshAre
  <2>8. /\ key \notin DOMAIN nodes
        /\ \/ parent = Sentinel /\ Unlisted(nodes, key)
           \/ parent \in DOMAIN nodes /\ HasChild(nodes, parent, key)
    <3>1. CASE parent = Sentinel
      <4> key \in Graph!Fresh BY <1>3, <3>1 DEF Graph!PushDeclared
      <4> QED BY <3>1, FreshAre
    <3>2. CASE parent # Sentinel
      <4>1. /\ parent \in DOMAIN nodes /\ key \in Graph!Declared
            /\ key \in Graph!ToSet(nodes[parent].children)
        BY <1>3, <3>2 DEF Graph!PushDeclared
      <4>2. HasChild(nodes, parent, key) BY <4>1 DEF HasChild, Graph!ToSet
      <4> QED BY <4>1, <4>2, FreshAre
    <3> QED BY <3>1, <3>2
  <2>9. ForestOK(IF parent = Sentinel THEN Append(roots, key) ELSE roots,
                 Graph!With(nodes, key, parent, children))
    BY <2>2, <2>4, <2>5, <2>7, <2>8, PushedKeeps
  <2> QED BY <2>1, <2>3, <2>9 DEF GraphInv
<1>4. CASE Graph!Build
  <2>1. /\ roots # <<>> /\ Graph!Declared = {}
        /\ graph' = Graph!Flattened(built') /\ built' = [roots |-> roots, nodes |-> nodes]
        /\ roots' = <<>> /\ nodes' = Graph!NoNodes
    BY <1>4 DEF Graph!Build, Graph!Builder
  <2>2. built'.roots = roots /\ built'.nodes = nodes BY <2>1
  <2>3. ForestOK(roots, nodes) /\ ChildrenAdded(nodes) BY <2>1, FreshAre DEF GraphInv
  <2>4. ForestOK(roots', nodes') BY <2>1, EmptyForest
  <2> QED BY <2>1, <2>2, <2>3, <2>4 DEF GraphInv
<1>5. CASE Graph!MakeBuilder
  <2>1. /\ graph # Null /\ graph' = Null
        /\ roots' = Graph!Rebuilt(graph).roots /\ nodes' = Graph!Rebuilt(graph).nodes
    BY <1>5 DEF Graph!MakeBuilder
  <2>2. /\ built = [roots |-> built.roots, nodes |-> built.nodes]
        /\ ForestOK(built.roots, built.nodes) /\ ChildrenAdded(built.nodes)
        /\ built.roots # <<>> /\ graph = Graph!Flattened(built)
    BY <2>1 DEF GraphInv
  <2>3. AsBuilt(Graph!Flattened(built), built) BY <2>2, AsItWasBuilt
  <2>4. Graph!Rebuilt(graph) = built BY <2>2, <2>3 DEF AsBuilt
  <2> QED BY <2>1, <2>2, <2>4 DEF GraphInv
<1> QED BY <1>1, <1>2, <1>3, <1>4, <1>5 DEF Graph!Next

\* It makes the graph what it was built of.
LEMMA GraphInvBuilt == GraphInv => Graph!GraphAsBuilt
<1> SUFFICES ASSUME GraphInv, graph # Null PROVE Graph!GraphAsBuilt
  BY DEF Graph!GraphAsBuilt
<1>1. /\ built = [roots |-> built.roots, nodes |-> built.nodes]
      /\ ForestOK(built.roots, built.nodes) /\ ChildrenAdded(built.nodes)
      /\ built.roots # <<>> /\ graph = Graph!Flattened(built)
  BY DEF GraphInv
<1>2. AsBuilt(Graph!Flattened(built), built) BY <1>1, AsItWasBuilt
<1>3. AsBuilt(graph, built) BY <1>1, <1>2
<1> QED BY <1>3 DEF AsBuilt, Graph!GraphAsBuilt

\* The builder stays a forest, and a graph is flattened from one.
THEOREM GraphInvariance == TreesSpec => []GraphInv
<1>1. TreesInit => GraphInv BY EmptyForest DEF TreesInit, Graph!Init, GraphInv
<1>2. GraphInv /\ [TreesNext]_treeVars => GraphInv'
  <2> SUFFICES ASSUME GraphInv, [TreesNext]_treeVars PROVE GraphInv'
    OBVIOUS
  <2>1. [Graph!Next]_gVars BY DEF TreesNext, treeVars, pVars, gVars, wVars
  <2> QED BY <2>1, GraphStep, GraphAssumption
<1> QED BY <1>1, <1>2, PTL DEF TreesSpec

\* The graph has the nodes, parents, children and breadths of the builder it was
\* made of, each where the lookup and the spans say, and gives the builder back.
THEOREM GraphAsBuiltCorrect == TreesSpec => []GraphAsBuilt
<1>1. GraphInv => GraphAsBuilt BY GraphInvBuilt, GraphAssumption DEF GraphAsBuilt
<1> QED BY <1>1, GraphInvariance, PTL

-----------------------------------------------------------------------------
(* FlatRecurse.                                                              *)

\* The nodes that are not culled, the children of each, the root, and the
\* breadths of the walk that recurses.
Live == Walks!Nodes \ culled
Kids == [n \in Walks!Nodes |-> Walks!Unculled(Walks!children_range(n))]
First == IF 1 \in Live THEN <<1>> ELSE <<>>
Breadths == [d \in Nat \ {0} |-> Walks!AtDepth(d)]

TreeOK == up \in Walks!Parents /\ culled \in SUBSET Walks!Nodes

\* FlatMap is the one the lemmas are about.
LEMMA WalksFlatMap == ASSUME NEW f, NEW s PROVE Walks!FlatMap(f, s) = FlatMap(f, s)
  BY DEF Walks!FlatMap, FlatMap, Walks!FlattenSeq, FlattenSeq

\* There is a root.
LEMMA WalksSize == TreeSize \in Nat \ {0} /\ Walks!Nodes = 1 .. TreeSize
  BY WalksAssumption DEF Walks!SizeAssumption, Walks!Nodes

\* What is kept is in the set.
LEMMA KeptTyped ==
  ASSUME NEW S, NEW s \in Seq(Walks!Nodes)
  PROVE  Walks!Kept(s, S) \in Seq(S)
<1> DEFINE f == [n \in Walks!Nodes |-> IF n \in S THEN <<n>> ELSE <<>>]
<1>1. Gives(f, Walks!Nodes, S)
  <2> SUFFICES ASSUME NEW n \in Walks!Nodes PROVE f[n] \in Seq(S) BY DEF Gives
  <2>1. n \in S => <<n>> \in Seq(S) OBVIOUS
  <2>2. <<>> \in Seq(S) OBVIOUS
  <2> QED BY <2>1, <2>2
<1> HIDE DEF f
<1>2. FlatMap(f, s) \in Seq(S) BY <1>1, FlatMapTyped
<1> QED BY <1>2, WalksFlatMap DEF Walks!Kept, f

\* children_range has the nodes whose parent it is asked for.
LEMMA ChildrenTyped ==
  ASSUME TreeOK, NEW n
  PROVE  Walks!children_range(n) \in Seq({c \in 2 .. TreeSize : up[c] = n})
<1> DEFINE s == [i \in 1 .. TreeSize - 1 |-> i + 1]
<1>1. TreeSize \in Nat \ {0} /\ Walks!Nodes = 1 .. TreeSize BY WalksSize
<1>2. s \in Seq(Walks!Nodes)
  <2>1. TreeSize - 1 \in Nat /\ \A i \in 1 .. TreeSize - 1 : i + 1 \in 1 .. TreeSize BY <1>1
  <2> QED BY <1>1, <2>1
<1> HIDE DEF s
<1>3. Walks!Kept(s, {c \in 2 .. TreeSize : up[c] = n}) \in Seq({c \in 2 .. TreeSize : up[c] = n})
  BY <1>2, KeptTyped
<1> QED BY <1>3 DEF Walks!children_range, s

\* A node comes before its children.
LEMMA ChildAfter ==
  ASSUME TreeOK, NEW n \in Walks!Nodes
  PROVE  Walks!children_range(n) \in Seq({c \in Walks!Nodes : c > n /\ c # 1 /\ up[c] = n})
<1>1. TreeSize \in Nat \ {0} /\ Walks!Nodes = 1 .. TreeSize BY WalksSize
<1>2. ASSUME NEW c \in 2 .. TreeSize, up[c] = n PROVE c \in Walks!Nodes /\ c > n /\ c # 1
  <2> up[c] < c /\ c \in 1 .. TreeSize BY <1>1 DEF TreeOK, Walks!Parents
  <2> QED BY <1>1, <1>2
<1>3. {c \in 2 .. TreeSize : up[c] = n} \subseteq {c \in Walks!Nodes : c > n /\ c # 1 /\ up[c] = n}
  BY <1>2
<1>4. Walks!children_range(n) \in Seq({c \in 2 .. TreeSize : up[c] = n}) BY ChildrenTyped
<1> QED BY <1>3, <1>4, SeqMonotonic

\* The walk that recurses does what it calls itself for.
LEMMA DepthFirstIs ==
  ASSUME TreeOK
  PROVE  /\ Walks!DepthFirst \in [Walks!Nodes -> Seq(Live)]
         /\ \A n \in Walks!Nodes :
              Walks!DepthFirst[n] =
                IF n \in culled THEN <<>>
                ELSE <<n>> \o FlatMap(Walks!DepthFirst, Walks!children_range(n))
<1> DEFINE D == Walks!Nodes
           V == Seq(Live)
           Turn(f) == [n \in D |-> IF n \in culled THEN <<>>
                                   ELSE <<n>> \o FlatMap(f, Walks!children_range(n))]
           step == [f \in [D -> V] |-> Turn(f)]
           rank == [n \in D |-> TreeSize - n]
<1>1. TreeSize \in Nat \ {0} /\ D = 1 .. TreeSize BY WalksSize
<1>2. rank \in [D -> 0 .. TreeSize] BY <1>1
<1>3. \A n \in D : Walks!children_range(n) \in Seq({c \in D : c > n /\ c # 1 /\ up[c] = n})
  BY ChildAfter
<1> HIDE DEF D
<1>4. ASSUME NEW f \in [D -> V], NEW n \in D, n \notin culled
      PROVE  <<n>> \o FlatMap(f, Walks!children_range(n)) \in V
  <2> DEFINE C == {c \in D : c > n /\ c # 1 /\ up[c] = n}
  <2>1. Gives(f, C, Live) BY DEF Gives
  <2>2. FlatMap(f, Walks!children_range(n)) \in Seq(Live)
    <3> HIDE DEF C
    <3>1. Walks!children_range(n) \in Seq(C) BY <1>3 DEF C
    <3> QED BY <2>1, <3>1, FlatMapTyped
  <2>3. <<n>> \in Seq(Live)
    <3> n \in Live BY <1>4 DEF Live, D
    <3> QED OBVIOUS
  <2> QED BY <2>2, <2>3, ConcatProperties
<1>5. step \in [[D -> V] -> [D -> V]]
  <2> ASSUME NEW f \in [D -> V] PROVE Turn(f) \in [D -> V]
    <3> <<>> \in V OBVIOUS
    <3> HIDE DEF V
    <3> QED BY <1>4
  <2> HIDE DEF V, Turn
  <2> QED OBVIOUS
<1>6. ASSUME NEW f \in [D -> V], NEW g \in [D -> V], NEW n \in D,
             \A y \in D : rank[y] < rank[n] => f[y] = g[y]
      PROVE  step[f][n] = step[g][n]
  <2> DEFINE C == {c \in D : c > n /\ c # 1 /\ up[c] = n}
  <2>1. ASSUME NEW c \in C PROVE f[c] = g[c]
    <3> rank[c] < rank[n] BY <1>1
    <3> QED BY <1>6
  <2>2. FlatMap(f, Walks!children_range(n)) = FlatMap(g, Walks!children_range(n))
    <3>1. Walks!children_range(n) \in Seq(C) BY <1>3
    <3> HIDE DEF C
    <3> QED BY <2>1, <3>1, FlatMapSame
  <2>3. step[f][n] = Turn(f)[n] /\ step[g][n] = Turn(g)[n]
    <3> HIDE DEF Turn, V
    <3> QED OBVIOUS
  <2> HIDE DEF step
  <2> QED BY <2>2, <2>3
<1>7. CallsLower(step, rank, D, V)
  <2> HIDE DEF step, rank, V
  <2> QED BY <1>5, <1>6 DEF CallsLower
<1>8. \E f \in [D -> V] : f = step[f]
  <2> DEFINE start == [n \in D |-> <<>>]
  <2>1. start \in [D -> V] BY EmptySeq
  <2>2. TreeSize \in Nat BY <1>1
  <2> HIDE DEF step, rank, V, start
  <2> QED BY <1>2, <1>7, <2>1, <2>2, RankedExists
<1>9. PICK f \in [D -> V] : f = Turn(f)
  <2> HIDE DEF V, Turn
  <2> QED BY <1>8
<1>10. Walks!DepthFirst = CHOOSE g : g = Turn(g)
  BY WalksFlatMap DEF Walks!DepthFirst, D
<1>11. Walks!DepthFirst = Turn(Walks!DepthFirst)
  <2> HIDE DEF Turn
  <2> QED BY <1>9, <1>10
<1> DEFINE W == Walks!DepthFirst
<1>15. \A n \in D : W[n] = Turn(W)[n]
  <2>1. W = Turn(W) BY <1>11
  <2> HIDE DEF W, Turn
  <2> QED BY <2>1
<1>12. 1 .. TreeSize \subseteq {n \in D : W[n] \in V}
  <2> DEFINE T == {n \in D : W[n] \in V}
  <2>1. ASSUME NEW n \in 1 .. TreeSize, \A m \in 1 .. TreeSize : m > n => m \in T
        PROVE  n \in T
    <3> n \in D /\ D = 1 .. TreeSize BY <1>1
    <3>1. W[n] = IF n \in culled THEN <<>>
                 ELSE <<n>> \o FlatMap(W, Walks!children_range(n))
      <4> HIDE DEF W, V
      <4> QED BY <1>15
    <3>2. CASE n \in culled BY <3>1, <3>2, EmptySeq
    <3>3. CASE n \notin culled
      <4> DEFINE C == {c \in D : c > n /\ c # 1 /\ up[c] = n}
      <4>1. Gives(W, C, Live)
        <5> \A c \in C : c \in T BY <2>1, <1>1
        <5> HIDE DEF W
        <5> QED BY DEF Gives
      <4>2. Walks!children_range(n) \in Seq(C) BY <1>3
      <4>3. FlatMap(W, Walks!children_range(n)) \in Seq(Live)
        <5> HIDE DEF C, W
        <5> QED BY <4>1, <4>2, FlatMapTyped
      <4>4. <<n>> \in Seq(Live)
        <5> n \in Live BY <3>3 DEF Live, D
        <5> QED OBVIOUS
      <4>5. <<n>> \o FlatMap(W, Walks!children_range(n)) \in Seq(Live)
        BY <4>3, <4>4, ConcatProperties
      <4> HIDE DEF W
      <4> QED BY <3>1, <3>3, <4>5
    <3> QED BY <3>2, <3>3
  <2>2. TreeSize \in Nat BY <1>1
  <2> HIDE DEF T, W
  <2> QED BY <2>1, <2>2, DownInduction DEF T
<1>13. W = [n \in D |-> W[n]]
  <2>1. W = Turn(W) BY <1>11
  <2> HIDE DEF W
  <2> QED BY <2>1
<1>14. W \in [D -> V]
  <2> HIDE DEF W, V
  <2> QED BY <1>1, <1>12, <1>13
<1> HIDE DEF W
<1>16. \A n \in D : W[n] = IF n \in culled THEN <<>>
                            ELSE <<n>> \o FlatMap(W, Walks!children_range(n))
  BY <1>15
<1> QED BY <1>14, <1>16 DEF W, D

\* A node is a depth below its parent, and no deeper than its number.
LEMMA DepthIs ==
  ASSUME TreeOK
  PROVE  /\ Walks!Depth \in [Walks!Nodes -> Nat]
         /\ \A n \in Walks!Nodes :
              /\ Walks!Depth[n] = IF n = 1 THEN 1 ELSE Walks!Depth[up[n]] + 1
              /\ Walks!Depth[n] \in 1 .. n
<1> DEFINE D == Walks!Nodes
           Turn(f) == [n \in D |-> IF n = 1 THEN 1 ELSE f[up[n]] + 1]
           step == [f \in [D -> Nat] |-> Turn(f)]
           rank == [n \in D |-> n]
<1>1. TreeSize \in Nat \ {0} /\ D = 1 .. TreeSize BY WalksSize
<1>2. rank \in [D -> 0 .. TreeSize] BY <1>1
<1>3. \A n \in D : n # 1 => up[n] \in D /\ up[n] < n
  BY <1>1 DEF TreeOK, Walks!Parents
<1> HIDE DEF D
<1>4. step \in [[D -> Nat] -> [D -> Nat]]
  <2> ASSUME NEW f \in [D -> Nat] PROVE Turn(f) \in [D -> Nat] BY <1>3
  <2> HIDE DEF Turn
  <2> QED OBVIOUS
<1>5. ASSUME NEW f \in [D -> Nat], NEW g \in [D -> Nat], NEW n \in D,
             \A y \in D : rank[y] < rank[n] => f[y] = g[y]
      PROVE  step[f][n] = step[g][n]
  <2>1. n # 1 => f[up[n]] = g[up[n]] BY <1>3, <1>5
  <2>2. step[f][n] = Turn(f)[n] /\ step[g][n] = Turn(g)[n]
    <3> HIDE DEF Turn
    <3> QED OBVIOUS
  <2> HIDE DEF step
  <2> QED BY <2>1, <2>2
<1>6. CallsLower(step, rank, D, Nat)
  <2> HIDE DEF step, rank
  <2> QED BY <1>4, <1>5 DEF CallsLower
<1>7. \E f \in [D -> Nat] : f = step[f]
  <2> DEFINE start == [n \in D |-> 0]
  <2>1. start \in [D -> Nat] OBVIOUS
  <2>2. TreeSize \in Nat BY <1>1
  <2> HIDE DEF step, rank, start
  <2> QED BY <1>2, <1>6, <2>1, <2>2, RankedExists
<1>8. PICK f \in [D -> Nat] : f = Turn(f)
  <2> HIDE DEF Turn
  <2> QED BY <1>7
<1> DEFINE W == Walks!Depth
<1>9. W = Turn(W)
  <2>1. W = CHOOSE g : g = Turn(g) BY DEF Walks!Depth, D
  <2> HIDE DEF Turn, W
  <2> QED BY <1>8, <2>1
<1> HIDE DEF W
<1>10. \A n \in D : W[n] = IF n = 1 THEN 1 ELSE W[up[n]] + 1
  <2> \A n \in D : W[n] = Turn(W)[n]
    <3> HIDE DEF Turn
    <3> QED BY <1>9
  <2> QED OBVIOUS
<1>11. 0 .. TreeSize \subseteq {k \in 0 .. TreeSize : \A n \in D : n <= k => W[n] \in 1 .. n}
  <2> DEFINE T == {k \in 0 .. TreeSize : \A n \in D : n <= k => W[n] \in 1 .. n}
  <2>1. 0 \in T BY <1>1
  <2>2. ASSUME NEW k \in 1 .. TreeSize, k - 1 \in T PROVE k \in T
    <3> SUFFICES ASSUME NEW n \in D, n <= k PROVE W[n] \in 1 .. n BY <1>1
    <3>1. CASE n <= k - 1 BY <2>2, <3>1
    <3>2. CASE n = 1 BY <1>10, <3>2
    <3>3. CASE n = k /\ n # 1
      <4>1. up[n] \in D /\ up[n] <= k - 1 /\ up[n] < n BY <1>1, <1>3, <3>3
      <4>2. W[up[n]] \in 1 .. up[n] BY <2>2, <4>1
      <4>3. W[n] = W[up[n]] + 1 BY <1>10, <3>3
      <4> QED BY <1>1, <4>1, <4>2, <4>3
    <3> QED BY <1>1, <3>1, <3>2, <3>3
  <2>3. TreeSize \in Nat BY <1>1
  <2> HIDE DEF T
  <2> QED BY <2>1, <2>2, <2>3, BoundedInduction DEF T
<1>12. \A n \in D : W[n] \in 1 .. n
  <2> \A n \in D : n \in 0 .. TreeSize /\ n <= n BY <1>1
  <2> QED BY <1>11
<1>13. W = [n \in D |-> W[n]] BY <1>9
<1>14. W \in [D -> Nat]
  <2> \A n \in D : W[n] \in Nat BY <1>1, <1>12
  <2> QED BY <1>13
<1> QED BY <1>10, <1>12, <1>14 DEF W, D

\* What the walk that recurses is made of: a node and its children that are
\* not culled, each walked.
LEMMA WalkedIs ==
  ASSUME TreeOK
  PROVE  /\ IsWalked(TreeSize, Live, Kids, Walks!DepthFirst, Walks!Depth)
         /\ 1 \notin Live => Walks!DepthFirst[1] = <<>>
<1> DEFINE W == Walks!DepthFirst
           dp == Walks!Depth
           D == Walks!Nodes
           f == [n \in D |-> IF n \in Live THEN <<n>> ELSE <<>>]
<1>1. TreeSize \in Nat \ {0} /\ D = 1 .. TreeSize BY WalksSize
<1>2. /\ W \in [D -> Seq(Live)]
      /\ \A n \in D : W[n] = IF n \in culled THEN <<>>
                             ELSE <<n>> \o FlatMap(W, Walks!children_range(n))
  BY DepthFirstIs
<1>3. \A n \in D : dp[n] \in 1 .. n /\ dp[n] = IF n = 1 THEN 1 ELSE dp[up[n]] + 1
  BY DepthIs
<1>4. Live \subseteq D BY DEF Live
<1>5. \A n \in D : n \in culled <=> n \notin Live BY DEF Live
<1> DEFINE C(n) == {c \in D : c > n /\ c # 1 /\ up[c] = n}
<1>6. \A n \in D : Walks!children_range(n) \in Seq(C(n)) BY ChildAfter
<1>7. ASSUME NEW n \in D, NEW c \in C(n) PROVE dp[c] = dp[n] + 1
  <2> c \in D /\ c # 1 /\ up[c] = n OBVIOUS
  <2> HIDE DEF dp, D
  <2> QED BY <1>3
<1> HIDE DEF W, dp, D, C
<1>8. \A s : Walks!Unculled(s) = FlatMap(f, s)
  BY WalksFlatMap DEF Walks!Unculled, Walks!Kept, Live, D
<1>9. ASSUME NEW n \in D
      PROVE  Kids[n] \in Seq(OneDeeper(Live, dp, n)) /\ Kids[n] = FlatMap(f, Walks!children_range(n))
  <2>1. Kids[n] = FlatMap(f, Walks!children_range(n)) BY <1>8 DEF Kids, D
  <2>2. Gives(f, C(n), OneDeeper(Live, dp, n))
    <3> SUFFICES ASSUME NEW c \in C(n) PROVE f[c] \in Seq(OneDeeper(Live, dp, n))
      BY DEF Gives
    <3>1. c \in D /\ c > n BY DEF C
    <3>2. CASE c \in Live
      <4>1. c \in OneDeeper(Live, dp, n) BY <1>7, <3>1, <3>2 DEF OneDeeper
      <4>2. <<c>> \in Seq(OneDeeper(Live, dp, n)) BY <4>1
      <4> QED BY <3>1, <3>2, <4>2
    <3>3. CASE c \notin Live BY <3>1, <3>3, EmptySeq
    <3> QED BY <3>2, <3>3
  <2>3. Walks!children_range(n) \in Seq(C(n)) BY <1>6
  <2> HIDE DEF f
  <2>4. FlatMap(f, Walks!children_range(n)) \in Seq(OneDeeper(Live, dp, n))
    BY <2>2, <2>3, FlatMapTyped
  <2> QED BY <2>1, <2>4
<1>10. \A n \in D : Kids[n] \in Seq(Live)
  <2> \A n \in D : OneDeeper(Live, dp, n) \subseteq Live BY DEF OneDeeper
  <2> QED BY <1>9, SeqMonotonic
<1>11. ASSUME NEW n \in Live PROVE W[n] = <<n>> \o FlatMap(W, Kids[n])
  <2>0. n \in D /\ n \notin culled BY <1>4, <1>5
  <2> DEFINE s == Walks!children_range(n)
             k == [x \in D |-> FlatMap(W, f[x])]
  <2>1. Gives(W, Live, Live) /\ Gives(W, D, Live) BY <1>2, <1>4 DEF Gives
  <2>2. Gives(f, D, Live)
    <3> \A x \in D : x \in Live => <<x>> \in Seq(Live) OBVIOUS
    <3> QED BY EmptySeq DEF Gives
  <2>3. s \in Seq(D)
    <3> C(n) \subseteq D BY DEF C
    <3> QED BY <1>6, <2>0, SeqMonotonic
  <2>4. ASSUME NEW x \in D PROVE k[x] = W[x]
    <3>1. CASE x \in Live
      <4> FlatMap(W, <<x>>) = W[x] BY <2>1, FlatMapOne
      <4> QED BY <3>1
    <3>2. CASE x \notin Live
      <4> W[x] = <<>> BY <1>2, <1>5, <3>2
      <4> QED BY <3>2, FlatMapNone
    <3> QED BY <3>1, <3>2
  <2> HIDE DEF f, s
  <2>5. FlatMap(W, FlatMap(f, s)) = FlatMap(k, s) BY <2>1, <2>2, <2>3, FlatMapFlatMap
  <2>6. FlatMap(k, s) = FlatMap(W, s)
    <3> HIDE DEF k
    <3> QED BY <2>3, <2>4, FlatMapSame
  <2>7. W[n] = <<n>> \o FlatMap(W, s) BY <1>2, <2>0 DEF s
  <2>8. Kids[n] = FlatMap(f, s) BY <1>9, <2>0 DEF s
  <2> HIDE DEF k
  <2> QED BY <2>5, <2>6, <2>7, <2>8
<1>12. Gives(Kids, Live, Live) /\ Gives(W, Live, Live) BY <1>2, <1>4, <1>10 DEF Gives
<1>13. IsWalked(TreeSize, Live, Kids, W, dp)
  BY <1>1, <1>3, <1>4, <1>9, <1>11, <1>12 DEF IsWalked
<1>14. 1 \notin Live => W[1] = <<>>
  <2> 1 \in D BY <1>1
  <2> QED BY <1>2, <1>5
<1> QED BY <1>13, <1>14 DEF W, dp

\* What it meets at each depth are the breadths, and all of them are one
\* after the other in ByDepth.
LEMMA WalkBreadths ==
  ASSUME TreeOK
  PROVE  /\ AreBreadths(TreeSize, Live, Kids, Walks!Depth, First, Breadths)
         /\ Walks!ByDepth = Prefix(Breadths, TreeSize)
         /\ Walks!Unculled(<<1>>) = First
<1> DEFINE W == Walks!DepthFirst
           dp == Walks!Depth
           A == [d \in Nat \ {0} |-> Level(TreeSize, W, dp, d, 1)]
<1>1. TreeSize \in Nat \ {0} /\ Walks!Nodes = 1 .. TreeSize BY WalksSize
<1>2. ASSUME NEW d PROVE Walks!AtDepth(d) = Level(TreeSize, W, dp, d, 1)
  <2>1. [n \in Walks!Nodes |-> IF n \in {m \in Walks!Nodes : dp[m] = d} THEN <<n>> ELSE <<>>]
          = AtD(TreeSize, dp, d)
    BY <1>1 DEF AtD
  <2>2. Walks!AtDepth(d) = FlatMap([n \in Walks!Nodes |->
             IF n \in {m \in Walks!Nodes : dp[m] = d} THEN <<n>> ELSE <<>>], W[1])
    BY WalksFlatMap DEF Walks!AtDepth, Walks!Kept
  <2> QED BY <2>1, <2>2 DEF Level
<1> HIDE DEF W, dp
<1>3. Breadths = A BY <1>2 DEF Breadths
<1>4. AreBreadths(TreeSize, Live, Kids, dp, First, Breadths)
  <2>1. /\ IsWalked(TreeSize, Live, Kids, W, dp)
        /\ 1 \notin Live => W[1] = <<>>
    BY WalkedIs DEF W, dp
  <2>2. AreBreadths(TreeSize, Live, Kids, dp, IF 1 \in Live THEN <<1>> ELSE <<>>, Breadths)
    BY <1>3, <2>1, LevelsAreBreadths
  <2> QED BY <2>2 DEF First
<1>5. Walks!ByDepth = Prefix(Breadths, TreeSize)
  <2>1. \A d \in 1 .. TreeSize : Breadths[d] = Walks!AtDepth(d)
    <3> \A d \in 1 .. TreeSize : d \in Nat \ {0} BY <1>1
    <3> QED BY DEF Breadths
  <2>2. [d \in 1 .. TreeSize |-> Breadths[d]] = [d \in 1 .. TreeSize |-> Walks!AtDepth(d)]
    BY <2>1
  <2>3. Walks!ByDepth = FlattenSeq([d \in 1 .. TreeSize |-> Walks!AtDepth(d)])
    BY <1>1 DEF Walks!ByDepth, Walks!FlattenSeq, FlattenSeq
  <2> QED BY <2>2, <2>3 DEF Prefix
<1>6. Walks!Unculled(<<1>>) = First
  <2> DEFINE f == [n \in Walks!Nodes |-> IF n \in Live THEN <<n>> ELSE <<>>]
  <2>1. Walks!Unculled(<<1>>) = FlatMap(f, <<1>>)
    BY WalksFlatMap DEF Walks!Unculled, Walks!Kept, Live
  <2>2. Gives(f, Walks!Nodes, Live)
    <3> \A x \in Walks!Nodes : x \in Live => <<x>> \in Seq(Live) OBVIOUS
    <3> QED BY EmptySeq DEF Gives
  <2>3. 1 \in Walks!Nodes BY <1>1
  <2>4. FlatMap(f, <<1>>) = f[1]
    <3> HIDE DEF f
    <3> QED BY <2>2, <2>3, FlatMapOne
  <2> QED BY <2>1, <2>3, <2>4 DEF First
<1> QED BY <1>4, <1>5, <1>6 DEF dp

-----------------------------------------------------------------------------
(* The walks that do not recurse.                                            *)

\* The walk with a stack: what it has done and what it has to do.
DepthOK ==
  /\ toWalk \in Seq(Live) /\ walked \in Seq(Live)
  /\ walked \o FlatMap(Walks!DepthFirst, Reverse(toWalk)) = Walks!DepthFirst[1]

\* The breadth first walk: the root and the children of the nodes passed.
BreadthOK ==
  /\ walked \in Seq(Live) /\ place \in 1 .. Len(walked) + 1
  /\ walked = First \o FlatMap(Kids, SubSeq(walked, 1, place - 1))

\* The staged walk: the stages up to the ith are breadths, and the one after
\* it has the children of the nodes of it that are passed.
StagedOK ==
  /\ walked \in Seq(Seq(Live)) /\ place \in (Nat \ {0}) \X (Nat \ {0})
  /\ LET i == place[1]
         j == place[2]
     IN  /\ i <= Len(walked) + 1
         /\ \A d \in 1 .. Len(walked) : d <= i => walked[d] = Breadths[d]
         /\ \A d \in 1 .. Len(walked) : d < Len(walked) => walked[d] # <<>>
         /\ i <= Len(walked) =>
              /\ j <= Len(walked[i]) + 1
              /\ \/ /\ Len(walked) = i + 1
                    /\ walked[i + 1] = FlatMap(Kids, SubSeq(walked[i], 1, j - 1))
                 \/ /\ Len(walked) = i
                    /\ FlatMap(Kids, SubSeq(walked[i], 1, j - 1)) = <<>>
         /\ i = Len(walked) + 1 => Breadths[i] = <<>>

WalksInv ==
  /\ TreeOK
  /\ walk \in {"none", "depth", "breadth", "staged"}
  /\ walk = "depth" => DepthOK
  /\ walk = "breadth" => BreadthOK
  /\ walk = "staged" => StagedOK

\* What the walks leave alone.
LEMMA TreeKept ==
  ASSUME UNCHANGED <<up, culled>>
  PROVE  /\ TreeOK' = TreeOK /\ Live' = Live /\ Kids' = Kids /\ First' = First
         /\ Walks!DepthFirst' = Walks!DepthFirst /\ Breadths' = Breadths
<1>1. TreeOK' = TreeOK BY DEF TreeOK
<1>2. Live' = Live BY DEF Live
<1>3. Walks!DepthFirst' = Walks!DepthFirst
  BY DEF Walks!DepthFirst, Walks!children_range
<1>4. Walks!Depth' = Walks!Depth BY DEF Walks!Depth
<1>5. Kids' = Kids BY DEF Kids, Walks!Unculled, Walks!children_range
<1>6. First' = First BY <1>2 DEF First
<1>7. Breadths' = Breadths BY <1>3, <1>4 DEF Breadths, Walks!AtDepth
<1> QED BY <1>1, <1>2, <1>3, <1>5, <1>6, <1>7

\* Reversed twice, a sequence is what it was.
LEMMA ReverseIs ==
  ASSUME NEW X, NEW s \in Seq(X)
  PROVE  Walks!Reverse(s) = Reverse(s) /\ Reverse(s) \in Seq(X) /\ Reverse(Reverse(s)) = s
<1>1. /\ Reverse(s) \in Seq(X) /\ Len(Reverse(s)) = Len(s)
      /\ \A i \in 1 .. Len(s) : Reverse(s)[i] = s[(Len(s) - i) + 1]
  BY DEF Reverse
<1>2. \A i \in 1 .. Len(s) : (Len(s) - i) + 1 \in 1 .. Len(s) /\ (Len(s) - ((Len(s) - i) + 1)) + 1 = i
  OBVIOUS
<1>3. /\ Reverse(Reverse(s)) \in Seq(X) /\ Len(Reverse(Reverse(s))) = Len(s)
      /\ \A i \in 1 .. Len(s) : Reverse(Reverse(s))[i] = Reverse(s)[(Len(s) - i) + 1]
  <2> DEFINE r == Reverse(s)
  <2> HIDE DEF r
  <2> r \in Seq(X) /\ Len(r) = Len(s) BY <1>1 DEF r
  <2> Reverse(r) \in Seq(X) /\ Len(Reverse(r)) = Len(r) BY DEF Reverse
  <2> \A i \in 1 .. Len(r) : Reverse(r)[i] = r[(Len(r) - i) + 1] BY DEF Reverse
  <2> QED BY DEF r
<1>4. \A i \in 1 .. Len(s) : Reverse(Reverse(s))[i] = s[i] BY <1>1, <1>2, <1>3
<1>5. Reverse(Reverse(s)) = s BY <1>3, <1>4, SeqEqual
<1>6. Walks!Reverse(s) = Reverse(s) BY DEF Walks!Reverse, Reverse
<1> QED BY <1>1, <1>5, <1>6

\* Reversing puts the last first.
LEMMA ReverseConcat ==
  ASSUME NEW X, NEW s \in Seq(X), NEW t \in Seq(X)
  PROVE  Reverse(s \o t) = Reverse(t) \o Reverse(s)
<1> DEFINE a == Reverse(s \o t)
           b == Reverse(t) \o Reverse(s)
           m == Len(s)
           n == Len(t)
<1>1. s \o t \in Seq(X) /\ Len(s \o t) = m + n /\ m \in Nat /\ n \in Nat OBVIOUS
<1>2. a \in Seq(X) /\ Len(a) = m + n BY <1>1 DEF Reverse
<1>3. /\ Reverse(s) \in Seq(X) /\ Reverse(t) \in Seq(X)
      /\ Len(Reverse(s)) = m /\ Len(Reverse(t)) = n
  BY DEF Reverse
<1>4. b \in Seq(X) /\ Len(b) = m + n
  <2> DEFINE u == Reverse(s)
             v == Reverse(t)
  <2>1. u \in Seq(X) /\ v \in Seq(X) /\ Len(u) = m /\ Len(v) = n BY <1>3
  <2> HIDE DEF u, v, m, n
  <2>2. v \o u \in Seq(X) /\ Len(v \o u) = n + m BY <2>1, ConcatProperties
  <2> QED BY <1>1, <2>2 DEF u, v
<1>5. ASSUME NEW i \in 1 .. m + n PROVE a[i] = b[i]
  <2>1. a[i] = (s \o t)[((m + n) - i) + 1] BY <1>1 DEF Reverse
  <2>2. CASE i <= n
    <3>1. b[i] = Reverse(t)[i] BY <1>3, <2>2
    <3>2. Reverse(t)[i] = t[(n - i) + 1] BY <1>1, <2>2 DEF Reverse
    <3>3. (s \o t)[((m + n) - i) + 1] = t[(n - i) + 1] BY <1>1, <2>2
    <3> QED BY <2>1, <3>1, <3>2, <3>3
  <2>3. CASE i > n
    <3>1. b[i] = Reverse(s)[i - n] BY <1>1, <1>3, <2>3
    <3>2. Reverse(s)[i - n] = s[(m - (i - n)) + 1] BY <1>1, <2>3 DEF Reverse
    <3>3. (s \o t)[((m + n) - i) + 1] = s[((m + n) - i) + 1] BY <1>1, <2>3
    <3>4. ((m + n) - i) + 1 = (m - (i - n)) + 1 BY <1>1
    <3> QED BY <2>1, <3>1, <3>2, <3>3, <3>4
  <2>4. i <= n \/ i > n BY <1>1
  <2> HIDE DEF a, b, m, n
  <2> QED BY <2>2, <2>3, <2>4
<1> HIDE DEF a, b
<1>6. a = b BY <1>1, <1>2, <1>4, <1>5, SeqEqual
<1> QED BY <1>6 DEF a, b

\* A turn of for_each_depthfirst_flat moves the last of the stack, and its
\* children, from what there is to do to what is done.
LEMMA DepthKeeps == WalksInv /\ Walks!DepthFlat => DepthOK'
<1> SUFFICES ASSUME WalksInv, Walks!DepthFlat PROVE DepthOK' OBVIOUS
<1> DEFINE n == toWalk[Len(toWalk)]
           front == SubSeq(toWalk, 1, Len(toWalk) - 1)
           W == Walks!DepthFirst
           k == Kids[n]
<1>1. /\ TreeOK /\ toWalk \in Seq(Live) /\ walked \in Seq(Live)
      /\ walked \o FlatMap(W, Reverse(toWalk)) = W[1]
  BY DEF WalksInv, DepthOK, Walks!DepthFlat
<1>2. /\ toWalk # <<>> /\ UNCHANGED <<up, culled>>
      /\ walked' = Append(walked, n)
      /\ toWalk' = front \o Walks!Stacked(Walks!children_range(n))
  BY DEF Walks!DepthFlat, Walks!Last, Walks!Front
<1>3. /\ n \in Live /\ front \in Seq(Live) /\ toWalk = front \o <<n>> /\ <<n>> \in Seq(Live)
  BY <1>1, <1>2
<1> HIDE DEF n, front
<1>4. /\ Gives(Kids, Live, Live) /\ Gives(W, Live, Live) /\ W[n] = <<n>> \o FlatMap(W, k)
      /\ k \in Seq(Live)
  BY <1>1, <1>3, WalkedIs DEF IsWalked, Gives
<1>5. k = Walks!Unculled(Walks!children_range(n))
  <2> n \in Walks!Nodes BY <1>3 DEF Live
  <2> QED BY DEF Kids
<1> HIDE DEF k, W
<1>6. /\ Reverse(k) \in Seq(Live) /\ Reverse(Reverse(k)) = k
      /\ Reverse(front) \in Seq(Live)
      /\ Walks!Stacked(Walks!children_range(n)) = Reverse(k)
  <2>1. Reverse(k) \in Seq(Live) /\ Reverse(Reverse(k)) = k /\ Walks!Reverse(k) = Reverse(k)
    BY <1>4, ReverseIs
  <2>2. Reverse(front) \in Seq(Live) BY <1>3, ReverseIs
  <2> QED BY <1>5, <2>1, <2>2 DEF Walks!Stacked
<1> DEFINE r == Reverse(front)
<1>7. Reverse(toWalk) = <<n>> \o r
  <2>1. Reverse(front \o <<n>>) = Reverse(<<n>>) \o Reverse(front) BY <1>3, ReverseConcat
  <2>2. Reverse(<<n>>) = <<n>> BY DEF Reverse
  <2> QED BY <1>3, <2>1, <2>2
<1>8. Reverse(toWalk') = k \o r
  <2>1. Reverse(front \o Reverse(k)) = Reverse(Reverse(k)) \o Reverse(front)
    BY <1>3, <1>6, ReverseConcat
  <2> QED BY <1>2, <1>6, <2>1
<1>9. r \in Seq(Live) BY <1>6
<1> HIDE DEF r
<1>10. FlatMap(W, <<n>> \o r) = W[n] \o FlatMap(W, r)
  <2>1. FlatMap(W, <<n>> \o r) = FlatMap(W, <<n>>) \o FlatMap(W, r)
    BY <1>3, <1>4, <1>9, FlatMapConcat
  <2>2. FlatMap(W, <<n>>) = W[n] BY <1>3, <1>4, FlatMapOne
  <2> QED BY <2>1, <2>2
<1>11. FlatMap(W, k \o r) = FlatMap(W, k) \o FlatMap(W, r)
  BY <1>4, <1>9, FlatMapConcat
<1>12. FlatMap(W, k) \in Seq(Live) /\ FlatMap(W, r) \in Seq(Live)
  BY <1>4, <1>9, FlatMapTyped
<1>13. walked \o ((<<n>> \o FlatMap(W, k)) \o FlatMap(W, r)) = W[1]
  BY <1>1, <1>4, <1>7, <1>10
<1>14. \A a, b, c \in Seq(Live) : (a \o b) \o c = a \o (b \o c) BY ConcatAssociative
<1>15. (<<n>> \o FlatMap(W, k)) \o FlatMap(W, r) = <<n>> \o FlatMap(W, k \o r)
  BY <1>3, <1>11, <1>12, <1>14
<1>16. FlatMap(W, k \o r) \in Seq(Live) BY <1>11, <1>12, ConcatProperties
<1>17. walked \o (<<n>> \o FlatMap(W, k \o r)) = (walked \o <<n>>) \o FlatMap(W, k \o r)
  BY <1>1, <1>3, <1>14, <1>16
<1>18. walked' = walked \o <<n>> /\ walked' \in Seq(Live)
  BY <1>1, <1>2, <1>3
<1>19. walked' \o FlatMap(W, Reverse(toWalk')) = W[1]
  BY <1>8, <1>13, <1>15, <1>17, <1>18
<1>20. toWalk' \in Seq(Live) BY <1>2, <1>3, <1>6, ConcatProperties
<1>21. Live' = Live /\ Walks!DepthFirst' = W BY <1>2, TreeKept DEF W
<1> QED BY <1>18, <1>19, <1>20, <1>21 DEF DepthOK

\* One node more of a sequence is passed.
LEMMA FlatMapPlace ==
  ASSUME NEW f, NEW D, NEW X, Gives(f, D, X), NEW s \in Seq(D), NEW p \in 1 .. Len(s)
  PROVE  FlatMap(f, SubSeq(s, 1, p)) = FlatMap(f, SubSeq(s, 1, p - 1)) \o f[s[p]]
<1> DEFINE t == SubSeq(s, 1, p - 1)
<1>1. SubSeq(s, 1, p) = Append(t, s[p]) /\ t \in Seq(D) /\ s[p] \in D OBVIOUS
<1> HIDE DEF t
<1>2. FlatMap(f, Append(t, s[p])) = FlatMap(f, t) \o f[s[p]] BY <1>1, FlatMapAppend
<1> QED BY <1>1, <1>2 DEF t

\* A turn of gather_breadthfirst adds the children of the node it passes.
LEMMA BreadthKeeps == WalksInv /\ Walks!Breadth => BreadthOK'
<1> SUFFICES ASSUME WalksInv, Walks!Breadth PROVE BreadthOK' OBVIOUS
<1> DEFINE n == walked[place]
           k == Kids[n]
           s == SubSeq(walked, 1, place - 1)
<1>1. /\ TreeOK /\ walked \in Seq(Live) /\ place \in 1 .. Len(walked) + 1
      /\ walked = First \o FlatMap(Kids, s)
  BY DEF WalksInv, BreadthOK, Walks!Breadth
<1>2. /\ place <= Len(walked) /\ UNCHANGED <<up, culled>> /\ place' = place + 1
      /\ walked' = walked \o Walks!Unculled(Walks!children_range(n))
  BY DEF Walks!Breadth
<1>3. /\ Gives(Kids, Live, Live) /\ First \in Seq(Live)
  BY <1>1, WalkBreadths DEF AreBreadths
<1>4. n \in Live /\ place \in 1 .. Len(walked) /\ place \in Nat BY <1>1, <1>2
<1>5. k \in Seq(Live) BY <1>3, <1>4 DEF Gives
<1>6. walked' = walked \o k
  <2> n \in Walks!Nodes BY <1>4 DEF Live
  <2> QED BY <1>2 DEF Kids
<1>7. FlatMap(Kids, SubSeq(walked, 1, place)) = FlatMap(Kids, s) \o k
  BY <1>1, <1>3, <1>4, FlatMapPlace
<1>8. s \in Seq(Live) BY <1>1, <1>4
<1> HIDE DEF k, n, s
<1>9. FlatMap(Kids, s) \in Seq(Live) BY <1>3, <1>8, FlatMapTyped
<1>10. walked \o k = First \o (FlatMap(Kids, s) \o k)
  BY <1>1, <1>3, <1>5, <1>9, ConcatAssociative
<1>11. /\ SubSeq(walked \o k, 1, place) = SubSeq(walked, 1, place)
       /\ walked \o k \in Seq(Live) /\ Len(walked \o k) = Len(walked) + Len(k)
       /\ Len(k) \in Nat /\ Len(walked) \in Nat
  BY <1>1, <1>4, <1>5
<1>12. place' - 1 = place BY <1>2, <1>4
<1>13. walked' = First \o FlatMap(Kids, SubSeq(walked', 1, place' - 1))
  BY <1>6, <1>7, <1>10, <1>11, <1>12
<1>14. walked' \in Seq(Live) /\ place' \in 1 .. Len(walked') + 1
  BY <1>2, <1>4, <1>6, <1>11
<1>15. Live' = Live /\ Kids' = Kids /\ First' = First BY <1>2, TreeKept
<1> QED BY <1>13, <1>14, <1>15 DEF BreadthOK

\* A turn of the inner loop of the staged walk.
LEMMA StagedTurn ==
  ASSUME WalksInv, Walks!Staged, place[2] <= Len(walked[place[1]])
  PROVE  StagedOK'
<1> DEFINE i == place[1]
           j == place[2]
           n == walked[i][j]
           k == Kids[n]
           range == Walks!children_range(n)
           J == FlatMap(Kids, SubSeq(walked[i], 1, j - 1))
           s == walked'
<1>1. /\ TreeOK /\ StagedOK /\ i <= Len(walked) /\ UNCHANGED <<up, culled>>
  BY DEF WalksInv, Walks!Staged
<1>2. /\ walked \in Seq(Seq(Live)) /\ i \in Nat \ {0} /\ j \in Nat \ {0}
      /\ \A d \in 1 .. Len(walked) : d <= i => walked[d] = Breadths[d]
      /\ \A d \in 1 .. Len(walked) : d < Len(walked) => walked[d] # <<>>
      /\ \/ Len(walked) = i + 1 /\ walked[i + 1] = J
         \/ Len(walked) = i /\ J = <<>>
  BY <1>1 DEF StagedOK
<1>3. Len(walked) \in Nat /\ i \in 1 .. Len(walked) BY <1>1, <1>2
<1>4. walked[i] \in Seq(Live) BY <1>2, <1>3
<1>5. j \in 1 .. Len(walked[i]) BY <1>2, <1>4
<1>6. n \in Live /\ walked[i] # <<>> BY <1>4, <1>5
<1>7. Gives(Kids, Live, Live) BY <1>1, WalkBreadths DEF AreBreadths
<1>8. k \in Seq(Live) BY <1>6, <1>7 DEF Gives
<1>9. k = Walks!Unculled(range)
  <2> n \in Walks!Nodes BY <1>6 DEF Live
  <2> QED BY DEF Kids
<1>10. FlatMap(Kids, SubSeq(walked[i], 1, j)) = J \o k
  BY <1>4, <1>5, <1>7, FlatMapPlace
<1>11. J \in Seq(Live)
  <2> SubSeq(walked[i], 1, j - 1) \in Seq(Live) BY <1>4, <1>5
  <2> QED BY <1>7, FlatMapTyped
<1>24. ~(place[2] > Len(walked[place[1]])) BY <1>4, <1>5
<1>12. place' = <<i, j + 1>>
  BY <1>24 DEF Walks!Staged
<1> DEFINE room == IF Len(walked) = i /\ range # <<>> THEN Append(walked, <<>>) ELSE walked
<1>13. s = IF range = <<>> THEN room
           ELSE [room EXCEPT ![i + 1] = room[i + 1] \o Walks!Unculled(range)]
  BY <1>24 DEF Walks!Staged
<1>14. range = <<>> => k = <<>>
  <2> FlatMap([m \in Walks!Nodes |-> IF m \in Walks!Nodes \ culled THEN <<m>> ELSE <<>>], <<>>) = <<>>
    BY FlatMapNone
  <2> QED BY <1>9, WalksFlatMap DEF Walks!Unculled, Walks!Kept
<1>15. UNCHANGED <<up, culled>> => Live' = Live /\ Kids' = Kids /\ Breadths' = Breadths
  BY TreeKept
<1> HIDE DEF J, k, n, range, i, j
<1>16. /\ s \in Seq(Seq(Live)) /\ \A d \in 1 .. i : s[d] = walked[d]
       /\ \/ Len(s) = i + 1 /\ s[i + 1] = J \o k
          \/ Len(s) = i /\ J \o k = <<>>
  <2>1. CASE range = <<>>
    <3>1. s = walked BY <1>13, <2>1
    <3>2. J \o k = J BY <1>11, <1>14, <2>1, ConcatEmptySeq
    <3> HIDE DEF s, room
    <3> QED BY <1>2, <3>1, <3>2
  <2>2. CASE range # <<>> /\ Len(walked) = i
    <3>1. /\ room \in Seq(Seq(Live)) /\ Len(room) = i + 1 /\ room[i + 1] = <<>>
          /\ \A d \in 1 .. i : room[d] = walked[d]
      BY <1>2, <2>2, EmptySeq
    <3>2. J = <<>> BY <1>2, <2>2
    <3>3. <<>> \o k = k BY <1>8, ConcatEmptySeq
    <3>4. s = [room EXCEPT ![i + 1] = k] BY <1>9, <1>13, <2>2, <3>1, <3>3
    <3> HIDE DEF s, room
    <3>6. i + 1 \in 1 .. Len(room) /\ Len(room) = i + 1
          /\ \A d \in 1 .. i : d \in 1 .. Len(room) /\ d # i + 1
      BY <1>2, <3>1
    <3>5. /\ s \in Seq(Seq(Live)) /\ Len(s) = i + 1 /\ s[i + 1] = k
          /\ \A d \in 1 .. i : s[d] = room[d]
      BY <1>8, <3>1, <3>4, <3>6, ExceptSeq
    <3> QED BY <3>1, <3>2, <3>3, <3>5
  <2>3. CASE range # <<>> /\ Len(walked) # i
    <3>1. room = walked /\ Len(walked) = i + 1 /\ walked[i + 1] = J BY <1>2, <2>3
    <3>2. s = [walked EXCEPT ![i + 1] = J \o k] BY <1>9, <1>13, <2>3, <3>1
    <3>3. J \o k \in Seq(Live) BY <1>8, <1>11, ConcatProperties
    <3> HIDE DEF s, room
    <3>4. /\ s \in Seq(Seq(Live)) /\ Len(s) = i + 1 /\ s[i + 1] = J \o k
          /\ \A d \in 1 .. i : s[d] = walked[d]
      BY <1>2, <3>1, <3>2, <3>3
    <3> QED BY <3>4
  <2> QED BY <2>1, <2>2, <2>3
<1>17. /\ place'[1] = i /\ place'[2] = j + 1 /\ place' \in (Nat \ {0}) \X (Nat \ {0})
  BY <1>2, <1>12
<1> HIDE DEF s, room
<1>18. Len(s) \in Nat /\ i \in 1 .. Len(s) BY <1>2, <1>16
<1>19. \A d \in 1 .. Len(s) : d <= i => s[d] = Breadths[d]
  BY <1>2, <1>3, <1>16, <1>18
<1>20. \A d \in 1 .. Len(s) : d < Len(s) => s[d] # <<>>
  <2> SUFFICES ASSUME NEW d \in 1 .. Len(s), d < Len(s) PROVE s[d] # <<>> OBVIOUS
  <2>1. d \in 1 .. i /\ s[d] = walked[d] BY <1>2, <1>16, <1>18
  <2>2. CASE d = i BY <1>6, <2>1, <2>2
  <2>3. CASE d # i
    <3> d \in 1 .. Len(walked) /\ d < Len(walked) BY <1>2, <1>3, <2>1, <2>3
    <3> QED BY <1>2, <2>1
  <2> QED BY <2>2, <2>3
<1>21. /\ (j + 1) - 1 = j /\ s[i] = walked[i] /\ j + 1 <= Len(s[i]) + 1
       /\ i # Len(s) + 1 /\ i <= Len(s) + 1
  BY <1>2, <1>4, <1>5, <1>16, <1>18
<1>22. /\ i <= Len(s) =>
            /\ j + 1 <= Len(s[i]) + 1
            /\ \/ /\ Len(s) = i + 1
                  /\ s[i + 1] = FlatMap(Kids, SubSeq(s[i], 1, (j + 1) - 1))
               \/ /\ Len(s) = i
                  /\ FlatMap(Kids, SubSeq(s[i], 1, (j + 1) - 1)) = <<>>
  BY <1>10, <1>16, <1>21
<1>23. Live' = Live /\ Kids' = Kids /\ Breadths' = Breadths BY <1>1, <1>15
<1> QED BY <1>16, <1>17, <1>19, <1>20, <1>21, <1>22, <1>23 DEF StagedOK, s

\* Where the inner loop ends the next stage is begun.
LEMMA StagedNext ==
  ASSUME WalksInv, Walks!Staged, place[2] > Len(walked[place[1]])
  PROVE  StagedOK'
<1> DEFINE i == place[1]
           j == place[2]
           s == walked
           J == FlatMap(Kids, SubSeq(s[i], 1, j - 1))
<1>1. TreeOK /\ StagedOK /\ i <= Len(s) /\ UNCHANGED <<up, culled>>
  BY DEF WalksInv, Walks!Staged
<1>2. /\ s \in Seq(Seq(Live)) /\ i \in Nat \ {0} /\ j \in Nat \ {0}
      /\ \A d \in 1 .. Len(s) : d <= i => s[d] = Breadths[d]
      /\ \A d \in 1 .. Len(s) : d < Len(s) => s[d] # <<>>
      /\ j <= Len(s[i]) + 1
      /\ \/ Len(s) = i + 1 /\ s[i + 1] = J
         \/ Len(s) = i /\ J = <<>>
  BY <1>1 DEF StagedOK
<1>3. Len(s) \in Nat /\ i \in 1 .. Len(s) BY <1>1, <1>2
<1>4. s[i] \in Seq(Live) BY <1>2, <1>3
<1>5. ~(place[2] <= Len(walked[place[1]])) /\ j - 1 = Len(s[i])
  <2>1. Len(s[i]) \in Nat BY <1>4
  <2>2. j > Len(s[i]) /\ j \in Nat /\ j <= Len(s[i]) + 1 BY <1>2
  <2> HIDE DEF j, i
  <2>3. ~(j <= Len(s[i])) /\ j - 1 = Len(s[i]) BY <2>1, <2>2
  <2> QED BY <2>3 DEF i, j
<1>6. place' = <<i + 1, 1>> /\ walked' = walked BY <1>5 DEF Walks!Staged
<1>7. J = FlatMap(Kids, Breadths[i])
  <2>1. SubSeq(s[i], 1, Len(s[i])) = s[i] BY <1>4, SubSeqFull
  <2>2. s[i] = Breadths[i]
    <3> HIDE DEF i, j, J
    <3>1. i \in 1 .. Len(s) /\ i <= i BY <1>2, <1>3
    <3> QED BY <1>2, <3>1
  <2> QED BY <1>5, <2>1, <2>2
<1>8. Breadths[i + 1] = J
  <2> \A d \in Nat \ {0} : Breadths[d + 1] = FlatMap(Kids, Breadths[d])
    BY <1>1, WalkBreadths DEF AreBreadths
  <2> QED BY <1>2, <1>7
<1> HIDE DEF J, i, j
<1>9. /\ place'[1] = i + 1 /\ place'[2] = 1 /\ place' \in (Nat \ {0}) \X (Nat \ {0})
  BY <1>2, <1>6
<1>10. \A d \in 1 .. Len(s) : d <= i + 1 => s[d] = Breadths[d]
  <2> SUFFICES ASSUME NEW d \in 1 .. Len(s), d <= i + 1 PROVE s[d] = Breadths[d]
    OBVIOUS
  <2>1. CASE d <= i BY <1>2, <2>1
  <2>2. CASE d = i + 1
    <3> Len(s) = i + 1 BY <1>2, <1>3, <2>2
    <3> QED BY <1>2, <1>8, <2>2
  <2> QED BY <1>2, <2>1, <2>2
<1>11. ASSUME i + 1 <= Len(s)
       PROVE  /\ 1 <= Len(s[i + 1]) + 1 /\ Len(s) = i + 1
              /\ FlatMap(Kids, SubSeq(s[i + 1], 1, 1 - 1)) = <<>>
  <2>1. i + 1 \in 1 .. Len(s) BY <1>2, <1>3, <1>11
  <2>2. s[i + 1] \in Seq(Live) BY <1>2, <2>1
  <2>3. SubSeq(s[i + 1], 1, 1 - 1) = <<>> BY <2>2
  <2>4. Len(s) = i + 1 BY <1>2, <1>11
  <2>5. FlatMap(Kids, SubSeq(s[i + 1], 1, 1 - 1)) = <<>> BY <2>3, FlatMapNone
  <2>6. 1 <= Len(s[i + 1]) + 1
    <3> Len(s[i + 1]) \in Nat BY <2>2
    <3> QED OBVIOUS
  <2> QED BY <2>4, <2>5, <2>6
<1>12. i + 1 = Len(s) + 1 => Breadths[i + 1] = <<>> BY <1>2, <1>8
<1>13. i + 1 <= Len(s) + 1 BY <1>2, <1>3
<1>14. Live' = Live /\ Kids' = Kids /\ Breadths' = Breadths BY <1>1, TreeKept
<1> QED BY <1>2, <1>6, <1>9, <1>10, <1>11, <1>12, <1>13, <1>14 DEF StagedOK

\* Every walk begins with the root, or with nothing when it is culled.
LEMMA BeginKeeps ==
  ASSUME WalksInv, Walks!Begin
  PROVE  WalksInv'
<1>1. TreeOK /\ UNCHANGED <<up, culled>> BY DEF WalksInv, Walks!Begin
<1>2. /\ TreeOK' = TreeOK /\ Live' = Live /\ Kids' = Kids /\ First' = First
      /\ Walks!DepthFirst' = Walks!DepthFirst /\ Breadths' = Breadths
  BY <1>1, TreeKept
<1>3. /\ Walks!Unculled(<<1>>) = First /\ First \in Seq(Live)
      /\ Gives(Kids, Live, Live) /\ Breadths[1] = First
  BY <1>1, WalkBreadths DEF AreBreadths
<1>4. /\ Gives(Walks!DepthFirst, Live, Live)
      /\ 1 \notin Live => Walks!DepthFirst[1] = <<>>
  BY <1>1, WalkedIs DEF IsWalked
<1>5. CASE walk' = "depth" /\ toWalk' = Walks!Unculled(<<1>>) /\ walked' = <<>>
  <2>1. toWalk' = First /\ Reverse(First) = First
    <3> Reverse(<<1>>) = <<1>> /\ Reverse(<<>>) = <<>> BY DEF Reverse
    <3> QED BY <1>3, <1>5 DEF First
  <2>2. FlatMap(Walks!DepthFirst, First) = Walks!DepthFirst[1]
    <3>1. CASE 1 \in Live BY <1>4, <3>1, FlatMapOne DEF First
    <3>2. CASE 1 \notin Live BY <1>4, <3>2, FlatMapNone DEF First
    <3> QED BY <3>1, <3>2
  <2>3. FlatMap(Walks!DepthFirst, First) \in Seq(Live) BY <1>3, <1>4, FlatMapTyped
  <2>4. <<>> \o FlatMap(Walks!DepthFirst, First) = Walks!DepthFirst[1]
    BY <2>2, <2>3, ConcatEmptySeq
  <2>5. DepthOK' BY <1>2, <1>3, <1>5, <2>1, <2>4, EmptySeq DEF DepthOK
  <2> QED BY <1>1, <1>2, <1>5, <2>5 DEF WalksInv
<1>6. CASE walk' = "breadth" /\ place' = 1 /\ walked' = Walks!Unculled(<<1>>)
  <2>1. walked' = First BY <1>3, <1>6
  <2>2. SubSeq(First, 1, 1 - 1) = <<>> BY <1>3
  <2>3. First \o <<>> = First /\ Len(First) \in Nat BY <1>3, ConcatEmptySeq
  <2>4. 1 \in 1 .. Len(First) + 1 BY <2>3
  <2>5. BreadthOK' BY <1>2, <1>3, <1>6, <2>1, <2>2, <2>3, <2>4, FlatMapNone DEF BreadthOK
  <2> QED BY <1>1, <1>2, <1>6, <2>5 DEF WalksInv
<1>7. CASE /\ walk' = "staged" /\ place' = <<1, 1>>
           /\ walked' = (IF 1 \in culled THEN <<>> ELSE <<<<1>>>>)
  <2>0. 1 \in Live <=> 1 \notin culled BY WalksSize DEF Live
  <2>1. place'[1] = 1 /\ place'[2] = 1 /\ place' \in (Nat \ {0}) \X (Nat \ {0}) BY <1>7
  <2>2. CASE 1 \in Live
    <3>1. walked' = <<<<1>>>> /\ First = <<1>> BY <1>7, <2>0, <2>2 DEF First
    <3>2. SubSeq(<<1>>, 1, 1 - 1) = <<>> OBVIOUS
    <3>3. walked' \in Seq(Seq(Live)) /\ Len(walked') = 1 /\ walked'[1] = <<1>>
      <4> <<1>> \in Seq(Live) BY <2>2
      <4> QED BY <3>1
    <3>4. \A d \in 1 .. 1 : d = 1 OBVIOUS
    <3>5. FlatMap(Kids, SubSeq(<<1>>, 1, 1 - 1)) = <<>> BY <3>2, FlatMapNone
    <3>6. Len(<<1>>) = 1 OBVIOUS
    <3>7. StagedOK'
      BY <1>2, <1>3, <2>1, <3>1, <3>3, <3>4, <3>5, <3>6 DEF StagedOK
    <3> QED BY <1>1, <1>2, <1>7, <3>7 DEF WalksInv
  <2>3. CASE 1 \notin Live
    <3>1. walked' = <<>> /\ First = <<>> BY <1>7, <2>0, <2>3 DEF First
    <3>2. <<>> \in Seq(Seq(Live)) /\ Len(<<>>) = 0 OBVIOUS
    <3>3. \A d \in 1 .. 0 : FALSE OBVIOUS
    <3>4. StagedOK'
      BY <1>2, <1>3, <2>1, <3>1, <3>2, <3>3 DEF StagedOK
    <3> QED BY <1>1, <1>2, <1>7, <3>4 DEF WalksInv
  <2> QED BY <2>2, <2>3
<1> QED BY <1>5, <1>6, <1>7 DEF Walks!Begin

\* Whatever is done keeps the walks in step with the one that recurses.
LEMMA WalksStep == WalksInv /\ [Walks!Next]_wVars => WalksInv'
<1> SUFFICES ASSUME WalksInv, [Walks!Next]_<<up, culled, walk, toWalk, walked, place>>
             PROVE  WalksInv'
  BY DEF wVars
<1>1. CASE Walks!Begin BY <1>1, BeginKeeps
<1>2. CASE Walks!DepthFlat
  <2>1. DepthOK' BY <1>2, DepthKeeps
  <2>2. walk = "depth" /\ UNCHANGED <<up, culled, walk>> BY <1>2 DEF Walks!DepthFlat
  <2> QED BY <2>1, <2>2 DEF WalksInv, TreeOK, Walks!Parents, Walks!Nodes
<1>3. CASE Walks!Breadth
  <2>1. BreadthOK' BY <1>3, BreadthKeeps
  <2>2. walk = "breadth" /\ UNCHANGED <<up, culled, walk>> BY <1>3 DEF Walks!Breadth
  <2> QED BY <2>1, <2>2 DEF WalksInv, TreeOK, Walks!Parents, Walks!Nodes
<1>4. CASE Walks!Staged
  <2>1. walk = "staged" /\ UNCHANGED <<up, culled, walk>> BY <1>4 DEF Walks!Staged
  <2>2. place[2] <= Len(walked[place[1]]) \/ place[2] > Len(walked[place[1]])
    BY <1>4 DEF Walks!Staged
  <2>3. StagedOK' BY <1>4, <2>2, StagedTurn, StagedNext
  <2> QED BY <2>1, <2>3 DEF WalksInv, TreeOK, Walks!Parents, Walks!Nodes
<1>5. CASE UNCHANGED <<up, culled, walk, toWalk, walked, place>>
  <2>1. /\ TreeOK' = TreeOK /\ Live' = Live /\ Kids' = Kids /\ First' = First
        /\ Walks!DepthFirst' = Walks!DepthFirst /\ Breadths' = Breadths
    BY <1>5, TreeKept
  <2> QED BY <1>5, <2>1 DEF WalksInv, DepthOK, BreadthOK, StagedOK
<1> QED BY <1>1, <1>2, <1>3, <1>4, <1>5 DEF Walks!Next

\* Walks in step with it gather what it gathers.
LEMMA WalksAgree == WalksInv => Walks!TraversalsAgree
<1> SUFFICES ASSUME WalksInv PROVE Walks!TraversalsAgree OBVIOUS
<1>1. TreeOK BY DEF WalksInv
<1>2. /\ AreBreadths(TreeSize, Live, Kids, Walks!Depth, First, Breadths)
      /\ Walks!ByDepth = Prefix(Breadths, TreeSize)
  BY <1>1, WalkBreadths
<1>3. ASSUME walk = "depth"
      PROVE  walked \o Walks!FlatMap(Walks!DepthFirst, Walks!Reverse(toWalk)) = Walks!DepthFirst[1]
  <2>1. DepthOK BY <1>3 DEF WalksInv
  <2>2. Walks!Reverse(toWalk) = Reverse(toWalk) BY <2>1, ReverseIs DEF DepthOK
  <2> QED BY <2>1, <2>2, WalksFlatMap DEF DepthOK
<1>4. ASSUME walk = "breadth", Walks!Done PROVE walked = Walks!ByDepth
  <2>1. BreadthOK /\ place > Len(walked) BY <1>4 DEF WalksInv, Walks!Done
  <2>2. walked \in Seq(Live) /\ place - 1 = Len(walked) BY <2>1 DEF BreadthOK
  <2>3. SubSeq(walked, 1, Len(walked)) = walked BY <2>2, SubSeqFull
  <2>4. walked = First \o FlatMap(Kids, walked) BY <2>1, <2>2, <2>3 DEF BreadthOK
  <2>5. walked = Prefix(Breadths, TreeSize) BY <1>2, <2>2, <2>4, BreadthsWhole
  <2> QED BY <1>2, <2>5
<1>5. ASSUME walk = "staged", Walks!Done
      PROVE  /\ \A d \in DOMAIN walked : walked[d] = Walks!AtDepth(d)
             /\ Walks!FlattenSeq(walked) = Walks!ByDepth
             /\ \A d \in DOMAIN walked : walked[d] # <<>> \/ d = Len(walked)
  <2>1. StagedOK /\ place[1] > Len(walked) BY <1>5 DEF WalksInv, Walks!Done
  <2> DEFINE n == Len(walked)
  <2>2. /\ walked \in Seq(Seq(Live)) /\ n \in Nat /\ DOMAIN walked = 1 .. n
        /\ place[1] = n + 1 /\ Breadths[n + 1] = <<>>
        /\ \A d \in 1 .. n : walked[d] = Breadths[d]
        /\ \A d \in 1 .. n : d < n => walked[d] # <<>>
    <3>1. walked \in Seq(Seq(Live)) /\ place[1] \in Nat /\ place[1] <= n + 1
      BY <2>1 DEF StagedOK
    <3>2. n \in Nat /\ DOMAIN walked = 1 .. n BY <3>1
    <3>3. place[1] = n + 1 BY <2>1, <3>1, <3>2
    <3>4. /\ \A d \in 1 .. n : d <= place[1] => walked[d] = Breadths[d]
          /\ \A d \in 1 .. n : d < n => walked[d] # <<>>
          /\ place[1] = n + 1 => Breadths[place[1]] = <<>>
      BY <2>1 DEF StagedOK
    <3> HIDE DEF n
    <3>5. \A d \in 1 .. n : d <= place[1] BY <3>2, <3>3
    <3>6. Breadths[n + 1] = <<>> BY <3>3, <3>4
    <3> QED BY <3>1, <3>2, <3>3, <3>4, <3>5, <3>6
  <2> HIDE DEF n
  <2>3. \A d \in 1 .. n : Breadths[d] = Walks!AtDepth(d)
    <3> \A d \in 1 .. n : d \in Nat \ {0} BY <2>2
    <3> QED BY DEF Breadths
  <2>4. Prefix(Breadths, n) = Prefix(Breadths, TreeSize) BY <1>2, <2>2, BreadthsEnd
  <2>5. walked = [d \in 1 .. n |-> Breadths[d]] BY <2>2
  <2>6. Walks!FlattenSeq(walked) = FlattenSeq(walked) BY DEF Walks!FlattenSeq, FlattenSeq
  <2>7. FlattenSeq(walked) = Prefix(Breadths, n) BY <2>5 DEF Prefix
  <2>8. \A d \in 1 .. n : d < n \/ d = n BY <2>2
  <2>9. Walks!FlattenSeq(walked) = Walks!ByDepth BY <1>2, <2>4, <2>6, <2>7
  <2>10. \A d \in DOMAIN walked : walked[d] = Walks!AtDepth(d) BY <2>2, <2>3
  <2>11. \A d \in DOMAIN walked : walked[d] # <<>> \/ d = n BY <2>2, <2>8
  <2> QED BY <2>9, <2>10, <2>11 DEF n
<1> QED BY <1>3, <1>4, <1>5 DEF Walks!TraversalsAgree

\* Every walk keeps what it has done and what it has to do in step.
THEOREM WalksInvariance == TreesSpec => []WalksInv
<1>1. TreesInit => WalksInv
  BY DEF TreesInit, Walks!Init, WalksInv, TreeOK
<1>2. WalksInv /\ [TreesNext]_treeVars => WalksInv'
  <2> SUFFICES ASSUME WalksInv, [TreesNext]_treeVars PROVE WalksInv'
    OBVIOUS
  <2>1. [Walks!Next]_wVars BY DEF TreesNext, treeVars, pVars, gVars, wVars
  <2> QED BY <2>1, WalksStep
<1> QED BY <1>1, <1>2, PTL DEF TreesSpec

\* The walk with a stack gathers what the walk that recurses does, in its order,
\* and the breadth first ones gather it depth by depth, each stage a depth.
THEOREM TraversalsAgreeCorrect == TreesSpec => []TraversalsAgree
<1>1. WalksInv => TraversalsAgree BY WalksAgree DEF TraversalsAgree
<1> QED BY <1>1, WalksInvariance, PTL

=============
