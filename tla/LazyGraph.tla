----------------------------- MODULE LazyGraph -----------------------------
(***************************************************************************)
(* fea::lazy_graph (include_cpp17/fea/graphs/lazy_graph.hpp): a dependency *)
(* graph whose nodes are recomputed on demand.                             *)
(*                                                                         *)
(* A node carries a version; a parent remembers, per child, the version    *)
(* that child was last cleaned against.  A child is dirty when the two     *)
(* differ, for it or for any of its ancestors.  Versions are unsigned: the *)
(* space is MaxVersion wide and wraps.  The order in which the ancestors   *)
(* of a node are evaluated is computed on demand and cached in the node.   *)
(***************************************************************************)
EXTENDS Naturals, FiniteSets, SequencesExt

CONSTANTS
  Ids,          (* the user's node ids                                     *)
  Writable,     (* the ids the user calls make_dirty on                    *)
  MaxVersion    (* numeric_limits<DirtyVersion>::max()                     *)

ASSUME IdsAssumption == IsFiniteSet(Ids)
ASSUME WritableAssumption == Writable \subseteq Ids
ASSUME VersionsAssumption == MaxVersion \in Nat /\ MaxVersion > 2

VARIABLES
  nodes,      (* the keys of _nodes                                        *)
  parents,    (* per id: _parents, in order                                *)
  children,   (* per id: _children; their order decides nothing            *)
  version,    (* per id: _dirty_version                                    *)
  seenBy,     (* seenBy[p][c]: p's _children_versions entry of child c     *)
  evalGraph   (* per id: _evaluation_graph, <<>> while it is flagged dirty *)

vars == <<nodes, parents, children, version, seenBy, evalGraph>>
versions == <<version, seenBy>>

DirtySentinel == 0
InitSentinel == 2
Versions == 0 .. MaxVersion

TypeOK ==
  /\ nodes \subseteq Ids
  /\ parents \in [Ids -> Seq(Ids)]
  /\ children \in [Ids -> SUBSET Ids]
  /\ version \in [Ids -> InitSentinel .. MaxVersion]
  /\ seenBy \in [Ids -> [Ids -> Versions]]
  /\ evalGraph \in [Ids -> Seq(Ids)]

\* The members of a node that is not in _nodes have their initial values.
Init ==
  /\ nodes = {}
  /\ parents = [id \in Ids |-> <<>>]
  /\ children = [id \in Ids |-> {}]
  /\ version = [id \in Ids |-> InitSentinel]
  /\ seenBy = [id \in Ids |-> [c \in Ids |-> DirtySentinel]]
  /\ evalGraph = [id \in Ids |-> <<>>]

ParentSet(id) == ToSet(parents[id])

\* The sequence s without the members of S.
Without(s, S) ==
  FoldLeft(LAMBDA kept, x : IF x \in S THEN kept ELSE Append(kept, x), <<>>, s)

-----------------------------------------------------------------------------
(* The traversals.                                                         *)

\* recurse_up: the node and all its ancestors.
Upward(id) ==
  LET up[n \in 0 .. Cardinality(Ids)] ==
        IF n = 0 THEN {id}
        ELSE LET lower == up[n - 1]
             IN  lower \cup UNION {ParentSet(x) : x \in lower}
  IN  up[Cardinality(Ids)]

\* recurse_breadth_up: breadth by breadth, with duplicates.
BreadthUp(id) ==
  LET breadth[n \in 0 .. Cardinality(Ids)] ==
        IF n = 0 THEN <<id>>
        ELSE LET lower == breadth[n - 1]
             IN  FlattenSeq([i \in DOMAIN lower |-> parents[lower[i]]])
  IN  FlattenSeq([n \in 1 .. Cardinality(Ids) |-> breadth[n - 1]])

\* recurse_breadth_down: the same with children.
BreadthDown(id) ==
  LET breadth[n \in 0 .. Cardinality(Ids)] ==
        IF n = 0 THEN <<id>>
        ELSE LET upper == breadth[n - 1]
             IN  FlattenSeq([i \in DOMAIN upper |-> SetToSeq(children[upper[i]])])
  IN  FlattenSeq([n \in 1 .. Cardinality(Ids) |-> breadth[n - 1]])

\* Mutant of SortedUpward: a node met again stays where it is.
SortedUpwardFirst(id) ==
  Reverse(FoldLeft(LAMBDA order, x : IF x \in ToSet(order) THEN order
                                     ELSE Append(order, x), <<>>, BreadthUp(id)))

\* evaluation_graph: a node met again moves to the end, then all is reversed.
SortedUpward(id) ==
  Reverse(FoldLeft(LAMBDA order, x : Append(Without(order, {x}), x), <<>>,
                   BreadthUp(id)))

-----------------------------------------------------------------------------
(* Editing the graph.                                                      *)

AddNode(id) ==
  /\ nodes' = nodes \cup {id}
  /\ UNCHANGED <<parents, children, versions, evalGraph>>

\* Erase the nodes S: each leaves its parents and its children, and a child
\* that loses a parent flags its evaluation graph.
Erase(S) ==
  /\ nodes' = nodes \ S
  /\ parents' = [id \in Ids |-> IF id \in S THEN <<>>
                                ELSE Without(parents[id], S)]
  /\ children' = [id \in Ids |-> IF id \in S THEN {} ELSE children[id] \ S]
  /\ version' = [id \in Ids |-> IF id \in S THEN InitSentinel ELSE version[id]]
  /\ seenBy' = [p \in Ids |-> [c \in Ids |->
                  IF {p, c} \cap S # {} THEN DirtySentinel ELSE seenBy[p][c]]]
  /\ evalGraph' = [id \in Ids |->
                     IF id \in S \/ ParentSet(id) \cap S # {}
                     THEN <<>> ELSE evalGraph[id]]

RemoveNode(id) == id \in nodes /\ Erase({id})

\* Mutant of Orphaned: every descendant goes.
OrphanedAll(id) == ToSet(BreadthDown(id))

\* The top node, then breadth by breadth each node left without a parent.
Orphaned(id) ==
  FoldLeft(LAMBDA S, x : IF ParentSet(x) \subseteq S THEN S \cup {x} ELSE S,
           {id}, Tail(BreadthDown(id)))

RemoveSubgraph(id) == id \in nodes /\ Erase(Orphaned(id))

\* Mutant of IsInvalidChild: the ancestors of the parent are not looked at.
IsInvalidChildShallow(c, p) == c = p \/ c \in children[p] \/ c \in ParentSet(p)

\* The nodes are the same, the child is already set, or it would close a loop.
IsInvalidChild(c, p) ==
  \/ c = p
  \/ /\ {c, p} \subseteq nodes
     /\ \/ c \in children[p]
        \/ \E x \in Upward(p) : c \in ParentSet(x)

AddDependency(c, p) ==
  /\ ~IsInvalidChild(c, p)
  /\ nodes' = nodes \cup {c, p}
  /\ parents' = [parents EXCEPT ![c] = Append(@, p)]
  /\ evalGraph' = [evalGraph EXCEPT ![c] = <<>>]
  /\ children' = [children EXCEPT ![p] = @ \cup {c}]
  /\ seenBy' = [seenBy EXCEPT ![p][c] = DirtySentinel]
  /\ UNCHANGED version

RemoveDependency(c, p) ==
  /\ {c, p} \subseteq nodes
  /\ p \in ParentSet(c)
  /\ parents' = [parents EXCEPT ![c] = Without(@, {p})]
  /\ evalGraph' = [evalGraph EXCEPT ![c] = <<>>]
  /\ children' = [children EXCEPT ![p] = @ \ {c}]
  /\ seenBy' = [seenBy EXCEPT ![p][c] = DirtySentinel]
  /\ UNCHANGED <<nodes, version>>

Clear == nodes # {} /\ Erase(nodes)

-----------------------------------------------------------------------------
(* Dirtyness.  v holds values of version and seenBy.                       *)

\* Mutant of Bumped: a wrap that keeps what the children saw.
BumpedKeepsSeen(v, id) ==
  [v EXCEPT !.version[id] = IF @ = MaxVersion THEN InitSentinel ELSE @ + 1]

\* make_dirty: the next version, or the first one and every child forgotten.
Bumped(v, id) ==
  IF v.version[id] = MaxVersion
  THEN [v EXCEPT !.version[id] = InitSentinel,
                 !.seenBy[id] = [c \in Ids |-> DirtySentinel]]
  ELSE [v EXCEPT !.version[id] = @ + 1]

Current == [version |-> version, seenBy |-> seenBy]

SetVersions(v) == version' = v.version /\ seenBy' = v.seenBy

MakeDirty(id) ==
  /\ id \in nodes
  /\ SetVersions(Bumped(Current, id))
  /\ UNCHANGED <<nodes, parents, children, evalGraph>>

MakeDirtyIfNot(id) ==
  /\ id \in nodes
  /\ \E c \in children[id] : seenBy[id][c] = version[id]
  /\ SetVersions(Bumped(Current, id))
  /\ UNCHANGED <<nodes, parents, children, evalGraph>>

\* The parents that have changed since x was last cleaned.
DirtyParents(v, x) == {p \in ParentSet(x) : v.seenBy[p][x] # v.version[p]}

IsDirty(id) == \E x \in Upward(id) : DirtyParents(Current, x) # {}

-----------------------------------------------------------------------------
(* Evaluation.                                                             *)

\* evaluation_graph(id): what the node caches once it has been asked.
EvalGraphOf(id) == IF evalGraph[id] = <<>> THEN SortedUpward(id) ELSE evalGraph[id]

EvaluationGraph(id) ==
  /\ id \in nodes
  /\ evalGraph' = [evalGraph EXCEPT ![id] = EvalGraphOf(id)]
  /\ UNCHANGED <<nodes, parents, children, versions>>

\* clean's callback: x has now seen the parents that were dirty.
Seen(v, x) ==
  [v EXCEPT !.seenBy = [p \in Ids |->
     IF p \in DirtyParents(v, x) THEN [@[p] EXCEPT ![x] = v.version[p]] ELSE @[p]]]

\* Mutant of Turn: a cleaned node is not made dirty for its other children.
TurnSilent(v, x, cleans) ==
  IF x \notin nodes THEN [v EXCEPT !.threw = TRUE]
  ELSE IF v.threw \/ DirtyParents(v, x) = {} THEN v
  ELSE IF cleans THEN Seen(v, x) ELSE Bumped(v, x)

\* One turn of evaluate_dirty's loop.  A node that has left the graph makes
\* _nodes.at() throw, which ends the loop.
Turn(v, x, cleans) ==
  IF x \notin nodes THEN [v EXCEPT !.threw = TRUE]
  ELSE IF v.threw \/ DirtyParents(v, x) = {} THEN v
  ELSE Bumped(IF cleans THEN Seen(v, x) ELSE v, x)

Swept(v, id, cleans) ==
  FoldLeft(LAMBDA w, x : Turn(w, x, cleans), v, EvalGraphOf(id))

Entered == [version |-> version, seenBy |-> seenBy, threw |-> FALSE]

Evaluated(id, cleans) == Swept(Entered, id, cleans)

Visit(id, cleans) ==
  /\ id \in nodes
  /\ parents[id] # <<>>
  /\ SetVersions(Evaluated(id, cleans))
  /\ evalGraph' = [evalGraph EXCEPT ![id] = EvalGraphOf(id)]
  /\ UNCHANGED <<nodes, parents, children>>

EvaluateDirty(id) == Visit(id, FALSE)

Clean(id) == Visit(id, TRUE)

-----------------------------------------------------------------------------
Edit ==
  \/ \E id \in Ids : AddNode(id) \/ RemoveNode(id) \/ RemoveSubgraph(id)
  \/ \E c, p \in Ids : AddDependency(c, p) \/ RemoveDependency(c, p)
  \/ Clear

Use ==
  \/ \E id \in Writable : MakeDirty(id) \/ MakeDirtyIfNot(id)
  \/ \E id \in Ids : EvaluationGraph(id) \/ EvaluateDirty(id) \/ Clean(id)

Next == Edit \/ Use
Spec == Init /\ [][Next]_vars

\* A caller that edits the graph only above nodes whose evaluation graph has
\* not been asked for: no other node below an edited one has a cached graph.
Settled ==
  \A id \in Ids : evalGraph[id] # <<>> /\ parents'[id] = parents[id] =>
    \A x \in Upward(id) : parents'[x] = parents[x]

NextSettled == (Edit /\ Settled) \/ Use
SpecSettled == Init /\ [][NextSettled]_vars

-----------------------------------------------------------------------------
(* What makes the graph correct.                                           *)

\* Both ends of a dependency agree, both nodes exist, no parent is listed
\* twice, and no sequence of edits closes a loop.
StructureOK ==
  /\ TypeOK
  /\ \A p, c \in Ids : p \in ParentSet(c) <=> c \in children[p]
  /\ \A id \in Ids :
       /\ ParentSet(id) \cup children[id] # {} => id \in nodes
       /\ IsInjective(parents[id])
       /\ \A p \in ParentSet(id) : id \notin Upward(p)

\* No child has ever seen a version its parent has not reached: after a wrap
\* of the version space a stale child cannot look clean by coincidence.
NeverAhead ==
  \A p \in Ids : \A c \in children[p] : seenBy[p][c] <= version[p]

\* "It should never contain duplicates and iterating left to right should
\* evaluate the parent graph correctly": a cached evaluation graph holds the
\* node and its ancestors, each once, and every parent before its children.
EvalGraphsSound ==
  \A id \in nodes : evalGraph[id] # <<>> =>
    LET graph == evalGraph[id]
    IN  /\ ToSet(graph) = Upward(id)
        /\ IsInjective(graph)
        /\ \A i, j \in DOMAIN graph : graph[j] \in ParentSet(graph[i]) => j < i

\* remove_subgraph: the descendants that only the removed node led to go with
\* it, and no other: no chain of parents reaches them that avoids the node.
SubgraphOnly ==
  [][\A id \in nodes : RemoveSubgraph(id) =>
       LET down == {x \in nodes : id \in Upward(x)}
           led[n \in 0 .. Cardinality(Ids)] ==
             IF n = 0 THEN nodes \ down
             ELSE led[n - 1] \cup
                  {x \in down \ {id} : ParentSet(x) \cap led[n - 1] # {}}
       IN  nodes' = led[Cardinality(Ids)]]_vars

\* Versions with their sentinels, the cached orders and the loop of
\* evaluate_dirty implement one dirty mark per dependency.
Abstract == INSTANCE LazyEval WITH
  edges <- {e \in Ids \X Ids : e[1] \in ParentSet(e[2])},
  dirty <- {e \in Ids \X Ids : e[1] \in DirtyParents(Current, e[2])}

ImplementsLazyEval == Abstract!Spec

=============================================================================
