---------------------------- MODULE FlatBfGraph ----------------------------
(***************************************************************************)
(* fea::flat_bf_graph (include_cpp20/fea/graphs/flat_bf_graph.hpp): a      *)
(* builder takes the nodes of a forest in any order, the graph made of it  *)
(* keeps them breadth first in arrays.  The children of a node, and each   *)
(* breadth, are spans of the array of keys, which points into itself.      *)
(*                                                                         *)
(* The nodes of the builder are a flat_id_slotmap: here a function of the  *)
(* keys.  Their values are left out.  One of the two is kept at a time:    *)
(* the program makes a graph of its builder, or a builder of its graph.    *)
(***************************************************************************)
EXTENDS IdSlotLookup, SequencesExt, FiniteSetsExt

CONSTANTS
  None,         (* no graph                                                *)
  MaxDeclared   (* bound: the children a node is added with                *)

VARIABLES
  roots,        (* flat_bf_graph_builder: _root_keys                       *)
  nodes,        (*                        _nodes                           *)
  graph,        (* flat_bf_graph: _data                                    *)
  built         (* history: the builder it was made of                     *)

vars == <<roots, nodes, graph, built>>

NoNodes == [k \in {} |-> [parent |-> Sentinel, children |-> <<>>]]
Builder == [roots |-> roots, nodes |-> nodes]

Init == /\ roots = <<>> /\ nodes = NoNodes
        /\ graph = None /\ built = None

-----------------------------------------------------------------------------
(* The builder                                                               *)

With(known, key, parent, children) ==
  [k \in DOMAIN known \cup {key} |->
     IF k = key THEN [parent |-> parent, children |-> children] ELSE known[k]]

ChildrenOf(known) == UNION {ToSet(known[k].children) : k \in DOMAIN known}
Declared == ChildrenOf(nodes) \ DOMAIN nodes
Fresh == Keys \ (DOMAIN nodes \cup Declared)

\* push_back without children; Sentinel is the parent of a root.
PushNode(parent, key) ==
  /\ graph = None /\ key \in Fresh
  /\ parent = Sentinel \/ parent \in DOMAIN nodes
  /\ IF parent = Sentinel
     THEN roots' = Append(roots, key) /\ nodes' = With(nodes, key, parent, <<>>)
     ELSE /\ nodes' = With([nodes EXCEPT ![parent].children = Append(@, key)],
                           key, parent, <<>>)
          /\ UNCHANGED roots
  /\ UNCHANGED <<graph, built>>

\* push_back with children, which are added later: the parent knows the key.
Pushed(builder, parent, key, children) ==
  [roots |-> IF parent = Sentinel THEN Append(builder.roots, key) ELSE builder.roots,
   nodes |-> With(builder.nodes, key, parent, children)]

PushDeclared(parent, key, children) ==
  /\ graph = None
  /\ IF parent = Sentinel THEN key \in Fresh
     ELSE /\ parent \in DOMAIN nodes /\ key \in Declared
          /\ key \in ToSet(nodes[parent].children)
  /\ IsInjective(children) /\ ToSet(children) \subseteq Fresh \ {key}
  /\ LET after == Pushed(Builder, parent, key, children)
     IN  roots' = after.roots /\ nodes' = after.nodes
  /\ UNCHANGED <<graph, built>>

-----------------------------------------------------------------------------
(* make_graph_data                                                           *)

\* id_slot_lookup::insert of a range: position after position.
InsertedRange(lookup, keys, first) ==
  LET room == Resized(lookup, Max(ToSet(keys)))
  IN  [k \in DOMAIN room |->
         IF k \in ToSet(keys)
         THEN (first + SelectInSeq(keys, LAMBDA key : key = k) - 1) % (Sentinel + 1)
         ELSE room[k]]

ChildCount(builder, keys) ==
  FoldLeft(LAMBDA n, k : n + Len(builder.nodes[k].children), 0, keys)

\* Mutant of ChildSpans: every node of a breadth begins where the first does.
ChildSpansAtStart(builder, breadth, pos) ==
  [i \in DOMAIN breadth |->
     [first |-> pos + Len(breadth),
      size  |-> Len(builder.nodes[breadth[i]].children)]]

\* Where the children of a breadth will be: behind it, node after node.
ChildSpans(builder, breadth, pos) ==
  [i \in DOMAIN breadth |->
     [first |-> pos + Len(breadth) + ChildCount(builder, SubSeq(breadth, 1, i - 1)),
      size  |-> Len(builder.nodes[breadth[i]].children)]]

\* The function recurse_breadths calls for a breadth.
Appended(g, builder, breadth) ==
  LET pos == Len(g.keys)
  IN  [lookup   |-> InsertedRange(g.lookup, breadth, pos),
       keys     |-> g.keys \o breadth,
       parents  |-> g.parents \o [i \in DOMAIN breadth |-> builder.nodes[breadth[i]].parent],
       children |-> g.children \o ChildSpans(builder, breadth, pos),
       breadths |-> Append(g.breadths, [first |-> pos, size |-> Len(breadth)])]

NextBreadth(builder, breadth) ==
  FoldLeft(LAMBDA all, k : all \o builder.nodes[k].children, <<>>, breadth)

Flattened(builder) ==
  LET empty == [lookup |-> EmptyLookup, keys |-> <<>>, parents |-> <<>>,
                children |-> <<>>, breadths |-> <<>>]
      Turn(acc, n) ==
        IF acc.breadth = <<>> THEN acc
        ELSE [graph   |-> Appended(acc.graph, builder, acc.breadth),
              breadth |-> NextBreadth(builder, acc.breadth)]
  IN  FoldLeft(Turn, [graph |-> empty, breadth |-> builder.roots],
               [n \in 1 .. Cardinality(DOMAIN builder.nodes) |-> n]).graph

\* The program builds when every child it declared was added, and uses the builder,
\* whose values were moved from, no more.
Build ==
  /\ graph = None /\ roots # <<>> /\ Declared = {}
  /\ graph' = Flattened(Builder) /\ built' = Builder
  /\ roots' = <<>> /\ nodes' = NoNodes

Spanned(g, span) == SubSeq(g.keys, span.first + 1, span.first + span.size)

\* make_builder: every node is added with its children, in the graph's order.
Rebuilt(g) ==
  FoldLeft(LAMBDA builder, i : Pushed(builder, g.parents[i], g.keys[i],
                                      Spanned(g, g.children[i])),
           [roots |-> <<>>, nodes |-> NoNodes], [i \in DOMAIN g.keys |-> i])

MakeBuilder ==
  /\ graph # None
  /\ roots' = Rebuilt(graph).roots /\ nodes' = Rebuilt(graph).nodes
  /\ graph' = None /\ built' = None

Next ==
  \/ \E key \in Keys, parent \in Positions :
       \/ PushNode(parent, key)
       \/ \E children \in UNION {[1 .. n -> Keys] : n \in 0 .. MaxDeclared} :
            PushDeclared(parent, key, children)
  \/ Build \/ MakeBuilder

Spec == Init /\ [][Next]_vars

-----------------------------------------------------------------------------
(* What makes the graph correct.                                             *)

Index(g, key) == Find(g.lookup, key, Sentinel) + 1

\* The breadth a place of the arrays lies in.
BreadthOf(g, i) ==
  CHOOSE b \in DOMAIN g.breadths :
    i - 1 \in g.breadths[b].first .. g.breadths[b].first + g.breadths[b].size - 1

\* In whatever order the nodes were added, the graph has each once, where the
\* lookup says, with the parent and the children it was given, in order; the
\* roots are the first breadth and a child is in the one after its parent's;
\* no key lies past the room that was reserved, so that no span was moved; and
\* the builder that is made of the graph is the one the graph was made of.
GraphAsBuilt ==
  graph # None =>
    /\ ToSet(graph.keys) = DOMAIN built.nodes
    /\ Len(graph.keys) = Cardinality(DOMAIN built.nodes)
    /\ Spanned(graph, Head(graph.breadths)) = built.roots
    /\ FlattenSeq([b \in DOMAIN graph.breadths |-> Spanned(graph, graph.breadths[b])])
         = graph.keys
    /\ \A i \in DOMAIN graph.keys :
         LET key == graph.keys[i]
         IN  /\ Index(graph, key) = i
             /\ graph.parents[i] = built.nodes[key].parent
             /\ Spanned(graph, graph.children[i]) = built.nodes[key].children
             /\ \A child \in ToSet(built.nodes[key].children) :
                  BreadthOf(graph, Index(graph, child)) = BreadthOf(graph, i) + 1
    /\ Rebuilt(graph) = built
=============================================================================
