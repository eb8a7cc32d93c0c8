------------------------------ MODULE LazyEval ------------------------------
(***************************************************************************)
(* What a lazily evaluated graph promises, without versions and without    *)
(* cached evaluation graphs: an edge is dirty from the moment its parent   *)
(* is written until its child is cleaned.                                  *)
(***************************************************************************)
EXTENDS Naturals, FiniteSets

CONSTANT Ids

VARIABLES
  nodes,
  edges,    (* pairs <<parent, child>>                                     *)
  dirty     (* the edges whose child has not seen its parent's last write  *)

OutEdges(S) == {e \in edges : e[1] \in S}
InEdges(S) == {e \in edges : e[2] \in S}

\* id and its ancestors: what must be looked at before id can be read.
Upward(id) ==
  LET up[n \in 0 .. Cardinality(Ids)] ==
        IF n = 0 THEN {id}
        ELSE LET lower == up[n - 1] IN lower \cup {e[1] : e \in InEdges(lower)}
  IN  up[Cardinality(Ids)]

\* The nodes that must be recomputed before id can be read.
Outdated(id) ==
  {x \in Upward(id) : InEdges(Upward(x)) \cap dirty # {}}

Init == nodes = {} /\ edges = {} /\ dirty = {}

AddNode(id) ==
  /\ nodes' = nodes \cup {id}
  /\ UNCHANGED <<edges, dirty>>

RemoveNodes(S) ==
  /\ nodes' = nodes \ S
  /\ edges' = edges \ (InEdges(S) \cup OutEdges(S))
  /\ dirty' = dirty \cap edges'

Link(c, p) ==
  /\ c \notin Upward(p)
  /\ nodes' = nodes \cup {c, p}
  /\ edges' = edges \cup {<<p, c>>}
  /\ dirty' = dirty \cup {<<p, c>>}

Unlink(c, p) ==
  /\ edges' = edges \ {<<p, c>>}
  /\ dirty' = dirty \ {<<p, c>>}
  /\ UNCHANGED nodes

Write(id) ==
  /\ dirty' = dirty \cup OutEdges({id})
  /\ UNCHANGED <<nodes, edges>>

\* The outdated nodes are recomputed, which dirties whoever else reads them.
Clean(id) ==
  /\ dirty' = (dirty \cup OutEdges(Outdated(id))) \ InEdges(Upward(id))
  /\ UNCHANGED <<nodes, edges>>

\* The outdated nodes are visited and written, and none is cleaned.
Evaluate(id) ==
  /\ dirty' = dirty \cup OutEdges(Outdated(id))
  /\ UNCHANGED <<nodes, edges>>

Next ==
  \/ \E S \in SUBSET nodes : RemoveNodes(S)
  \/ \E id \in Ids : AddNode(id) \/ \E p \in Ids : Link(id, p) \/ Unlink(id, p)
  \/ \E id \in nodes : Write(id) \/ Clean(id) \/ Evaluate(id)

Spec == Init /\ [][Next]_<<nodes, edges, dirty>>

=============================================================================
