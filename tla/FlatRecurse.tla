---------------------------- MODULE FlatRecurse ----------------------------
(***************************************************************************)
(* The traversals of fea/functional/flat_recurse.hpp: a depth first walk   *)
(* that recurses, one that keeps a stack, a breadth first one that walks   *)
(* the vector it fills, and one that fills a vector for each breadth.      *)
(*                                                                         *)
(* Node 1 is the root.  A sub-tree whose node is culled is left out.  The  *)
(* predicate and children_range give the same answer each time.            *)
(***************************************************************************)
EXTENDS Naturals, SequencesExt

CONSTANT Size         \* bound: the nodes of the tree

VARIABLES
  up,           (* the parent of each node but the root                     *)
  culled,       (* the nodes cull_pred is true of                          *)
  walk,         (* which traversal: "none", "depth", "breadth" or "staged" *)
  stack,        (* for_each_depthfirst_flat: stack                         *)
  out,          (* the nodes gathered, or a sequence of them for each stage*)
  place         (* gather_breadthfirst: i;  _staged: <<i, j>>              *)

vars == <<up, culled, walk, stack, out, place>>

\* There is a root; instances of this module assume it.
SizeAssumption == Size \in Nat \ {0}

Nodes == 1 .. Size
Parents == {p \in [2 .. Size -> Nodes] : \A n \in 2 .. Size : p[n] < n}

\* The sequences f has for the elements of s, one after the other.
FlatMap(f, s) == FlattenSeq([i \in DOMAIN s |-> f[s[i]]])

\* The nodes of a sequence that are in a set, pushed one after the other.
Kept(s, S) == FlatMap([n \in Nodes |-> IF n \in S THEN <<n>> ELSE <<>>], s)

children_range(n) == Kept([i \in 1 .. Size - 1 |-> i + 1], {c \in 2 .. Size : up[c] = n})

Unculled(nodes) == Kept(nodes, Nodes \ culled)

\* gather_depthfirst: for_each_depthfirst gathering.
DepthFirst ==
  LET walked[n \in Nodes] ==
        IF n \in culled THEN <<>>
        ELSE <<n>> \o FlatMap(walked, children_range(n))
  IN  walked

Init ==
  /\ up \in Parents /\ culled \in SUBSET Nodes
  /\ walk = "none" /\ stack = <<>> /\ out = <<>> /\ place = 0

Done == \/ walk = "none"
        \/ walk = "depth" /\ stack = <<>>
        \/ walk = "breadth" /\ place > Len(out)
        \/ walk = "staged" /\ place[1] > Len(out)

\* Each traversal begins with the root, unless it is culled.
Begin ==
  /\ Done
  /\ \/ /\ walk' = "depth" /\ place' = 0
        /\ stack' = Unculled(<<1>>) /\ out' = <<>>
     \/ /\ walk' = "breadth" /\ place' = 1
        /\ out' = Unculled(<<1>>) /\ stack' = <<>>
     \/ /\ walk' = "staged" /\ place' = <<1, 1>>
        /\ out' = (IF 1 \in culled THEN <<>> ELSE <<<<1>>>>) /\ stack' = <<>>
  /\ UNCHANGED <<up, culled>>

\* Mutant of Stacked: the children are pushed front to back.
StackedForward(nodes) == Unculled(nodes)

\* The children that are not culled, back to front.
Stacked(nodes) == Reverse(Unculled(nodes))

\* A turn of for_each_depthfirst_flat.
DepthFlat ==
  /\ walk = "depth" /\ stack # <<>>
  /\ out' = Append(out, Last(stack))
  /\ stack' = Front(stack) \o Stacked(children_range(Last(stack)))
  /\ UNCHANGED <<up, culled, walk, place>>

\* A turn of gather_breadthfirst: the vector grows while it is walked.
Breadth ==
  /\ walk = "breadth" /\ place <= Len(out)
  /\ out' = out \o Unculled(children_range(out[place]))
  /\ place' = place + 1
  /\ UNCHANGED <<up, culled, walk, stack>>

\* A turn of the inner loop of gather_breadthfirst_staged: the first node of a
\* stage that has children, culled or not, adds the next stage.
Staged ==
  /\ walk = "staged" /\ place[1] <= Len(out)
  /\ LET i == place[1]
         j == place[2]
     IN  \/ /\ j <= Len(out[i])
            /\ LET range == children_range(out[i][j])
                   room == IF Len(out) = i /\ range # <<>> THEN Append(out, <<>>) ELSE out
               IN  out' = IF range = <<>> THEN room
                          ELSE [room EXCEPT ![i + 1] = @ \o Unculled(range)]
            /\ place' = <<i, j + 1>>
         \/ j > Len(out[i]) /\ place' = <<i + 1, 1>> /\ UNCHANGED out
  /\ UNCHANGED <<up, culled, walk, stack>>

Next == Begin \/ DepthFlat \/ Breadth \/ Staged

Spec == Init /\ [][Next]_vars

-----------------------------------------------------------------------------
(* What makes the traversals correct.                                        *)

Depth == LET depth[n \in Nodes] == IF n = 1 THEN 1 ELSE depth[up[n]] + 1
         IN  depth

\* The nodes the recursive walk meets at a depth, in its order.
AtDepth(d) == Kept(DepthFirst[1], {n \in Nodes : Depth[n] = d})
ByDepth == FlattenSeq([d \in Nodes |-> AtDepth(d)])

\* At each turn, what the walk with a stack has done and has to do is the
\* recursive walk; and when they end the breadth first ones have each node of
\* it once, depth by depth and in its order.  A stage is a depth, but for an
\* empty one at the end when all the children of the last were culled.
TraversalsAgree ==
  /\ walk = "depth" => out \o FlatMap(DepthFirst, Reverse(stack)) = DepthFirst[1]
  /\ Done /\ walk = "breadth" => out = ByDepth
  /\ Done /\ walk = "staged" =>
       /\ \A d \in DOMAIN out : out[d] = AtDepth(d)
       /\ FlattenSeq(out) = ByDepth
       /\ \A d \in DOMAIN out : out[d] # <<>> \/ d = Len(out)
=============================================================================
