------------------------------- MODULE Trees -------------------------------
(***************************************************************************)
(* The parts of the library that walk trees: the planner Htn, whose network*)
(* is one, FlatBfGraph, which lays one out in arrays, and FlatRecurse.     *)
(* They share nothing, so that a behaviour is one of one of them, and the  *)
(* others rest.                                                            *)
(***************************************************************************)
EXTENDS Naturals, Sequences

CONSTANTS
  Null,                                             \* no action, no graph
  Tasks, Methods, Actions, MethodsOf, SubtasksOf, Worlds, Holds, Effect, Expected, \* Htn
  Sentinel, MaxDeclared,                            \* FlatBfGraph
  TreeSize                                          \* FlatRecurse

VARIABLES
  tree,                                             \* which of them, or none
  sync, world, plan, pCurrent, started, told, trust,          \* Htn
  roots, nodes, graph, built,                                 \* FlatBfGraph
  up, culled, walk, toWalk, walked, place                     \* FlatRecurse

Planner == INSTANCE Htn WITH None <- Null, current <- pCurrent

Graph == INSTANCE FlatBfGraph WITH None <- Null

Walks == INSTANCE FlatRecurse WITH Size <- TreeSize, stack <- toWalk, out <- walked

ASSUME GraphAssumption == Graph!SentinelAssumption
ASSUME WalksAssumption == Walks!SizeAssumption

pVars == <<sync, world, plan, pCurrent, started, told, trust>>
gVars == <<roots, nodes, graph, built>>
wVars == <<up, culled, walk, toWalk, walked, place>>

\* The ones that begin in several states begin in one when they are not run.
TreesInit ==
  /\ tree \in {"none", "htn", "graph", "walks"}
  /\ Planner!Init /\ Graph!Init /\ Walks!Init
  /\ tree # "htn" => sync /\ world = CHOOSE w \in Worlds : TRUE
  /\ tree # "walks" => culled = {} /\ \A n \in DOMAIN up : up[n] = 1

TreesNext ==
  \/ tree = "htn" /\ Planner!Next /\ UNCHANGED <<tree, gVars, wVars>>
  \/ tree = "graph" /\ Graph!Next /\ UNCHANGED <<tree, pVars, wVars>>
  \/ tree = "walks" /\ Walks!Next /\ UNCHANGED <<tree, pVars, gVars>>

treeVars == <<tree, pVars, gVars, wVars>>
TreesSpec == TreesInit /\ [][TreesNext]_treeVars

-----------------------------------------------------------------------------
\* htn: a plan is one way to carry out its task; without one there is no part
\* of one.
PlanSound == Planner!PlanSound

\* htn: a plan in a world that only it changes runs through.
RunsThrough == Planner!RunsThrough

\* htn: actions are started in the order of the plan and finished once.
ImplementsPlanRun == Planner!ImplementsPlanRun

\* flat_bf_graph: the graph has the nodes, parents and children of the builder
\* it was made of, each where the lookup and the spans say, and gives it back.
GraphAsBuilt == Graph!GraphAsBuilt

\* flat_recurse: the walks that do not recurse meet the nodes the recursive one
\* meets, in its order, of every depth.
TraversalsAgree == Walks!TraversalsAgree
=============================================================================
