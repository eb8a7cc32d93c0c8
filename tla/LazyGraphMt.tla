---------------------------- MODULE LazyGraphMt ----------------------------
(***************************************************************************)
(* clean_mt of fea::lazy_graph: several nodes are cleaned by one call, on   *)
(* threads.                                                                *)
(*                                                                         *)
(* The requested nodes whose evaluation graphs share nothing are cleaned   *)
(* on a lane each, the others one after the other on a lane of their own.  *)
(* A lane walks an evaluation graph and gives each dirty node to a task;   *)
(* before it looks at a node that has a parent among the nodes it started  *)
(* it waits for all its tasks.  The graph itself does not change meanwhile.*)
(***************************************************************************)
EXTENDS LazyGraph, Integers

CONSTANTS
  Requests,     (* the sequences of ids that clean_mt is called with       *)
  Shared        (* the lane of the graphs that are not independent         *)

ASSUME NumberedAssumption == Ids \subseteq Int
ASSUME RequestsAssumption == Requests \subseteq Seq(Ids)
ASSUME LanesAssumption == Shared \notin Ids

VARIABLES
  todo,         (* per lane: the ids it still has to clean                 *)
  order,        (* per lane: what is left of the graph it walks            *)
  evaluating,   (* per lane: the nodes it gave to tasks since its last wait*)
  running,      (* the tasks: node, lane, and the parents found dirty      *)
  expected      (* the versions that cleaning one by one would reach       *)

mtVars == <<vars, todo, order, evaluating, running, expected>>
structure == <<nodes, parents, children>>

Lanes == Ids \cup {Shared}

\* Any graph whose dependencies were added parents first: a node's parents are
\* smaller than it is, which no graph without loops contradicts but for names.
InitMt ==
  /\ nodes = Ids
  /\ parents \in [Ids -> {s \in BoundedSeq(Ids, Cardinality(Ids)) :
                            \A i, j \in DOMAIN s : i < j => s[i] < s[j]}]
  /\ \A c \in Ids : \A p \in ParentSet(c) : p < c
  /\ children = [p \in Ids |-> {c \in Ids : p \in ParentSet(c)}]
  /\ version = [id \in Ids |-> InitSentinel]
  /\ seenBy = [id \in Ids |-> [c \in Ids |-> DirtySentinel]]
  /\ evalGraph = [id \in Ids |-> <<>>]
  /\ todo = [l \in Lanes |-> <<>>]
  /\ order = [l \in Lanes |-> <<>>]
  /\ evaluating = [l \in Lanes |-> {}]
  /\ running = {}
  /\ expected = Current

Idle == running = {} /\ \A l \in Lanes : todo[l] = <<>> /\ order[l] = <<>>

TasksOf(l) == {task \in running : task.lane = l}

-----------------------------------------------------------------------------
\* Mutant of IsIndependent: only the requested nodes are looked for.
IsIndependentRoot(ids, i) ==
  \A j \in DOMAIN ids \ {i} : ids[i] \notin ToSet(EvalGraphOf(ids[j]))

\* are_eval_graphs_independent: no node of its graph is in another's, the same
\* id requested twice counting as another.
IsIndependent(ids, i) ==
  \/ Len(ids) = 1
  \/ \A j \in DOMAIN ids \ {i} :
       ToSet(EvalGraphOf(ids[i])) \cap ToSet(EvalGraphOf(ids[j])) = {}

\* clean(ids), one after the other: what clean_mt is compared with.
CleanedInTurn(ids) == FoldLeft(LAMBDA v, id : Swept(v, id, TRUE), Entered, ids)

\* clean_mt(ids): the graphs are computed, then spread over the lanes.
CleanMt(ids) ==
  /\ Idle
  /\ LET alone == {i \in DOMAIN ids : IsIndependent(ids, i)}
     IN  todo' = [l \in Lanes |->
                    IF l = Shared
                    THEN Without(ids, {ids[i] : i \in alone})
                    ELSE IF \E i \in alone : ids[i] = l THEN <<l>> ELSE <<>>]
  /\ evalGraph' = [id \in Ids |->
                     IF id \in ToSet(ids) /\ (Len(ids) > 1 \/ parents[id] # <<>>)
                     THEN EvalGraphOf(id) ELSE evalGraph[id]]
  /\ LET v == CleanedInTurn(ids)
     IN  expected' = [version |-> v.version, seenBy |-> v.seenBy]
  /\ UNCHANGED <<structure, versions, order, evaluating, running>>

\* evaluate_dirty_mt begins with the next id of the lane, once the wait that
\* ends the previous one is over.
BeginGraph(l) ==
  /\ order[l] = <<>>
  /\ todo[l] # <<>>
  /\ TasksOf(l) = {}
  /\ order' = [order EXCEPT ![l] =
                 IF parents[Head(todo[l])] = <<>> THEN <<>>
                 ELSE EvalGraphOf(Head(todo[l]))]
  /\ todo' = [todo EXCEPT ![l] = Tail(@)]
  /\ evaluating' = [evaluating EXCEPT ![l] = {}]
  /\ UNCHANGED <<vars, running, expected>>

\* Mutant of MustWait: only the first parent is looked for.
MustWaitFirst(l, x) == parents[x] # <<>> /\ Head(parents[x]) \in evaluating[l]

\* The lane must wait: a parent of x is among the nodes it gave to tasks.
MustWait(l, x) == ParentSet(x) \cap evaluating[l] # {}

\* Mutant of WalkGraph: a clean node is looked at again and again.
WalkGraphStuck(l) ==
  /\ order[l] # <<>>
  /\ order' = IF DirtyParents(Current, Head(order[l])) = {} THEN order
              ELSE [order EXCEPT ![l] = Tail(@)]
  /\ UNCHANGED <<vars, todo, evaluating, running, expected>>

\* One turn of the loop: wait if needed, then skip a clean node or start a task.
WalkGraph(l) ==
  /\ order[l] # <<>>
  /\ LET x == Head(order[l])
         dirty == DirtyParents(Current, x)
         others == IF MustWait(l, x) THEN {} ELSE evaluating[l]
     IN  /\ MustWait(l, x) => TasksOf(l) = {}
         /\ evaluating' = [evaluating EXCEPT ![l] =
                             IF dirty = {} THEN others ELSE others \cup {x}]
         /\ running' = IF dirty = {} THEN running
                       ELSE running \cup {[node |-> x, lane |-> l,
                                           dirty |-> dirty, seen |-> FALSE]}
  /\ order' = [order EXCEPT ![l] = Tail(@)]
  /\ UNCHANGED <<vars, todo, expected>>

\* A task: the dirty parents are marked as seen ...
TaskSees(task) ==
  /\ task \in running
  /\ ~task.seen
  /\ seenBy' = [p \in Ids |->
       IF p \in task.dirty THEN [seenBy[p] EXCEPT ![task.node] = version[p]]
       ELSE seenBy[p]]
  /\ running' = (running \ {task}) \cup {[task EXCEPT !.seen = TRUE]}
  /\ UNCHANGED <<structure, version, evalGraph, todo, order, evaluating, expected>>

\* ... the user's function is called, and the node is made dirty.
TaskEnds(task) ==
  /\ task \in running
  /\ task.seen
  /\ SetVersions(Bumped(Current, task.node))
  /\ running' = running \ {task}
  /\ UNCHANGED <<structure, evalGraph, todo, order, evaluating, expected>>

\* Between two calls the user writes nodes.
WriteBetween(id) ==
  /\ Idle
  /\ MakeDirty(id)
  /\ expected' = [version |-> version', seenBy |-> seenBy']
  /\ UNCHANGED <<todo, order, evaluating, running>>

Work ==
  \/ \E l \in Lanes : BeginGraph(l) \/ WalkGraph(l)
  \/ \E task \in running : TaskSees(task) \/ TaskEnds(task)

NextMt ==
  \/ \E ids \in Requests : CleanMt(ids)
  \/ \E id \in Writable : WriteBetween(id)
  \/ Work

\* Lanes and tasks are scheduled as long as there is any.
SpecMt == InitMt /\ [][NextMt]_mtVars
FairSpecMt == SpecMt /\ WF_mtVars(Work)

-----------------------------------------------------------------------------
\* A node never runs while it runs already, nor while a parent runs: what the
\* tasks write (their version, their entry in each parent) and read (the
\* versions of their parents) never meets, on any lane.
NoConflict ==
  \A s, t \in running : s # t =>
    s.node # t.node /\ s.node \notin ParentSet(t.node)

\* "It is important to only read your parents": however the lanes and tasks
\* interleave, the versions end as if the ids had been cleaned one by one.
MatchesInTurn == Idle => Current = expected

\* A call of clean_mt returns.
CleanMtReturns == ~Idle ~> Idle

=============================================================================
