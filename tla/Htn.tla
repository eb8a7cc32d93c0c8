-------------------------------- MODULE Htn --------------------------------
(***************************************************************************)
(* fea::htn (include_cpp17/fea/ai/htn.hpp): a planner over a network of    *)
(* tasks, methods and actions, and the runner of its plans.                *)
(*                                                                         *)
(* An operator that returns bool is called again until it is done (sync);  *)
(* one that returns void is called once, and the program reports its end   *)
(* with notify_finished.                                                   *)
(***************************************************************************)
EXTENDS Naturals, SequencesExt

CONSTANTS
  Tasks, Methods, Actions,  (* the enums of the network                     *)
  MethodsOf,    (* per task: its methods, in order of preference            *)
  SubtasksOf,   (* per method: its subtasks in order, tasks or actions      *)
  Worlds,       (* the values of WorldState                                 *)
  Holds,        (* pairs of a method or action and a world: its predicates  *)
  Effect,       (* per action: what its effects do to a world               *)
  Expected,     (* per action: what its expected effects do, if it has any  *)
  None          (* ActionEnum::count                                        *)

VARIABLES
  sync,      (* do operators return bool                                    *)
  world,     (* the program's WorldState                                    *)
  plan,      (* _plan                                                       *)
  current,   (* _current_action                                             *)
  started,   (* the action whose operator was called and has yet to report  *)
  told,      (* what the last call returned                                 *)
  trust      (* the plan was made from this world: only effects changed it  *)

vars == <<sync, world, plan, current, started, told, trust>>

Nodes == Tasks \cup Methods \cup Actions

\* validate, for a task and the methods of a task.
ValidTask(t) == MethodsOf[t] # <<>> /\ IsInjective(MethodsOf[t])
ValidMethod(m) ==
  /\ SubtasksOf[m] # <<>>
  /\ \A i \in DOMAIN SubtasksOf[m] : SubtasksOf[m][i] \in Tasks \cup Actions

Valid ==
  /\ MethodsOf \in [Tasks -> Seq(Methods)] /\ \A t \in Tasks : ValidTask(t)
  /\ SubtasksOf \in [Methods -> Seq(Tasks \cup Actions)]
  /\ \A m \in Methods : ValidMethod(m)

\* What a network is made of; instances of this module assume it.
NetworkAssumption ==
  /\ Tasks \cap Methods = {} /\ (Tasks \cup Methods) \cap Actions = {}
  /\ Valid
  /\ None \notin Actions
  /\ Holds \subseteq (Methods \cup Actions) \X Worlds
  /\ Effect \in [Actions -> [Worlds -> Worlds]]
  /\ Expected \in [Actions -> [Worlds -> Worlds]]

\* No task leads back to itself: a task is above its methods, and a method
\* above its subtasks.  make_plan of a task that does may call itself for
\* ever.
Levelled(rank, depth) ==
  /\ depth \in Nat
  /\ rank \in [Nodes -> 0 .. depth]
  /\ \A t \in Tasks : \A i \in DOMAIN MethodsOf[t] : rank[MethodsOf[t][i]] < rank[t]
  /\ \A m \in Methods : \A i \in DOMAIN SubtasksOf[m] :
        rank[SubtasksOf[m][i]] < rank[m]

satisfied(x, w) == <<x, w>> \in Holds

TypeOK ==
  /\ sync \in BOOLEAN /\ trust \in BOOLEAN
  /\ world \in Worlds
  /\ plan \in Seq(Actions)
  /\ current \in Actions \cup {None} /\ started \in Actions \cup {None}
  /\ told \in {"nothing", "planned", "no plan", "running", "replan"}

Init ==
  /\ sync \in BOOLEAN
  /\ world \in Worlds
  /\ plan = <<>> /\ current = None /\ started = None
  /\ told = "nothing" /\ trust = FALSE

-----------------------------------------------------------------------------
(* The planner: what a node makes of a plan so far.                          *)

\* A plan so far, the world it leads to, and whether the last node succeeded.
Drafts == [ok : BOOLEAN, p : Seq(Actions), w : Worlds]

\* Mutant of Undo: the actions of a method given up stay in the plan.
UndoKeepsActions(r, p, w) == IF r.ok THEN r ELSE [r EXCEPT !.w = w]

\* A method one of whose subtasks failed: plan and world are as before it.
Undo(r, p, w) ==
  IF r.ok THEN r ELSE [ok |-> FALSE, p |-> SubSeq(r.p, 1, Len(p)), w |-> w]

make_plan_imp[n \in Nodes] == [d \in Drafts |->
  LET Failed == [d EXCEPT !.ok = FALSE]
      TryMethod(r, m) ==
        IF r.ok \/ ~satisfied(m, r.w) THEN r ELSE make_plan_imp[m][r]
      AddSubtask(r, s) == IF r.ok THEN make_plan_imp[s][r] ELSE r
  IN  CASE n \in Tasks   -> FoldLeft(TryMethod, Failed, MethodsOf[n])
        [] n \in Methods -> Undo(FoldLeft(AddSubtask, [d EXCEPT !.ok = TRUE],
                                          SubtasksOf[n]), d.p, d.w)
        [] n \in Actions ->
             IF satisfied(n, d.w)
             THEN [ok |-> TRUE, p |-> Append(d.p, n), w |-> Expected[n][Effect[n][d.w]]]
             ELSE Failed]

\* The world is copied; _current_action stays.
make_plan(t) ==
  LET r == make_plan_imp[t][[ok |-> FALSE, p |-> <<>>, w |-> world]]
  IN  /\ plan' = r.p
      /\ told' = IF r.ok THEN "planned" ELSE "no plan"
      /\ trust' = \A i \in DOMAIN r.p : \A w \in Worlds : Expected[r.p[i]][w] = w
      /\ UNCHANGED <<sync, world, current, started>>

-----------------------------------------------------------------------------
(* The runner.                                                               *)

Replan == told' = "replan" /\ UNCHANGED <<sync, world, plan, started, trust>>

\* run_plan of an empty plan.
RunEmpty == plan = <<>> /\ Replan /\ UNCHANGED current

\* The operator may change the world while it runs.
Operate(w) == trust' = (trust /\ w = world)

\* Mutant of run_plan_sync: the effects of an operator that is done are lost.
RunSyncNoEffects ==
  /\ sync /\ plan # <<>>
  /\ \/ ~satisfied(Head(plan), world) /\ current' = Head(plan) /\ Replan
     \/ /\ satisfied(Head(plan), world)
        /\ \E w \in Worlds : Operate(w) /\ world' = w
        /\ plan' = Tail(plan) /\ current' = None
        /\ told' = IF Len(plan) = 1 THEN "replan" ELSE "running"
        /\ UNCHANGED <<sync, started>>

\* The operator says whether it is done; if so the action is finished at once.
run_plan_sync ==
  /\ sync /\ plan # <<>>
  /\ \/ ~satisfied(Head(plan), world) /\ current' = Head(plan) /\ Replan
     \/ /\ satisfied(Head(plan), world)
        /\ \E w \in Worlds :
             /\ Operate(w)
             /\ \/ /\ world' = w /\ current' = Head(plan)
                   /\ told' = "running" /\ UNCHANGED plan
                \/ /\ world' = Effect[Head(plan)][w] /\ current' = None
                   /\ plan' = Tail(plan)
                   /\ told' = IF Len(plan) = 1 THEN "replan" ELSE "running"
        /\ UNCHANGED <<sync, started>>

\* An action that is current is only checked, whether it was started or not.
run_plan_async ==
  /\ ~sync /\ plan # <<>>
  /\ \/ /\ current # None
        /\ told' = IF satisfied(current, world) THEN "running" ELSE "replan"
        /\ UNCHANGED <<sync, world, plan, current, started, trust>>
     \/ /\ current = None /\ ~satisfied(Head(plan), world)
        /\ current' = Head(plan) /\ Replan
     \/ /\ current = None /\ satisfied(Head(plan), world)
        /\ current' = Head(plan) /\ started' = Head(plan)
        /\ told' = "running"
        /\ \E w \in Worlds : Operate(w) /\ world' = w
        /\ UNCHANGED <<sync, plan>>

\* Mutant of notify_finished: the plan is popped at its back.
NotifyPopsBack ==
  /\ started # None /\ plan # <<>>
  /\ world' = Effect[current][world]
  /\ plan' = Front(plan) /\ current' = None /\ started' = None
  /\ UNCHANGED <<sync, told, trust>>

\* The program reports the end of what was started.  An empty plan has no head
\* to erase: what the call does then is undefined.
notify_finished ==
  /\ started # None /\ plan # <<>>
  /\ world' = Effect[current][world]
  /\ plan' = Tail(plan) /\ current' = None /\ started' = None
  /\ UNCHANGED <<sync, told, trust>>

\* The program changes its world between two calls.
Sense(w) ==
  /\ w # world /\ world' = w
  /\ trust' = FALSE
  /\ UNCHANGED <<sync, plan, current, started, told>>

\* An asynchronous program plans only when no action is current.
Next ==
  \/ RunEmpty \/ run_plan_sync \/ run_plan_async \/ notify_finished
  \/ \E w \in Worlds : Sense(w)
  \/ (sync \/ current = None) /\ \E t \in Tasks : make_plan(t)
Spec == Init /\ [][Next]_vars

-----------------------------------------------------------------------------
(* What makes the planner and the runner correct.                            *)

\* Every way to carry out a node from a world: the actions in order, and the
\* world they lead to.
Ways[n \in Nodes] == [w \in Worlds |->
  LET Extend(S, s) ==
        UNION {{[p |-> a.p \o b.p, w |-> b.w] : b \in Ways[s][a.w]} : a \in S}
  IN  CASE n \in Tasks   -> UNION {Ways[m][w] : m \in
                                   {x \in Range(MethodsOf[n]) : satisfied(x, w)}}
        [] n \in Methods -> FoldLeft(Extend, {[p |-> <<>>, w |-> w]}, SubtasksOf[n])
        [] n \in Actions -> IF satisfied(n, w)
                            THEN {[p |-> <<n>>, w |-> Expected[n][Effect[n][w]]]}
                            ELSE {}]

\* A plan is one way to carry out its task, whatever the planner tried and gave
\* up before it, and a planner that fails leaves no part of a plan.
PlanSound ==
  [][told' \in {"planned", "no plan"} =>
       \A t \in Tasks : make_plan(t) =>
         IF told' = "planned" THEN \E r \in Ways[t][world] : r.p = plan'
         ELSE plan' = <<>>]_vars

\* A plan that expects nothing beyond its effects, in a world that only its
\* effects change, runs to its end without a new plan being asked for.
RunsThrough == trust /\ told = "replan" => plan = <<>>

\* The asynchronous runner works on the head of the plan: that is the action
\* notify_finished finishes and erases.
CurrentIsHead ==
  /\ ~sync /\ current # None => plan # <<>> /\ current = Head(plan)
  /\ started # None => ~sync /\ started = current

\* Actions are started in the order of the plan and finished once, after their
\* start.
Runner == INSTANCE PlanRun WITH todo <- plan, doing <- started
ImplementsPlanRun == Runner!Spec
=============================================================================
