------------------------------ MODULE PlanRun ------------------------------
(* What running a plan promises: its actions are started in order, one at a  *)
(* time, each finished once and only after it was started.                   *)
EXTENDS Sequences

CONSTANTS Actions, None

VARIABLES todo,   (* the actions of the plan not finished yet               *)
          doing   (* the action that was started and did not finish, or None *)

Init == todo = <<>> /\ doing = None

\* A new plan, while nothing is under way.
Plan ==
  /\ doing = None
  /\ todo' \in Seq(Actions)
  /\ UNCHANGED doing

Start ==
  /\ doing = None /\ todo # <<>>
  /\ doing' = Head(todo)
  /\ UNCHANGED todo

Finish ==
  /\ todo # <<>> /\ doing = Head(todo)
  /\ todo' = Tail(todo)
  /\ doing' = None

\* Started and finished in one call.
Perform ==
  /\ doing = None /\ todo # <<>>
  /\ todo' = Tail(todo)
  /\ UNCHANGED doing

Spec == Init /\ [][Plan \/ Start \/ Finish \/ Perform]_<<todo, doing>>
=============================================================================
