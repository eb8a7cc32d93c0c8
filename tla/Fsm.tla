-------------------------------- MODULE Fsm --------------------------------
(* fea::fsm, the stack based state machine of state_machines/fsm.hpp.        *)
(*                                                                           *)
(* trigger and update run callbacks of the user, and a callback may call the *)
(* machine again: a run is a stack of callbacks.  The user moves whenever    *)
(* control is with the caller (stack = <<>>) or with the callback on top: it *)
(* calls trigger, update or reset, returns, or throws.  Which of the         *)
(* registered functions an event selects is left out: a function that is not *)
(* registered is a callback that returns at once.                            *)
EXTENDS Sequences, SequencesExt, Naturals, FiniteSets

CONSTANTS
  States,       \* the values of StateEnum, count excepted
  Transitions,  \* the values of TransitionEnum, count excepted
  None,         \* StateEnum::count: no state; as a target, an unhandled transition
  Ignored,      \* ignore_sentinel: a transition that is handled by doing nothing
  UpdateCall,       \* the call of update, beside the transitions that trigger takes
  Rows,         \* the tables of transitions a user builds a state with
  MaxDepth      \* bound on the callbacks that are on the stack

Targets == States \cup {None, Ignored}
Calls == Transitions \cup {UpdateCall}

ASSUME SentinelAssumption ==
  /\ None \notin States /\ Ignored \notin States /\ None # Ignored
  /\ UpdateCall \notin Transitions
ASSUME RowsAssumption == Rows \subseteq [Transitions -> Targets]
ASSUME DepthAssumption == MaxDepth \in Nat

VARIABLES
  transitions,  \* the added states, each with its table
  default,      \* _default_state
  current,      \* _current_state
  inOnExit,     \* _in_on_exit
  stack,        \* the callbacks that run, the innermost last
  thrown,       \* an exception is on its way up the stack
  alive         \* history: the state entered and not exited or reset since
vars == <<transitions, default, current, inOnExit, stack, thrown, alive>>

Added == DOMAIN transitions

(* A callback that runs, with what its caller does next.  overtaken and      *)
(* reset are history: a trigger from this on_exit has changed the state, the *)
(* machine was reset in it.                                                  *)
Initial(call) == [kind |-> "init", call |-> call]
Exiting(from, to) ==
  [kind |-> "exit", from |-> from, to |-> to,
   overtaken |-> FALSE, reset |-> FALSE]
Entering == [kind |-> "enter"]
Updating == [kind |-> "update"]

Frames ==
  [kind : {"init"}, call : Calls]
    \cup [kind : {"exit"}, from : States, to : States,
          overtaken : BOOLEAN, reset : BOOLEAN]
    \cup {Entering, Updating}

Top == Last(stack)
Below == Front(stack)

\* An on_exit that no trigger of its own has overtaken: its caller waits to
\* finish the transition.
Pending(frame) == frame.kind = "exit" /\ ~frame.overtaken

Overtaken(frames) ==
  [i \in DOMAIN frames |->
     IF Pending(frames[i]) THEN [frames[i] EXCEPT !.overtaken = TRUE]
     ELSE frames[i]]

WithReset(frames) ==
  [i \in DOMAIN frames |->
     IF Pending(frames[i]) THEN [frames[i] EXCEPT !.reset = TRUE]
     ELSE frames[i]]

Init ==
  /\ transitions = [s \in {} |-> None]
  /\ default = None
  /\ current = None
  /\ inOnExit = FALSE
  /\ stack = <<>>
  /\ thrown = FALSE
  /\ alive = None

-----------------------------------------------------------------------------
(* Building the machine.  add_state destroys the functions of the state it   *)
(* replaces, so it is not called from a callback.                            *)

AddState(s, row) ==
  /\ stack = <<>>
  /\ transitions' =
       [r \in Added \cup {s} |-> IF r = s THEN row ELSE transitions[r]]
  /\ default' = IF default = None THEN s ELSE default
  /\ UNCHANGED <<current, inOnExit, stack, thrown, alive>>

StartState(s) ==
  /\ default' = s
  /\ UNCHANGED <<transitions, current, inOnExit, stack, thrown, alive>>

-----------------------------------------------------------------------------
(* trigger and update                                                        *)

\* get_state and transition_target throw: no such state, nothing to handle
\* the transition, or a target that was never added.
Refused(call) ==
  \/ current \notin Added
  \/ /\ current \in Added /\ call # UpdateCall
     /\ transitions[current][call] \notin Added \cup {Ignored}

\* trigger's last part: the state changes and its on_enter runs.
EnterState(to, frames) ==
  /\ inOnExit' = FALSE
  /\ current' = to
  /\ alive' = to
  /\ stack' = Append(frames, Entering)

\* Mutant of LeaveState: on_exit runs again in a trigger from on_exit.
LeaveStateAgain(to, frames) ==
  /\ inOnExit' = TRUE
  /\ alive' = None
  /\ stack' = Append(frames, Exiting(current, to))
  /\ UNCHANGED current

\* Mutant of LeaveState: the state changes before on_exit runs.
LeaveStateMoved(to, frames) ==
  /\ ~inOnExit
  /\ inOnExit' = TRUE
  /\ alive' = None
  /\ stack' = Append(frames, Exiting(current, to))
  /\ current' = to

LeaveState(to, frames) ==
  /\ ~inOnExit
  /\ inOnExit' = TRUE
  /\ alive' = None
  /\ stack' = Append(frames, Exiting(current, to))
  /\ UNCHANGED current

\* A trigger made from on_exit: on_exit does not run again.
Overtake(to, frames) ==
  /\ inOnExit
  /\ EnterState(to, Overtaken(frames))

\* What trigger and update do once maybe_init is done; frames is the stack
\* they were called on.
Proceed(call, frames) ==
  /\ UNCHANGED <<transitions, default>>
  /\ \/ /\ Refused(call)
        /\ thrown' = TRUE
        /\ stack' = frames
        /\ UNCHANGED <<current, inOnExit, alive>>
     \/ /\ ~Refused(call) /\ UNCHANGED thrown
        /\ \/ /\ call = UpdateCall
              /\ stack' = Append(frames, Updating)
              /\ UNCHANGED <<current, inOnExit, alive>>
           \/ /\ call # UpdateCall
              /\ transitions[current][call] = Ignored
              /\ stack' = frames
              /\ UNCHANGED <<current, inOnExit, alive>>
           \/ /\ call # UpdateCall
              /\ transitions[current][call] # Ignored
              /\ LET to == transitions[current][call]
                 IN LeaveState(to, frames) \/ Overtake(to, frames)

\* maybe_init of a machine that was not started, or was reset: the default
\* state is current, checked by nobody, and its on_enter runs.  A machine without
\* a default state is not started: the code would read past its states.
MaybeInit(call) ==
  /\ current = None
  /\ default # None
  /\ current' = default
  /\ alive' = default
  /\ stack' = Append(stack, Initial(call))
  /\ UNCHANGED <<transitions, default, inOnExit, thrown>>

\* The user calls trigger with a transition, or update.
Call(call) ==
  /\ ~thrown
  /\ Len(stack) < MaxDepth
  /\ \/ MaybeInit(call)
     \/ current # None /\ Proceed(call, stack)

-----------------------------------------------------------------------------
(* A callback returns                                                        *)

ReturnInit ==
  /\ Top.kind = "init"
  /\ Proceed(Top.call, Below)

\* Mutant of FinishExit: the overtaken trigger is not aborted.
FinishExitAnyway == EnterState(Top.to, Below)

\* _in_on_exit was taken down by a trigger from on_exit: this one is aborted.
FinishExit ==
  \/ inOnExit /\ EnterState(Top.to, Below)
  \/ ~inOnExit /\ stack' = Below /\ UNCHANGED <<current, inOnExit, alive>>

ReturnExit ==
  /\ Top.kind = "exit"
  /\ FinishExit
  /\ UNCHANGED <<transitions, default, thrown>>

ReturnOther ==
  /\ Top.kind \in {"enter", "update"}
  /\ stack' = Below
  /\ UNCHANGED <<transitions, default, current, inOnExit, thrown, alive>>

Return ==
  /\ ~thrown
  /\ stack # <<>>
  /\ ReturnInit \/ ReturnExit \/ ReturnOther

\* reset only forgets the current state: _in_on_exit is left as it is.
Reset ==
  /\ ~thrown
  /\ current' = None
  /\ alive' = None
  /\ stack' = WithReset(stack)
  /\ UNCHANGED <<transitions, default, inOnExit, thrown>>

-----------------------------------------------------------------------------
(* Exceptions: of the machine, which refuses a call, or of a callback.       *)

Throw ==
  /\ ~thrown /\ stack # <<>>
  /\ thrown' = TRUE
  /\ UNCHANGED <<transitions, default, current, inOnExit, stack, alive>>

Catch ==
  /\ thrown
  /\ thrown' = FALSE
  /\ UNCHANGED <<transitions, default, current, inOnExit, stack, alive>>

\* Every on_exit catches what is thrown in it: a machine whose on_exit throws
\* keeps _in_on_exit raised.
Unwind ==
  /\ thrown /\ stack # <<>>
  /\ Top.kind # "exit"
  /\ stack' = Below
  /\ UNCHANGED <<transitions, default, current, inOnExit, thrown, alive>>

Next ==
  \/ \E s \in States, row \in Rows : AddState(s, row)
  \/ \E s \in States : StartState(s)
  \/ \E call \in Calls : Call(call)
  \/ Return
  \/ Reset
  \/ Throw
  \/ Catch
  \/ Unwind

Spec == Init /\ [][Next]_vars

-----------------------------------------------------------------------------
(* Properties                                                                *)

\* Every variable has its type; the state that runs is one that was added, or
\* the default one, which start_state may name before it is added.
TypeOK ==
  /\ Added \subseteq States
  /\ \A s \in Added : transitions[s] \in Rows
  /\ default \in States \cup {None}
  /\ current \in States \cup {None}
  /\ inOnExit \in BOOLEAN
  /\ stack \in Seq(Frames)
  /\ thrown \in BOOLEAN
  /\ alive \in {None, current}

\* _in_on_exit says that an on_exit runs whose trigger still has to change
\* the state, whatever was called from it and from the callbacks above it;
\* and there is at most one such on_exit on the stack.
FlagMeansPending ==
  LET pending == {i \in DOMAIN stack : Pending(stack[i])}
  IN Cardinality(pending) = IF inOnExit THEN 1 ELSE 0

\* A trigger reads the current state, then runs on_exit.  When it goes on the
\* state it read is still the current one, unless on_exit reset the machine.
ReadStateHolds ==
  \A i \in DOMAIN stack :
    Pending(stack[i]) /\ ~stack[i].reset => current = stack[i].from

\* A callback of one of these kinds starts in this step.
Starts(kinds) ==
  /\ stack' # stack /\ Len(stack') >= Len(stack)
  /\ Last(stack').kind \in kinds

\* A state is exited only if it was entered, and once for an entry, however
\* triggers nest in the callbacks.
ExitOnce ==
  [][Starts({"exit"}) /\ ~Last(stack').reset => Last(stack').from = alive]_vars

\* A state is entered only after the one before it was exited, or forgotten
\* by a reset; the exception is a machine that is reset and started again in
\* an on_exit, whose trigger then leaves the new state without its on_exit.
EnterAfterExit ==
  [][Starts({"init", "enter"})
     => \/ alive = None
        \/ \E i \in DOMAIN stack : Pending(stack[i]) /\ stack[i].reset]_vars
=============================================================================
