-------------------------------- MODULE Hfsm --------------------------------
(***************************************************************************)
(* fea::hfsm (state_machines/hfsm.hpp): states with substates.  trigger    *)
(* only decides on a transition; update carries it out, as a queue of      *)
(* events: the states exited, the state changed, the states entered.  A    *)
(* callback of an event may trigger: what is left in the queue gives way.  *)
(*                                                                         *)
(* Predicates of guards are the user's: a state takes any of the targets   *)
(* its guards may let through.                                             *)
(***************************************************************************)
EXTENDS Naturals, SequencesExt, FiniteSetsExt

CONSTANTS
  States, Transitions,
  None,         (* the count of either enumeration                         *)
  Yield,        (* the target of a yield transition: the previous state    *)
  Parent,       (* per state: the state it is a substate of, or None       *)
  DefaultSub,   (* per state: its default substate, or None                *)
  Default,      (* _default_state                                          *)
  Takes,        (* per state and transition: the targets it may take; None *)
                (* if it may leave the transition to its parent            *)
  Guarded,      (* per state: the transitions with an auto guard           *)
  ParentUpdate  (* the states whose update runs their parent's as well     *)

VARIABLES
  current,   (* _current_state                                             *)
  history,   (* _history_state                                             *)
  sub,       (* per state: _current_substate                               *)
  pending,   (* _transition_to_handle is set                               *)
  info,      (* _current_tranny_info                                       *)
  queue,     (* the events that execute_events runs                        *)
  call,      (* the call that runs, and how far it is                      *)
  running,   (* the event whose callback has control, or None              *)
  active     (* history: the states that were entered and not exited       *)

vars == <<current, history, sub, pending, info, queue, call, running, active>>

Event(kind, s) == [kind |-> kind, state |-> s]
Events(kind, states) == [i \in DOMAIN states |-> Event(kind, states[i])]
Starting(then) == [at |-> "start", then |-> then]
Updating == [at |-> "update", then |-> None]
NoInfo == [from |-> None, to |-> None, yield |-> FALSE, parent |-> None]

EventRecords == [kind : {"enter", "exit", "update", "goto", "substate"}, state : States]
Calls == {Updating} \cup {Starting(then) : then \in Transitions \cup {"update"}}

\* A machine as its builder makes it, where default substates are substates and
\* the default state has no parent.
HierarchyAssumption ==
  /\ None \notin EventRecords \cup Calls
  /\ None \notin States /\ Yield \notin States \cup {None}
  /\ Parent \in [States -> States \cup {None}]
  /\ DefaultSub \in [States -> States \cup {None}]
  /\ \A s \in States : DefaultSub[s] # None => Parent[DefaultSub[s]] = s
  /\ Default \in States /\ Parent[Default] = None
  /\ Takes \in [States -> [Transitions -> SUBSET (States \cup {Yield, None})]]
  /\ Guarded \in [States -> SUBSET Transitions]

\* Substates have no substates.
TwoLevels == \A s \in States : Parent[s] # None => Parent[Parent[s]] = None

Init ==
  /\ current = None /\ history = None
  /\ sub = [s \in States |-> None]
  /\ pending = FALSE /\ info = NoInfo
  /\ queue = <<>> /\ call = None /\ running = None
  /\ active = {}

-----------------------------------------------------------------------------
(* The hierarchy                                                             *)

Topmost[s \in States] == IF Parent[s] = None THEN s ELSE Topmost[Parent[s]]

\* current_states and default_states: a state, its substate, and so on.
Chain(substate, s) ==
  LET chain[x \in States] ==
        IF substate[x] = None THEN <<x>> ELSE <<x>> \o chain[substate[x]]
  IN  chain[s]

\* Mutant of DepthFirst: the outer states come first.
OuterFirst(s) == Chain(sub, s)

\* current_states(states, true): only the first call is depth first.
DepthFirst(s) == Append(Tail(Chain(sub, s)), s)

\* init: the default substates, down from a state.
Initialised(s) ==
  [x \in States |-> IF x \in ToSet(Chain(DefaultSub, s)) THEN DefaultSub[x] ELSE sub[x]]

\* current_state(s)
GoTo(s) == /\ history' = current /\ current' = s /\ sub' = Initialised(s)

-----------------------------------------------------------------------------
(* trigger                                                                   *)

\* The states a transition is offered to, from the innermost outwards.
Offered == Reverse(Chain(sub, current))

Refusable(t) == \A i \in DOMAIN Offered : None \in Takes[Offered[i]][t]

\* The innermost state that takes it decides; the transition is internal to
\* the first state around that one that has the target as a substate.
Decisions(t) ==
  {[from |-> Offered[i],
    to |-> IF take = Yield THEN None ELSE take,
    yield |-> take = Yield,
    parent |-> IF take # Yield
                  /\ \E j \in i + 1 .. Len(Offered) : Parent[take] = Offered[j]
               THEN Parent[take] ELSE None] :
     i \in {j \in DOMAIN Offered : \A k \in 1 .. j - 1 : None \in Takes[Offered[k]][t]},
     take \in States \cup {Yield}}

\* Programs yield only when there is a previous state.
TakenBy(d, t) ==
  /\ (IF d.yield THEN Yield ELSE d.to) \in Takes[d.from][t]
  /\ d.yield => history # None

\* transition, and the exception if nothing handles it.
Decide(t) ==
  \/ \E d \in Decisions(t) : TakenBy(d, t) /\ info' = d /\ pending' = TRUE
  \/ Refusable(t) /\ info' = NoInfo /\ UNCHANGED pending

\* maybe_init of a machine that was not started.
Start(then) ==
  /\ current = None
  /\ GoTo(Default)
  /\ queue' = Events("enter", Chain(DefaultSub, Default))
  /\ call' = Starting(then)
  /\ UNCHANGED <<pending, info, running, active>>

Resting == call = None

Trigger(t) ==
  \/ Resting /\ Start(t)
  \/ /\ current # None
     /\ Resting \/ running # None
     /\ Decide(t)
     /\ UNCHANGED <<current, history, sub, queue, call, running, active>>

-----------------------------------------------------------------------------
(* update                                                                    *)

\* The innermost state, and the ones around it as long as they ask for that.
Updated ==
  LET states == DepthFirst(current)
      last == {i \in DOMAIN states : states[i] \notin ParentUpdate}
      n == IF last = {} THEN Len(states) ELSE Min(last)
  IN  Reverse(SubSeq(states, 1, n))

Update ==
  \/ Resting /\ Start("update")
  \/ /\ Resting /\ current # None
     /\ queue' = Events("update", Updated)
     /\ call' = Updating
     /\ UNCHANGED <<current, history, sub, pending, info, running, active>>

\* The machine was started: the call goes on.
Started ==
  /\ call # None /\ call.at = "start"
  /\ queue = <<>> /\ running = None
  /\ \/ /\ call.then = "update"
        /\ queue' = Events("update", Updated) /\ call' = Updating
        /\ UNCHANGED <<pending, info>>
     \/ /\ call.then # "update"
        /\ Decide(call.then) /\ call' = None /\ UNCHANGED queue
  /\ UNCHANGED <<current, history, sub, running, active>>

Return ==
  /\ call = Updating /\ queue = <<>> /\ running = None
  /\ call' = None
  /\ UNCHANGED <<current, history, sub, pending, info, queue, running, active>>

-----------------------------------------------------------------------------
(* execute_events                                                            *)

\* Mutant of CarryOut: only the state that took the transition is exited.
CarryOutExitsOne(d, rest) ==
  LET to == IF d.yield THEN history ELSE d.to
      top == Topmost[to]
  IN  IF d.parent # None
      THEN <<Event("exit", d.from), Event("substate", d.to),
             Event("enter", d.to)>>
      ELSE <<Event("exit", d.from), Event("goto", top)>>
             \o Events("enter", Chain(DefaultSub, top))

\* The events of the transition that was decided, instead of the rest.
CarryOut(d, rest) ==
  LET to == IF d.yield THEN history ELSE d.to
      top == Topmost[to]
  IN  IF d.parent # None
      THEN <<Event("exit", d.from), Event("substate", d.to),
             Event("enter", d.to)>>
      ELSE Events("exit", DepthFirst(current)) \o <<Event("goto", top)>>
             \o Events("enter", Chain(DefaultSub, top))

\* What execute_events does behind each event.
Continue ==
  /\ pending' = FALSE
  /\ queue' = IF pending THEN CarryOut(info, Tail(queue)) ELSE Tail(queue)

\* A callback starts.
RunCallback ==
  /\ running = None /\ queue # <<>>
  /\ Head(queue).kind \in {"enter", "exit"}
  /\ running' = Head(queue)
  /\ active' = IF Head(queue).kind = "enter" THEN active \cup {Head(queue).state}
               ELSE active \ {Head(queue).state}
  /\ UNCHANGED <<current, history, sub, pending, info, queue, call>>

\* Mutant of RunUpdate: on_update runs though a transition is to be handled.
RunUpdateAnyway ==
  /\ running = None /\ queue # <<>>
  /\ Head(queue).kind = "update"
  /\ running' = Head(queue)
  /\ UNCHANGED <<current, history, sub, pending, info, queue, call, active>>

\* on_update does not run if a transition was triggered before it.
RunUpdate ==
  /\ running = None /\ queue # <<>>
  /\ Head(queue).kind = "update"
  /\ ~pending
  /\ running' = Head(queue)
  /\ UNCHANGED <<current, history, sub, pending, info, queue, call, active>>

\* The auto guards of a state let a transition through, or an earlier trigger
\* is still to be carried out: instead of the update.
SkipUpdate ==
  /\ running = None /\ queue # <<>>
  /\ Head(queue).kind = "update"
  /\ pending' = FALSE
  /\ \/ pending /\ UNCHANGED info
     \/ \E t \in Guarded[Head(queue).state] :
          \E d \in Decisions(t) : TakenBy(d, t) /\ info' = d
  /\ queue' = CarryOut(info', Tail(queue))
  /\ UNCHANGED <<current, history, sub, call, running, active>>

ChangeState ==
  /\ running = None /\ queue # <<>>
  /\ Head(queue).kind = "goto"
  /\ GoTo(Head(queue).state)
  /\ queue' = Tail(queue)
  /\ UNCHANGED <<pending, info, call, running, active>>

\* current_substate(s): the substates of s are left as they were.
ChangeSubstate ==
  /\ running = None /\ queue # <<>>
  /\ Head(queue).kind = "substate"
  /\ sub' = [sub EXCEPT ![Parent[Head(queue).state]] = Head(queue).state]
  /\ queue' = Tail(queue)
  /\ UNCHANGED <<current, history, pending, info, call, running, active>>

CallbackReturns ==
  /\ running # None
  /\ running' = None
  /\ Continue
  /\ UNCHANGED <<current, history, sub, info, call, active>>

-----------------------------------------------------------------------------
\* A program that triggers when nothing but updates is left to be given up,
\* and triggers what may be refused only if nothing is pending.
Sensible(t) ==
  /\ running # None => \A i \in 2 .. Len(queue) : queue[i].kind = "update"
  /\ running # None => running.kind # "exit"
  /\ pending => ~Refusable(t)

Next ==
  \/ \E t \in Transitions :
       (current # None => Sensible(t)) /\ Trigger(t)
  \/ Update \/ Started \/ Return
  \/ RunCallback \/ RunUpdate \/ SkipUpdate \/ ChangeState \/ ChangeSubstate
  \/ CallbackReturns

Spec == Init /\ [][Next]_vars

-----------------------------------------------------------------------------
(* What makes the machine correct.                                           *)

\* However transitions were decided, replaced and cut short, when no call runs
\* the states that were entered and not exited are the current ones.
RestsInCurrent ==
  Resting /\ current # None => active = ToSet(Chain(sub, current))

Inside(s) == {c \in States : Parent[c] = s}

\* A state is entered once for each time it is exited, inside the state around
\* it, and exited after the states inside it.
EntersAndExitsNest ==
  [][running' # running /\ running' # None =>
       LET s == running'.state
       IN  CASE running'.kind = "enter" ->
                  s \notin active /\ (Parent[s] = None \/ Parent[s] \in active)
             [] running'.kind = "exit" ->
                  s \in active /\ Inside(s) \cap active = {}
             [] OTHER -> TRUE]_vars

\* on_update runs only in a state that is entered and was not told to change.
UpdatesTheActive ==
  [][running' # running /\ running' # None /\ running'.kind = "update" =>
       ~pending /\ running'.state \in active]_vars
=============================================================================
