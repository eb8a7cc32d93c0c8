------------------------------ MODULE Machines ------------------------------
(***************************************************************************)
(* The parts of the library that a program drives by calls: Fsm, Hfsm,     *)
(* Timer and EventSystem.  They share nothing, so that a behaviour is one  *)
(* of one of them, and the others rest.                                    *)
(***************************************************************************)
EXTENDS Fsm

CONSTANTS
  \* Hfsm
  HStates, HTransitions, Yield, Parent, DefaultSub, DefaultState, Takes, Guarded,
  ParentUpdate,
  \* Timer
  Period, MonthStarts, YearStarts, MeanMonth, MeanYear, StartTime, TimerCallbacks, Empty,
  Deadlines, Steps, Horizon,
  \* EventSystem
  Channels, EventEnum, Subscribers, Capacity, MaxNotifiers, MaxIds, MaxWalks

VARIABLES
  part,                                                \* which of them, or none
  hCurrent, hHistory, sub, pending, info, queue, call, running, active,  \* Hfsm
  real, seen, counter, ticked, state, waiting, fired, called,            \* Timer
  stacks, generators, notifierGen, walks, subscribed               \* EventSystem

Hier == INSTANCE Hfsm WITH
  States <- HStates, Transitions <- HTransitions, Default <- DefaultState,
  current <- hCurrent, history <- hHistory

Clock == INSTANCE Timer WITH Callbacks <- TimerCallbacks, Start <- StartTime

Events == INSTANCE EventSystem WITH Callbacks <- Subscribers

ASSUME HierarchyAssumption == Hier!HierarchyAssumption
ASSUME EventsAssumption == Events!ChannelsAssumption /\ Events!BoundsAssumption
ASSUME ClockAssumption == Clock!CalendarAssumption /\ Clock!CallbacksAssumption

hVars == <<hCurrent, hHistory, sub, pending, info, queue, call, running, active>>
tVars == <<real, seen, counter, ticked, state, waiting, fired, called>>
eVars == <<stacks, generators, notifierGen, walks, subscribed>>

MachinesInit ==
  /\ part \in {"none", "fsm", "hfsm", "timer", "events"}
  /\ Init /\ Hier!Init /\ Clock!Init /\ Events!Init

MachinesNext ==
  \/ part = "fsm" /\ Next /\ UNCHANGED <<part, hVars, tVars, eVars>>
  \/ part = "hfsm" /\ Hier!Next /\ UNCHANGED <<part, vars, tVars, eVars>>
  \/ part = "timer" /\ Clock!Next /\ UNCHANGED <<part, vars, hVars, eVars>>
  \/ part = "events" /\ Events!Next /\ UNCHANGED <<part, vars, hVars, tVars>>

allVars == <<part, vars, hVars, tVars, eVars>>
MachinesSpec == MachinesInit /\ [][MachinesNext]_allVars

-----------------------------------------------------------------------------
\* hfsm: at rest, what was entered and not exited is the current state and the
\* substates it is in.
RestsInCurrent == Hier!RestsInCurrent

\* hfsm: a state is entered after its parent and exited before it.
EntersAndExitsNest == Hier!EntersAndExitsNest

\* hfsm: an update runs in a state that is active, with nothing pending.
UpdatesTheActive == Hier!UpdatesTheActive

\* timer: an update tells of the units that began since the last, and of no
\* other.
AnnouncesWhatBegan == Clock!AnnouncesWhatBegan

\* timer: an update calls nothing before it is due, and all that is due if it
\* stands behind what is not.
CallsTheDue == Clock!CallsTheDue

\* events: an id leads to its own callback until it is taken back, and to
\* nobody after.
IdsLeadHome == Events!IdsLeadHome

\* events: a trigger calls who was subscribed when it began, in order, once.
CallsWhoWasThere == Events!CallsWhoWasThere
=============================================================================
