----------------------------- MODULE MCMachines -----------------------------
(* Machines and Trees beside each other, and small instances of their parts  *)
(* for TLC: one of the parts of one of them runs.                            *)
EXTENDS Machines, Trees, TLC
CONSTANTS a, b, c, t, u, x, y, e, f, g

(* fsm: three states and two transitions, and rows that go to another state, *)
(* come back, ignore or do not handle.                                       *)
MCStates == {a, b, c}
MCTransitions == {t, u}
Row(first, second) == [s \in MCTransitions |-> IF s = t THEN first ELSE second]
MCRows == {Row(b, c), Row(a, Ignored), Row(b, None)}

(* hfsm: walk has the substates slow and fast, jump has none.                *)
MCHStates == {"walk", "slow", "fast", "jump"}
MCHTransitions == {"go", "up", "back"}
Of(onWalk, onSlow, onFast, onJump) ==
  [s \in MCHStates |-> CASE s = "walk" -> onWalk [] s = "slow" -> onSlow
                       [] s = "fast" -> onFast [] s = "jump" -> onJump]
OnSpace(onGo, onUp, onBack) ==
  [s \in MCHTransitions |-> CASE s = "go" -> onGo [] s = "up" -> onUp [] s = "back" -> onBack]

HParent == Of(None, "walk", "walk", None)
HDefaultSub == Of("slow", None, None, None)
HTakes ==
  Of(OnSpace({None, "walk"}, {"jump"}, {None}),
     OnSpace({"fast"}, {None}, {None}),
     OnSpace({None, "slow", "walk"}, {"jump", None}, {None}),
     OnSpace({None}, {None}, {Yield, "fast"}))
HGuarded == Of({"up"}, {"go"}, {}, {"back"})

(* htn: a fighter that attacks while it has fuel and is ready, and rests to  *)
(* be ready again.                                                           *)
PTasks == {"root", "fight"}
PMethods == {"twice", "once", "idle", "combo", "plain", "loot"}
PActions == {"attack", "rest", "take"}
PWorlds == [fuel : 0 .. 2, ready : BOOLEAN]
PMethodsOf == [n \in PTasks |->
  IF n = "root" THEN <<"twice", "once", "idle">> ELSE <<"combo", "loot", "plain">>]

\* combo never works: an attack needs rest after it.
PSubtasksOf == [n \in PMethods |->
  CASE n = "twice" -> <<"fight", "fight">>
    [] n = "once"  -> <<"fight", "rest">>
    [] n = "idle"  -> <<"rest">>
    [] n = "combo" -> <<"attack", "attack">>
    [] n = "plain" -> <<"rest", "attack">>
    [] n = "loot"  -> <<"take", "rest", "attack">>]

\* loot is for those without fuel.
PHolds ==
  {nw \in (PMethods \cup PActions) \X PWorlds :
     /\ nw[1] = "loot" => nw[2].fuel = 0
     /\ nw[1] = "attack" => nw[2].fuel > 0 /\ nw[2].ready}

PEffect == [n \in PActions |-> [w \in PWorlds |->
  CASE n = "attack" /\ w.fuel > 0 -> [fuel |-> w.fuel - 1, ready |-> FALSE]
    [] n = "rest" -> [w EXCEPT !.ready = TRUE]
    [] OTHER      -> w]]

\* take is expected to find fuel.
PExpected == [n \in PActions |-> [w \in PWorlds |->
  IF n = "take" /\ w.fuel = 0 THEN [w EXCEPT !.fuel = 1] ELSE w]]

PLevel == [n \in PTasks \cup PMethods \cup PActions |->
  CASE n = "root" -> 4 [] n \in {"twice", "once"} -> 3 [] n = "fight" -> 2
    [] n \in {"idle", "combo", "plain", "loot"} -> 1 [] n \in PActions -> 0]

(* timer: a calendar with short units, whose months have two or three days   *)
(* and whose years have five.                                                *)
CalendarPeriod == [p \in {"second", "minute", "hour", "day", "week"} |->
                     CASE p = "second" -> 2 [] p = "minute" -> 4 [] p = "hour" -> 8
                       [] p = "day" -> 16 [] p = "week" -> 32]

CalendarMonth == <<2, 5>>
CalendarYear == <<1, 5>>

ASSUME ClockStarts == Clock!StartsOnCalendar
ASSUME PlannerAssumption == Planner!NetworkAssumption /\ Planner!Levelled(PLevel, 4)

-----------------------------------------------------------------------------
PartsInit == MachinesInit /\ TreesInit /\ (part = "none") # (tree = "none")

PartsNext ==
  \/ MachinesNext /\ UNCHANGED treeVars
  \/ TreesNext /\ UNCHANGED allVars

PartsSpec == PartsInit /\ [][PartsNext]_<<allVars, treeVars>>

\* The timer alone.
TimerSpec == PartsInit /\ part = "timer" /\ [][PartsNext]_<<allVars, treeVars>>

\* timer: an update calls all that is due.
NothingOverdue == Clock!NothingOverdue

Symmetry == Permutations({x, y}) \cup Permutations({f, g})
=============================================================================
