------------------------------- MODULE Timer -------------------------------
(***************************************************************************)
(* fea::timer (include_cpp17/fea/time/timer.hpp): a clock that update      *)
(* moves on.  An update announces the seconds, minutes, ... years that     *)
(* began since the last one, and calls the callbacks that are due.  Pausing*)
(* is a state machine of two states that starts as updating.               *)
(*                                                                         *)
(* Time is counted in ticks, the ratio is 1.                               *)
(***************************************************************************)
EXTENDS Integers, SequencesExt, FiniteSetsExt

CONSTANTS
  Period,       (* ticks of the second, minute, hour, day and week          *)
  MonthStarts,  (* the days on which months begin                           *)
  YearStarts,   (* those on which years begin                               *)
  MeanMonth,    (* the mean month and year, as durations measure them: the  *)
  MeanYear,     (* days of so many of them, a pair                          *)
  Start,        (* _start_time                                              *)
  Callbacks,    (* the callbacks of the program                             *)
  Empty,        (* a std::function that was moved from                      *)
  Deadlines,    (* bound: when the callbacks may be due                     *)
  Steps,        (* bound: how much time may pass at once                    *)
  Horizon       (* bound: the real clock stops there                        *)

VARIABLES
  real,      (* the clock of the machine                                    *)
  seen,      (* _new_update_time                                            *)
  counter,   (* _counter                                                    *)
  ticked,    (* the _last_..._tick of each event                            *)
  state,     (* of _smachine: "none" before its first call                  *)
  waiting,   (* _elapsed_callbacks and _time_callbacks, in order            *)
  fired,     (* the events of the last update                               *)
  called     (* the callbacks that the last update called                   *)

vars == <<real, seen, counter, ticked, state, waiting, fired, called>>

Units == {"second", "minute", "hour", "day", "week"}
Events == Units \cup {"month", "year"}
Lists == {"elapsed", "time"}

\* A unit is so many of the one before, a year begins when a month does, and
\* the calendar goes on where the clock stops.
CalendarAssumption ==
  /\ Start \in Nat /\ Horizon \in Nat /\ Steps \subseteq Nat
  /\ Period \in [Units -> Nat \ {0}]
  /\ Period["minute"] % Period["second"] = 0 /\ Period["hour"] % Period["minute"] = 0
  /\ Period["day"] % Period["hour"] = 0 /\ Period["week"] % Period["day"] = 0
  /\ MonthStarts \subseteq Nat /\ 0 \in YearStarts /\ YearStarts \subseteq MonthStarts
  /\ \E s \in YearStarts : s > (Start + Horizon) \div Period["day"]

CallbacksAssumption == Empty \notin Callbacks /\ Deadlines \subseteq Int

Floor(x, p) == (x \div p) * p
Day(x) == x \div Period["day"]

\* std::floor of a number of days to mean months or years, back to days.
MeanFloor(d, mean) == (((d * mean[1]) \div mean[2]) * mean[2]) \div mean[1]

Init ==
  /\ real = 0 /\ seen = 0 /\ counter = 0
  /\ ticked = [e \in Events |->
       CASE e = "month" -> MeanFloor(Day(Start), MeanMonth)
         [] e = "year"  -> MeanFloor(Day(Start), MeanYear)
         [] OTHER       -> Floor(Start, Period[e])]
  /\ state = "none"
  /\ waiting = [l \in Lists |-> <<>>]
  /\ fired = {}
  /\ called = {}

-----------------------------------------------------------------------------
(* Calendar: the first day of the month or year of a day, and how long it is.*)

StartOf(d, starts) == Max({s \in starts : s <= d})
LengthOf(d, starts) == Min({s \in starts : s > d}) - StartOf(d, starts)

\* On the day the clock starts the mean month and year begin with those of the
\* calendar, as they do on the first day.
StartsOnCalendar ==
  /\ MeanFloor(Day(Start), MeanMonth) = StartOf(Day(Start), MonthStarts)
  /\ MeanFloor(Day(Start), MeanYear) = StartOf(Day(Start), YearStarts)

Began(e, now) ==
  CASE e = "month" -> ticked[e] + LengthOf(ticked[e], MonthStarts) <= Day(now)
    [] e = "year"  -> ticked[e] + LengthOf(ticked[e], YearStarts) <= Day(now)
    [] OTHER       -> ticked[e] + Period[e] <= now

\* Mutant of Before: a week that did not begin ends the update.
BeforeWithWeeks(e) ==
  CASE e = "second" -> {}
    [] e = "minute" -> {"second"}
    [] e = "hour"   -> {"second", "minute"}
    [] e = "day"    -> {"second", "minute", "hour"}
    [] e = "week"   -> {"second", "minute", "hour", "day"}
    [] e = "month"  -> {"second", "minute", "hour", "day", "week"}
    [] e = "year"   -> {"second", "minute", "hour", "day", "week", "month"}

\* What must have begun for an event to be looked at: weeks block nothing.
Before(e) ==
  CASE e = "second" -> {}
    [] e = "minute" -> {"second"}
    [] e = "hour"   -> {"second", "minute"}
    [] e = "day"    -> {"second", "minute", "hour"}
    [] e \in {"week", "month"} -> {"second", "minute", "hour", "day"}
    [] e = "year"   -> {"second", "minute", "hour", "day", "month"}

Triggered(now) == {e \in Events : \A f \in Before(e) \cup {e} : Began(f, now)}

Retick(e, now) ==
  CASE e = "month" -> StartOf(Day(now), MonthStarts)
    [] e = "year"  -> StartOf(Day(now), YearStarts)
    [] OTHER       -> Floor(now, Period[e])

-----------------------------------------------------------------------------
(* The callbacks that are due.                                               *)

Due(list, now) == {i \in DOMAIN list : list[i].at <= now}

\* Mutant of Kept: a callback due right now waits for the next update.
KeptUntilAfter(list, now) == SelectSeq(list, LAMBDA x : x.at >= now)

Kept(list, now) ==
  FoldLeft(LAMBDA kept, x : IF x.at > now THEN Append(kept, x) ELSE kept, <<>>, list)

\* What remove_if leaves: the entries to keep moved to the front; behind them
\* the old entries, empty where one was moved from.
Parted(list, now) ==
  [i \in DOMAIN list |->
     IF i <= Len(Kept(list, now)) THEN Kept(list, now)[i]
     ELSE IF i \notin Due(list, now) THEN [list[i] EXCEPT !.cb = Empty]
     ELSE list[i]]

\* The entries called are those behind the ones kept.  An empty one throws: the
\* rest is not called and nothing is erased.
ToCall(list, now) ==
  SubSeq(Parted(list, now), Len(Kept(list, now)) + 1, Len(list))
Called(list, now) ==
  LET tail == ToCall(list, now)
      empty == {i \in DOMAIN tail : tail[i].cb = Empty}
      end == IF empty = {} THEN Len(tail) ELSE Min(empty) - 1
  IN  {tail[i].cb : i \in 1 .. end}
Throws(list, now) == \E i \in DOMAIN ToCall(list, now) : ToCall(list, now)[i].cb = Empty

\* What an update leaves of a list.
After(list, now) == IF Throws(list, now) THEN Parted(list, now) ELSE Kept(list, now)

update_callbacks(elapsed, now) ==
  LET both == ~Throws(waiting["elapsed"], elapsed)
  IN  /\ waiting' = [waiting EXCEPT
                       !["elapsed"] = After(@, elapsed),
                       !["time"] = IF both THEN After(@, now) ELSE @]
      /\ called' = Called(waiting["elapsed"], elapsed)
                   \cup (IF both THEN Called(waiting["time"], now) ELSE {})

-----------------------------------------------------------------------------
\* A callback waits once at a time.
Subscribe(l, at, c) ==
  /\ \A m \in Lists : \A i \in DOMAIN waiting[m] : waiting[m][i].cb # c
  /\ at > IF l = "elapsed" THEN counter ELSE Start + counter
  /\ waiting' = [waiting EXCEPT ![l] = Append(@, [at |-> at, cb |-> c])]
  /\ UNCHANGED <<real, seen, counter, ticked, state, fired, called>>

Pass(dt) ==
  /\ real + dt <= Horizon
  /\ real' = real + dt
  /\ UNCHANGED <<seen, counter, ticked, state, waiting, fired, called>>

\* The whole of on_update.
Update ==
  /\ state # "paused"
  /\ state' = "updating"
  /\ seen' = real /\ counter' = counter + (real - seen)
  /\ LET now == Start + counter'
     IN  /\ fired' = Triggered(now)
         /\ ticked' = [e \in Events |->
                         IF e \in Triggered(now) THEN Retick(e, now) ELSE ticked[e]]
         /\ update_callbacks(counter', now)
  /\ UNCHANGED real

\* pause and unpause only change the state: the clock is not read.
Pause ==
  /\ state # "paused" /\ state' = "paused"
  /\ UNCHANGED <<real, seen, counter, ticked, waiting, fired, called>>

Unpause ==
  /\ state = "paused" /\ state' = "updating"
  /\ UNCHANGED <<real, seen, counter, ticked, waiting, fired, called>>

Go == Update \/ Pause \/ Unpause \/ \E dt \in Steps : Pass(dt)

\* A program may subscribe in any order.
Next == Go \/ \E l \in Lists, c \in Callbacks, at \in Deadlines : Subscribe(l, at, c)
Spec == Init /\ [][Next]_vars

-----------------------------------------------------------------------------
(* What makes the timer correct.                                             *)

Boundaries(e) ==
  CASE e = "month" -> {d * Period["day"] : d \in MonthStarts}
    [] e = "year"  -> {d * Period["day"] : d \in YearStarts}
    [] OTHER       -> {x \in 0 .. Start + Horizon : x % Period[e] = 0}

\* An update announces a unit exactly when one began since the last update,
\* however many did, though it looks at a unit only if the smaller ones began.
AnnouncesWhatBegan ==
  [][seen' # seen => \A e \in Events :
       e \in fired' <=> \E b \in Boundaries(e) :
                          Start + counter < b /\ b <= Start + counter']_vars

\* The entries of a list that are due, and those that are not.
DueIn(list, now) == {list[i] : i \in Due(list, now)}
EarlyIn(list, now) == {list[i] : i \in DOMAIN list \ Due(list, now)}
Entries(list) == {list[i] : i \in DOMAIN list}
Callees(entries) == {entry.cb : entry \in entries}

\* remove_if moves nothing over what is due, nor was it so before.
InTurn(list, now) ==
  /\ \A i \in Due(list, now) : i .. Len(list) \subseteq Due(list, now)
  /\ \A i \in DOMAIN list : list[i].cb # Empty

\* What each list compares to in the update that leads to the next state.
Clocks == [elapsed |-> counter', time |-> Start + counter']

\* In whatever order callbacks are subscribed, an update calls none that is not
\* due, and those that are not due wait on.  If what is due stands behind what
\* is not, all of it is called, and only that goes.
CallsTheDue ==
  [][Update =>
       LET due == UNION {DueIn(waiting[l], Clocks[l]) : l \in Lists}
       IN  /\ called' \subseteq Callees(due)
           /\ \A l \in Lists : \A entry \in EarlyIn(waiting[l], Clocks[l]) :
                entry.cb # Empty => entry \in Entries(waiting'[l])
           /\ (\A l \in Lists : InTurn(waiting[l], Clocks[l])) =>
                /\ called' = Callees(due)
                /\ \A l \in Lists :
                     Entries(waiting'[l]) = EarlyIn(waiting[l], Clocks[l])]_vars

\* timer.hpp: the callback is executed "after e has elapsed", "at time t".
\* An update calls all that is due, and nothing that is due waits after it.
NothingOverdue ==
  [][Update => \A l \in Lists :
       /\ Callees(DueIn(waiting[l], Clocks[l])) \subseteq called'
       /\ Due(waiting'[l], Clocks[l]) = {}]_vars
=============================================================================
