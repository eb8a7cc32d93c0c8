---------------------------- MODULE EventSystem ----------------------------
(***************************************************************************)
(* fea::event_system (events/event_system.hpp): an event_stack             *)
(* (events/event_stack.hpp) per channel and per notifier, each with the    *)
(* subscribers of each event in an id_slotmap.  A trigger walks the        *)
(* subscribers of an event, and they may call the system again: walks are  *)
(* a stack.                                                                *)
(***************************************************************************)
EXTENDS Naturals, SequencesExt

CONSTANTS
  Channels,     (* ChannelEnum                                             *)
  EventEnum,
  Callbacks,    (* the functions that subscribe                            *)
  Capacity,     (* what reserve was called with                            *)
  MaxNotifiers, (* bound: how many notifiers are ever added                *)
  MaxIds,       (* bound: how often an event is subscribed to              *)
  MaxWalks      (* bound: how deep triggers nest                           *)

VARIABLES
  stacks,       (* per channel and notifier id, per event: the subscribers *)
  generators,   (* per stack and event: _id_generators                     *)
  notifierGen,  (* _notifier_id_generator                                  *)
  walks,        (* the triggers that run, the innermost last               *)
  subscribed    (* history: the ids given out and not taken back           *)

vars == <<stacks, generators, notifierGen, walks, subscribed>>

\* Channels and notifiers are kept apart, whatever their ids are; instances of
\* this module assume it, and that what bounds them are numbers.
ChannelsAssumption == Channels \cap 1 .. MaxNotifiers = {}
BoundsAssumption == MaxNotifiers \in Nat /\ MaxIds \in Nat

Nothing == [e \in EventEnum |-> <<>>]
Unused == [e \in EventEnum |-> 0]
Notifiers == DOMAIN stacks \ Channels

Init ==
  /\ stacks = [c \in Channels |-> Nothing]
  /\ generators = [c \in Channels |-> Unused]
  /\ notifierGen = 0
  /\ walks = <<>>
  /\ subscribed = {}

\* An id, and what it is for: a stack, one of its events, a number.
Id(s, e, n, f) == [stack |-> s, event |-> e, id |-> n, callback |-> f]
IdsOf(S, E) == {i \in subscribed : i.stack \in S /\ i.event \in E}

\* The positions of an id among the subscribers of its event; at most one.
Found(s, e, n) ==
  {p \in 1 .. MaxIds : /\ s \in DOMAIN stacks /\ p \in DOMAIN stacks[s][e]
                       /\ stacks[s][e][p].id = n}

\* A program changes no subscribers that a trigger walks: they would move.
Walked(S, E) == \E k \in DOMAIN walks : walks[k].stack \in S /\ walks[k].event \in E

-----------------------------------------------------------------------------
(* The subscribers                                                           *)

\* Mutant of NextId: ids count the subscribers there are.
NextIdFromSize(s, e) == Len(stacks[s][e]) + 1

NextId(s, e) == generators[s][e] + 1

\* Behind the ones there are; in a walk only if the vector does not grow.
Subscribe(s, e, f) ==
  /\ s \in DOMAIN stacks
  /\ generators[s][e] < MaxIds
  /\ Walked({s}, {e}) => Len(stacks[s][e]) < Capacity
  /\ generators' = [generators EXCEPT ![s][e] = NextId(s, e)]
  /\ stacks' = [stacks EXCEPT ![s][e] = Append(@, [id |-> NextId(s, e), callback |-> f])]
  /\ subscribed' = subscribed \cup {Id(s, e, NextId(s, e), f)}
  /\ UNCHANGED <<notifierGen, walks>>

\* id_slotmap::erase: the last subscriber takes the place.  Nothing, or a
\* throw of at(), when the id leads to nobody.
Unsubscribe(s, e, n) ==
  /\ ~Walked({s}, {e})
  /\ subscribed' = {i \in subscribed : <<i.stack, i.event, i.id>> # <<s, e, n>>}
  /\ IF Found(s, e, n) = {} THEN UNCHANGED stacks
     ELSE LET list == stacks[s][e]
              place == CHOOSE p \in Found(s, e, n) : TRUE
          IN stacks' = [stacks EXCEPT ![s][e] = Front([list EXCEPT ![place] = Last(list)])]
  /\ UNCHANGED <<generators, notifierGen, walks>>

\* The clears: some events of some stacks.
Clear(S, E) ==
  /\ ~Walked(S, E)
  /\ stacks' = [s \in DOMAIN stacks |->
                  [e \in EventEnum |-> IF s \in S /\ e \in E THEN <<>> ELSE stacks[s][e]]]
  /\ subscribed' = subscribed \ IdsOf(S, E)
  /\ UNCHANGED <<generators, notifierGen, walks>>

-----------------------------------------------------------------------------
(* Notifiers                                                                 *)

\* Other notifiers may be walked: their subscribers do not move with them.
AddNotifier ==
  /\ notifierGen < MaxNotifiers
  /\ notifierGen' = notifierGen + 1
  /\ stacks' = [s \in DOMAIN stacks \cup {notifierGen'} |->
                  IF s = notifierGen' THEN Nothing ELSE stacks[s]]
  /\ generators' = [s \in DOMAIN stacks' |->
                      IF s = notifierGen' THEN Unused ELSE generators[s]]
  /\ UNCHANGED <<walks, subscribed>>

RemoveNotifier(s) ==
  /\ ~Walked({s}, EventEnum)
  /\ stacks' = [t \in DOMAIN stacks \ {s} |-> stacks[t]]
  /\ generators' = [t \in DOMAIN stacks \ {s} |-> generators[t]]
  /\ subscribed' = subscribed \ IdsOf({s}, EventEnum)
  /\ UNCHANGED <<notifierGen, walks>>

\* event_system::clear: no notifiers, and the channels have no subscribers.
RemoveAll ==
  /\ ~Walked(DOMAIN stacks, EventEnum)
  /\ stacks' = [c \in Channels |-> Nothing]
  /\ generators' = [c \in Channels |-> generators[c]]
  /\ subscribed' = {}
  /\ UNCHANGED <<notifierGen, walks>>

-----------------------------------------------------------------------------
(* Triggers                                                                  *)

\* The end of the walk is read when it begins.  due and called are history.
Trigger(s, e) ==
  /\ s \in DOMAIN stacks
  /\ Len(walks) < MaxWalks
  /\ walks' = Append(walks, [stack |-> s, event |-> e, at |-> 0, end |-> Len(stacks[s][e]),
                             due |-> stacks[s][e], called |-> <<>>])
  /\ UNCHANGED <<stacks, generators, notifierGen, subscribed>>

Walk == Last(walks)
WalkedList == stacks[Walk.stack][Walk.event]

\* Mutant of Ended: the end is read again before each call.
EndedLive == Walk.at = Len(WalkedList)

Ended == Walk.at = Walk.end

\* The callback before returns, the next one is called.
CallNext ==
  /\ walks # <<>> /\ ~Ended
  /\ walks' = Append(Front(walks),
       [Walk EXCEPT !.at = @ + 1, !.called = Append(@, WalkedList[Walk.at + 1])])
  /\ UNCHANGED <<stacks, generators, notifierGen, subscribed>>

\* trigger returns; or a callback throws, and the trigger with it.
Return ==
  /\ walks # <<>>
  /\ Ended \/ Walk.called # <<>>
  /\ walks' = Front(walks)
  /\ UNCHANGED <<stacks, generators, notifierGen, subscribed>>

Next ==
  \/ \E s \in DOMAIN stacks, e \in EventEnum :
       \/ Trigger(s, e) \/ Clear({s}, {e})
       \/ \E f \in Callbacks : Subscribe(s, e, f)
  \/ \E s \in Channels \cup 1 .. MaxNotifiers, e \in EventEnum, n \in 1 .. MaxIds :
       Unsubscribe(s, e, n)
  \/ \E e \in EventEnum : Clear(DOMAIN stacks, {e})
  \/ \E s \in DOMAIN stacks : Clear({s}, EventEnum)
  \/ Clear(DOMAIN stacks, EventEnum)
  \/ AddNotifier
  \/ \E s \in Notifiers : RemoveNotifier(s)
  \/ RemoveAll
  \/ CallNext \/ Return

Spec == Init /\ [][Next]_vars

-----------------------------------------------------------------------------
(* What makes the system correct.                                            *)

\* An id that was not taken back leads to its own callback; every subscriber
\* has such an id, so one that was taken back, or is of a notifier that was
\* removed, leads to nobody, whatever subscribed since.
IdsLeadHome ==
  /\ \A i \in subscribed :
       LET places == Found(i.stack, i.event, i.id)
       IN /\ places # {}
          /\ \A p \in places : stacks[i.stack][i.event][p].callback = i.callback
  /\ \A s \in DOMAIN stacks, e \in EventEnum, p \in 1 .. MaxIds :
       p \in DOMAIN stacks[s][e] =>
         Id(s, e, stacks[s][e][p].id, stacks[s][e][p].callback) \in subscribed

\* A trigger calls who was subscribed when it began, in order and once, though
\* callbacks subscribe, trigger and remove other notifiers meanwhile.
CallsWhoWasThere ==
  \A k \in DOMAIN walks : IsPrefix(walks[k].called, walks[k].due)
=============================================================================
