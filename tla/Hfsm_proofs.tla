----------------------------- MODULE Hfsm_proofs -----------------------------
(***************************************************************************)
(* What Hfsm guarantees for every machine whose substates have no          *)
(* substates, however large, whatever its guards let through.              *)
(***************************************************************************)
EXTENDS Hfsm, SequenceTheorems, TLAPS

-----------------------------------------------------------------------------
(* Sequences written out, and the states of two levels.                    *)

\* A state that is a substate of none.
Outermost(s) == s \in States /\ Parent[s] = None

\* Substates that are substates of their state.
SubsOK(substate) ==
  /\ substate \in [States -> States \cup {None}]
  /\ \A s \in States : substate[s] # None => Parent[substate[s]] = s

\* A state and its substate; for two levels that is all of it.
Pair(substate, s) == IF substate[s] = None THEN <<s>> ELSE <<s, substate[s]>>
Within(substate, s) == IF substate[s] = None THEN {s} ELSE {s, substate[s]}

\* A sequence that begins with one and goes on with the other joins them.
LEMMA Joined ==
  ASSUME NEW S, NEW p \in Seq(S), NEW q \in Seq(S), NEW r \in Seq(S),
         Len(r) = Len(p) + Len(q),
         \A i \in 1 .. Len(p) : r[i] = p[i],
         \A i \in 1 .. Len(q) : r[Len(p) + i] = q[i]
  PROVE  p \o q = r
<1>1. Len(p) \in Nat /\ Len(q) \in Nat BY LenProperties
<1>2. p \o q \in Seq(S) /\ Len(p \o q) = Len(r)
      /\ \A i \in 1 .. Len(r) : (p \o q)[i] = IF i <= Len(p) THEN p[i] ELSE q[i - Len(p)]
  BY ConcatProperties
<1>3. ASSUME NEW i \in 1 .. Len(r) PROVE (p \o q)[i] = r[i]
  <2>1. CASE i <= Len(p) BY <1>1, <1>2, <2>1
  <2>2. CASE i > Len(p)
    <3>1. i - Len(p) \in 1 .. Len(q) /\ Len(p) + (i - Len(p)) = i BY <1>1, <2>2
    <3> QED BY <1>1, <1>2, <2>2, <3>1
  <2> QED BY <1>1, <2>1, <2>2
<1> QED BY <1>2, <1>3, SeqEqual

\* Sequences that are written out are joined element by element: one and one.
LEMMA Join11 ==
  ASSUME NEW a, NEW x PROVE <<a>> \o <<x>> = <<a, x>>
<1> DEFINE S == {a, x}  p == <<a>>  q == <<x>>  r == <<a, x>>
<1>1. p \in Seq(S) /\ q \in Seq(S) /\ r \in Seq(S) OBVIOUS
<1>2. Len(p) = 1 /\ Len(q) = 1 /\ Len(r) = 2 OBVIOUS
<1>3. ASSUME NEW i \in 1 .. 1 PROVE r[i] = p[i]
  <2>1. i = 1 OBVIOUS
  <2> QED BY <2>1
<1>4. ASSUME NEW i \in 1 .. 1 PROVE r[1 + i] = q[i]
  <2>1. i = 1 OBVIOUS
  <2> QED BY <2>1
<1> HIDE DEF S, p, q, r
<1>5. Len(r) = Len(p) + Len(q) BY <1>2
<1>6. \A i \in 1 .. Len(p) : r[i] = p[i] BY <1>2, <1>3
<1>7. \A i \in 1 .. Len(q) : r[Len(p) + i] = q[i] BY <1>2, <1>4
<1>8. p \o q = r BY <1>1, <1>5, <1>6, <1>7, Joined
<1> QED BY <1>8 DEF p, q, r

\* Two and one.
LEMMA Join21 ==
  ASSUME NEW a, NEW b, NEW x PROVE <<a, b>> \o <<x>> = <<a, b, x>>
<1> DEFINE S == {a, b, x}  p == <<a, b>>  q == <<x>>  r == <<a, b, x>>
<1>1. p \in Seq(S) /\ q \in Seq(S) /\ r \in Seq(S) OBVIOUS
<1>2. Len(p) = 2 /\ Len(q) = 1 /\ Len(r) = 3 OBVIOUS
<1>3. ASSUME NEW i \in 1 .. 2 PROVE r[i] = p[i]
  <2>1. i = 1 \/ i = 2 OBVIOUS
  <2> QED BY <2>1
<1>4. ASSUME NEW i \in 1 .. 1 PROVE r[2 + i] = q[i]
  <2>1. i = 1 OBVIOUS
  <2> QED BY <2>1
<1> HIDE DEF S, p, q, r
<1>5. Len(r) = Len(p) + Len(q) BY <1>2
<1>6. \A i \in 1 .. Len(p) : r[i] = p[i] BY <1>2, <1>3
<1>7. \A i \in 1 .. Len(q) : r[Len(p) + i] = q[i] BY <1>2, <1>4
<1>8. p \o q = r BY <1>1, <1>5, <1>6, <1>7, Joined
<1> QED BY <1>8 DEF p, q, r

\* Two and two.
LEMMA Join22 ==
  ASSUME NEW a, NEW b, NEW x, NEW y PROVE <<a, b>> \o <<x, y>> = <<a, b, x, y>>
<1> DEFINE S == {a, b, x, y}  p == <<a, b>>  q == <<x, y>>  r == <<a, b, x, y>>
<1>1. p \in Seq(S) /\ q \in Seq(S) /\ r \in Seq(S) OBVIOUS
<1>2. Len(p) = 2 /\ Len(q) = 2 /\ Len(r) = 4 OBVIOUS
<1>3. ASSUME NEW i \in 1 .. 2 PROVE r[i] = p[i]
  <2>1. i = 1 \/ i = 2 OBVIOUS
  <2> QED BY <2>1
<1>4. ASSUME NEW i \in 1 .. 2 PROVE r[2 + i] = q[i]
  <2>1. i = 1 \/ i = 2 OBVIOUS
  <2> QED BY <2>1
<1> HIDE DEF S, p, q, r
<1>5. Len(r) = Len(p) + Len(q) BY <1>2
<1>6. \A i \in 1 .. Len(p) : r[i] = p[i] BY <1>2, <1>3
<1>7. \A i \in 1 .. Len(q) : r[Len(p) + i] = q[i] BY <1>2, <1>4
<1>8. p \o q = r BY <1>1, <1>5, <1>6, <1>7, Joined
<1> QED BY <1>8 DEF p, q, r

\* Three and one.
LEMMA Join31 ==
  ASSUME NEW a, NEW b, NEW c, NEW x PROVE <<a, b, c>> \o <<x>> = <<a, b, c, x>>
<1> DEFINE S == {a, b, c, x}  p == <<a, b, c>>  q == <<x>>  r == <<a, b, c, x>>
<1>1. p \in Seq(S) /\ q \in Seq(S) /\ r \in Seq(S) OBVIOUS
<1>2. Len(p) = 3 /\ Len(q) = 1 /\ Len(r) = 4 OBVIOUS
<1>3. ASSUME NEW i \in 1 .. 3 PROVE r[i] = p[i]
  <2>1. i = 1 \/ i = 2 \/ i = 3 OBVIOUS
  <2> QED BY <2>1
<1>4. ASSUME NEW i \in 1 .. 1 PROVE r[3 + i] = q[i]
  <2>1. i = 1 OBVIOUS
  <2> QED BY <2>1
<1> HIDE DEF S, p, q, r
<1>5. Len(r) = Len(p) + Len(q) BY <1>2
<1>6. \A i \in 1 .. Len(p) : r[i] = p[i] BY <1>2, <1>3
<1>7. \A i \in 1 .. Len(q) : r[Len(p) + i] = q[i] BY <1>2, <1>4
<1>8. p \o q = r BY <1>1, <1>5, <1>6, <1>7, Joined
<1> QED BY <1>8 DEF p, q, r

\* Three and two.
LEMMA Join32 ==
  ASSUME NEW a, NEW b, NEW c, NEW x, NEW y PROVE <<a, b, c>> \o <<x, y>> = <<a, b, c, x, y>>
<1> DEFINE S == {a, b, c, x, y}  p == <<a, b, c>>  q == <<x, y>>  r == <<a, b, c, x, y>>
<1>1. p \in Seq(S) /\ q \in Seq(S) /\ r \in Seq(S) OBVIOUS
<1>2. Len(p) = 3 /\ Len(q) = 2 /\ Len(r) = 5 OBVIOUS
<1>3. ASSUME NEW i \in 1 .. 3 PROVE r[i] = p[i]
  <2>1. i = 1 \/ i = 2 \/ i = 3 OBVIOUS
  <2> QED BY <2>1
<1>4. ASSUME NEW i \in 1 .. 2 PROVE r[3 + i] = q[i]
  <2>1. i = 1 \/ i = 2 OBVIOUS
  <2> QED BY <2>1
<1> HIDE DEF S, p, q, r
<1>5. Len(r) = Len(p) + Len(q) BY <1>2
<1>6. \A i \in 1 .. Len(p) : r[i] = p[i] BY <1>2, <1>3
<1>7. \A i \in 1 .. Len(q) : r[Len(p) + i] = q[i] BY <1>2, <1>4
<1>8. p \o q = r BY <1>1, <1>5, <1>6, <1>7, Joined
<1> QED BY <1>8 DEF p, q, r

\* A substate is a state, has no substate of its own, and its state no parent.
LEMMA SubsEnd ==
  ASSUME HierarchyAssumption, TwoLevels, NEW substate, SubsOK(substate), NEW s \in States,
         substate[s] # None
  PROVE  substate[s] \in States /\ substate[substate[s]] = None /\ Parent[substate[s]] = s
         /\ Parent[s] = None
BY DEF HierarchyAssumption, TwoLevels, SubsOK

\* The chain of a state is the state and its substate.
LEMMA ChainIs ==
  ASSUME HierarchyAssumption, TwoLevels, NEW substate, SubsOK(substate), NEW s \in States
  PROVE  Chain(substate, s) = Pair(substate, s)
<1> DEFINE Is(h) == h = [x \in States |->
                           IF substate[x] = None THEN <<x>> ELSE <<x>> \o h[substate[x]]]
           pairs == [x \in States |-> Pair(substate, x)]
<1>1. Is(pairs)
  <2>1. ASSUME NEW x \in States
        PROVE  Pair(substate, x) = IF substate[x] = None THEN <<x>> ELSE <<x>> \o pairs[substate[x]]
    <3>1. CASE substate[x] = None BY <3>1 DEF Pair
    <3>2. CASE substate[x] # None
      <4>1. substate[x] \in States /\ substate[substate[x]] = None BY <3>2, SubsEnd
      <4>2. pairs[substate[x]] = <<substate[x]>> BY <4>1 DEF Pair
      <4>3. <<x>> \o <<substate[x]>> = <<x, substate[x]>> BY Join11
      <4> QED BY <3>2, <4>2, <4>3 DEF Pair
    <3> QED BY <3>1, <3>2
  <2> QED BY <2>1
<1> DEFINE got == CHOOSE h : Is(h)
<1> HIDE DEF Is
<1>2. Is(got) BY <1>1
<1>3. Chain(substate, s) = got[s] BY DEF Chain, Is, got
<1> HIDE DEF got
<1>4. \A x \in States : got[x] = IF substate[x] = None THEN <<x>> ELSE <<x>> \o got[substate[x]]
  BY <1>2 DEF Is
<1>5. CASE substate[s] = None BY <1>3, <1>4, <1>5 DEF Pair
<1>6. CASE substate[s] # None
  <2>1. substate[s] \in States /\ substate[substate[s]] = None BY <1>6, SubsEnd
  <2>2. got[substate[s]] = <<substate[s]>> BY <1>4, <2>1
  <2>3. <<s>> \o <<substate[s]>> = <<s, substate[s]>> BY Join11
  <2> QED BY <1>3, <1>4, <1>6, <2>2, <2>3 DEF Pair
<1> QED BY <1>5, <1>6

\* The state a transition goes to is outermost.
LEMMA TopmostIs ==
  ASSUME HierarchyAssumption, TwoLevels, NEW s \in States
  PROVE  Outermost(Topmost[s])
<1> DEFINE Is(h) == h = [x \in States |-> IF Parent[x] = None THEN x ELSE h[Parent[x]]]
           tops == [x \in States |-> IF Parent[x] = None THEN x ELSE Parent[x]]
<1>1. \A x \in States : Parent[x] # None => Parent[x] \in States /\ Parent[Parent[x]] = None
  BY DEF HierarchyAssumption, TwoLevels
<1>2. Is(tops) BY <1>1
<1> DEFINE got == CHOOSE h : Is(h)
<1> HIDE DEF Is
<1>3. Is(got) BY <1>2
<1>4. Topmost = got BY DEF Topmost, Is, got
<1> HIDE DEF got
<1>5. \A x \in States : got[x] = IF Parent[x] = None THEN x ELSE got[Parent[x]]
  BY <1>3 DEF Is
<1> QED BY <1>1, <1>4, <1>5 DEF Outermost

-----------------------------------------------------------------------------
(* The invariant: what is left of the queue agrees with what is entered.   *)

\* What of the queue has yet to act on what is entered.
Rest == IF running = None THEN queue ELSE Tail(queue)

\* The current state and its substate are entered.
AllEntered == active = Within(sub, current)

\* Only updates of states that are entered.
OnlyUpdates(q) == \A i \in DOMAIN q : q[i].kind = "update" /\ q[i].state \in active

\* The states of a chain are entered.
EnterPair(substate, s) ==
  IF substate[s] = None THEN <<Event("enter", s)>>
  ELSE <<Event("enter", s), Event("enter", substate[s])>>
EnteringRest(q) ==
  \/ q = EnterPair(sub, current) /\ active = {}
  \/ sub[current] # None /\ q = <<Event("enter", sub[current])>> /\ active = {current}

\* The state is changed and entered.
Going(top) ==
  IF DefaultSub[top] = None THEN <<Event("goto", top), Event("enter", top)>>
  ELSE <<Event("goto", top), Event("enter", top), Event("enter", DefaultSub[top])>>
Leaving1(s, top) ==
  IF DefaultSub[top] = None THEN <<Event("exit", s), Event("goto", top), Event("enter", top)>>
  ELSE <<Event("exit", s), Event("goto", top), Event("enter", top), Event("enter", DefaultSub[top])>>
Leaving2(s, r, top) ==
  IF DefaultSub[top] = None
  THEN <<Event("exit", s), Event("exit", r), Event("goto", top), Event("enter", top)>>
  ELSE <<Event("exit", s), Event("exit", r), Event("goto", top), Event("enter", top),
         Event("enter", DefaultSub[top])>>

LeavingRest(q) ==
  \E top \in States :
    /\ Parent[top] = None
    /\ \/ q = Going(top) /\ active = {}
       \/ q = Leaving1(current, top) /\ active = {current}
       \/ sub[current] # None /\ q = Leaving2(sub[current], current, top) /\ AllEntered

\* A substate is left for another one.
SwitchingRest(q) ==
  \E to \in States :
    /\ Parent[to] = current /\ sub[current] # None
    /\ \/ /\ q = <<Event("exit", sub[current]), Event("substate", to), Event("enter", to)>>
          /\ AllEntered
       \/ q = <<Event("substate", to), Event("enter", to)>> /\ active = {current}

\* What may be left of a queue.
RestOK(q) ==
  \/ OnlyUpdates(q) /\ AllEntered
  \/ EnteringRest(q) \/ LeavingRest(q) \/ SwitchingRest(q)

\* A decision that can be carried out in the current state.
DecisionOK(d) ==
  /\ d.yield => history # None /\ d.parent = None
  /\ ~d.yield => d.to \in States
  /\ d.parent # None => /\ sub[current] # None /\ d.from = sub[current]
                        /\ d.to \in States /\ Parent[d.to] = current

\* The types of the variables, and what a running callback says of the queue.
HierTypeOK ==
  /\ current = None \/ Outermost(current)
  /\ history = None \/ Outermost(history)
  /\ SubsOK(sub)
  /\ pending \in BOOLEAN /\ call \in Calls \cup {None}
  /\ queue \in Seq(EventRecords)
  /\ running # None => /\ queue # <<>> /\ running = Head(queue)
                       /\ running.kind \in {"enter", "exit", "update"}

\* What is left of the queue agrees with what is entered: while it enters,
\* leaves or switches states, just what it has yet to enter is missing and just
\* what it has yet to exit is there.  A transition is pending only where nothing
\* but updates would be given up for it.
HierInv ==
  /\ HierTypeOK
  /\ call = None => queue = <<>> /\ running = None
  /\ call # None /\ call.at = "start" /\ running = None => ~pending
  /\ current = None => queue = <<>> /\ call = None /\ running = None /\ ~pending /\ active = {}
  /\ current # None => RestOK(Rest)
  /\ pending => OnlyUpdates(Rest) /\ AllEntered /\ DecisionOK(info)

-----------------------------------------------------------------------------
(* What the operators of the model come to.                                *)

\* An event is a record of its kind and its state.
LEMMA EventIs ==
  ASSUME NEW kind \in {"enter", "exit", "update", "goto", "substate"}, NEW s \in States
  PROVE  Event(kind, s) \in EventRecords /\ Event(kind, s).kind = kind /\ Event(kind, s).state = s
BY DEF Event, EventRecords

\* The events of one state.
LEMMA EventsOne ==
  ASSUME NEW kind, NEW s PROVE Events(kind, <<s>>) = <<Event(kind, s)>>
BY DEF Events

\* The events of two states.
LEMMA EventsTwo ==
  ASSUME NEW kind, NEW s, NEW r PROVE Events(kind, <<s, r>>) = <<Event(kind, s), Event(kind, r)>>
BY DEF Events

\* The events that enter a state and its substate.
LEMMA EventsPair ==
  ASSUME NEW substate, NEW s PROVE Events("enter", Pair(substate, s)) = EnterPair(substate, s)
BY EventsOne, EventsTwo DEF Pair, EnterPair

\* Depth first, the substate comes before the current state.
LEMMA DepthFirstIs ==
  ASSUME HierarchyAssumption, TwoLevels, SubsOK(sub), current \in States
  PROVE  DepthFirst(current) = IF sub[current] = None THEN <<current>> ELSE <<sub[current], current>>
<1>1. Chain(sub, current) = Pair(sub, current) BY ChainIs
<1>2. ASSUME NEW s, NEW r PROVE Append(Tail(<<s, r>>), s) = <<r, s>>
  <2>1. Tail(<<s, r>>) = <<r>> OBVIOUS
  <2>2. Append(<<r>>, s) = <<r>> \o <<s>> BY <<r>> \in Seq({r, s}), AppendIsConcat
  <2> QED BY <2>1, <2>2, Join11
<1>3. ASSUME NEW s PROVE Append(Tail(<<s>>), s) = <<s>>
  <2>1. Tail(<<s>>) = <<>> OBVIOUS
  <2>2. Append(<<>>, s) = <<s>> OBVIOUS
  <2> QED BY <2>1, <2>2
<1> QED BY <1>1, <1>2, <1>3 DEF DepthFirst, Pair

\* A transition is offered to the substate first.
LEMMA OfferedIs ==
  ASSUME HierarchyAssumption, TwoLevels, SubsOK(sub), current \in States
  PROVE  Offered = IF sub[current] = None THEN <<current>> ELSE <<sub[current], current>>
<1>1. Chain(sub, current) = Pair(sub, current) BY ChainIs
<1>2. ASSUME NEW s, NEW r PROVE Reverse(<<s, r>>) = <<r, s>> /\ Reverse(<<s>>) = <<s>>
  BY DEF Reverse
<1> QED BY <1>1, <1>2 DEF Offered, Pair

\* What carries a decision out leaves the states that are entered, or switches
\* the substate.
LEMMA CarriedOut ==
  ASSUME HierarchyAssumption, TwoLevels, SubsOK(sub), Outermost(current), AllEntered,
         history = None \/ Outermost(history), NEW d, DecisionOK(d), NEW rest
  PROVE  /\ CarryOut(d, rest) \in Seq(EventRecords)
         /\ LeavingRest(CarryOut(d, rest)) \/ SwitchingRest(CarryOut(d, rest))
<1>1. CASE d.parent # None
  <2>1. /\ CarryOut(d, rest) = <<Event("exit", d.from), Event("substate", d.to), Event("enter", d.to)>>
        /\ sub[current] # None /\ d.from = sub[current] /\ d.to \in States /\ Parent[d.to] = current
    BY <1>1 DEF CarryOut, DecisionOK
  <2>2. sub[current] \in States BY <2>1, SubsEnd DEF Outermost
  <2>3. /\ Event("exit", d.from) \in EventRecords /\ Event("substate", d.to) \in EventRecords
        /\ Event("enter", d.to) \in EventRecords
    BY <2>1, <2>2, EventIs
  <2>4. CarryOut(d, rest) \in Seq(EventRecords) BY <2>1, <2>3
  <2>5. SwitchingRest(CarryOut(d, rest)) BY <2>1 DEF SwitchingRest
  <2> QED BY <2>4, <2>5
<1>2. CASE d.parent = None
  <2> DEFINE to == IF d.yield THEN history ELSE d.to
             top == Topmost[to]
             def == DefaultSub[top]
  <2>1. to \in States BY DEF DecisionOK, Outermost
  <2>2. top \in States /\ Parent[top] = None BY <2>1, TopmostIs DEF Outermost
  <2>3. CarryOut(d, rest) = Events("exit", DepthFirst(current)) \o <<Event("goto", top)>>
                              \o Events("enter", Chain(DefaultSub, top))
    BY <1>2 DEF CarryOut
  <2>4. SubsOK(DefaultSub) BY DEF SubsOK, HierarchyAssumption
  <2> HIDE DEF to, top
  <2>5. Events("enter", Chain(DefaultSub, top)) = EnterPair(DefaultSub, top)
    BY <2>2, <2>4, ChainIs, EventsPair
  <2>6. /\ Event("goto", top) \in EventRecords /\ Event("enter", top) \in EventRecords
        /\ Event("exit", current) \in EventRecords
        /\ def # None => Event("enter", def) \in EventRecords
        /\ sub[current] # None => Event("exit", sub[current]) \in EventRecords
    BY <2>2, <2>4, EventIs, SubsEnd DEF Outermost
  <2>7. CASE sub[current] = None
    <3>1. Events("exit", DepthFirst(current)) = <<Event("exit", current)>>
      BY <2>7, DepthFirstIs, EventsOne DEF Outermost
    <3> DEFINE g == Event("goto", top)  e == Event("enter", top)  f == Event("enter", def)
    <3> HIDE DEF g, e, f
    <3>5. <<Event("exit", current)>> \o <<g>> = <<Event("exit", current), g>> BY Join11
    <3>2. CarryOut(d, rest) = Leaving1(current, top)
      <4>1. CASE def = None
        <5>1. EnterPair(DefaultSub, top) = <<e>> BY <4>1 DEF EnterPair, e
        <5>2. <<Event("exit", current), g>> \o <<e>> = <<Event("exit", current), g, e>>
          BY Join21
        <5> QED BY <2>3, <2>5, <3>1, <3>5, <4>1, <5>1, <5>2 DEF Leaving1, g, e
      <4>2. CASE def # None
        <5>1. EnterPair(DefaultSub, top) = <<e, f>> BY <4>2 DEF EnterPair, e, f
        <5>2. <<Event("exit", current), g>> \o <<e, f>> = <<Event("exit", current), g, e, f>>
          BY Join22
        <5> QED BY <2>3, <2>5, <3>1, <3>5, <4>2, <5>1, <5>2 DEF Leaving1, g, e, f
      <4> QED BY <4>1, <4>2
    <3>3. Leaving1(current, top) \in Seq(EventRecords) BY <2>6 DEF Leaving1
    <3>4. active = {current} BY <2>7 DEF AllEntered, Within
    <3>6. LeavingRest(CarryOut(d, rest)) BY <2>2, <3>2, <3>4 DEF LeavingRest
    <3> QED BY <3>2, <3>3, <3>6
  <2>8. CASE sub[current] # None
    <3>1. Events("exit", DepthFirst(current)) = <<Event("exit", sub[current]), Event("exit", current)>>
      BY <2>8, DepthFirstIs, EventsTwo DEF Outermost
    <3> DEFINE g == Event("goto", top)  e == Event("enter", top)  f == Event("enter", def)
    <3> HIDE DEF g, e, f
    <3>5. <<Event("exit", sub[current]), Event("exit", current)>> \o <<g>>
          = <<Event("exit", sub[current]), Event("exit", current), g>>
      BY Join21
    <3>2. CarryOut(d, rest) = Leaving2(sub[current], current, top)
      <4>1. CASE def = None
        <5>1. EnterPair(DefaultSub, top) = <<e>> BY <4>1 DEF EnterPair, e
        <5>2. <<Event("exit", sub[current]), Event("exit", current), g>> \o <<e>>
              = <<Event("exit", sub[current]), Event("exit", current), g, e>>
          BY Join31
        <5> QED BY <2>3, <2>5, <3>1, <3>5, <4>1, <5>1, <5>2 DEF Leaving2, g, e
      <4>2. CASE def # None
        <5>1. EnterPair(DefaultSub, top) = <<e, f>> BY <4>2 DEF EnterPair, e, f
        <5>2. <<Event("exit", sub[current]), Event("exit", current), g>> \o <<e, f>>
              = <<Event("exit", sub[current]), Event("exit", current), g, e, f>>
          BY Join32
        <5> QED BY <2>3, <2>5, <3>1, <3>5, <4>2, <5>1, <5>2 DEF Leaving2, g, e, f
      <4> QED BY <4>1, <4>2
    <3>3. Leaving2(sub[current], current, top) \in Seq(EventRecords)
      BY <2>6, <2>8 DEF Leaving2
    <3>4. LeavingRest(CarryOut(d, rest)) BY <2>2, <2>8, <3>2 DEF LeavingRest
    <3> QED BY <3>2, <3>3, <3>4
  <2> QED BY <2>7, <2>8
<1> QED BY <1>1, <1>2

\* The states decide on what can be carried out.
LEMMA DecidesWell ==
  ASSUME HierarchyAssumption, TwoLevels, SubsOK(sub), Outermost(current),
         NEW t \in Transitions, NEW d \in Decisions(t), TakenBy(d, t)
  PROVE  DecisionOK(d)
<1>1. Offered = IF sub[current] = None THEN <<current>> ELSE <<sub[current], current>>
  BY OfferedIs DEF Outermost
<1>2. PICK i \in DOMAIN Offered, take \in States \cup {Yield} :
        d = [from |-> Offered[i],
             to |-> IF take = Yield THEN None ELSE take,
             yield |-> take = Yield,
             parent |-> IF take # Yield /\ \E j \in i + 1 .. Len(Offered) : Parent[take] = Offered[j]
                        THEN Parent[take] ELSE None]
  BY DEF Decisions
<1>3. d.yield => history # None BY DEF TakenBy
<1>4. CASE take = Yield BY <1>2, <1>3, <1>4 DEF DecisionOK
<1>5. CASE take # Yield
  <2>1. take \in States /\ d.to = take /\ ~d.yield /\ d.from = Offered[i] BY <1>2, <1>5
  <2>2. CASE d.parent = None BY <2>1, <2>2 DEF DecisionOK
  <2>3. CASE d.parent # None
    <3>1. PICK j \in i + 1 .. Len(Offered) : Parent[take] = Offered[j]
      BY <1>2, <2>3
    <3>2. sub[current] # None /\ i = 1 /\ j = 2
      <4>1. CASE sub[current] = None
        <5>1. Offered = <<current>> BY <1>1, <4>1
        <5>2. Len(Offered) = 1 /\ i = 1 BY <5>1
        <5> QED BY <3>1, <5>2
      <4>2. CASE sub[current] # None
        <5>1. Offered = <<sub[current], current>> BY <1>1, <4>2
        <5>2. Len(Offered) = 2 /\ i \in 1 .. 2 BY <5>1
        <5>3. i = 1 /\ j = 2 BY <3>1, <5>2
        <5> QED BY <4>2, <5>3
      <4> QED BY <4>1, <4>2
    <3>3. Offered = <<sub[current], current>> BY <1>1, <3>2
    <3>4. d.from = sub[current] /\ Parent[take] = current BY <2>1, <3>1, <3>2, <3>3
    <3> QED BY <2>1, <3>2, <3>4 DEF DecisionOK
  <2> QED BY <2>2, <2>3
<1> QED BY <1>4, <1>5

\* An update is for states that are current.
LEMMA UpdatedIs ==
  ASSUME HierarchyAssumption, TwoLevels, SubsOK(sub), Outermost(current)
  PROVE  Updated \in Seq(Within(sub, current))
<1> DEFINE states == DepthFirst(current)
           W == Within(sub, current)
           last == {i \in DOMAIN states : states[i] \notin ParentUpdate}
           n == IF last = {} THEN Len(states) ELSE Min(last)
<1>1. states = IF sub[current] = None THEN <<current>> ELSE <<sub[current], current>>
  BY DepthFirstIs DEF Outermost
<1>2. states \in Seq(W) /\ Len(states) \in {1, 2} /\ DOMAIN states = 1 .. Len(states)
  <2>1. CASE sub[current] = None
    <3>1. states = <<current>> /\ W = {current} BY <1>1, <2>1 DEF Within
    <3> HIDE DEF states, W
    <3> QED BY <3>1
  <2>2. CASE sub[current] # None
    <3>1. states = <<sub[current], current>> /\ W = {current, sub[current]}
      BY <1>1, <2>2 DEF Within
    <3> HIDE DEF states, W
    <3> QED BY <3>1
  <2> QED BY <2>1, <2>2
<1> HIDE DEF states, W
<1>3. n \in 1 .. Len(states)
  <2>1. CASE last = {} BY <1>2, <2>1
  <2>2. CASE last # {}
    <3>1. \E x \in last : \A y \in last : x <= y
      <4>1. last \subseteq {1, 2} BY <1>2
      <4>2. CASE 1 \in last BY <4>1, <4>2
      <4>3. CASE 1 \notin last BY <2>2, <4>1, <4>3
      <4> QED BY <4>2, <4>3
    <3> HIDE DEF last
    <3>2. Min(last) \in last BY <3>1 DEF Min
    <3> QED BY <1>2, <2>2, <3>2 DEF last
  <2> QED BY <2>1, <2>2
<1>4. Updated = Reverse(SubSeq(states, 1, n)) BY DEF Updated, states
<1> HIDE DEF n
<1>5. SubSeq(states, 1, n) \in Seq(W)
  <2>1. n \in Int /\ 1 \in Int /\ \A i \in 1 .. n : states[i] \in W
    BY <1>2, <1>3, ElementOfSeq
  <2> QED BY <2>1, SubSeqProperties
<1> DEFINE m == SubSeq(states, 1, n)
<1> HIDE DEF m
<1>6. Reverse(m) \in Seq(W)
  <2>1. m \in Seq(W) BY <1>5 DEF m
  <2>2. Len(m) \in Nat /\ \A i \in 1 .. Len(m) : m[i] \in W
    BY <2>1, LenProperties, ElementOfSeq
  <2>3. \A i \in 1 .. Len(m) : m[(Len(m) - i) + 1] \in W BY <2>2
  <2>4. Reverse(m) = [i \in 1 .. Len(m) |-> m[(Len(m) - i) + 1]] BY DEF Reverse
  <2> QED BY <2>2, <2>3, <2>4
<1> QED BY <1>4, <1>6 DEF m, W

\* Where only updates are left, or nothing, all that is current is entered.
LEMMA UpdatesLeft ==
  ASSUME NEW q, RestOK(q), \A i \in DOMAIN q : q[i].kind = "update"
  PROVE  OnlyUpdates(q) /\ AllEntered
<1>1. ASSUME NEW s, NEW kind, q # <<>>, q[1] = Event(kind, s), kind # "update", 1 \in DOMAIN q
      PROVE  FALSE
  BY <1>1 DEF Event
<1>2. CASE EnteringRest(q)
  <2>1. \E s : q[1] = Event("enter", s) /\ 1 \in DOMAIN q /\ q # <<>>
    BY <1>2 DEF EnteringRest, EnterPair
  <2> QED BY <1>1, <2>1
<1>3. CASE LeavingRest(q)
  <2>1. \E s, kind : kind # "update" /\ q[1] = Event(kind, s) /\ 1 \in DOMAIN q /\ q # <<>>
    BY <1>3 DEF LeavingRest, Going, Leaving1, Leaving2
  <2> QED BY <1>1, <2>1
<1>4. CASE SwitchingRest(q)
  <2>1. \E s, kind : kind # "update" /\ q[1] = Event(kind, s) /\ 1 \in DOMAIN q /\ q # <<>>
    BY <1>4 DEF SwitchingRest
  <2> QED BY <1>1, <2>1
<1> QED BY <1>2, <1>3, <1>4 DEF RestOK

\* A queue that begins with an update holds nothing else.
LEMMA UpdateFirst ==
  ASSUME NEW q, RestOK(q), q # <<>>, Head(q).kind = "update"
  PROVE  OnlyUpdates(q) /\ AllEntered
<1>1. ASSUME NEW s, NEW kind, Head(q) = Event(kind, s), kind # "update" PROVE FALSE
  BY <1>1 DEF Event
<1>2. CASE EnteringRest(q)
  <2>1. \E s : Head(q) = Event("enter", s)
    BY <1>2 DEF EnteringRest, EnterPair
  <2> QED BY <1>1, <2>1
<1>3. CASE LeavingRest(q)
  <2>1. \E s, kind : kind # "update" /\ Head(q) = Event(kind, s)
    BY <1>3 DEF LeavingRest, Going, Leaving1, Leaving2
  <2> QED BY <1>1, <2>1
<1>4. CASE SwitchingRest(q)
  <2>1. \E s, kind : kind # "update" /\ Head(q) = Event(kind, s)
    BY <1>4 DEF SwitchingRest
  <2> QED BY <1>1, <2>1
<1> QED BY <1>2, <1>3, <1>4 DEF RestOK

\* A state that is gone to is in its default substate.
LEMMA InitialisedIs ==
  ASSUME HierarchyAssumption, TwoLevels, SubsOK(sub), NEW s, Outermost(s)
  PROVE  SubsOK(Initialised(s)) /\ Initialised(s)[s] = DefaultSub[s]
<1>1. SubsOK(DefaultSub) /\ s \in States BY DEF SubsOK, HierarchyAssumption, Outermost
<1>2. Chain(DefaultSub, s) = Pair(DefaultSub, s) BY <1>1, ChainIs
<1>3. s \in ToSet(Chain(DefaultSub, s))
  <2>1. Chain(DefaultSub, s)[1] = s /\ 1 \in DOMAIN Chain(DefaultSub, s) BY <1>2 DEF Pair
  <2> QED BY <2>1 DEF ToSet
<1> DEFINE C == ToSet(Chain(DefaultSub, s))
<1> HIDE DEF C
<1>4. Initialised(s) = [x \in States |-> IF x \in C THEN DefaultSub[x] ELSE sub[x]]
  BY DEF Initialised, C
<1> QED BY <1>1, <1>3, <1>4 DEF SubsOK, C

\* Entering a state is a sequence of events, and not an empty one.
LEMMA EnterPairTyped ==
  ASSUME NEW substate, SubsOK(substate), NEW s \in States
  PROVE  EnterPair(substate, s) \in Seq(EventRecords) /\ EnterPair(substate, s) # <<>>
<1>1. Event("enter", s) \in EventRecords BY EventIs
<1>2. substate[s] # None => Event("enter", substate[s]) \in EventRecords
  BY EventIs DEF SubsOK
<1> QED BY <1>1, <1>2 DEF EnterPair

-----------------------------------------------------------------------------
(* Each operation keeps the invariant.                                     *)

\* Starting the machine enters its default state.
LEMMA StartingKeeps ==
  ASSUME HierarchyAssumption, TwoLevels, HierInv, NEW then \in Transitions \cup {"update"}, Start(then)
  PROVE  HierInv'
<1>1. /\ current = None /\ history' = current /\ current' = Default /\ sub' = Initialised(Default)
      /\ queue' = Events("enter", Chain(DefaultSub, Default)) /\ call' = Starting(then)
      /\ UNCHANGED <<pending, info, running, active>>
  BY DEF Start, GoTo
<1>2. queue = <<>> /\ running = None /\ pending = FALSE /\ active = {} /\ SubsOK(sub)
  BY <1>1 DEF HierInv, HierTypeOK
<1>3. Outermost(Default) /\ SubsOK(DefaultSub)
  BY DEF HierarchyAssumption, Outermost, SubsOK
<1>4. SubsOK(sub') /\ sub'[Default] = DefaultSub[Default]
  BY <1>1, <1>2, <1>3, InitialisedIs
<1>5. queue' = EnterPair(DefaultSub, Default)
  BY <1>1, <1>3, ChainIs, EventsPair DEF Outermost
<1>6. queue' \in Seq(EventRecords) /\ queue' # <<>>
  BY <1>3, <1>5, EnterPairTyped DEF Outermost
<1>7. EnterPair(sub', Default) = EnterPair(DefaultSub, Default) BY <1>4 DEF EnterPair
<1>8. call' \in Calls BY <1>1 DEF Calls
<1>9. call' # None /\ Default # None BY <1>8 DEF HierarchyAssumption
<1>10. HierTypeOK'
  <2>1. (current = None \/ Outermost(current))' /\ (history = None \/ Outermost(history))'
    BY <1>1, <1>3 DEF Outermost
  <2>2. SubsOK(sub)' BY <1>4 DEF SubsOK
  <2>3. pending' \in BOOLEAN /\ running' = None BY <1>1, <1>2
  <2> QED BY <1>6, <1>8, <2>1, <2>2, <2>3 DEF HierTypeOK
<1>11. EnteringRest(queue)' BY <1>1, <1>2, <1>5, <1>7 DEF EnteringRest
<1>12. RestOK(Rest)' BY <1>1, <1>2, <1>11 DEF RestOK, Rest
<1> QED BY <1>1, <1>2, <1>9, <1>10, <1>12 DEF HierInv

\* A decision is one that can be carried out, or there is none.
LEMMA DecideKeeps ==
  ASSUME HierarchyAssumption, TwoLevels, SubsOK(sub), Outermost(current), pending \in BOOLEAN,
         NEW t \in Transitions, Decide(t), pending => ~Refusable(t)
  PROVE  pending' \in BOOLEAN /\ (pending' => DecisionOK(info'))
<1>1. ASSUME NEW d \in Decisions(t), TakenBy(d, t), info' = d, pending' = TRUE
      PROVE  pending' \in BOOLEAN /\ DecisionOK(info')
  <2>1. DecisionOK(d) BY <1>1, DecidesWell
  <2> QED BY <1>1, <2>1
<1>2. CASE Refusable(t) /\ info' = NoInfo /\ UNCHANGED pending
  BY <1>2
<1>3. \/ \E d \in Decisions(t) : TakenBy(d, t) /\ info' = d /\ pending' = TRUE
      \/ Refusable(t) /\ info' = NoInfo /\ UNCHANGED pending
  BY DEF Decide
<1> QED BY <1>1, <1>2, <1>3

\* The head and the tail of a sequence that is not empty.
LEMMA TailOf ==
  ASSUME NEW S, NEW q \in Seq(S), q # <<>>
  PROVE  /\ Tail(q) \in Seq(S) /\ Head(q) = q[1] /\ 1 \in DOMAIN q /\ Head(q) \in S
         /\ \A i \in DOMAIN Tail(q) : i + 1 \in 2 .. Len(q) /\ i + 1 \in DOMAIN q /\ Tail(q)[i] = q[i + 1]
<1>1. /\ Tail(q) \in Seq(S) /\ Head(q) \in S /\ Len(Tail(q)) = Len(q) - 1
      /\ \A i \in 1 .. Len(Tail(q)) : Tail(q)[i] = q[i + 1]
  BY HeadTailProperties
<1>2. Len(q) \in Nat /\ DOMAIN q = 1 .. Len(q) /\ DOMAIN Tail(q) = 1 .. Len(Tail(q))
  BY <1>1, LenProperties
<1>3. Len(q) # 0 BY EmptySeq
<1> QED BY <1>1, <1>2, <1>3

\* trigger decides where all that is current is entered.
LEMMA TriggeringKeeps ==
  ASSUME HierarchyAssumption, TwoLevels, HierInv, NEW t \in Transitions, Trigger(t),
         current # None => Sensible(t)
  PROVE  HierInv'
<1> USE DEF HierInv, HierTypeOK
<1>1. CASE Start(t) BY <1>1, StartingKeeps
<1>2. CASE /\ current # None /\ (Resting \/ running # None) /\ Decide(t)
           /\ UNCHANGED <<current, history, sub, queue, call, running, active>>
  <2>1. \A i \in DOMAIN Rest : Rest[i].kind = "update"
    <3>1. CASE running = None BY <1>2, <3>1 DEF Rest, Resting
    <3>2. CASE running # None
      <4>1. \A i \in 2 .. Len(queue) : queue[i].kind = "update" BY <1>2, <3>2 DEF Sensible
      <4> QED BY <3>2, <4>1, TailOf DEF Rest
    <3> QED BY <3>1, <3>2
  <2>2. OnlyUpdates(Rest) /\ AllEntered BY <1>2, <2>1, UpdatesLeft
  <2>3. pending => ~Refusable(t) BY <1>2 DEF Sensible
  <2>4. pending' \in BOOLEAN /\ (pending' => DecisionOK(info')) BY <1>2, <2>3, DecideKeeps
  <2>5. call = None => running = None OBVIOUS
  <2>6. UNCHANGED Rest BY <1>2 DEF Rest
  <2>7. HierTypeOK' BY <1>2, <2>4 DEF HierTypeOK, SubsOK, Outermost
  <2>8. (OnlyUpdates(Rest) /\ AllEntered)'
    BY <1>2, <2>2, <2>6 DEF OnlyUpdates, AllEntered, Within
  <2>9. pending' => DecisionOK(info)' BY <1>2, <2>4 DEF DecisionOK
  <2>10. RestOK(Rest)' BY <2>8 DEF RestOK
  <2>11. call' # None /\ running' = None => FALSE BY <1>2 DEF Resting
  <2> QED BY <1>2, <2>7, <2>8, <2>9, <2>10, <2>11
<1> QED BY <1>1, <1>2 DEF Trigger

\* The events of an update.
LEMMA UpdateEvents ==
  ASSUME HierarchyAssumption, TwoLevels, SubsOK(sub), Outermost(current), AllEntered
  PROVE  Events("update", Updated) \in Seq(EventRecords) /\ OnlyUpdates(Events("update", Updated))
<1> DEFINE u == Updated
<1>1. u \in Seq(Within(sub, current)) BY UpdatedIs
<1> HIDE DEF u
<1>2. DOMAIN u = 1 .. Len(u) /\ Len(u) \in Nat /\ \A i \in DOMAIN u : u[i] \in Within(sub, current)
  BY <1>1, LenProperties, ElementOfSeq
<1>3. Within(sub, current) \subseteq States BY SubsEnd DEF Within, Outermost
<1>4. \A i \in DOMAIN u : Event("update", u[i]) \in EventRecords /\ Event("update", u[i]).kind = "update"
                          /\ Event("update", u[i]).state = u[i]
  BY <1>2, <1>3, EventIs
<1>5. Events("update", u) = [i \in 1 .. Len(u) |-> Event("update", u[i])]
  BY <1>2 DEF Events
<1>6. Events("update", u) \in Seq(EventRecords) BY <1>2, <1>4, <1>5
<1>7. OnlyUpdates(Events("update", u)) BY <1>2, <1>4, <1>5 DEF OnlyUpdates, AllEntered
<1> QED BY <1>6, <1>7 DEF u

\* An update of a machine at rest is for what is entered.
LEMMA UpdatingKeeps ==
  ASSUME HierarchyAssumption, TwoLevels, HierInv, Update
  PROVE  HierInv'
<1> USE DEF HierInv, HierTypeOK
<1>1. CASE Resting /\ Start("update") BY <1>1, StartingKeeps
<1>2. CASE /\ Resting /\ current # None /\ queue' = Events("update", Updated) /\ call' = Updating
           /\ UNCHANGED <<current, history, sub, pending, info, running, active>>
  <2>1. queue = <<>> /\ running = None /\ Rest = <<>> BY <1>2 DEF Resting, Rest
  <2>2. AllEntered BY <1>2, <2>1, UpdatesLeft
  <2>3. queue' \in Seq(EventRecords) /\ OnlyUpdates(queue') BY <1>2, <2>2, UpdateEvents
  <2>4. Rest' = queue' BY <1>2, <2>1 DEF Rest
  <2>5. call' \in Calls /\ call' # None /\ call'.at # "start"
    BY <1>2 DEF Calls, HierarchyAssumption, Updating
  <2>6. (OnlyUpdates(Rest) /\ AllEntered)'
    BY <1>2, <2>2, <2>3, <2>4 DEF OnlyUpdates, AllEntered, Within
  <2>7. HierTypeOK' BY <1>2, <2>1, <2>3, <2>5 DEF HierTypeOK, SubsOK, Outermost
  <2>8. pending' => DecisionOK(info)' BY <1>2 DEF DecisionOK
  <2>9. RestOK(Rest)' BY <2>6 DEF RestOK
  <2> QED BY <1>2, <2>5, <2>6, <2>7, <2>8, <2>9
<1> QED BY <1>1, <1>2 DEF Update

\* A machine that was started goes on with the call that started it.
LEMMA StartedKeeps ==
  ASSUME HierarchyAssumption, TwoLevels, HierInv, Started
  PROVE  HierInv'
<1> USE DEF HierInv, HierTypeOK
<1>1. /\ call # None /\ call.at = "start" /\ queue = <<>> /\ running = None
      /\ UNCHANGED <<current, history, sub, running, active>>
  BY DEF Started
<1>2. current # None /\ pending = FALSE /\ Rest = <<>> BY <1>1 DEF Rest
<1>3. AllEntered BY <1>2, UpdatesLeft
<1>4. call.then \in Transitions \cup {"update"} BY <1>1 DEF Calls, Starting, Updating
<1>5. CASE /\ call.then = "update" /\ queue' = Events("update", Updated) /\ call' = Updating
           /\ UNCHANGED <<pending, info>>
  <2>1. queue' \in Seq(EventRecords) /\ OnlyUpdates(queue')
    BY <1>2, <1>3, <1>5, UpdateEvents
  <2>2. Rest' = queue' BY <1>1 DEF Rest
  <2>3. call' \in Calls /\ call' # None /\ call'.at # "start"
    BY <1>5 DEF Calls, HierarchyAssumption, Updating
  <2>4. (OnlyUpdates(Rest) /\ AllEntered)'
    BY <1>1, <1>3, <2>1, <2>2 DEF OnlyUpdates, AllEntered, Within
  <2>5. HierTypeOK' BY <1>1, <1>5, <2>1, <2>3 DEF HierTypeOK, SubsOK, Outermost
  <2>6. RestOK(Rest)' BY <2>4 DEF RestOK
  <2> QED BY <1>1, <1>2, <1>5, <2>3, <2>4, <2>5, <2>6
<1>6. CASE call.then # "update" /\ Decide(call.then) /\ call' = None /\ UNCHANGED queue
  <2>1. pending' \in BOOLEAN /\ (pending' => DecisionOK(info'))
    BY <1>2, <1>4, <1>6, DecideKeeps
  <2>2. Rest' = <<>> BY <1>1, <1>6 DEF Rest
  <2>3. (OnlyUpdates(Rest) /\ AllEntered)'
    BY <1>1, <1>3, <2>2 DEF OnlyUpdates, AllEntered, Within
  <2>4. HierTypeOK' BY <1>1, <1>6, <2>1 DEF HierTypeOK, SubsOK, Outermost
  <2>5. RestOK(Rest)' BY <2>3 DEF RestOK
  <2>6. pending' => DecisionOK(info)' BY <1>1, <2>1 DEF DecisionOK
  <2> QED BY <1>1, <1>2, <1>6, <2>3, <2>4, <2>5, <2>6
<1> QED BY <1>5, <1>6 DEF Started

\* A call ends where nothing is left of its queue.
LEMMA ReturningKeeps ==
  ASSUME HierarchyAssumption, HierInv, Return
  PROVE  HierInv'
<1> USE DEF HierInv, HierTypeOK
<1>1. /\ call = Updating /\ queue = <<>> /\ running = None /\ call' = None
      /\ UNCHANGED <<current, history, sub, pending, info, queue, running, active>>
  BY DEF Return
<1>2. call # None BY <1>1 DEF HierarchyAssumption, Calls
<1>3. Rest' = Rest BY <1>1 DEF Rest
<1>4. HierTypeOK' BY <1>1 DEF HierTypeOK, SubsOK, Outermost
<1>5. (RestOK(Rest))' <=> RestOK(Rest)
  BY <1>1, <1>3
    DEF RestOK, OnlyUpdates, AllEntered, Within, EnteringRest, LeavingRest, SwitchingRest, EnterPair
<1>6. (OnlyUpdates(Rest) /\ AllEntered /\ DecisionOK(info))'
        <=> (OnlyUpdates(Rest) /\ AllEntered /\ DecisionOK(info))
  BY <1>1, <1>3 DEF OnlyUpdates, AllEntered, Within, DecisionOK
<1> QED BY <1>1, <1>2, <1>4, <1>5, <1>6

\* An event that is an update starts where there are only updates.
LEMMA RunningUpdateKeeps ==
  ASSUME HierarchyAssumption, TwoLevels, HierInv, RunUpdate
  PROVE  HierInv' /\ ~pending /\ running'.state \in active
<1> USE DEF HierInv, HierTypeOK
<1>1. /\ running = None /\ queue # <<>> /\ Head(queue).kind = "update" /\ ~pending /\ running' = Head(queue)
      /\ UNCHANGED <<current, history, sub, pending, info, queue, call, active>>
  BY DEF RunUpdate
<1>2. current # None /\ call # None BY <1>1
<1>3. RestOK(queue) BY <1>1, <1>2 DEF Rest
<1>4. OnlyUpdates(queue) /\ AllEntered BY <1>1, <1>3, UpdateFirst
<1>5. running' \in EventRecords /\ running' # None BY <1>1, TailOf DEF HierarchyAssumption
<1>6. Rest' = Tail(queue) BY <1>1, <1>5 DEF Rest
<1>7. OnlyUpdates(Tail(queue)) BY <1>1, <1>4, TailOf DEF OnlyUpdates
<1>8. (OnlyUpdates(Rest) /\ AllEntered)'
  BY <1>1, <1>4, <1>6, <1>7 DEF OnlyUpdates, AllEntered, Within
<1>9. RestOK(Rest)' BY <1>8 DEF RestOK
<1>10. HierTypeOK' BY <1>1 DEF HierTypeOK, SubsOK, Outermost
<1>11. running'.state \in active BY <1>1, <1>4, TailOf DEF OnlyUpdates
<1> QED BY <1>1, <1>2, <1>5, <1>9, <1>10, <1>11

\* A guard, or an earlier trigger, gives the updates up for a transition.
LEMMA SkippingKeeps ==
  ASSUME HierarchyAssumption, TwoLevels, HierInv, SkipUpdate
  PROVE  HierInv'
<1> USE DEF HierInv, HierTypeOK
<1>1. /\ running = None /\ queue # <<>> /\ Head(queue).kind = "update" /\ pending' = FALSE
      /\ queue' = CarryOut(info', Tail(queue))
      /\ UNCHANGED <<current, history, sub, call, running, active>>
  BY DEF SkipUpdate
<1>2. current # None /\ call # None BY <1>1
<1>3. RestOK(queue) BY <1>1, <1>2 DEF Rest
<1>4. OnlyUpdates(queue) /\ AllEntered BY <1>1, <1>3, UpdateFirst
<1>5. DecisionOK(info')
  <2>1. CASE pending /\ UNCHANGED info BY <2>1
  <2>2. ASSUME NEW t \in Guarded[Head(queue).state], NEW d \in Decisions(t), TakenBy(d, t), info' = d
        PROVE  DecisionOK(info')
    <3>1. Head(queue).state \in States
      <4>1. Head(queue) \in EventRecords BY <1>1, TailOf
      <4> QED BY <4>1 DEF EventRecords
    <3>2. t \in Transitions BY <3>1 DEF HierarchyAssumption
    <3> QED BY <1>2, <2>2, <3>2, DecidesWell
  <2>3. \/ pending /\ UNCHANGED info
        \/ \E t \in Guarded[Head(queue).state] : \E d \in Decisions(t) : TakenBy(d, t) /\ info' = d
    BY DEF SkipUpdate
  <2> QED BY <2>1, <2>2, <2>3
<1>6. /\ queue' \in Seq(EventRecords)
      /\ LeavingRest(queue') \/ SwitchingRest(queue')
  BY <1>1, <1>2, <1>4, <1>5, CarriedOut
<1>7. Rest' = queue' BY <1>1 DEF Rest
<1>8. RestOK(Rest)'
  BY <1>1, <1>6, <1>7 DEF RestOK, LeavingRest, SwitchingRest, AllEntered, Within
<1>9. HierTypeOK' BY <1>1, <1>6 DEF HierTypeOK, SubsOK, Outermost
<1> QED BY <1>1, <1>2, <1>8, <1>9

\* What an enter or an exit does to the states that are entered, and why it is
\* in order.
LEMMA CallbackTurns ==
  ASSUME HierarchyAssumption, TwoLevels, SubsOK(sub), Outermost(current), NEW q, RestOK(q),
         q # <<>>, Head(q).kind \in {"enter", "exit"}, NEW next,
         next = IF Head(q).kind = "enter" THEN active \cup {Head(q).state}
                ELSE active \ {Head(q).state}
  PROVE  /\ \/ next = Within(sub, current) /\ Tail(q) = <<>>
            \/ sub[current] # None /\ Tail(q) = <<Event("enter", sub[current])>> /\ next = {current}
            \/ \E top \in States : Parent[top] = None /\ Tail(q) = Going(top) /\ next = {}
            \/ \E top \in States : Parent[top] = None /\ Tail(q) = Leaving1(current, top) /\ next = {current}
            \/ \E to \in States :
                 /\ Parent[to] = current /\ sub[current] # None
                 /\ Tail(q) = <<Event("substate", to), Event("enter", to)>> /\ next = {current}
         /\ Head(q).kind = "enter" =>
              Head(q).state \notin active
              /\ (Parent[Head(q).state] = None \/ Parent[Head(q).state] \in active)
         /\ Head(q).kind = "exit" => Head(q).state \in active /\ Inside(Head(q).state) \cap active = {}
<1> DEFINE s == sub[current]
<1>1. current \in States /\ Parent[current] = None /\ current # None
  BY DEF Outermost, HierarchyAssumption
<1>2. s # None => s \in States /\ Parent[s] = current /\ s # current /\ Inside(s) \cap {current, s} = {}
  BY <1>1, SubsEnd DEF Inside, HierarchyAssumption
<1>3. current \notin Inside(current) BY <1>1 DEF Inside
<1>4. \A k, r : Event(k, r).kind = k /\ Event(k, r).state = r BY DEF Event
<1> HIDE DEF s
<1>5. ~(OnlyUpdates(q) /\ AllEntered)
  <2> SUFFICES ASSUME OnlyUpdates(q) PROVE FALSE OBVIOUS
  <2>1. PICK i : i = 1 OBVIOUS
  <2> QED BY DEF OnlyUpdates
<1>6. CASE EnteringRest(q)
  <2>1. CASE q = EnterPair(sub, current) /\ active = {} /\ s = None
    <3>1. q = <<Event("enter", current)>> BY <2>1 DEF EnterPair, s
    <3>2. Head(q) = Event("enter", current) /\ Tail(q) = <<>> BY <3>1
    <3>3. next = {current} /\ Within(sub, current) = {current}
      BY <1>4, <2>1, <3>2 DEF Within, s
    <3> QED BY <1>1, <1>4, <2>1, <3>2, <3>3
  <2>2. CASE q = EnterPair(sub, current) /\ active = {} /\ s # None
    <3>1. q = <<Event("enter", current), Event("enter", s)>> BY <2>2 DEF EnterPair, s
    <3>2. Head(q) = Event("enter", current) /\ Tail(q) = <<Event("enter", s)>> BY <3>1
    <3>3. next = {current} BY <1>4, <2>2, <3>2
    <3> QED BY <1>1, <1>4, <2>2, <3>2, <3>3 DEF s
  <2>3. CASE s # None /\ q = <<Event("enter", s)>> /\ active = {current}
    <3>1. Head(q) = Event("enter", s) /\ Tail(q) = <<>> BY <2>3
    <3>2. next = {current, s} /\ Within(sub, current) = {current, s}
      BY <1>4, <2>3, <3>1 DEF Within, s
    <3> QED BY <1>1, <1>2, <1>4, <2>3, <3>1, <3>2
  <2> QED BY <1>6, <2>1, <2>2, <2>3 DEF EnteringRest, s
<1>7. CASE LeavingRest(q)
  <2>1. PICK top \in States :
          /\ Parent[top] = None
          /\ \/ q = Going(top) /\ active = {}
             \/ q = Leaving1(current, top) /\ active = {current}
             \/ s # None /\ q = Leaving2(s, current, top) /\ AllEntered
    BY <1>7 DEF LeavingRest, s
  <2>2. CASE q = Going(top)
    <3>1. Head(q) = Event("goto", top) BY <2>2 DEF Going
    <3> QED BY <1>4, <3>1
  <2>3. CASE q = Leaving1(current, top) /\ active = {current}
    <3>1. Head(q) = Event("exit", current) /\ Tail(q) = Going(top)
      BY <2>3 DEF Leaving1, Going
    <3>2. next = {} BY <1>4, <2>3, <3>1
    <3> QED BY <1>3, <1>4, <2>1, <2>3, <3>1, <3>2
  <2>4. CASE s # None /\ q = Leaving2(s, current, top) /\ AllEntered
    <3>1. Head(q) = Event("exit", s) /\ Tail(q) = Leaving1(current, top)
      BY <2>4 DEF Leaving2, Leaving1
    <3>2. active = {current, s} BY <2>4 DEF AllEntered, Within, s
    <3>3. next = {current} BY <1>2, <1>4, <2>4, <3>1, <3>2
    <3> QED BY <1>2, <1>4, <2>1, <2>4, <3>1, <3>2, <3>3
  <2> QED BY <2>1, <2>2, <2>3, <2>4
<1>8. CASE SwitchingRest(q)
  <2>1. PICK to \in States :
          /\ Parent[to] = current /\ s # None
          /\ \/ /\ q = <<Event("exit", s), Event("substate", to), Event("enter", to)>>
                /\ AllEntered
             \/ q = <<Event("substate", to), Event("enter", to)>> /\ active = {current}
    BY <1>8 DEF SwitchingRest, s
  <2>2. CASE q = <<Event("exit", s), Event("substate", to), Event("enter", to)>> /\ AllEntered
    <3>1. Head(q) = Event("exit", s) /\ Tail(q) = <<Event("substate", to), Event("enter", to)>>
      BY <2>2
    <3>2. active = {current, s} BY <2>1, <2>2 DEF AllEntered, Within, s
    <3>3. next = {current} BY <1>2, <1>4, <2>1, <3>1, <3>2
    <3> QED BY <1>2, <1>4, <2>1, <3>1, <3>2, <3>3 DEF s
  <2>3. CASE q = <<Event("substate", to), Event("enter", to)>>
    <3>1. Head(q) = Event("substate", to) BY <2>3
    <3> QED BY <1>4, <3>1
  <2> QED BY <2>1, <2>2, <2>3
<1> QED BY <1>5, <1>6, <1>7, <1>8 DEF RestOK

\* An enter or an exit starts: the rest of the queue goes on from there.
LEMMA RunningCallbackKeeps ==
  ASSUME HierarchyAssumption, TwoLevels, HierInv, RunCallback
  PROVE  /\ HierInv'
         /\ running'.kind = "enter" =>
              running'.state \notin active
              /\ (Parent[running'.state] = None \/ Parent[running'.state] \in active)
         /\ running'.kind = "exit" =>
              running'.state \in active /\ Inside(running'.state) \cap active = {}
         /\ running'.kind # "update"
<1> USE DEF HierInv, HierTypeOK
<1>1. /\ running = None /\ queue # <<>> /\ Head(queue).kind \in {"enter", "exit"} /\ running' = Head(queue)
      /\ active' = IF Head(queue).kind = "enter" THEN active \cup {Head(queue).state}
                   ELSE active \ {Head(queue).state}
      /\ UNCHANGED <<current, history, sub, pending, info, queue, call>>
  BY DEF RunCallback
<1>2. current # None /\ call # None BY <1>1
<1>3. RestOK(queue) BY <1>1, <1>2 DEF Rest
<1>4. running' \in EventRecords /\ running' # None BY <1>1, TailOf DEF HierarchyAssumption
<1>5. ~pending
  <2> SUFFICES ASSUME pending PROVE FALSE OBVIOUS
  <2>1. OnlyUpdates(queue) BY <1>1 DEF Rest
  <2> QED BY <1>1, <2>1, TailOf DEF OnlyUpdates
<1>6. Rest' = Tail(queue) BY <1>1, <1>4 DEF Rest
<1> DEFINE next == active'
<1> HIDE DEF next
<1>7. next = IF Head(queue).kind = "enter" THEN active \cup {Head(queue).state}
             ELSE active \ {Head(queue).state}
  BY <1>1 DEF next
<1>8. /\ \/ next = Within(sub, current) /\ Tail(queue) = <<>>
         \/ sub[current] # None /\ Tail(queue) = <<Event("enter", sub[current])>>
            /\ next = {current}
         \/ \E top \in States : Parent[top] = None /\ Tail(queue) = Going(top) /\ next = {}
         \/ \E top \in States : Parent[top] = None /\ Tail(queue) = Leaving1(current, top)
               /\ next = {current}
         \/ \E to \in States :
              /\ Parent[to] = current /\ sub[current] # None
              /\ Tail(queue) = <<Event("substate", to), Event("enter", to)>> /\ next = {current}
      /\ Head(queue).kind = "enter" =>
           Head(queue).state \notin active
           /\ (Parent[Head(queue).state] = None \/ Parent[Head(queue).state] \in active)
      /\ Head(queue).kind = "exit" =>
           Head(queue).state \in active /\ Inside(Head(queue).state) \cap active = {}
  <2>1. SubsOK(sub) /\ Outermost(current) /\ queue # <<>> /\ Head(queue).kind \in {"enter", "exit"}
    BY <1>1, <1>2
  <2> HIDE DEF HierInv, HierTypeOK
  <2> QED BY ONLY <1>3, <1>7, <2>1, CallbackTurns, HierarchyAssumption, TwoLevels
<1>9. RestOK(Rest)'
  <2>1. CASE next = Within(sub, current) /\ Tail(queue) = <<>>
    <3>1. Rest' = <<>> BY <1>6, <2>1
    <3>2. AllEntered' BY <1>1, <2>1 DEF AllEntered, Within, next
    <3>3. OnlyUpdates(Rest)' BY <3>1 DEF OnlyUpdates
    <3> QED BY <3>2, <3>3 DEF RestOK
  <2>2. CASE sub[current] # None /\ Tail(queue) = <<Event("enter", sub[current])>> /\ next = {current}
    <3>1. EnteringRest(Rest)' BY <1>1, <1>6, <2>2 DEF EnteringRest, next
    <3> QED BY <3>1 DEF RestOK
  <2>3. ASSUME NEW top \in States, Parent[top] = None,
               \/ Tail(queue) = Going(top) /\ next = {}
               \/ Tail(queue) = Leaving1(current, top) /\ next = {current}
        PROVE  RestOK(Rest)'
    <3>1. LeavingRest(Rest)' BY <1>1, <1>6, <2>3 DEF LeavingRest, next
    <3> QED BY <3>1 DEF RestOK
  <2>4. ASSUME NEW to \in States, Parent[to] = current, sub[current] # None,
               Tail(queue) = <<Event("substate", to), Event("enter", to)>>, next = {current}
        PROVE  RestOK(Rest)'
    <3>1. SwitchingRest(Rest)' BY <1>1, <1>6, <2>4 DEF SwitchingRest, next
    <3> QED BY <3>1 DEF RestOK
  <2> QED BY <1>8, <2>1, <2>2, <2>3, <2>4
<1>10. HierTypeOK' BY <1>1 DEF HierTypeOK, SubsOK, Outermost
<1>11. HierInv' BY <1>1, <1>2, <1>4, <1>5, <1>9, <1>10
<1> QED BY <1>1, <1>8, <1>11

\* A state is changed where nothing is entered.
LEMMA ChangingStateKeeps ==
  ASSUME HierarchyAssumption, TwoLevels, HierInv, ChangeState
  PROVE  HierInv'
<1> USE DEF HierInv, HierTypeOK
<1> DEFINE s == Head(queue).state
<1>1. /\ running = None /\ queue # <<>> /\ Head(queue).kind = "goto"
      /\ history' = current /\ current' = s /\ sub' = Initialised(s) /\ queue' = Tail(queue)
      /\ UNCHANGED <<pending, info, call, running, active>>
  BY DEF ChangeState, GoTo
<1>2. current # None /\ call # None /\ Outermost(current) /\ SubsOK(sub) BY <1>1
<1>3. RestOK(queue) BY <1>1, <1>2 DEF Rest
<1>4. pending = FALSE
  <2> SUFFICES ASSUME pending PROVE FALSE OBVIOUS
  <2>1. OnlyUpdates(queue) BY <1>1 DEF Rest
  <2> QED BY <1>1, <2>1, TailOf DEF OnlyUpdates
<1>5. \A k, r : Event(k, r).kind = k /\ Event(k, r).state = r BY DEF Event
<1>6. PICK top \in States : Parent[top] = None /\ queue = Going(top) /\ active = {}
  <2>1. ~OnlyUpdates(queue) BY <1>1, TailOf DEF OnlyUpdates
  <2>2. ~EnteringRest(queue)
    <3> SUFFICES ASSUME EnteringRest(queue) PROVE FALSE OBVIOUS
    <3>1. \E r : Head(queue) = Event("enter", r) BY DEF EnteringRest, EnterPair
    <3> QED BY <1>1, <1>5, <3>1
  <2>3. ~SwitchingRest(queue)
    <3> SUFFICES ASSUME SwitchingRest(queue) PROVE FALSE OBVIOUS
    <3>1. \E r, k : k # "goto" /\ Head(queue) = Event(k, r) BY DEF SwitchingRest
    <3> QED BY <1>1, <1>5, <3>1
  <2>4. LeavingRest(queue) BY <1>3, <2>1, <2>2, <2>3 DEF RestOK
  <2>5. ASSUME NEW r, NEW top, queue = Leaving1(r, top) PROVE FALSE
    <3>1. Head(queue) = Event("exit", r) BY <2>5 DEF Leaving1
    <3> QED BY <1>1, <1>5, <3>1
  <2>6. ASSUME NEW r, NEW p, NEW top, queue = Leaving2(r, p, top) PROVE FALSE
    <3>1. Head(queue) = Event("exit", r) BY <2>6 DEF Leaving2
    <3> QED BY <1>1, <1>5, <3>1
  <2> QED BY <2>4, <2>5, <2>6 DEF LeavingRest
<1>7. s = top /\ Tail(queue) = EnterPair(DefaultSub, top)
  <2>1. Head(queue) = Event("goto", top) BY <1>6 DEF Going
  <2> QED BY <1>5, <1>6, <2>1 DEF Going, EnterPair
<1> HIDE DEF s
<1>8. Outermost(top) BY <1>6 DEF Outermost
<1>9. SubsOK(sub') /\ sub'[top] = DefaultSub[top] BY <1>1, <1>2, <1>7, <1>8, InitialisedIs
<1>10. EnterPair(sub', top) = EnterPair(DefaultSub, top) BY <1>9 DEF EnterPair
<1>11. Rest' = EnterPair(sub', top) BY <1>1, <1>7, <1>10 DEF Rest
<1>12. EnteringRest(Rest)' BY <1>1, <1>6, <1>7, <1>11 DEF EnteringRest
<1>13. RestOK(Rest)' BY <1>12 DEF RestOK
<1>14. HierTypeOK'
  <2>1. (current = None \/ Outermost(current))' /\ (history = None \/ Outermost(history))'
    BY <1>1, <1>2, <1>7, <1>8 DEF Outermost
  <2>2. SubsOK(sub)' BY <1>9 DEF SubsOK
  <2>3. queue' \in Seq(EventRecords) BY <1>1, TailOf
  <2> QED BY <1>1, <2>1, <2>2, <2>3 DEF HierTypeOK
<1>15. current' # None BY <1>1, <1>6, <1>7 DEF HierarchyAssumption
<1> QED BY <1>1, <1>2, <1>4, <1>13, <1>14, <1>15

\* A substate is changed where only its state is entered.
LEMMA ChangingSubstateKeeps ==
  ASSUME HierarchyAssumption, TwoLevels, HierInv, ChangeSubstate
  PROVE  HierInv'
<1> USE DEF HierInv, HierTypeOK
<1> DEFINE s == Head(queue).state
<1>1. /\ running = None /\ queue # <<>> /\ Head(queue).kind = "substate"
      /\ sub' = [sub EXCEPT ![Parent[s]] = s] /\ queue' = Tail(queue)
      /\ UNCHANGED <<current, history, pending, info, call, running, active>>
  BY DEF ChangeSubstate
<1>2. current # None /\ call # None /\ Outermost(current) /\ SubsOK(sub) BY <1>1
<1>3. RestOK(queue) BY <1>1, <1>2 DEF Rest
<1>4. pending = FALSE
  <2> SUFFICES ASSUME pending PROVE FALSE OBVIOUS
  <2>1. OnlyUpdates(queue) BY <1>1 DEF Rest
  <2> QED BY <1>1, <2>1, TailOf DEF OnlyUpdates
<1>5. \A k, r : Event(k, r).kind = k /\ Event(k, r).state = r BY DEF Event
<1>6. PICK to \in States :
        /\ Parent[to] = current
        /\ queue = <<Event("substate", to), Event("enter", to)>> /\ active = {current}
  <2>1. ~OnlyUpdates(queue) BY <1>1, TailOf DEF OnlyUpdates
  <2>2. ~EnteringRest(queue)
    <3> SUFFICES ASSUME EnteringRest(queue) PROVE FALSE OBVIOUS
    <3>1. \E r : Head(queue) = Event("enter", r) BY DEF EnteringRest, EnterPair
    <3> QED BY <1>1, <1>5, <3>1
  <2>3. ~LeavingRest(queue)
    <3> SUFFICES ASSUME LeavingRest(queue) PROVE FALSE OBVIOUS
    <3>1. \E r, k : k # "substate" /\ Head(queue) = Event(k, r)
      BY DEF LeavingRest, Going, Leaving1, Leaving2
    <3> QED BY <1>1, <1>5, <3>1
  <2>4. SwitchingRest(queue) BY <1>3, <2>1, <2>2, <2>3 DEF RestOK
  <2>5. ASSUME NEW r, NEW p, NEW t, queue = <<Event("exit", r), p, t>> PROVE FALSE
    <3>1. Head(queue) = Event("exit", r) BY <2>5
    <3> QED BY <1>1, <1>5, <3>1
  <2> QED BY <2>4, <2>5 DEF SwitchingRest
<1>7. s = to /\ Tail(queue) = <<Event("enter", to)>>
  <2>1. Head(queue) = Event("substate", to) BY <1>6
  <2> QED BY <1>5, <1>6, <2>1
<1> HIDE DEF s
<1>8. current \in States /\ Parent[current] = None BY <1>2 DEF Outermost
<1>9. sub' = [sub EXCEPT ![current] = to] BY <1>1, <1>6, <1>7
<1>10. SubsOK(sub)'
  <2>1. sub' \in [States -> States \cup {None}] BY <1>2, <1>9 DEF SubsOK
  <2>2. ASSUME NEW r \in States, sub'[r] # None PROVE Parent[sub'[r]] = r
    BY <1>2, <1>6, <1>9, <2>2 DEF SubsOK
  <2> QED BY <2>1, <2>2 DEF SubsOK
<1>11. sub'[current] = to /\ to # None
  BY <1>2, <1>6, <1>8, <1>9 DEF SubsOK, HierarchyAssumption
<1>12. EnteringRest(Rest)' BY <1>1, <1>6, <1>7, <1>11 DEF EnteringRest, Rest
<1>13. RestOK(Rest)' BY <1>12 DEF RestOK
<1>14. HierTypeOK'
  <2>1. queue' \in Seq(EventRecords) BY <1>1, TailOf
  <2> QED BY <1>1, <1>10, <2>1 DEF HierTypeOK, Outermost
<1> QED BY <1>1, <1>2, <1>4, <1>13, <1>14

\* Behind a callback the rest of the queue goes on, or gives way.
LEMMA CallbackReturnsKeeps ==
  ASSUME HierarchyAssumption, TwoLevels, HierInv, CallbackReturns
  PROVE  HierInv'
<1> USE DEF HierInv, HierTypeOK
<1>1. /\ running # None /\ running' = None /\ pending' = FALSE
      /\ queue' = IF pending THEN CarryOut(info, Tail(queue)) ELSE Tail(queue)
      /\ UNCHANGED <<current, history, sub, info, call, active>>
  BY DEF CallbackReturns, Continue
<1>2. current # None /\ call # None /\ Outermost(current) BY <1>1
<1>3. Rest = Tail(queue) /\ Rest' = queue' BY <1>1 DEF Rest
<1>4. CASE pending
  <2>1. queue' \in Seq(EventRecords) /\ (LeavingRest(queue') \/ SwitchingRest(queue'))
    BY <1>1, <1>2, <1>4, CarriedOut
  <2>2. RestOK(Rest)'
    BY <1>1, <1>3, <2>1 DEF RestOK, LeavingRest, SwitchingRest, AllEntered, Within
  <2>3. HierTypeOK' BY <1>1, <2>1 DEF HierTypeOK, SubsOK, Outermost
  <2> QED BY <1>1, <1>2, <2>2, <2>3
<1>5. CASE ~pending
  <2>1. queue' = Tail(queue) /\ Rest' = Rest /\ queue' \in Seq(EventRecords)
    BY <1>1, <1>3, <1>5, TailOf
  <2>2. RestOK(Rest) BY <1>2
  <2>3. RestOK(Rest)'
    BY <1>1, <2>1, <2>2
   
      DEF RestOK, OnlyUpdates, AllEntered, Within, EnteringRest, LeavingRest, SwitchingRest, EnterPair
  <2>4. HierTypeOK' BY <1>1, <2>1 DEF HierTypeOK, SubsOK, Outermost
  <2> QED BY <1>1, <1>2, <2>3, <2>4
<1> QED BY <1>4, <1>5

\* Every step of the machine keeps the invariant.
LEMMA HierStep ==
  ASSUME HierarchyAssumption, TwoLevels, HierInv, [Next]_vars
  PROVE  HierInv'
<1>1. ASSUME NEW t \in Transitions, (current # None => Sensible(t)) /\ Trigger(t) PROVE HierInv'
  BY <1>1, TriggeringKeeps
<1>2. CASE Update BY <1>2, UpdatingKeeps
<1>3. CASE Started BY <1>3, StartedKeeps
<1>4. CASE Return BY <1>4, ReturningKeeps
<1>5. CASE RunCallback BY <1>5, RunningCallbackKeeps
<1>6. CASE RunUpdate BY <1>6, RunningUpdateKeeps
<1>7. CASE SkipUpdate BY <1>7, SkippingKeeps
<1>8. CASE ChangeState BY <1>8, ChangingStateKeeps
<1>9. CASE ChangeSubstate BY <1>9, ChangingSubstateKeeps
<1>10. CASE CallbackReturns BY <1>10, CallbackReturnsKeeps
<1>11. CASE UNCHANGED vars
  <2>1. UNCHANGED <<current, history, sub, pending, info, queue, call, running, active>>
    BY <1>11 DEF vars
  <2>2. HierTypeOK' <=> HierTypeOK BY <2>1 DEF HierTypeOK, SubsOK, Outermost
  <2>3. Rest' = Rest BY <2>1 DEF Rest
  <2>4. RestOK(Rest)' <=> RestOK(Rest)
    BY <2>1, <2>3
      DEF RestOK, OnlyUpdates, AllEntered, Within, EnteringRest, LeavingRest, SwitchingRest, EnterPair
  <2>5. (OnlyUpdates(Rest) /\ AllEntered /\ DecisionOK(info))'
        <=> (OnlyUpdates(Rest) /\ AllEntered /\ DecisionOK(info))
    BY <2>1, <2>3 DEF OnlyUpdates, AllEntered, Within, DecisionOK
  <2> QED BY <2>1, <2>2, <2>4, <2>5 DEF HierInv
<1> QED
  BY <1>1, <1>2, <1>3, <1>4, <1>5, <1>6, <1>7, <1>8, <1>9, <1>10, <1>11 DEF Next

\* A machine that was built and not started satisfies the invariant.
LEMMA HierStart ==
  ASSUME HierarchyAssumption, Init PROVE HierInv
<1>1. SubsOK(sub) BY DEF Init, SubsOK
<1>2. queue \in Seq(EventRecords) BY DEF Init
<1> QED BY <1>1, <1>2 DEF Init, HierInv, HierTypeOK

\* At rest nothing is left of the queue.
LEMMA InvGivesRest ==
  ASSUME HierarchyAssumption, TwoLevels, HierInv PROVE RestsInCurrent
<1> SUFFICES ASSUME Resting, current # None PROVE active = ToSet(Chain(sub, current))
  BY DEF RestsInCurrent
<1>1. queue = <<>> /\ running = None BY DEF HierInv, Resting
<1>2. RestOK(<<>>) BY <1>1 DEF HierInv, Rest
<1>3. AllEntered BY <1>2, UpdatesLeft
<1>4. Outermost(current) /\ SubsOK(sub) BY DEF HierInv, HierTypeOK
<1>5. Chain(sub, current) = Pair(sub, current) BY <1>4, ChainIs DEF Outermost
<1>6. ToSet(Pair(sub, current)) = Within(sub, current)
  <2>1. CASE sub[current] = None BY <2>1 DEF Pair, Within, ToSet
  <2>2. CASE sub[current] # None
    <3>1. Pair(sub, current) = <<current, sub[current]>> /\ Within(sub, current) = {current, sub[current]}
      BY <2>2 DEF Pair, Within
    <3>2. ToSet(<<current, sub[current]>>) = {current, sub[current]} BY DEF ToSet
    <3> QED BY <3>1, <3>2
  <2> QED BY <2>1, <2>2
<1> QED BY <1>3, <1>5, <1>6 DEF AllEntered

\* Only RunCallback and RunUpdate give control to a callback.
LEMMA OthersKeepRunning ==
  ASSUME HierInv, [Next]_vars, running' # running, running' # None
  PROVE  RunCallback \/ RunUpdate
BY DEF Next, vars, Trigger, Start, GoTo, Update, Started, Return, SkipUpdate, ChangeState,
  ChangeSubstate, CallbackReturns

-----------------------------------------------------------------------------
(* Theorems.                                                               *)

\* What is left of the queue of events agrees with what is entered, in every
\* state.
THEOREM HierInvariance ==
  ASSUME HierarchyAssumption, TwoLevels PROVE Spec => []HierInv
<1>1. Init => HierInv BY HierStart
<1>2. HierInv /\ [Next]_vars => HierInv' BY HierStep
<1> QED BY <1>1, <1>2, PTL DEF Spec

\* However transitions were decided, replaced and cut short, when no call runs
\* the states that were entered and not exited are the current ones.
THEOREM RestsInCurrentCorrect ==
  ASSUME HierarchyAssumption, TwoLevels PROVE Spec => []RestsInCurrent
<1>1. HierInv => RestsInCurrent BY InvGivesRest
<1> QED BY <1>1, HierInvariance, PTL

\* A state is entered once for each time it is exited, inside the state around
\* it, and exited after the states inside it.
THEOREM EntersAndExitsNestCorrect ==
  ASSUME HierarchyAssumption, TwoLevels PROVE Spec => EntersAndExitsNest
<1> DEFINE Nests ==
      LET s == running'.state
      IN  CASE running'.kind = "enter" ->
                 s \notin active /\ (Parent[s] = None \/ Parent[s] \in active)
            [] running'.kind = "exit" ->
                 s \in active /\ Inside(s) \cap active = {}
            [] OTHER -> TRUE
<1>1. HierInv /\ [Next]_vars => [running' # running /\ running' # None => Nests]_vars
  <2> SUFFICES ASSUME HierInv, [Next]_vars, running' # running, running' # None
               PROVE  Nests
    OBVIOUS
  <2>1. CASE RunCallback BY <2>1, RunningCallbackKeeps
  <2>2. CASE RunUpdate
    <3>1. running'.kind = "update" BY <2>2 DEF RunUpdate
    <3> QED BY <3>1
  <2> QED BY <2>1, <2>2, OthersKeepRunning
<1> QED BY <1>1, HierInvariance, PTL DEF Spec, EntersAndExitsNest

\* An update runs only in a state that is entered and was not told to change.
THEOREM UpdatesTheActiveCorrect ==
  ASSUME HierarchyAssumption, TwoLevels PROVE Spec => UpdatesTheActive
<1>1. HierInv /\ [Next]_vars
        => [running' # running /\ running' # None /\ running'.kind = "update" =>
              ~pending /\ running'.state \in active]_vars
  <2> SUFFICES ASSUME HierInv, [Next]_vars, running' # running, running' # None,
                      running'.kind = "update"
               PROVE  ~pending /\ running'.state \in active
    OBVIOUS
  <2>1. CASE RunCallback BY <2>1, RunningCallbackKeeps
  <2>2. CASE RunUpdate BY <2>2, RunningUpdateKeeps
  <2> QED BY <2>1, <2>2, OthersKeepRunning
<1> QED BY <1>1, HierInvariance, PTL DEF Spec, UpdatesTheActive
=============================================================================
