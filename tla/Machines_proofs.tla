-------------------------- MODULE Machines_proofs --------------------------
(***************************************************************************)
(* Proofs about the parts a program drives by calls, for any values of     *)
(* their constants: of Fsm, EventSystem and Timer themselves; of Hfsm from *)
(* its own module of proofs.                                               *)
(***************************************************************************)
EXTENDS Machines, Recursion

-----------------------------------------------------------------------------
(* Fsm: the inductive invariant.                                           *)

\* What the callbacks on the stack have to do with the members: the flag is up
\* while an on_exit's trigger has yet to change the state, such an on_exit is
\* the innermost one, and unless it was reset the state it left is current and
\* nothing is entered.
StackOK(frames, flag, cur, al) ==
  /\ flag <=> \E i \in DOMAIN frames : Pending(frames[i])
  /\ \A i, j \in DOMAIN frames :
       Pending(frames[i]) /\ frames[j].kind = "exit" => j <= i
  /\ \A i \in DOMAIN frames :
       Pending(frames[i]) /\ ~frames[i].reset => cur = frames[i].from /\ al = None
  /\ flag \/ al = cur

IInv == TypeOK /\ StackOK(stack, inOnExit, current, alive)

-----------------------------------------------------------------------------
(* Frames and stacks of frames                                               *)

\* The four kinds of frames.
LEMMA FrameKinds ==
  /\ \A what \in Calls : Initial(what) \in Frames /\ Initial(what).kind = "init"
  /\ \A from, to \in States :
       /\ Exiting(from, to) \in Frames /\ Exiting(from, to).kind = "exit"
       /\ Exiting(from, to).from = from
       /\ ~Exiting(from, to).overtaken /\ ~Exiting(from, to).reset
  /\ Entering \in Frames /\ Entering.kind = "enter"
  /\ Updating \in Frames /\ Updating.kind = "update"
  /\ \A f \in Frames : f.kind = "init" => f.call \in Calls
  /\ \A f \in Frames : f.kind = "exit" =>
       f \in [kind : {"exit"}, from : States, to : States,
              overtaken : BOOLEAN, reset : BOOLEAN]
BY DEF Frames, Initial, Exiting, Entering, Updating

\* A stack with a callback more.
LEMMA PushFrame ==
  ASSUME NEW frames \in Seq(Frames), NEW f \in Frames
  PROVE  /\ Append(frames, f) \in Seq(Frames)
         /\ Len(Append(frames, f)) = Len(frames) + 1
         /\ Len(frames) \in Nat /\ DOMAIN frames = 1 .. Len(frames)
         /\ DOMAIN Append(frames, f) = 1 .. Len(frames) + 1
         /\ \A i \in 1 .. Len(frames) : Append(frames, f)[i] = frames[i]
         /\ Append(frames, f)[Len(frames) + 1] = f
         /\ Last(Append(frames, f)) = f
<1> DEFINE s == Append(frames, f)
<1>1. /\ s \in Seq(Frames) /\ Len(s) = Len(frames) + 1
      /\ Len(frames) \in Nat /\ DOMAIN frames = 1 .. Len(frames)
      /\ DOMAIN s = 1 .. Len(frames) + 1
      /\ \A i \in 1 .. Len(frames) : s[i] = frames[i]
      /\ s[Len(frames) + 1] = f
  OBVIOUS
<1>2. Last(s) = f
  BY <1>1 DEF Last
<1> QED
  BY <1>1, <1>2

\* A stack whose innermost callback has ended.
LEMMA PopFrame ==
  ASSUME stack \in Seq(Frames), stack # <<>>
  PROVE  /\ Below \in Seq(Frames) /\ Top \in Frames
         /\ Len(stack) \in Nat /\ Len(stack) >= 1 /\ DOMAIN stack = 1 .. Len(stack)
         /\ Top = stack[Len(stack)]
         /\ Len(Below) = Len(stack) - 1 /\ DOMAIN Below = 1 .. Len(stack) - 1
         /\ \A i \in 1 .. Len(stack) - 1 : Below[i] = stack[i]
<1>1. Len(stack) \in Nat /\ Len(stack) >= 1 /\ DOMAIN stack = 1 .. Len(stack)
  OBVIOUS
<1>2. Top = stack[Len(stack)] /\ Top \in Frames
  BY <1>1 DEF Top, Last
<1>3. Below = SubSeq(stack, 1, Len(stack) - 1)
  BY DEF Below, Front
<1> QED
  BY <1>1, <1>2, <1>3

\* Once a trigger was carried out nobody on the stack is pending.
LEMMA OvertakenFrames ==
  ASSUME NEW frames \in Seq(Frames)
  PROVE  /\ Overtaken(frames) \in Seq(Frames)
         /\ Len(Overtaken(frames)) = Len(frames)
         /\ DOMAIN Overtaken(frames) = DOMAIN frames
         /\ \A i \in DOMAIN frames : ~Pending(Overtaken(frames)[i])
<1> DEFINE over(f) == IF Pending(f) THEN [f EXCEPT !.overtaken = TRUE] ELSE f
<1>1. \A f \in Frames : over(f) \in Frames /\ ~Pending(over(f))
  <2> SUFFICES ASSUME NEW f \in Frames, Pending(f)
               PROVE  over(f) \in Frames /\ ~Pending(over(f))
    BY DEF Pending
  <2>1. f \in [kind : {"exit"}, from : States, to : States,
               overtaken : BOOLEAN, reset : BOOLEAN]
    BY FrameKinds DEF Pending
  <2> QED
    BY <2>1 DEF Frames, Pending
<1>2. Overtaken(frames) = [i \in 1 .. Len(frames) |-> over(frames[i])]
  BY DEF Overtaken
<1>3. \A i \in 1 .. Len(frames) : frames[i] \in Frames
  OBVIOUS
<1> HIDE DEF over
<1> QED
  BY <1>1, <1>2, <1>3

\* A reset changes no frame but for its mark.
LEMMA ResetFrames ==
  ASSUME NEW frames \in Seq(Frames)
  PROVE  /\ WithReset(frames) \in Seq(Frames)
         /\ Len(WithReset(frames)) = Len(frames)
         /\ DOMAIN WithReset(frames) = DOMAIN frames
         /\ \A i \in DOMAIN frames :
              LET f == frames[i]  g == WithReset(frames)[i]
              IN  /\ g.kind = f.kind
                  /\ Pending(f) <=> Pending(g)
                  /\ Pending(f) => g.reset
                  /\ ~Pending(f) => g = f
<1> DEFINE re(f) == IF Pending(f) THEN [f EXCEPT !.reset = TRUE] ELSE f
<1>1. \A f \in Frames :
        /\ re(f) \in Frames /\ re(f).kind = f.kind /\ (Pending(f) <=> Pending(re(f)))
        /\ (Pending(f) => re(f).reset) /\ (~Pending(f) => re(f) = f)
  <2> SUFFICES ASSUME NEW f \in Frames, Pending(f)
               PROVE  re(f) \in Frames /\ re(f).kind = f.kind /\ Pending(re(f)) /\ re(f).reset
    BY DEF Pending
  <2>1. f \in [kind : {"exit"}, from : States, to : States,
               overtaken : BOOLEAN, reset : BOOLEAN]
    BY FrameKinds DEF Pending
  <2> QED
    BY <2>1 DEF Frames, Pending
<1>2. WithReset(frames) = [i \in 1 .. Len(frames) |-> re(frames[i])]
  BY DEF WithReset
<1>3. \A i \in 1 .. Len(frames) : frames[i] \in Frames
  OBVIOUS
<1> HIDE DEF re
<1> QED
  BY <1>1, <1>2, <1>3

-----------------------------------------------------------------------------
(* What the steps make of a stack                                            *)

\* A callback other than on_exit starts.
LEMMA Pushed ==
  ASSUME NEW frames \in Seq(Frames), NEW f \in Frames, f.kind # "exit",
         NEW flag, NEW cur, NEW al, StackOK(frames, flag, cur, al)
  PROVE  StackOK(Append(frames, f), flag, cur, al)
<1>1. ~Pending(f)
  BY DEF Pending
<1>2. \A i \in 1 .. Len(frames) + 1 : i \in 1 .. Len(frames) \/ i = Len(frames) + 1
  BY PushFrame
<1>3. \A i \in 1 .. Len(frames) : i \in 1 .. Len(frames) + 1
  BY PushFrame
<1> QED
  BY <1>1, <1>2, <1>3, PushFrame DEF StackOK

\* A callback other than on_exit ends.
LEMMA Popped ==
  ASSUME stack \in Seq(Frames), stack # <<>>, Top.kind # "exit",
         NEW flag, NEW cur, NEW al, StackOK(stack, flag, cur, al)
  PROVE  StackOK(Below, flag, cur, al)
<1>1. ~Pending(Top)
  BY DEF Pending
<1>2. \A i \in DOMAIN stack : i \in DOMAIN Below \/ i = Len(stack)
  BY PopFrame
<1>3. \A i \in DOMAIN Below : i \in DOMAIN stack /\ Below[i] = stack[i]
  BY PopFrame
<1> QED
  BY <1>1, <1>2, <1>3, PopFrame DEF StackOK

\* Without a pending on_exit the flag is down and the current state is entered.
LEMMA NonePending ==
  ASSUME NEW frames, \A i \in DOMAIN frames : ~Pending(frames[i]), NEW cur
  PROVE  StackOK(frames, FALSE, cur, cur)
BY DEF StackOK

\* on_enter starts: the flag is down and its state is the current one.
LEMMA Entered ==
  ASSUME NEW frames \in Seq(Frames), \A i \in DOMAIN frames : ~Pending(frames[i]),
         NEW cur
  PROVE  StackOK(Append(frames, Entering), FALSE, cur, cur)
BY NonePending, Pushed, FrameKinds

\* The on_exit that returns while the flag is up is the pending one.
LEMMA TopPends ==
  ASSUME stack \in Seq(Frames), stack # <<>>, Top.kind = "exit",
         NEW cur, NEW al, StackOK(stack, TRUE, cur, al)
  PROVE  Pending(Top) /\ \A i \in DOMAIN Below : ~Pending(Below[i])
<1>1. PICK i \in DOMAIN stack : Pending(stack[i])
  BY DEF StackOK
<1>2. Len(stack) \in DOMAIN stack /\ stack[Len(stack)].kind = "exit"
  BY PopFrame
<1>3. \A k \in DOMAIN stack : Pending(stack[k]) => Len(stack) <= k
  BY <1>2 DEF StackOK
<1>4. i = Len(stack)
  BY <1>1, <1>3, PopFrame
<1>5. \A k \in DOMAIN Below : k \in DOMAIN stack /\ ~(Len(stack) <= k) /\ Below[k] = stack[k]
  BY PopFrame
<1> QED
  BY <1>1, <1>3, <1>4, <1>5, PopFrame

\* An on_exit starts: no other one is pending.
LEMMA Left ==
  ASSUME NEW frames \in Seq(Frames), NEW cur \in States, NEW to \in States,
         NEW al, StackOK(frames, FALSE, cur, al)
  PROVE  StackOK(Append(frames, Exiting(cur, to)), TRUE, cur, None)
<1> DEFINE s == Append(frames, Exiting(cur, to))  n == Len(frames) + 1
<1>1. Exiting(cur, to) \in Frames /\ Pending(Exiting(cur, to))
      /\ Exiting(cur, to).from = cur
  BY FrameKinds DEF Pending
<1>2. \A i \in DOMAIN frames : ~Pending(frames[i])
  BY DEF StackOK
<1>3. /\ DOMAIN s = 1 .. n /\ n \in Nat /\ n >= 1 /\ s[n] = Exiting(cur, to)
      /\ \A i \in 1 .. n : i = n \/ (i \in DOMAIN frames /\ s[i] = frames[i])
  BY <1>1, PushFrame
<1> HIDE DEF s, n
<1>4. \A i \in DOMAIN s : Pending(s[i]) <=> i = n
  BY <1>1, <1>2, <1>3
<1>5. n \in DOMAIN s /\ \A i \in DOMAIN s : i <= n
  BY <1>3
<1> QED
  BY <1>1, <1>3, <1>4, <1>5 DEF StackOK, s

\* The machine is reset.
LEMMA Forgotten ==
  ASSUME NEW frames \in Seq(Frames), NEW flag, NEW cur, NEW al,
         StackOK(frames, flag, cur, al)
  PROVE  StackOK(WithReset(frames), flag, None, None)
BY ResetFrames DEF StackOK

\* The default state is entered when there is none: whoever is pending was
\* reset.
LEMMA Begun ==
  ASSUME NEW frames \in Seq(Frames), NEW flag, NEW cur, NEW al,
         StackOK(frames, flag, None, al)
  PROVE  StackOK(frames, flag, cur, cur)
<1>1. \A i \in DOMAIN frames : Pending(frames[i]) => frames[i].from # None
  <2> SUFFICES ASSUME NEW i \in DOMAIN frames, Pending(frames[i])
               PROVE  frames[i].from # None
    OBVIOUS
  <2>1. frames[i] \in Frames /\ frames[i].kind = "exit"
    BY DEF Pending
  <2>2. frames[i].from \in States
    BY <2>1, FrameKinds
  <2> QED
    BY <2>2, SentinelAssumption
<1> QED
  BY <1>1 DEF StackOK

-----------------------------------------------------------------------------
(* The steps                                                                 *)

\* The new machine runs no callback.
LEMMA InitIInv == Init => IInv
<1> SUFFICES ASSUME Init PROVE IInv
  OBVIOUS
<1>1. TypeOK
  <2>1. Added = {}
    BY DEF Init, Added
  <2>2. stack \in Seq(Frames)
    BY DEF Init
  <2> QED
    BY <2>1, <2>2 DEF Init, TypeOK
<1>2. StackOK(stack, inOnExit, current, alive)
  <2>1. DOMAIN stack = {}
    BY DEF Init
  <2>2. StackOK(stack, FALSE, None, None)
    BY <2>1, NonePending
  <2> QED
    BY <2>2 DEF Init
<1> QED
  BY <1>1, <1>2 DEF IInv

\* trigger and update behind maybe_init, on the stack they were called on.
LEMMA ProceedStep ==
  ASSUME TypeOK, NEW what \in Calls, NEW frames \in Seq(Frames),
         StackOK(frames, inOnExit, current, alive), Proceed(what, frames)
  PROVE  IInv'
<1>1. transitions' = transitions /\ default' = default
  BY DEF Proceed
<1>2. SUFFICES /\ current' \in States \cup {None} /\ inOnExit' \in BOOLEAN
               /\ stack' \in Seq(Frames) /\ thrown' \in BOOLEAN
               /\ alive' \in {None, current'}
               /\ StackOK(stack', inOnExit', current', alive')
  BY <1>1 DEF IInv, TypeOK, Added
<1>3. CASE Refused(what)
  BY <1>3 DEF Proceed, TypeOK
<1>4. CASE ~Refused(what)
  <2>0. current \in Added /\ current \in States /\ thrown' = thrown
    BY <1>4 DEF Refused, TypeOK, Proceed
  <2>1. CASE what = UpdateCall
    <3>1. stack' = Append(frames, Updating) /\ UNCHANGED <<current, inOnExit, alive>>
      BY <1>4, <2>1 DEF Proceed
    <3>2. Updating \in Frames /\ Updating.kind # "exit"
      BY FrameKinds
    <3>3. StackOK(Append(frames, Updating), inOnExit, current, alive)
      BY <3>2, Pushed
    <3> QED
      BY <2>0, <3>1, <3>2, <3>3, PushFrame DEF TypeOK
  <2>2. CASE what # UpdateCall /\ transitions[current][what] = Ignored
    BY <1>4, <2>0, <2>2 DEF Proceed, TypeOK
  <2>3. CASE what # UpdateCall /\ transitions[current][what] # Ignored
    <3> DEFINE to == transitions[current][what]
    <3>1. to \in States
      BY <1>4, <2>0, <2>3 DEF Refused, TypeOK
    <3>2. LeaveState(to, frames) \/ Overtake(to, frames)
      BY <1>4, <2>3 DEF Proceed
    <3> HIDE DEF to
    <3>3. CASE LeaveState(to, frames)
      <4>1. /\ inOnExit = FALSE /\ inOnExit' = TRUE /\ alive' = None
            /\ current' = current /\ stack' = Append(frames, Exiting(current, to))
        BY <3>3 DEF LeaveState, TypeOK
      <4>2. StackOK(stack', TRUE, current, None)
        BY <2>0, <3>1, <4>1, Left
      <4>3. Exiting(current, to) \in Frames
        BY <2>0, <3>1, FrameKinds
      <4>4. stack' \in Seq(Frames)
        BY <4>1, <4>3, PushFrame
      <4> QED
        BY <2>0, <4>1, <4>2, <4>4 DEF TypeOK
    <3>4. CASE Overtake(to, frames)
      <4>1. /\ inOnExit' = FALSE /\ alive' = to /\ current' = to
            /\ stack' = Append(Overtaken(frames), Entering)
        BY <3>4 DEF Overtake, EnterState
      <4>2. /\ Overtaken(frames) \in Seq(Frames)
            /\ \A i \in DOMAIN Overtaken(frames) : ~Pending(Overtaken(frames)[i])
        BY OvertakenFrames
      <4>3. StackOK(stack', FALSE, to, to)
        BY <4>1, <4>2, Entered
      <4>4. stack' \in Seq(Frames)
        BY <4>1, <4>2, PushFrame, FrameKinds
      <4> QED
        BY <2>0, <3>1, <4>1, <4>3, <4>4 DEF TypeOK
    <3> QED BY <3>2, <3>3, <3>4
  <2> QED BY <2>1, <2>2, <2>3
<1> QED BY <1>3, <1>4

\* A callback returns and its caller goes on.
LEMMA ReturnStep ==
  ASSUME IInv, Return
  PROVE  IInv'
<1>0. /\ TypeOK /\ StackOK(stack, inOnExit, current, alive)
      /\ stack \in Seq(Frames) /\ stack # <<>> /\ inOnExit \in BOOLEAN
  BY DEF IInv, TypeOK, Return
<1>1. CASE ReturnInit
  <2>1. Top.kind = "init" /\ Proceed(Top.call, Below)
    BY <1>1 DEF ReturnInit
  <2>2. Top \in Frames /\ Below \in Seq(Frames)
    BY <1>0, PopFrame
  <2>3. Top.call \in Calls
    BY <2>1, <2>2, FrameKinds
  <2>4. StackOK(Below, inOnExit, current, alive)
    BY <1>0, <2>1, Popped
  <2> QED
    BY <1>0, <2>1, <2>2, <2>3, <2>4, ProceedStep
<1>2. CASE ReturnExit
  <2>1. Top.kind = "exit" /\ FinishExit /\ UNCHANGED <<transitions, default, thrown>>
    BY <1>2 DEF ReturnExit
  <2>2. Top \in Frames /\ Below \in Seq(Frames)
    BY <1>0, PopFrame
  <2>3. CASE inOnExit /\ EnterState(Top.to, Below)
    <3>1. /\ inOnExit' = FALSE /\ current' = Top.to /\ alive' = Top.to
          /\ stack' = Append(Below, Entering)
      BY <2>3 DEF EnterState
    <3>2. Top.to \in States
      BY <2>1, <2>2, FrameKinds
    <3>3. \A i \in DOMAIN Below : ~Pending(Below[i])
      <4>1. StackOK(stack, TRUE, current, alive)
        BY <1>0, <2>3
      <4> QED
        BY <1>0, <2>1, <4>1, TopPends
    <3>4. StackOK(stack', FALSE, Top.to, Top.to)
      BY <2>2, <3>1, <3>3, Entered
    <3>5. stack' \in Seq(Frames)
      BY <2>2, <3>1, PushFrame, FrameKinds
    <3> HIDE DEF Top, Below
    <3> QED
      BY <1>0, <2>1, <3>1, <3>2, <3>4, <3>5 DEF IInv, TypeOK, Added
  <2>4. CASE ~inOnExit /\ stack' = Below /\ UNCHANGED <<current, inOnExit, alive>>
    <3>1. /\ \A i \in DOMAIN stack : ~Pending(stack[i])
          /\ alive = current
      BY <1>0, <2>4 DEF StackOK
    <3>2. \A i \in DOMAIN Below : i \in DOMAIN stack /\ Below[i] = stack[i]
      BY <1>0, PopFrame
    <3>3. StackOK(Below, FALSE, current, current)
      BY <3>1, <3>2, NonePending
    <3> QED
      BY <1>0, <2>1, <2>2, <2>4, <3>1, <3>3 DEF IInv, TypeOK, Added
  <2> QED BY <2>1, <2>3, <2>4 DEF FinishExit
<1>3. CASE ReturnOther
  <2>1. /\ Top.kind # "exit" /\ stack' = Below
        /\ UNCHANGED <<transitions, default, current, inOnExit, thrown, alive>>
    BY <1>3 DEF ReturnOther
  <2>2. Below \in Seq(Frames) /\ StackOK(Below, inOnExit, current, alive)
    BY <1>0, <2>1, PopFrame, Popped
  <2> QED
    BY <1>0, <2>1, <2>2 DEF IInv, TypeOK, Added
<1> QED BY <1>1, <1>2, <1>3 DEF Return

\* Every step keeps the inductive invariant.
LEMMA InvStep ==
  ASSUME IInv, [Next]_vars
  PROVE  IInv'
<1>0. /\ TypeOK /\ StackOK(stack, inOnExit, current, alive)
      /\ stack \in Seq(Frames) /\ inOnExit \in BOOLEAN
  BY DEF IInv, TypeOK
<1>1. ASSUME NEW s \in States, NEW row \in Rows, AddState(s, row) PROVE IInv'
  <2>1. /\ Added' = Added \cup {s}
        /\ \A r \in Added' : transitions'[r] = IF r = s THEN row ELSE transitions[r]
    BY <1>1 DEF AddState, Added
  <2>2. UNCHANGED <<current, inOnExit, stack, thrown, alive>>
        /\ default' \in States \cup {None}
    BY <1>0, <1>1 DEF AddState, TypeOK
  <2> QED
    BY <1>0, <2>1, <2>2 DEF IInv, TypeOK
<1>2. ASSUME NEW s \in States, StartState(s) PROVE IInv'
  BY <1>0, <1>2 DEF StartState, IInv, TypeOK, Added
<1>3. ASSUME NEW what \in Calls, Call(what) PROVE IInv'
  <2>1. CASE MaybeInit(what)
    <3>1. /\ current = None /\ current' = default /\ alive' = default
          /\ default \in States \cup {None}
          /\ stack' = Append(stack, Initial(what))
          /\ UNCHANGED <<transitions, default, inOnExit, thrown>>
      BY <1>0, <2>1 DEF MaybeInit, TypeOK
    <3>2. StackOK(stack, inOnExit, default, default)
      BY <1>0, <3>1, Begun
    <3>3. Initial(what) \in Frames /\ Initial(what).kind # "exit"
      BY FrameKinds
    <3>4. StackOK(stack', inOnExit, default, default) /\ stack' \in Seq(Frames)
      BY <1>0, <3>1, <3>2, <3>3, Pushed, PushFrame
    <3> QED
      BY <1>0, <3>1, <3>4 DEF IInv, TypeOK, Added
  <2>2. CASE Proceed(what, stack)
    BY <1>0, <2>2, ProceedStep
  <2> QED BY <1>3, <2>1, <2>2 DEF Call
<1>4. CASE Return
  BY <1>4, ReturnStep
<1>5. CASE Reset
  <2>1. /\ current' = None /\ alive' = None /\ stack' = WithReset(stack)
        /\ UNCHANGED <<transitions, default, inOnExit, thrown>>
    BY <1>5 DEF Reset
  <2>2. StackOK(stack', inOnExit, None, None) /\ stack' \in Seq(Frames)
    BY <1>0, <2>1, Forgotten, ResetFrames
  <2> QED
    BY <1>0, <2>1, <2>2 DEF IInv, TypeOK, Added
<1>6. CASE Throw
  BY <1>0, <1>6 DEF Throw, IInv, TypeOK, Added
<1>7. CASE Catch
  BY <1>0, <1>7 DEF Catch, IInv, TypeOK, Added
<1>8. CASE Unwind
  <2>1. /\ stack # <<>> /\ Top.kind # "exit" /\ stack' = Below
        /\ UNCHANGED <<transitions, default, current, inOnExit, thrown, alive>>
    BY <1>8 DEF Unwind
  <2>2. Below \in Seq(Frames) /\ StackOK(Below, inOnExit, current, alive)
    BY <1>0, <2>1, PopFrame, Popped
  <2> QED
    BY <1>0, <2>1, <2>2 DEF IInv, TypeOK, Added
<1>9. CASE UNCHANGED vars
  BY <1>0, <1>9 DEF vars, IInv, TypeOK, Added
<1> QED
  BY <1>1, <1>2, <1>3, <1>4, <1>5, <1>6, <1>7, <1>8, <1>9 DEF Next

\* The members of the machine and the callbacks on the stack agree, whatever
\* callbacks trigger, reset and throw.
THEOREM Invariance == Spec => []IInv
<1>1. Init => IInv
  BY InitIInv
<1>2. IInv /\ [Next]_vars => IInv'
  BY InvStep
<1> QED
  BY <1>1, <1>2, PTL DEF Spec

-----------------------------------------------------------------------------
(* The theorems                                                              *)

\* Whatever callbacks do, the members and the callbacks on the stack keep their
\* types, and a state that was entered and not exited is the current one.
THEOREM TypeCorrect == Spec => []TypeOK
<1>1. IInv => TypeOK
  BY DEF IInv
<1> QED
  BY <1>1, Invariance, PTL

\* _in_on_exit is up exactly while one on_exit has a trigger to finish, however
\* deep callbacks trigger, reset and throw.
THEOREM FlagCorrect == Spec => []FlagMeansPending
<1>1. IInv => FlagMeansPending
  <2> SUFFICES ASSUME IInv PROVE FlagMeansPending
    OBVIOUS
  <2> DEFINE left == {i \in DOMAIN stack : Pending(stack[i])}
  <2>0. DOMAIN stack = 1 .. Len(stack) /\ Len(stack) \in Nat
        /\ StackOK(stack, inOnExit, current, alive) /\ inOnExit \in BOOLEAN
    BY DEF IInv, TypeOK
  <2>1. CASE inOnExit
    <3>1. PICK i \in DOMAIN stack : Pending(stack[i])
      BY <2>0, <2>1 DEF StackOK
    <3>2. \A j \in left : j <= i /\ i <= j
      BY <2>0, <3>1 DEF StackOK, Pending
    <3>3. left = {i}
      BY <2>0, <3>1, <3>2
    <3>4. Cardinality({i}) = 1
      BY FS_Singleton
    <3> QED
      BY <2>1, <3>3, <3>4 DEF FlagMeansPending
  <2>2. CASE ~inOnExit
    <3>1. left = {}
      BY <2>0, <2>2 DEF StackOK
    <3>2. Cardinality({}) = 0
      BY FS_EmptySet
    <3> QED
      BY <2>2, <3>1, <3>2 DEF FlagMeansPending
  <2> QED BY <2>1, <2>2
<1> QED
  BY <1>1, Invariance, PTL

\* A trigger that goes on behind on_exit finds the state it read before.
THEOREM ReadStateCorrect == Spec => []ReadStateHolds
<1>1. IInv => ReadStateHolds
  BY DEF IInv, StackOK, ReadStateHolds
<1> QED
  BY <1>1, Invariance, PTL

-----------------------------------------------------------------------------
(* Exits and entries                                                         *)

\* What a step does with the stack: which callbacks start, and when.
LEMMA StackMoves ==
  ASSUME IInv, Next
  PROVE  \/ stack' = stack
         \/ stack # <<>> /\ stack' = Below
         \/ stack' = WithReset(stack)
         \/ \E frames \in Seq(Frames) :
              \/ \E to \in States : /\ stack' = Append(frames, Exiting(current, to))
                                    /\ ~inOnExit /\ current \in States
              \/ stack' = Append(frames, Updating)
              \/ stack' = Append(frames, Entering) /\ inOnExit
              \/ \E what \in Calls : stack' = Append(frames, Initial(what))
                                     /\ current = None
<1> DEFINE Moves == \/ stack' = stack
                    \/ stack # <<>> /\ stack' = Below
                    \/ stack' = WithReset(stack)
                    \/ \E frames \in Seq(Frames) :
                         \/ \E to \in States : /\ stack' = Append(frames, Exiting(current, to))
                                               /\ ~inOnExit /\ current \in States
                         \/ stack' = Append(frames, Updating)
                         \/ stack' = Append(frames, Entering) /\ inOnExit
                         \/ \E what \in Calls : stack' = Append(frames, Initial(what))
                                                /\ current = None
<1>0. TypeOK /\ stack \in Seq(Frames)
  BY DEF IInv, TypeOK
<1>1. ASSUME NEW what \in Calls, NEW frames \in Seq(Frames), Proceed(what, frames),
             frames = stack \/ (stack # <<>> /\ frames = Below)
      PROVE  Moves
  <2>1. CASE stack' = frames
    BY <1>1, <2>1
  <2>2. CASE stack' = Append(frames, Updating)
    BY <2>2, <1>1
  <2>3. CASE /\ ~Refused(what) /\ what # UpdateCall
             /\ transitions[current][what] # Ignored
             /\ LeaveState(transitions[current][what], frames)
    <3>1. current \in States /\ transitions[current][what] \in States
      BY <1>0, <2>3 DEF Refused, TypeOK
    <3>2. stack' = Append(frames, Exiting(current, transitions[current][what]))
          /\ ~inOnExit
      BY <2>3 DEF LeaveState
    <3> QED
      BY <1>1, <3>1, <3>2
  <2>4. CASE Overtake(transitions[current][what], frames)
    <3>1. stack' = Append(Overtaken(frames), Entering) /\ inOnExit
      BY <2>4 DEF Overtake, EnterState
    <3>2. Overtaken(frames) \in Seq(Frames)
      BY <1>1, OvertakenFrames
    <3> QED
      BY <3>1, <3>2
  <2> QED
    BY <1>1, <2>1, <2>2, <2>3, <2>4 DEF Proceed
<1>2. ASSUME NEW what \in Calls, Call(what) PROVE Moves
  BY <1>0, <1>1, <1>2 DEF Call, MaybeInit
<1>3. CASE Return
  <2>0. stack # <<>> /\ Below \in Seq(Frames) /\ Top \in Frames
    BY <1>0, <1>3, PopFrame DEF Return
  <2>1. CASE ReturnInit
    <3>1. Top.call \in Calls /\ Proceed(Top.call, Below)
      BY <2>0, <2>1, FrameKinds DEF ReturnInit
    <3> QED
      BY <1>1, <2>0, <3>1
  <2>2. CASE ReturnExit
    BY <2>0, <2>2 DEF ReturnExit, FinishExit, EnterState
  <2>3. CASE ReturnOther
    BY <2>0, <2>3 DEF ReturnOther
  <2> QED BY <1>3, <2>1, <2>2, <2>3 DEF Return
<1>4. CASE Reset
  BY <1>4 DEF Reset
<1>5. ASSUME NEW s \in States, NEW row \in Rows, AddState(s, row) PROVE Moves
  BY <1>5 DEF AddState
<1>6. ASSUME NEW s \in States, StartState(s) PROVE Moves
  BY <1>6 DEF StartState
<1>7. CASE Throw \/ Catch \/ Unwind
  BY <1>7 DEF Throw, Catch, Unwind
<1>8. \/ \E s \in States, row \in Rows : AddState(s, row)
      \/ \E s \in States : StartState(s)
      \/ \E what \in Calls : Call(what)
      \/ Return \/ Reset \/ Throw \/ Catch \/ Unwind
  BY DEF Next
<1> QED
  BY <1>2, <1>3, <1>4, <1>5, <1>6, <1>7, <1>8

\* A reset changes the stack only if an on_exit is pending.
LEMMA ResetChanges ==
  ASSUME stack \in Seq(Frames), stack' = WithReset(stack), stack' # stack
  PROVE  \E i \in DOMAIN stack : Pending(stack[i])
<1> SUFFICES ASSUME \A i \in DOMAIN stack : ~Pending(stack[i])
             PROVE  WithReset(stack) = stack
  OBVIOUS
<1>1. WithReset(stack) = [i \in DOMAIN stack |-> stack[i]]
  BY DEF WithReset
<1> QED
  BY <1>1

\* A state is exited once for each time it is entered, however triggers nest:
\* the state whose on_exit starts is the one that is entered.
THEOREM ExitsOnce == Spec => ExitOnce
<1> DEFINE Once == Starts({"exit"}) /\ ~Last(stack').reset => Last(stack').from = alive
<1>1. ASSUME IInv, [Next]_vars PROVE [Once]_vars
  <2> SUFFICES ASSUME Next, stack' # stack, Len(stack') >= Len(stack),
                      Last(stack').kind = "exit", ~Last(stack').reset
               PROVE  Last(stack').from = alive
    BY <1>1 DEF Starts
  <2>0. /\ stack \in Seq(Frames) /\ StackOK(stack, inOnExit, current, alive)
        /\ Len(stack) \in Nat
    BY <1>1 DEF IInv, TypeOK
  <2>1. CASE stack # <<>> /\ stack' = Below
    BY <2>0, <2>1, PopFrame
  <2>2. CASE stack' = WithReset(stack)
    <3>1. PICK i \in DOMAIN stack : Pending(stack[i])
      BY <2>0, <2>2, ResetChanges
    <3>2. /\ DOMAIN stack = 1 .. Len(stack) /\ Len(stack) \in DOMAIN stack
          /\ Last(stack') = WithReset(stack)[Len(stack)]
      BY <2>0, <2>2, <3>1, ResetFrames DEF Last
    <3>3. stack[Len(stack)].kind = "exit"
      BY <2>0, <3>2, ResetFrames
    <3>4. i = Len(stack)
      BY <2>0, <3>1, <3>2, <3>3 DEF StackOK
    <3> QED
      BY <2>0, <3>1, <3>2, <3>4, ResetFrames
  <2>3. ASSUME NEW frames \in Seq(Frames), NEW to \in States,
               stack' = Append(frames, Exiting(current, to)), ~inOnExit, current \in States
        PROVE  Last(stack').from = alive
    BY <2>0, <2>3, FrameKinds, PushFrame DEF StackOK
  <2>4. ASSUME NEW frames \in Seq(Frames), NEW f \in Frames, f.kind # "exit",
               stack' = Append(frames, f)
        PROVE  FALSE
    BY <2>4, PushFrame
  <2> QED
    BY <1>1, <2>1, <2>2, <2>3, <2>4, StackMoves, FrameKinds
<1> QED
  BY <1>1, Invariance, PTL DEF Spec, ExitOnce

\* A state is entered only when the one before it was exited or forgotten, but
\* for a machine that is reset and used again inside an on_exit.
THEOREM EntersAfterExit == Spec => EnterAfterExit
<1> DEFINE Vacant == \/ alive = None
                    \/ \E i \in DOMAIN stack : Pending(stack[i]) /\ stack[i].reset
<1>1. ASSUME IInv, [Next]_vars PROVE [Starts({"init", "enter"}) => Vacant]_vars
  <2> SUFFICES ASSUME Next, stack' # stack, Len(stack') >= Len(stack),
                      Last(stack').kind \in {"init", "enter"}
               PROVE  Vacant
    BY <1>1 DEF Starts
  <2>0. /\ stack \in Seq(Frames) /\ StackOK(stack, inOnExit, current, alive)
        /\ Len(stack) \in Nat /\ alive \in {None, current}
    BY <1>1 DEF IInv, TypeOK
  <2>1. ASSUME NEW i \in DOMAIN stack, Pending(stack[i]) PROVE Vacant
    BY <2>0, <2>1 DEF StackOK
  <2>2. CASE stack # <<>> /\ stack' = Below
    BY <2>0, <2>2, PopFrame
  <2>3. CASE stack' = WithReset(stack)
    BY <2>0, <2>1, <2>3, ResetChanges
  <2>4. CASE inOnExit
    BY <2>0, <2>1, <2>4 DEF StackOK
  <2>5. CASE current = None
    BY <2>0, <2>5
  <2>6. ASSUME NEW frames \in Seq(Frames), NEW f \in Frames,
               f.kind \notin {"init", "enter"}, stack' = Append(frames, f)
        PROVE  FALSE
    BY <2>6, PushFrame
  <2> HIDE DEF Vacant
  <2> QED
    BY ZenonT(30), <1>1, <2>2, <2>3, <2>4, <2>5, <2>6, StackMoves, FrameKinds
<1> QED
  BY <1>1, Invariance, PTL DEF Spec, EnterAfterExit
-----------------------------------------------------------------------------
(* EventSystem: the inductive invariant                                      *)

\* What a subscriber is: an id and a callback.
Entries == [id : 1 .. MaxIds, callback : Subscribers]
Stacks == Channels \cup 1 .. MaxNotifiers
Lists == Seq(Entries)
Walks == [stack : Stacks, event : EventEnum, at : Nat, end : Nat, due : Lists, called : Lists]

EventsTypeOK ==
  /\ notifierGen \in 0 .. MaxNotifiers
  /\ DOMAIN stacks \subseteq Channels \cup 1 .. notifierGen
  /\ Channels \subseteq DOMAIN stacks
  /\ stacks \in [DOMAIN stacks -> [EventEnum -> Lists]]
  /\ generators \in [DOMAIN stacks -> [EventEnum -> 0 .. MaxIds]]
  /\ walks \in Seq(Walks)

\* The ids of a list are different, and no larger than what its generator
\* gave; there are as many of those at least.
ListOK(list, last) ==
  /\ Len(list) <= last
  /\ \A p \in DOMAIN list : list[p].id <= last
  /\ \A p, q \in DOMAIN list : list[p].id = list[q].id => p = q

ListsOK == \A s \in DOMAIN stacks, e \in EventEnum : ListOK(stacks[s][e], generators[s][e])

\* The ids given out and not taken back are those of the subscribers.
IdsAt(s, e, list) == {Events!Id(s, e, list[p].id, list[p].callback) : p \in DOMAIN list}
IdsOK ==
  /\ \A i \in subscribed :
       /\ i.stack \in DOMAIN stacks /\ i.event \in EventEnum
       /\ i \in IdsAt(i.stack, i.event, stacks[i.stack][i.event])
  /\ \A s \in DOMAIN stacks, e \in EventEnum : IdsAt(s, e, stacks[s][e]) \subseteq subscribed

\* The list a trigger walks begins with what was subscribed when it began, and it
\* has called the first of these.
WalkOK(walk) ==
  /\ walk.stack \in DOMAIN stacks
  /\ walk.end = Len(walk.due)
  /\ walk.end <= Len(stacks[walk.stack][walk.event])
  /\ \A p \in 1 .. walk.end : walk.due[p] = stacks[walk.stack][walk.event][p]
  /\ walk.at <= walk.end
  /\ Len(walk.called) = walk.at
  /\ \A p \in 1 .. walk.at : walk.called[p] = walk.due[p]

WalksOK == \A k \in DOMAIN walks : WalkOK(walks[k])

EventsInv == EventsTypeOK /\ ListsOK /\ IdsOK /\ WalksOK

\* The list and the generator of a stack and an event.
LEMMA ListTyped ==
  ASSUME EventsTypeOK, Events!BoundsAssumption, NEW s \in DOMAIN stacks, NEW e \in EventEnum
  PROVE  /\ stacks[s][e] \in Lists
         /\ DOMAIN stacks[s][e] = 1 .. Len(stacks[s][e]) /\ Len(stacks[s][e]) \in Nat
         /\ \A p \in DOMAIN stacks[s][e] : stacks[s][e][p] \in Entries
         /\ generators[s][e] \in 0 .. MaxIds
<1>1. stacks[s] \in [EventEnum -> Lists] /\ generators[s] \in [EventEnum -> 0 .. MaxIds]
  BY DEF EventsTypeOK
<1>2. stacks[s][e] \in Lists /\ generators[s][e] \in 0 .. MaxIds BY <1>1
<1> QED BY <1>2, LenProperties, ElementOfSeq DEF Lists

\* The places of a list are among the ids there may be.
LEMMA ListPlaces ==
  ASSUME EventsTypeOK, ListsOK, Events!BoundsAssumption, NEW s \in DOMAIN stacks, NEW e \in EventEnum
  PROVE  DOMAIN stacks[s][e] \subseteq 1 .. MaxIds
<1> DEFINE n == Len(stacks[s][e])  g == generators[s][e]
<1>1. n \in Nat /\ DOMAIN stacks[s][e] = 1 .. n /\ g \in 0 .. MaxIds BY ListTyped
<1>2. n <= g BY DEF ListsOK, ListOK
<1>3. MaxIds \in Nat BY DEF Events!BoundsAssumption
<1> HIDE DEF n, g
<1>4. n <= MaxIds BY <1>1, <1>2, <1>3
<1> QED BY <1>1, <1>3, <1>4

\* The id of a subscriber is found, and what is found has its callback: the ids of
\* a list differ.
LEMMA InvGivesHome ==
  ASSUME EventsInv, Events!BoundsAssumption PROVE Events!IdsLeadHome
<1> USE DEF EventsInv
<1>1. ASSUME NEW i \in subscribed
      PROVE  LET places == Events!Found(i.stack, i.event, i.id)
             IN  /\ places # {}
                 /\ \A p \in places : stacks[i.stack][i.event][p].callback = i.callback
  <2> DEFINE s == i.stack  e == i.event  list == stacks[s][e]
  <2>1. s \in DOMAIN stacks /\ e \in EventEnum /\ i \in IdsAt(s, e, list)
    BY <1>1 DEF IdsOK
  <2>2. PICK p \in DOMAIN list : i = Events!Id(s, e, list[p].id, list[p].callback)
    BY <2>1 DEF IdsAt
  <2>3. i.id = list[p].id /\ i.callback = list[p].callback BY <2>2 DEF Events!Id
  <2>4. p \in 1 .. MaxIds BY <2>1, ListPlaces
  <2>5. p \in Events!Found(s, e, i.id) BY <2>1, <2>2, <2>3, <2>4 DEF Events!Found
  <2>6. ASSUME NEW q \in Events!Found(s, e, i.id) PROVE list[q].callback = i.callback
    <3>1. q \in DOMAIN list /\ list[q].id = list[p].id BY <2>3, <2>6 DEF Events!Found
    <3>2. q = p BY <3>1, <2>1, <2>2 DEF ListsOK, ListOK
    <3> QED BY <3>2, <2>3
  <2> QED BY <2>5, <2>6
<1>2. ASSUME NEW s \in DOMAIN stacks, NEW e \in EventEnum, NEW p \in 1 .. MaxIds,
             p \in DOMAIN stacks[s][e]
      PROVE  Events!Id(s, e, stacks[s][e][p].id, stacks[s][e][p].callback) \in subscribed
  <2>1. Events!Id(s, e, stacks[s][e][p].id, stacks[s][e][p].callback) \in IdsAt(s, e, stacks[s][e])
    BY <1>2 DEF IdsAt
  <2> QED BY <2>1 DEF IdsOK
<1> QED BY <1>1, <1>2 DEF Events!IdsLeadHome

\* What a trigger called are the first of those it found.
LEMMA InvGivesCalls ==
  ASSUME EventsInv PROVE Events!CallsWhoWasThere
<1> SUFFICES ASSUME NEW k \in DOMAIN walks PROVE Events!IsPrefix(walks[k].called, walks[k].due)
  BY DEF Events!CallsWhoWasThere
<1> DEFINE w == walks[k]
<1>1. w \in Walks
  BY ElementOfSeq, LenProperties DEF EventsInv, EventsTypeOK
<1>2. WalkOK(w) BY DEF EventsInv, WalksOK
<1> HIDE DEF w
<1>3. /\ w.called \in Seq(Entries) /\ w.due \in Seq(Entries) /\ w.at \in Nat
      /\ Len(w.called) = w.at /\ w.at <= Len(w.due)
      /\ \A p \in 1 .. w.at : w.called[p] = w.due[p]
  BY <1>1, <1>2 DEF WalkOK, Lists, Walks
<1>4. Len(w.due) \in Nat BY <1>3, LenProperties
<1>5. SubSeq(w.called, 1, w.at) = [p \in 1 .. w.at |-> w.called[p]]
      /\ SubSeq(w.due, 1, w.at) = [p \in 1 .. w.at |-> w.due[p]]
  BY <1>3, <1>4
<1>6. Events!IsPrefix(w.called, w.due) BY <1>3, <1>5 DEF Events!IsPrefix
<1> QED BY <1>6 DEF w

\* One list of one stack is replaced.
LEMMA ListReplaced ==
  ASSUME NEW D, NEW E, NEW V, NEW h \in [D -> [E -> V]], NEW s \in D, NEW e \in E, NEW v \in V
  PROVE  LET g == [h EXCEPT ![s][e] = v]
         IN  /\ g \in [D -> [E -> V]] /\ DOMAIN g = D
             /\ g[s][e] = v
             /\ \A t \in D, d \in E : t # s \/ d # e => g[t][d] = h[t][d]
OBVIOUS

\* What a trigger walks is the list of an event of a stack there is.
LEMMA WalkPlace ==
  ASSUME EventsTypeOK, WalksOK, NEW k \in DOMAIN walks
  PROVE  /\ walks[k] \in Walks /\ WalkOK(walks[k])
         /\ walks[k].stack \in DOMAIN stacks /\ walks[k].event \in EventEnum
<1>1. walks[k] \in Walks /\ WalkOK(walks[k])
  BY ElementOfSeq, LenProperties DEF EventsTypeOK, WalksOK
<1> QED BY <1>1 DEF WalkOK, Walks

\* Lists that are only appended to are walked as they were.
LEMMA WalksGoOn ==
  ASSUME EventsTypeOK, WalksOK, walks' = walks,
         \A k \in DOMAIN walks :
           LET s == walks[k].stack
               e == walks[k].event
           IN  /\ s \in DOMAIN stacks'
               /\ stacks'[s][e] \in Lists
               /\ Len(stacks[s][e]) <= Len(stacks'[s][e])
               /\ \A p \in DOMAIN stacks[s][e] : stacks'[s][e][p] = stacks[s][e][p]
  PROVE  WalksOK'
<1> SUFFICES ASSUME NEW k \in DOMAIN walks PROVE WalkOK(walks[k])'
  BY DEF WalksOK
<1> DEFINE w == walks[k]  s == w.stack  e == w.event
<1>1. w \in Walks /\ WalkOK(w) BY WalkPlace
<1>2. s \in DOMAIN stacks /\ e \in EventEnum BY WalkPlace
<1>3. stacks[s][e] \in Lists
  <2>1. stacks[s] \in [EventEnum -> Lists] BY <1>2 DEF EventsTypeOK
  <2> QED BY <2>1, <1>2
<1>4. /\ Len(stacks[s][e]) \in Nat /\ DOMAIN stacks[s][e] = 1 .. Len(stacks[s][e])
      /\ Len(stacks'[s][e]) \in Nat
  BY <1>3, LenProperties DEF Lists
<1>5. w.end \in Nat BY <1>1 DEF Walks
<1>6. w.end <= Len(stacks'[s][e]) BY <1>1, <1>4, <1>5 DEF WalkOK
<1>7. \A p \in 1 .. w.end : p \in DOMAIN stacks[s][e] BY <1>1, <1>4, <1>5 DEF WalkOK
<1>8. \A p \in 1 .. w.end : w.due[p] = stacks'[s][e][p] BY <1>7, <1>1 DEF WalkOK
<1>9. s \in DOMAIN stacks' OBVIOUS
<1>10. walks'[k] = w OBVIOUS
<1> HIDE DEF w
<1> QED BY <1>1, <1>6, <1>8, <1>9, <1>10 DEF WalkOK

\* Lists of which nothing is walked may change.
LEMMA NotWalked ==
  ASSUME EventsTypeOK, WalksOK, NEW S, NEW E, ~Events!Walked(S, E), NEW k \in DOMAIN walks
  PROVE  /\ walks[k].stack \in DOMAIN stacks /\ walks[k].event \in EventEnum
         /\ walks[k].stack \notin S \/ walks[k].event \notin E
BY WalkPlace DEF Events!Walked

\* subscribe appends an entry whose id its generator never gave out; the lists
\* that are walked only grow at the end.
LEMMA SubscribeKeeps ==
  ASSUME EventsInv, Events!BoundsAssumption, NEW s, NEW e \in EventEnum, NEW f \in Subscribers,
         Events!Subscribe(s, e, f)
  PROVE  EventsInv'
<1> USE DEF EventsInv
<1> DEFINE list == stacks[s][e]
           n == Events!NextId(s, e)
           entry == [id |-> n, callback |-> f]
<1>1. /\ s \in DOMAIN stacks /\ generators[s][e] < MaxIds
      /\ generators' = [generators EXCEPT ![s][e] = n]
      /\ stacks' = [stacks EXCEPT ![s][e] = Append(list, entry)]
      /\ subscribed' = subscribed \cup {Events!Id(s, e, n, f)}
      /\ notifierGen' = notifierGen /\ walks' = walks
  BY DEF Events!Subscribe
<1>2. /\ list \in Lists /\ DOMAIN list = 1 .. Len(list) /\ Len(list) \in Nat
      /\ generators[s][e] \in 0 .. MaxIds
  BY <1>1, ListTyped
<1>3. MaxIds \in Nat BY DEF Events!BoundsAssumption
<1>4. n = generators[s][e] + 1 BY DEF Events!NextId
<1>5. n \in 1 .. MaxIds /\ n \in 0 .. MaxIds BY <1>1, <1>2, <1>3, <1>4
<1>6. entry \in Entries BY <1>5 DEF Entries
<1>7. /\ Append(list, entry) \in Lists
      /\ Len(Append(list, entry)) = Len(list) + 1
      /\ DOMAIN Append(list, entry) = 1 .. Len(list) + 1
      /\ \A p \in DOMAIN list : Append(list, entry)[p] = list[p]
      /\ Append(list, entry)[Len(list) + 1] = entry
  BY <1>2, <1>6, AppendProperties DEF Lists
<1> DEFINE D == DOMAIN stacks
<1>8. /\ stacks' \in [D -> [EventEnum -> Lists]] /\ DOMAIN stacks' = D
      /\ stacks'[s][e] = Append(list, entry)
      /\ \A t \in D, d \in EventEnum : t # s \/ d # e => stacks'[t][d] = stacks[t][d]
  <2>1. stacks \in [D -> [EventEnum -> Lists]] /\ s \in D BY <1>1 DEF EventsTypeOK
  <2> HIDE DEF entry, n, list, D
  <2> QED BY <2>1, <1>1, <1>7, ListReplaced
<1>9. /\ generators' \in [D -> [EventEnum -> 0 .. MaxIds]] /\ DOMAIN generators' = D
      /\ generators'[s][e] = n
      /\ \A t \in D, d \in EventEnum : t # s \/ d # e => generators'[t][d] = generators[t][d]
  <2>1. generators \in [D -> [EventEnum -> 0 .. MaxIds]] /\ s \in D BY <1>1 DEF EventsTypeOK
  <2> HIDE DEF entry, n, list, D
  <2> QED BY <2>1, <1>1, <1>5, ListReplaced
<1>10. EventsTypeOK' BY <1>1, <1>8, <1>9 DEF EventsTypeOK
<1>11. ListOK(Append(list, entry), n)
  <2>1. ListOK(list, generators[s][e]) BY <1>1 DEF ListsOK
  <2>2. Len(list) + 1 <= n BY <2>1, <1>2, <1>4 DEF ListOK
  <2>3. \A p \in DOMAIN list : list[p] \in Entries BY <1>2, ElementOfSeq DEF Lists
  <2>4. \A p \in DOMAIN list : list[p].id <= generators[s][e] /\ list[p].id \in Nat
    BY <2>1, <2>3 DEF ListOK, Entries
  <2>5. \A p \in DOMAIN list : list[p].id < n BY <2>4, <1>2, <1>4
  <2>6. \A p \in 1 .. Len(list) + 1 : p \in DOMAIN list \/ p = Len(list) + 1 BY <1>2
  <2>7. entry.id = n OBVIOUS
  <2> HIDE DEF list, entry, n
  <2>8. \A p \in DOMAIN Append(list, entry) :
          \/ p \in DOMAIN list /\ Append(list, entry)[p] = list[p] /\ list[p].id < n
          \/ p = Len(list) + 1 /\ Append(list, entry)[p].id = n
    BY <2>5, <2>6, <2>7, <1>7
  <2>9. \A p \in DOMAIN Append(list, entry) : Append(list, entry)[p].id <= n
    BY <2>4, <2>8, <1>5
  <2>10. \A p, q \in DOMAIN Append(list, entry) :
           Append(list, entry)[p].id = Append(list, entry)[q].id => p = q
    <3> SUFFICES ASSUME NEW p \in DOMAIN Append(list, entry), NEW q \in DOMAIN Append(list, entry),
                        Append(list, entry)[p].id = Append(list, entry)[q].id
                 PROVE  p = q
      OBVIOUS
    <3>1. CASE p \in DOMAIN list /\ q \in DOMAIN list BY <3>1, <2>1, <1>7 DEF ListOK
    <3>2. CASE p \in DOMAIN list /\ q = Len(list) + 1 BY <3>2, <2>4, <2>5, <2>7, <1>5, <1>7
    <3>3. CASE q \in DOMAIN list /\ p = Len(list) + 1 BY <3>3, <2>4, <2>5, <2>7, <1>5, <1>7
    <3> QED BY <3>1, <3>2, <3>3, <2>8
  <2> QED BY <2>2, <2>9, <2>10, <1>7 DEF ListOK
<1>12. ListsOK'
  <2> SUFFICES ASSUME NEW t \in D, NEW d \in EventEnum
               PROVE  ListOK(stacks'[t][d], generators'[t][d])
    BY <1>8 DEF ListsOK, ListOK
  <2>1. CASE t = s /\ d = e BY <2>1, <1>8, <1>9, <1>11
  <2>2. CASE t # s \/ d # e BY <2>2, <1>8, <1>9 DEF ListsOK
  <2> QED BY <2>1, <2>2
<1>13. IdsAt(s, e, Append(list, entry)) = IdsAt(s, e, list) \cup {Events!Id(s, e, n, f)}
  <2>1. DOMAIN Append(list, entry) = DOMAIN list \cup {Len(list) + 1} BY <1>2, <1>7
  <2>2. entry.id = n /\ entry.callback = f OBVIOUS
  <2> HIDE DEF list, entry, n
  <2> QED BY <2>1, <2>2, <1>7 DEF IdsAt
<1>14. IdsOK'
  <2> HIDE DEF list, entry, n
  <2>1. ASSUME NEW i \in subscribed'
        PROVE  /\ i.stack \in DOMAIN stacks' /\ i.event \in EventEnum
               /\ i \in IdsAt(i.stack, i.event, stacks'[i.stack][i.event])
    <3>1. CASE i = Events!Id(s, e, n, f)
      <4>1. i.stack = s /\ i.event = e BY <3>1 DEF Events!Id
      <4> QED BY <4>1, <3>1, <1>8, <1>1, <1>13
    <3>2. CASE i \in subscribed
      <4>1. /\ i.stack \in D /\ i.event \in EventEnum
            /\ i \in IdsAt(i.stack, i.event, stacks[i.stack][i.event])
        BY <3>2 DEF IdsOK
      <4>2. CASE i.stack = s /\ i.event = e BY <4>1, <4>2, <1>8, <1>13 DEF list
      <4>3. CASE i.stack # s \/ i.event # e BY <4>1, <4>3, <1>8
      <4> QED BY <4>2, <4>3
    <3> QED BY <2>1, <1>1, <3>1, <3>2
  <2>2. ASSUME NEW t \in DOMAIN stacks', NEW d \in EventEnum
        PROVE  IdsAt(t, d, stacks'[t][d]) \subseteq subscribed'
    <3>1. t \in D BY <1>8
    <3>2. IdsAt(t, d, stacks[t][d]) \subseteq subscribed BY <3>1 DEF IdsOK
    <3>3. CASE t = s /\ d = e BY <3>2, <3>3, <1>1, <1>8, <1>13 DEF list
    <3>4. CASE t # s \/ d # e BY <3>1, <3>2, <3>4, <1>1, <1>8
    <3> QED BY <3>3, <3>4
  <2>3. (IdsOK)' <=> /\ \A i \in subscribed' :
                         /\ i.stack \in DOMAIN stacks' /\ i.event \in EventEnum
                         /\ i \in IdsAt(i.stack, i.event, stacks'[i.stack][i.event])
                     /\ \A t \in DOMAIN stacks', d \in EventEnum :
                          IdsAt(t, d, stacks'[t][d]) \subseteq subscribed'
    BY DEF IdsOK, IdsAt, Events!Id
  <2> QED BY <2>1, <2>2, <2>3
<1>15. WalksOK'
  <2> SUFFICES ASSUME NEW k \in DOMAIN walks
               PROVE  LET t == walks[k].stack
                          d == walks[k].event
                      IN  /\ t \in DOMAIN stacks'
                          /\ stacks'[t][d] \in Lists
                          /\ Len(stacks[t][d]) <= Len(stacks'[t][d])
                          /\ \A p \in DOMAIN stacks[t][d] : stacks'[t][d][p] = stacks[t][d][p]
    BY <1>1, WalksGoOn
  <2> DEFINE t == walks[k].stack  d == walks[k].event
  <2>1. t \in D /\ d \in EventEnum BY <1>1, WalkPlace
  <2>2. Len(stacks[t][d]) \in Nat /\ stacks[t][d] \in Lists BY <2>1, ListTyped
  <2> HIDE DEF t, d, list, entry, n
  <2> DEFINE G == /\ t \in DOMAIN stacks'
                  /\ stacks'[t][d] \in Lists
                  /\ Len(stacks[t][d]) <= Len(stacks'[t][d])
                  /\ \A p \in DOMAIN stacks[t][d] : stacks'[t][d][p] = stacks[t][d][p]
  <2>3. ASSUME t = s, d = e PROVE G BY <2>1, <2>3, <1>2, <1>7, <1>8 DEF list
  <2>4. ASSUME t # s \/ d # e PROVE G BY <2>1, <2>2, <2>4, <1>8
  <2>5. G BY <2>3, <2>4
  <2> QED BY <2>5 DEF t, d
<1> QED BY <1>10, <1>12, <1>14, <1>15

\* Some events of some stacks lose their subscribers, and some of the stacks go.
LEMMA ForgottenKeeps ==
  ASSUME EventsInv, Events!BoundsAssumption,
         NEW D \in SUBSET DOMAIN stacks, NEW G, Channels \subseteq D,
         DOMAIN stacks' = D, DOMAIN generators' = D,
         stacks' \in [D -> [EventEnum -> Lists]],
         generators' \in [D -> [EventEnum -> 0 .. MaxIds]],
         \A t \in D, d \in EventEnum :
           /\ stacks'[t][d] = IF <<t, d>> \in G THEN <<>> ELSE stacks[t][d]
           /\ generators'[t][d] = generators[t][d],
         \A t \in DOMAIN stacks \ D, d \in EventEnum : <<t, d>> \in G,
         subscribed' = {i \in subscribed : <<i.stack, i.event>> \notin G},
         \A k \in DOMAIN walks : <<walks[k].stack, walks[k].event>> \notin G,
         UNCHANGED <<notifierGen, walks>>
  PROVE  EventsInv'
<1> USE DEF EventsInv
<1>1. notifierGen' = notifierGen /\ walks' = walks OBVIOUS
<1>2. EventsTypeOK' BY <1>1 DEF EventsTypeOK
<1>3. ListsOK'
  <2> SUFFICES ASSUME NEW t \in D, NEW d \in EventEnum
               PROVE  ListOK(stacks'[t][d], generators'[t][d])
    BY DEF ListsOK, ListOK
  <2>1. ListOK(stacks[t][d], generators[t][d]) BY DEF ListsOK
  <2>2. generators[t][d] \in 0 .. MaxIds BY ListTyped
  <2>3. Len(<<>>) = 0 /\ DOMAIN <<>> = {} OBVIOUS
  <2>4. ListOK(<<>>, generators[t][d]) BY <2>2, <2>3 DEF ListOK, Events!BoundsAssumption
  <2> QED BY <2>1, <2>4
<1>4. IdsOK'
  <2>1. ASSUME NEW i \in subscribed'
        PROVE  /\ i.stack \in D /\ i.event \in EventEnum
               /\ i \in IdsAt(i.stack, i.event, stacks'[i.stack][i.event])
    <3>1. /\ i.stack \in DOMAIN stacks /\ i.event \in EventEnum
          /\ i \in IdsAt(i.stack, i.event, stacks[i.stack][i.event])
      BY <2>1 DEF IdsOK
    <3>2. <<i.stack, i.event>> \notin G BY <2>1
    <3>3. i.stack \in D BY <3>1, <3>2
    <3>4. stacks'[i.stack][i.event] = stacks[i.stack][i.event] BY <3>1, <3>2, <3>3
    <3> QED BY <3>1, <3>3, <3>4
  <2>2. ASSUME NEW t \in D, NEW d \in EventEnum
        PROVE  IdsAt(t, d, stacks'[t][d]) \subseteq subscribed'
    <3>1. CASE <<t, d>> \in G
      <4>1. stacks'[t][d] = <<>> BY <3>1
      <4> QED BY <4>1 DEF IdsAt
    <3>2. CASE <<t, d>> \notin G
      <4>1. stacks'[t][d] = stacks[t][d] BY <3>2
      <4>2. IdsAt(t, d, stacks[t][d]) \subseteq subscribed BY DEF IdsOK
      <4>3. \A i \in IdsAt(t, d, stacks[t][d]) : i.stack = t /\ i.event = d
        BY DEF IdsAt, Events!Id
      <4>4. \A i \in IdsAt(t, d, stacks[t][d]) : i \in subscribed' BY <3>2, <4>2, <4>3
      <4> QED BY <4>1, <4>4
    <3> QED BY <3>1, <3>2
  <2> QED BY <2>1, <2>2 DEF IdsOK, IdsAt, Events!Id
<1>5. WalksOK'
  <2> SUFFICES ASSUME NEW k \in DOMAIN walks
               PROVE  LET t == walks[k].stack
                          d == walks[k].event
                      IN  /\ t \in DOMAIN stacks'
                          /\ stacks'[t][d] \in Lists
                          /\ Len(stacks[t][d]) <= Len(stacks'[t][d])
                          /\ \A p \in DOMAIN stacks[t][d] : stacks'[t][d][p] = stacks[t][d][p]
    BY <1>1, WalksGoOn
  <2> DEFINE t == walks[k].stack  d == walks[k].event
  <2>1. t \in DOMAIN stacks /\ d \in EventEnum BY WalkPlace
  <2>2. <<t, d>> \notin G OBVIOUS
  <2>3. t \in D BY <2>1, <2>2
  <2>4. stacks'[t][d] = stacks[t][d] BY <2>1, <2>2, <2>3
  <2>5. Len(stacks[t][d]) \in Nat /\ stacks[t][d] \in Lists BY <2>1, ListTyped
  <2> QED BY <2>3, <2>4, <2>5
<1> QED BY <1>2, <1>3, <1>4, <1>5

\* Clearing lists nobody walks takes back the ids of their subscribers.
LEMMA ClearKeeps ==
  ASSUME EventsInv, Events!BoundsAssumption, NEW S \in SUBSET DOMAIN stacks,
         NEW E \in SUBSET EventEnum, Events!Clear(S, E)
  PROVE  EventsInv'
<1> DEFINE D == DOMAIN stacks  G == S \X E
<1>1. /\ ~Events!Walked(S, E)
      /\ stacks' = [s \in D |-> [e \in EventEnum |-> IF s \in S /\ e \in E THEN <<>> ELSE stacks[s][e]]]
      /\ subscribed' = subscribed \ Events!IdsOf(S, E)
      /\ generators' = generators /\ UNCHANGED <<notifierGen, walks>>
  BY DEF Events!Clear
<1>2. EventsTypeOK /\ WalksOK BY DEF EventsInv
<1>3. DOMAIN generators = D /\ generators \in [D -> [EventEnum -> 0 .. MaxIds]]
  BY <1>2 DEF EventsTypeOK
<1>4. \A t \in D, d \in EventEnum : stacks[t][d] \in Lists BY <1>2, ListTyped
<1>5. <<>> \in Lists BY EmptySeq DEF Lists
<1>6. stacks' \in [D -> [EventEnum -> Lists]] BY <1>1, <1>4, <1>5
<1>7. \A t \in D, d \in EventEnum : <<t, d>> \in G <=> t \in S /\ d \in E OBVIOUS
<1>8. \A t \in D, d \in EventEnum :
        stacks'[t][d] = IF <<t, d>> \in G THEN <<>> ELSE stacks[t][d]
  BY <1>1, <1>7
<1>9. subscribed' = {i \in subscribed : <<i.stack, i.event>> \notin G}
  <2>1. \A i \in subscribed : <<i.stack, i.event>> \in G <=> i.stack \in S /\ i.event \in E
    OBVIOUS
  <2> HIDE DEF G
  <2> QED BY <1>1, <2>1 DEF Events!IdsOf
<1>10. \A k \in DOMAIN walks : <<walks[k].stack, walks[k].event>> \notin G
  BY <1>1, <1>2, NotWalked
<1>11. Channels \subseteq D /\ D \in SUBSET DOMAIN stacks BY <1>2 DEF EventsTypeOK
<1>12. DOMAIN stacks' = D BY <1>1
<1>13. /\ \A t \in D, d \in EventEnum :
            /\ stacks'[t][d] = IF <<t, d>> \in G THEN <<>> ELSE stacks[t][d]
            /\ generators'[t][d] = generators[t][d]
       /\ \A t \in DOMAIN stacks \ D, d \in EventEnum : <<t, d>> \in G
  BY <1>1, <1>8
<1>14. DOMAIN generators' = D /\ generators' \in [D -> [EventEnum -> 0 .. MaxIds]]
  BY <1>1, <1>3
<1> HIDE DEF D, G
<1> QED BY <1>1, <1>6, <1>9, <1>10, <1>11, <1>12, <1>13, <1>14, ForgottenKeeps

\* A notifier leaves with its lists and their ids.
LEMMA RemoveNotifierKeeps ==
  ASSUME EventsInv, Events!BoundsAssumption, NEW s \in Events!Notifiers, Events!RemoveNotifier(s)
  PROVE  EventsInv'
<1> DEFINE D == DOMAIN stacks \ {s}  G == {s} \X EventEnum
<1>1. /\ ~Events!Walked({s}, EventEnum)
      /\ stacks' = [t \in D |-> stacks[t]]
      /\ generators' = [t \in D |-> generators[t]]
      /\ subscribed' = subscribed \ Events!IdsOf({s}, EventEnum)
      /\ UNCHANGED <<notifierGen, walks>>
  BY DEF Events!RemoveNotifier
<1>2. EventsTypeOK /\ WalksOK /\ IdsOK BY DEF EventsInv
<1>3. /\ generators \in [DOMAIN stacks -> [EventEnum -> 0 .. MaxIds]]
      /\ stacks \in [DOMAIN stacks -> [EventEnum -> Lists]]
  BY <1>2 DEF EventsTypeOK
<1>4. /\ stacks' \in [D -> [EventEnum -> Lists]] /\ DOMAIN stacks' = D
      /\ generators' \in [D -> [EventEnum -> 0 .. MaxIds]] /\ DOMAIN generators' = D
  BY <1>1, <1>3
<1>5. \A t, d : <<t, d>> \in G <=> t = s /\ d \in EventEnum OBVIOUS
<1>6. Channels \subseteq D /\ D \in SUBSET DOMAIN stacks
  BY <1>2 DEF EventsTypeOK, Events!Notifiers
<1>7. subscribed' = {i \in subscribed : <<i.stack, i.event>> \notin G}
  <2> HIDE DEF G
  <2> QED BY <1>1, <1>5 DEF Events!IdsOf
<1>8. \A k \in DOMAIN walks : <<walks[k].stack, walks[k].event>> \notin G
  <2> HIDE DEF G
  <2> QED BY <1>1, <1>2, <1>5, NotWalked
<1>9. /\ \A t \in D, d \in EventEnum :
           /\ stacks'[t][d] = IF <<t, d>> \in G THEN <<>> ELSE stacks[t][d]
           /\ generators'[t][d] = generators[t][d]
      /\ \A t \in DOMAIN stacks \ D, d \in EventEnum : <<t, d>> \in G
  <2> HIDE DEF G
  <2> QED BY <1>1, <1>5
<1> HIDE DEF D, G
<1> QED BY <1>1, <1>4, <1>6, <1>7, <1>8, <1>9, ForgottenKeeps

\* Without notifiers only the channels are left, and no ids.
LEMMA RemoveAllKeeps ==
  ASSUME EventsInv, Events!BoundsAssumption, Events!RemoveAll
  PROVE  EventsInv'
<1> DEFINE D == DOMAIN stacks  G == D \X EventEnum
<1>1. /\ ~Events!Walked(DOMAIN stacks, EventEnum)
      /\ stacks' = [c \in Channels |-> Events!Nothing]
      /\ generators' = [c \in Channels |-> generators[c]]
      /\ subscribed' = {} /\ UNCHANGED <<notifierGen, walks>>
  BY DEF Events!RemoveAll
<1>2. EventsTypeOK /\ WalksOK /\ IdsOK BY DEF EventsInv
<1>3. Channels \in SUBSET DOMAIN stacks BY <1>2 DEF EventsTypeOK
<1>4. <<>> \in Lists BY EmptySeq DEF Lists
<1>5. Events!Nothing \in [EventEnum -> Lists] BY <1>4 DEF Events!Nothing
<1>6. stacks' \in [Channels -> [EventEnum -> Lists]] /\ DOMAIN stacks' = Channels
  BY <1>1, <1>5
<1>7. generators' \in [Channels -> [EventEnum -> 0 .. MaxIds]] /\ DOMAIN generators' = Channels
  BY <1>1, <1>2, <1>3 DEF EventsTypeOK
<1>8. \A t, d : <<t, d>> \in G <=> t \in DOMAIN stacks /\ d \in EventEnum
  <2>1. \A t, d : <<t, d>> \in G <=> t \in D /\ d \in EventEnum
    <3> HIDE DEF D
    <3> QED OBVIOUS
  <2> QED BY <2>1
<1>9. subscribed' = {i \in subscribed : <<i.stack, i.event>> \notin G}
  <2> HIDE DEF G
  <2> QED BY <1>1, <1>2, <1>8 DEF IdsOK
<1>10. \A k \in DOMAIN walks : <<walks[k].stack, walks[k].event>> \notin G
  BY <1>1, <1>2, NotWalked
<1>11. /\ \A t \in Channels, d \in EventEnum :
            /\ stacks'[t][d] = IF <<t, d>> \in G THEN <<>> ELSE stacks[t][d]
            /\ generators'[t][d] = generators[t][d]
       /\ \A t \in DOMAIN stacks \ Channels, d \in EventEnum : <<t, d>> \in G
  <2> HIDE DEF G
  <2> QED BY <1>1, <1>3, <1>8 DEF Events!Nothing
<1> HIDE DEF G
<1> QED BY <1>1, <1>3, <1>6, <1>7, <1>9, <1>10, <1>11, ForgottenKeeps

\* id_slotmap::erase leaves the subscribers but one, each once.
LEMMA EraseOne ==
  ASSUME NEW list \in Lists, NEW place \in DOMAIN list, NEW last \in Nat, ListOK(list, last)
  PROVE  LET after == Events!Front([list EXCEPT ![place] = Events!Last(list)])
         IN  /\ after \in Lists
             /\ ListOK(after, last)
             /\ \A p \in DOMAIN after : \E q \in DOMAIN list : q # place /\ after[p] = list[q]
             /\ \A q \in DOMAIN list : q # place => \E p \in DOMAIN after : after[p] = list[q]
<1> DEFINE n == Len(list)
           moved == [list EXCEPT ![place] = Events!Last(list)]
           after == Events!Front(moved)
<1>1. n \in Nat /\ DOMAIN list = 1 .. n /\ list \in [1 .. n -> Entries]
  BY LenProperties DEF Lists
<1>2. n \in 1 .. n /\ place \in 1 .. n /\ n - 1 \in Nat BY <1>1
<1>3. Events!Last(list) = list[n] /\ list[n] \in Entries BY <1>1, <1>2 DEF Events!Last
<1>4. moved \in [1 .. n -> Entries] /\ moved \in Seq(Entries) /\ Len(moved) = n
  <2>1. moved \in [1 .. n -> Entries] BY <1>1, <1>2, <1>3
  <2> HIDE DEF moved
  <2> QED BY <2>1, <1>1, IsASeq, LenProperties
<1>5. \A p \in 1 .. n : moved[p] = IF p = place THEN list[n] ELSE list[p]
  BY <1>1, <1>3
<1> HIDE DEF moved, n
<1>6. after = [p \in 1 .. n - 1 |-> moved[p]]
  BY <1>1, <1>2, <1>4 DEF Events!Front
<1>7. \A p \in 1 .. n - 1 : p \in 1 .. n /\ p # n /\ moved[p] \in Entries BY <1>1, <1>4
<1>8. after \in Seq(Entries) /\ Len(after) = n - 1 /\ DOMAIN after = 1 .. n - 1
  <2>1. after \in [1 .. n - 1 -> Entries] BY <1>6, <1>7
  <2>2. after \in Seq(Entries) BY <2>1, <1>2, IsASeq
  <2>3. DOMAIN after = 1 .. n - 1 BY <1>6
  <2> HIDE DEF after
  <2> QED BY <2>2, <2>3, <1>2, LenProperties
<1>9. \A p \in 1 .. n - 1 : after[p] = IF p = place THEN list[n] ELSE list[p]
  BY <1>5, <1>6, <1>7
<1> DEFINE from(p) == IF p = place THEN n ELSE p
<1>10. \A p \in 1 .. n - 1 : /\ from(p) \in 1 .. n /\ from(p) # place
                             /\ after[p] = list[from(p)]
  BY <1>2, <1>7, <1>9
<1>11. \A p, q \in 1 .. n - 1 : from(p) = from(q) => p = q BY <1>7
<1> HIDE DEF after, from
<1>12. ListOK(after, last)
  <2>1. n - 1 <= last BY <1>1 DEF ListOK, n
  <2>2. \A p \in 1 .. n - 1 : after[p].id <= last BY <1>1, <1>10 DEF ListOK
  <2>3. \A p, q \in 1 .. n - 1 : after[p].id = after[q].id => p = q
    <3> SUFFICES ASSUME NEW p \in 1 .. n - 1, NEW q \in 1 .. n - 1, after[p].id = after[q].id
                 PROVE  p = q
      OBVIOUS
    <3>1. list[from(p)].id = list[from(q)].id BY <1>10
    <3>2. from(p) = from(q) BY <3>1, <1>1, <1>10 DEF ListOK
    <3> QED BY <3>2, <1>11
  <2> QED BY <2>1, <2>2, <2>3, <1>8 DEF ListOK
<1>13. \A p \in DOMAIN after : \E q \in DOMAIN list : q # place /\ after[p] = list[q]
  BY <1>1, <1>8, <1>10
<1>14. ASSUME NEW q \in DOMAIN list, q # place PROVE \E p \in DOMAIN after : after[p] = list[q]
  <2>1. CASE q = n
    <3>1. place \in 1 .. n - 1 BY <2>1, <1>14, <1>1, <1>2
    <3>2. after[place] = list[n] BY <3>1, <1>9
    <3> QED BY <3>1, <3>2, <2>1, <1>8
  <2>2. CASE q # n
    <3>1. q \in 1 .. n - 1 BY <2>2, <1>1
    <3>2. after[q] = list[q] BY <3>1, <1>9, <1>14
    <3> QED BY <3>1, <3>2, <1>8
  <2> QED BY <2>1, <2>2
<1> QED BY <1>8, <1>12, <1>13, <1>14 DEF after, moved, Lists

\* unsubscribe takes the entries of an id from a list nobody walks.
LEMMA UnsubscribeKeeps ==
  ASSUME EventsInv, Events!BoundsAssumption, NEW s, NEW e \in EventEnum, NEW n \in 1 .. MaxIds,
         Events!Unsubscribe(s, e, n)
  PROVE  EventsInv'
<1> USE DEF EventsInv
<1> DEFINE D == DOMAIN stacks
           kept == {i \in subscribed : <<i.stack, i.event, i.id>> # <<s, e, n>>}
<1>1. ~Events!Walked({s}, {e}) /\ UNCHANGED <<generators, notifierGen, walks>> /\ subscribed' = kept
  BY DEF Events!Unsubscribe
<1>2. kept = {i \in subscribed : i.stack # s \/ i.event # e \/ i.id # n} OBVIOUS
<1>3. CASE Events!Found(s, e, n) = {}
  <2>1. stacks' = stacks BY <1>3 DEF Events!Unsubscribe
  <2>2. ASSUME NEW i \in subscribed, i.stack = s, i.event = e, i.id = n PROVE FALSE
    <3>1. s \in D /\ i \in IdsAt(s, e, stacks[s][e]) BY <2>2 DEF IdsOK
    <3>2. PICK p \in DOMAIN stacks[s][e] : i = Events!Id(s, e, stacks[s][e][p].id, stacks[s][e][p].callback)
      BY <3>1 DEF IdsAt
    <3>3. stacks[s][e][p].id = n BY <3>2, <2>2 DEF Events!Id
    <3>4. p \in 1 .. MaxIds BY <3>1, ListPlaces
    <3>5. p \in Events!Found(s, e, n) BY <3>1, <3>2, <3>3, <3>4 DEF Events!Found
    <3> QED BY <3>5, <1>3
  <2>3. kept = subscribed BY <1>2, <2>2
  <2>4. subscribed' = subscribed /\ UNCHANGED <<stacks, generators, notifierGen, walks>>
    BY <1>1, <2>1, <2>3
  <2> QED BY <2>4 DEF EventsTypeOK, ListsOK, ListOK, IdsOK, IdsAt, Events!Id, WalksOK, WalkOK
<1>4. CASE Events!Found(s, e, n) # {}
  <2> DEFINE list == stacks[s][e]
             place == CHOOSE p \in Events!Found(s, e, n) : TRUE
             after == Events!Front([list EXCEPT ![place] = Events!Last(list)])
  <2>1. stacks' = [stacks EXCEPT ![s][e] = after] BY <1>4 DEF Events!Unsubscribe
  <2>2. place \in Events!Found(s, e, n) BY <1>4
  <2>3. s \in D /\ place \in DOMAIN list /\ list[place].id = n BY <2>2 DEF Events!Found
  <2>4. list \in Lists /\ generators[s][e] \in Nat BY <2>3, ListTyped
  <2>5. ListOK(list, generators[s][e]) BY <2>3 DEF ListsOK
  <2> HIDE DEF place
  <2>6. /\ after \in Lists
        /\ ListOK(after, generators[s][e])
        /\ \A p \in DOMAIN after : \E q \in DOMAIN list : q # place /\ after[p] = list[q]
        /\ \A q \in DOMAIN list : q # place => \E p \in DOMAIN after : after[p] = list[q]
    <3> HIDE DEF list
    <3> QED BY <2>3, <2>4, <2>5, EraseOne
  <2>7. \A q \in DOMAIN list : q # place => list[q].id # n BY <2>3, <2>5 DEF ListOK
  <2>8. IdsAt(s, e, after) = {i \in IdsAt(s, e, list) : i.id # n}
    <3> HIDE DEF list, after
    <3>1. ASSUME NEW i \in IdsAt(s, e, after) PROVE i \in IdsAt(s, e, list) /\ i.id # n
      <4>1. PICK p \in DOMAIN after : i = Events!Id(s, e, after[p].id, after[p].callback)
        BY <3>1 DEF IdsAt
      <4>2. PICK q \in DOMAIN list : q # place /\ after[p] = list[q] BY <2>6
      <4>3. i.id = list[q].id BY <4>1, <4>2 DEF Events!Id
      <4> QED BY <4>1, <4>2, <4>3, <2>7 DEF IdsAt
    <3>2. ASSUME NEW i \in IdsAt(s, e, list), i.id # n PROVE i \in IdsAt(s, e, after)
      <4>1. PICK q \in DOMAIN list : i = Events!Id(s, e, list[q].id, list[q].callback)
        BY <3>2 DEF IdsAt
      <4>2. q # place BY <4>1, <3>2, <2>3 DEF Events!Id
      <4>3. PICK p \in DOMAIN after : after[p] = list[q] BY <4>2, <2>6
      <4> QED BY <4>1, <4>3 DEF IdsAt
    <3> QED BY <3>1, <3>2
  <2>9. /\ stacks' \in [D -> [EventEnum -> Lists]] /\ DOMAIN stacks' = D
        /\ stacks'[s][e] = after
        /\ \A t \in D, d \in EventEnum : t # s \/ d # e => stacks'[t][d] = stacks[t][d]
    <3>1. stacks \in [D -> [EventEnum -> Lists]] BY DEF EventsTypeOK
    <3> HIDE DEF after, list, D
    <3> QED BY <3>1, <2>1, <2>3, <2>6, ListReplaced
  <2> HIDE DEF after, kept
  <2>10. EventsTypeOK' BY <1>1, <2>9 DEF EventsTypeOK
  <2>11. ListsOK'
    <3> SUFFICES ASSUME NEW t \in D, NEW d \in EventEnum
                 PROVE  ListOK(stacks'[t][d], generators[t][d])
      BY <1>1, <2>9 DEF ListsOK, ListOK
    <3>1. CASE t = s /\ d = e BY <3>1, <2>6, <2>9
    <3>2. CASE t # s \/ d # e BY <3>2, <2>9 DEF ListsOK
    <3> QED BY <3>1, <3>2
  <2>12. IdsOK'
    <3>1. ASSUME NEW i \in subscribed'
          PROVE  /\ i.stack \in D /\ i.event \in EventEnum
                 /\ i \in IdsAt(i.stack, i.event, stacks'[i.stack][i.event])
      <4>1. i \in subscribed /\ (i.stack # s \/ i.event # e \/ i.id # n) BY <1>1, <1>2, <3>1
      <4>2. /\ i.stack \in D /\ i.event \in EventEnum
            /\ i \in IdsAt(i.stack, i.event, stacks[i.stack][i.event])
        BY <4>1 DEF IdsOK
      <4>3. CASE i.stack = s /\ i.event = e BY <4>1, <4>2, <4>3, <2>8, <2>9
      <4>4. CASE i.stack # s \/ i.event # e BY <4>2, <4>4, <2>9
      <4> QED BY <4>2, <4>3, <4>4
    <3>2. ASSUME NEW t \in D, NEW d \in EventEnum, NEW i \in IdsAt(t, d, stacks'[t][d])
          PROVE  i \in subscribed'
      <4>1. IdsAt(t, d, stacks[t][d]) \subseteq subscribed BY DEF IdsOK
      <4>2. i.stack = t /\ i.event = d BY <3>2 DEF IdsAt, Events!Id
      <4>3. CASE t = s /\ d = e
        <5>1. i \in IdsAt(s, e, list) /\ i.id # n BY <4>3, <3>2, <2>8, <2>9
        <5> QED BY <5>1, <4>1, <4>3, <1>1, <1>2
      <4>4. CASE t # s \/ d # e BY <4>1, <4>2, <4>4, <3>2, <2>9, <1>1, <1>2
      <4> QED BY <4>3, <4>4
    <3> QED BY <3>1, <3>2, <2>9 DEF IdsOK, IdsAt, Events!Id
  <2>13. WalksOK'
    <3> SUFFICES ASSUME NEW k \in DOMAIN walks
                 PROVE  LET t == walks[k].stack
                            d == walks[k].event
                        IN  /\ t \in DOMAIN stacks'
                            /\ stacks'[t][d] \in Lists
                            /\ Len(stacks[t][d]) <= Len(stacks'[t][d])
                            /\ \A p \in DOMAIN stacks[t][d] : stacks'[t][d][p] = stacks[t][d][p]
      BY <1>1, WalksGoOn
    <3> DEFINE t == walks[k].stack  d == walks[k].event
    <3>1. t \in D /\ d \in EventEnum /\ (t # s \/ d # e) BY <1>1, WalkPlace, NotWalked
    <3>2. stacks'[t][d] = stacks[t][d] BY <3>1, <2>9
    <3>3. Len(stacks[t][d]) \in Nat /\ stacks[t][d] \in Lists BY <3>1, ListTyped
    <3> QED BY <3>1, <3>2, <3>3, <2>9
  <2> QED BY <2>10, <2>11, <2>12, <2>13
<1> QED BY <1>3, <1>4

\* A new notifier has a number no stack had, and empty lists.
LEMMA AddNotifierKeeps ==
  ASSUME EventsInv, Events!BoundsAssumption, Events!ChannelsAssumption, Events!AddNotifier
  PROVE  EventsInv'
<1> USE DEF EventsInv
<1> DEFINE D == DOMAIN stacks  m == notifierGen + 1
<1>1. /\ notifierGen < MaxNotifiers /\ notifierGen' = m
      /\ stacks' = [s \in D \cup {m} |-> IF s = m THEN Events!Nothing ELSE stacks[s]]
      /\ generators' = [s \in DOMAIN stacks' |-> IF s = m THEN Events!Unused ELSE generators[s]]
      /\ walks' = walks /\ subscribed' = subscribed
  BY DEF Events!AddNotifier
<1>2. m \in 1 .. MaxNotifiers /\ notifierGen \in Nat
  BY <1>1 DEF EventsTypeOK, Events!BoundsAssumption
<1>3. m \notin D BY <1>2 DEF EventsTypeOK, Events!ChannelsAssumption
<1>4. Events!Nothing \in [EventEnum -> Lists] /\ \A d \in EventEnum : Events!Nothing[d] = <<>>
  <2>1. <<>> \in Lists BY EmptySeq DEF Lists
  <2> QED BY <2>1 DEF Events!Nothing
<1>5. Events!Unused \in [EventEnum -> 0 .. MaxIds] /\ \A d \in EventEnum : Events!Unused[d] = 0
  <2>1. 0 \in 0 .. MaxIds BY DEF Events!BoundsAssumption
  <2> QED BY <2>1 DEF Events!Unused
<1>6. /\ stacks \in [D -> [EventEnum -> Lists]]
      /\ generators \in [D -> [EventEnum -> 0 .. MaxIds]]
  BY DEF EventsTypeOK
<1> HIDE DEF D, m
<1>7. /\ stacks' \in [D \cup {m} -> [EventEnum -> Lists]] /\ DOMAIN stacks' = D \cup {m}
      /\ \A t \in D : stacks'[t] = stacks[t]
      /\ stacks'[m] = Events!Nothing
  BY <1>1, <1>3, <1>4, <1>6
<1>8. /\ generators' \in [D \cup {m} -> [EventEnum -> 0 .. MaxIds]]
      /\ DOMAIN generators' = D \cup {m}
      /\ \A t \in D : generators'[t] = generators[t]
      /\ generators'[m] = Events!Unused
  BY <1>1, <1>3, <1>5, <1>6, <1>7
<1>9. EventsTypeOK'
  <2>1. Channels \subseteq D \cup {m} BY DEF EventsTypeOK, D
  <2>2. D \cup {m} \subseteq Channels \cup 1 .. m
    BY <1>2 DEF EventsTypeOK, D, m
  <2> QED BY <1>1, <1>2, <1>7, <1>8, <2>1, <2>2, Events!BoundsAssumption DEF EventsTypeOK, Events!BoundsAssumption
<1>10. ListsOK'
  <2> SUFFICES ASSUME NEW t \in D \cup {m}, NEW d \in EventEnum
               PROVE  ListOK(stacks'[t][d], generators'[t][d])
    BY <1>7 DEF ListsOK, ListOK
  <2>1. CASE t \in D BY <2>1, <1>7, <1>8 DEF ListsOK, D
  <2>2. CASE t = m
    <3>1. stacks'[t][d] = <<>> /\ generators'[t][d] = 0 BY <2>2, <1>4, <1>5, <1>7, <1>8
    <3>2. Len(<<>>) = 0 /\ DOMAIN <<>> = {} OBVIOUS
    <3> QED BY <3>1, <3>2 DEF ListOK
  <2> QED BY <2>1, <2>2
<1>11. IdsOK'
  <2>1. ASSUME NEW i \in subscribed
        PROVE  /\ i.stack \in D \cup {m} /\ i.event \in EventEnum
               /\ i \in IdsAt(i.stack, i.event, stacks'[i.stack][i.event])
    BY <1>7 DEF IdsOK, D
  <2>2. ASSUME NEW t \in D \cup {m}, NEW d \in EventEnum
        PROVE  IdsAt(t, d, stacks'[t][d]) \subseteq subscribed
    <3>1. CASE t \in D BY <3>1, <1>7 DEF IdsOK, D
    <3>2. CASE t = m
      <4>1. stacks'[t][d] = <<>> BY <3>2, <1>4, <1>7
      <4> QED BY <4>1 DEF IdsAt
    <3> QED BY <3>1, <3>2
  <2>3. (IdsOK)' <=> /\ \A i \in subscribed' :
                         /\ i.stack \in DOMAIN stacks' /\ i.event \in EventEnum
                         /\ i \in IdsAt(i.stack, i.event, stacks'[i.stack][i.event])
                     /\ \A t \in DOMAIN stacks', d \in EventEnum :
                          IdsAt(t, d, stacks'[t][d]) \subseteq subscribed'
    BY DEF IdsOK, IdsAt, Events!Id
  <2> QED BY <2>1, <2>2, <2>3, <1>1, <1>7
<1>12. WalksOK'
  <2> SUFFICES ASSUME NEW k \in DOMAIN walks
               PROVE  LET t == walks[k].stack
                          d == walks[k].event
                      IN  /\ t \in DOMAIN stacks'
                          /\ stacks'[t][d] \in Lists
                          /\ Len(stacks[t][d]) <= Len(stacks'[t][d])
                          /\ \A p \in DOMAIN stacks[t][d] : stacks'[t][d][p] = stacks[t][d][p]
    BY <1>1, WalksGoOn
  <2> DEFINE t == walks[k].stack  d == walks[k].event
  <2>1. t \in D /\ d \in EventEnum BY WalkPlace DEF D
  <2>2. stacks'[t][d] = stacks[t][d] BY <2>1, <1>7
  <2>3. Len(stacks[t][d]) \in Nat /\ stacks[t][d] \in Lists BY <2>1, ListTyped DEF D
  <2> QED BY <2>1, <2>2, <2>3, <1>7
<1> QED BY <1>9, <1>10, <1>11, <1>12

\* The triggers that run change, not the subscribers.
LEMMA WalkingKeeps ==
  ASSUME EventsInv, walks' \in Seq(Walks), \A k \in DOMAIN walks' : WalkOK(walks'[k]),
         UNCHANGED <<stacks, generators, notifierGen, subscribed>>
  PROVE  EventsInv'
<1>1. EventsTypeOK' /\ ListsOK' /\ IdsOK'
  BY DEF EventsInv, EventsTypeOK, ListsOK, ListOK, IdsOK, IdsAt, Events!Id
<1>2. WalksOK' BY DEF WalksOK, WalkOK
<1> QED BY <1>1, <1>2 DEF EventsInv

\* A trigger begins a walk of what is subscribed, with nobody called.
LEMMA TriggerKeeps ==
  ASSUME EventsInv, Events!BoundsAssumption, NEW s, NEW e \in EventEnum, Events!Trigger(s, e)
  PROVE  EventsInv'
<1> USE DEF EventsInv
<1> DEFINE new == [stack |-> s, event |-> e, at |-> 0, end |-> Len(stacks[s][e]),
                   due |-> stacks[s][e], called |-> <<>>]
<1>1. /\ s \in DOMAIN stacks /\ walks' = Append(walks, new)
      /\ UNCHANGED <<stacks, generators, notifierGen, subscribed>>
  BY DEF Events!Trigger
<1>2. stacks[s][e] \in Lists /\ Len(stacks[s][e]) \in Nat BY <1>1, ListTyped
<1>3. <<>> \in Lists /\ Len(<<>>) = 0 BY EmptySeq DEF Lists
<1>4. s \in Stacks BY <1>1 DEF EventsTypeOK, Stacks, Events!BoundsAssumption
<1>5. new \in Walks BY <1>2, <1>3, <1>4 DEF Walks
<1>6. WalkOK(new) BY <1>1, <1>2, <1>3 DEF WalkOK
<1> HIDE DEF new
<1>7. walks \in Seq(Walks) BY DEF EventsTypeOK
<1>8. /\ walks' \in Seq(Walks) /\ DOMAIN walks' = 1 .. Len(walks) + 1
      /\ DOMAIN walks = 1 .. Len(walks) /\ Len(walks) \in Nat
      /\ \A k \in 1 .. Len(walks) : walks'[k] = walks[k]
      /\ walks'[Len(walks) + 1] = new
  BY <1>1, <1>5, <1>7, AppendProperties, LenProperties
<1>9. \A k \in DOMAIN walks' : WalkOK(walks'[k])
  <2>1. \A k \in DOMAIN walks' : k \in DOMAIN walks \/ k = Len(walks) + 1 BY <1>8
  <2> QED BY <2>1, <1>6, <1>8 DEF WalksOK
<1> QED BY <1>1, <1>8, <1>9, WalkingKeeps

\* The walks around the innermost one, and the innermost one.
LEMMA FrontOfWalks ==
  ASSUME EventsInv, walks # <<>>
  PROVE  /\ Events!Front(walks) \in Seq(Walks) /\ Len(walks) \in Nat
         /\ Len(Events!Front(walks)) = Len(walks) - 1
         /\ DOMAIN Events!Front(walks) = 1 .. Len(walks) - 1
         /\ \A k \in DOMAIN Events!Front(walks) : WalkOK(Events!Front(walks)[k])
         /\ Len(walks) \in DOMAIN walks /\ Events!Walk = walks[Len(walks)]
<1>1. walks \in Seq(Walks) /\ DOMAIN walks = 1 .. Len(walks) /\ Len(walks) \in Nat
  BY LenProperties DEF EventsInv, EventsTypeOK
<1>2. Len(walks) > 0 BY <1>1, EmptySeq
<1>3. /\ Events!Front(walks) \in Seq(Walks) /\ Len(Events!Front(walks)) = Len(walks) - 1
      /\ \A k \in 1 .. Len(walks) - 1 : Events!Front(walks)[k] = walks[k]
  BY <1>1, <1>2, SubSeqProperties DEF Events!Front
<1>4. DOMAIN Events!Front(walks) = 1 .. Len(walks) - 1 BY <1>3, LenProperties
<1>5. \A k \in 1 .. Len(walks) - 1 : k \in DOMAIN walks BY <1>1
<1> QED BY <1>1, <1>2, <1>3, <1>4, <1>5 DEF EventsInv, WalksOK, Events!Walk, Events!Last

\* The next one called is the next one that was due: the list walked still
\* begins with those.
LEMMA CallNextKeeps ==
  ASSUME EventsInv, Events!BoundsAssumption, Events!CallNext
  PROVE  EventsInv'
<1> USE DEF EventsInv
<1> DEFINE w == walks[Len(walks)]
           list == stacks[w.stack][w.event]
           next == [w EXCEPT !.at = @ + 1, !.called = Append(@, list[w.at + 1])]
<1>1. /\ walks # <<>> /\ w.at # w.end /\ walks' = Append(Events!Front(walks), next)
      /\ UNCHANGED <<stacks, generators, notifierGen, subscribed>>
      /\ Len(walks) \in DOMAIN walks
  BY FrontOfWalks DEF Events!CallNext, Events!Ended, Events!Walk, Events!WalkedList
<1>2. w \in Walks /\ WalkOK(w) /\ w.stack \in DOMAIN stacks /\ w.event \in EventEnum
  BY <1>1, WalkPlace
<1>3. /\ list \in Lists /\ Len(list) \in Nat /\ DOMAIN list = 1 .. Len(list)
      /\ \A p \in DOMAIN list : list[p] \in Entries
  BY <1>2, ListTyped
<1> HIDE DEF w
<1>4. w.at \in Nat /\ w.end \in Nat /\ w.called \in Seq(Entries) /\ w.due \in Lists
  BY <1>2 DEF Walks, Lists
<1>5. w.at + 1 \in 1 .. w.end /\ w.end <= Len(list) BY <1>1, <1>2, <1>4 DEF WalkOK
<1>6. list[w.at + 1] \in Entries /\ list[w.at + 1] = w.due[w.at + 1]
  BY <1>2, <1>3, <1>4, <1>5 DEF WalkOK
<1> DEFINE c == Append(w.called, list[w.at + 1])
<1>7. /\ c \in Seq(Entries) /\ Len(c) = w.at + 1
      /\ \A p \in 1 .. w.at : c[p] = w.called[p]
      /\ c[w.at + 1] = list[w.at + 1]
  BY <1>2, <1>4, <1>6, AppendProperties DEF WalkOK
<1>8. /\ next.stack = w.stack /\ next.event = w.event /\ next.end = w.end
      /\ next.due = w.due /\ next.at = w.at + 1 /\ next.called = c
      /\ next \in Walks
  <2>1. c \in Lists BY <1>7 DEF Lists
  <2> HIDE DEF c, list
  <2>2. next = [w EXCEPT !.at = w.at + 1, !.called = c] BY DEF c, list, Walks
  <2> HIDE DEF next
  <2>3. w = [stack |-> w.stack, event |-> w.event, at |-> w.at, end |-> w.end,
             due |-> w.due, called |-> w.called]
        /\ w.stack \in Stacks /\ w.event \in EventEnum
    BY <1>2 DEF Walks
  <2>4. next = [stack |-> w.stack, event |-> w.event, at |-> w.at + 1, end |-> w.end,
                due |-> w.due, called |-> c]
    BY <2>2, <2>3
  <2>5. w.at + 1 \in Nat BY <1>4
  <2>6. next \in Walks BY <2>1, <2>3, <2>4, <2>5, <1>4 DEF Walks
  <2> QED BY <2>4, <2>6
<1>9. WalkOK(next)
  <2> HIDE DEF next, c, list
  <2>1. \A p \in 1 .. w.at + 1 : p \in 1 .. w.at \/ p = w.at + 1 BY <1>4
  <2>2. \A p \in 1 .. w.at + 1 : c[p] = w.due[p]
    BY <2>1, <1>2, <1>6, <1>7 DEF WalkOK
  <2>3. w.at + 1 <= w.end BY <1>4, <1>5
  <2> QED BY <2>2, <2>3, <1>2, <1>7, <1>8 DEF WalkOK
<1> HIDE DEF next
<1> DEFINE F == Events!Front(walks)
<1>10. /\ F \in Seq(Walks) /\ Len(F) = Len(walks) - 1 /\ Len(walks) \in Nat
       /\ DOMAIN F = 1 .. Len(walks) - 1
       /\ \A k \in DOMAIN F : WalkOK(F[k])
  BY <1>1, FrontOfWalks
<1> HIDE DEF F
<1>11. /\ walks' \in Seq(Walks) /\ DOMAIN walks' = 1 .. Len(walks)
       /\ \A k \in 1 .. Len(walks) - 1 : walks'[k] = F[k]
       /\ walks'[Len(walks)] = next
  <2>1. walks' = Append(F, next) BY <1>1 DEF F
  <2>2. /\ Append(F, next) \in Seq(Walks) /\ Len(Append(F, next)) = Len(F) + 1
        /\ DOMAIN Append(F, next) = 1 .. Len(F) + 1
        /\ \A k \in 1 .. Len(F) : Append(F, next)[k] = F[k]
        /\ Append(F, next)[Len(F) + 1] = next
    BY <1>8, <1>10, AppendProperties, LenProperties
  <2>3. Len(F) + 1 = Len(walks) BY <1>10
  <2> QED BY <2>1, <2>2, <2>3, <1>10
<1>12. \A k \in DOMAIN walks' : WalkOK(walks'[k])
  <2>1. \A k \in DOMAIN walks' : k \in DOMAIN F \/ k = Len(walks) BY <1>10, <1>11
  <2> QED BY <2>1, <1>9, <1>10, <1>11
<1> QED BY <1>1, <1>11, <1>12, WalkingKeeps

\* A walk ends.
LEMMA ReturnKeeps ==
  ASSUME EventsInv, Events!Return
  PROVE  EventsInv'
<1>1. walks # <<>> /\ walks' = Events!Front(walks)
      /\ UNCHANGED <<stacks, generators, notifierGen, subscribed>>
  BY DEF Events!Return
<1> QED BY <1>1, FrontOfWalks, WalkingKeeps

\* Every step of the event system keeps its invariant.
LEMMA EventsStep ==
  ASSUME EventsInv, Events!BoundsAssumption, Events!ChannelsAssumption, [Events!Next]_eVars
  PROVE  EventsInv'
<1>1. ASSUME NEW s \in DOMAIN stacks, NEW e \in EventEnum, Events!Trigger(s, e) PROVE EventsInv'
  BY <1>1, TriggerKeeps
<1>2. ASSUME NEW s \in DOMAIN stacks, NEW e \in EventEnum, NEW f \in Subscribers,
             Events!Subscribe(s, e, f)
      PROVE  EventsInv'
  BY <1>2, SubscribeKeeps
<1>3. ASSUME NEW s, NEW e \in EventEnum, NEW n \in 1 .. MaxIds, Events!Unsubscribe(s, e, n)
      PROVE  EventsInv'
  BY <1>3, UnsubscribeKeeps
<1>4. ASSUME NEW S \in SUBSET DOMAIN stacks, NEW E \in SUBSET EventEnum, Events!Clear(S, E)
      PROVE  EventsInv'
  BY <1>4, ClearKeeps
<1>5. ASSUME NEW s \in DOMAIN stacks, NEW e \in EventEnum, Events!Clear({s}, {e}) PROVE EventsInv'
  BY <1>4, <1>5
<1>6. ASSUME NEW e \in EventEnum, Events!Clear(DOMAIN stacks, {e}) PROVE EventsInv'
  BY <1>4, <1>6
<1>7. ASSUME NEW s \in DOMAIN stacks, Events!Clear({s}, EventEnum) PROVE EventsInv'
  BY <1>4, <1>7
<1>8. ASSUME Events!Clear(DOMAIN stacks, EventEnum) PROVE EventsInv'
  BY <1>4, <1>8
<1>9. CASE Events!AddNotifier BY <1>9, AddNotifierKeeps
<1>10. ASSUME NEW s \in Events!Notifiers, Events!RemoveNotifier(s) PROVE EventsInv'
  BY <1>10, RemoveNotifierKeeps
<1>11. CASE Events!RemoveAll BY <1>11, RemoveAllKeeps
<1>12. CASE Events!CallNext BY <1>12, CallNextKeeps
<1>13. CASE Events!Return BY <1>13, ReturnKeeps
<1>14. CASE UNCHANGED eVars
  BY <1>14 DEF eVars, EventsInv, EventsTypeOK, ListsOK, ListOK, IdsOK, IdsAt, Events!Id, WalksOK, WalkOK
<1>15. Events!Next =>
         \/ \E t \in DOMAIN stacks, e \in EventEnum :
              \/ Events!Trigger(t, e) \/ Events!Clear({t}, {e})
              \/ \E h \in Subscribers : Events!Subscribe(t, e, h)
         \/ \E t \in Channels \cup 1 .. MaxNotifiers, e \in EventEnum, n \in 1 .. MaxIds :
              Events!Unsubscribe(t, e, n)
         \/ \E e \in EventEnum : Events!Clear(DOMAIN stacks, {e})
         \/ \E t \in DOMAIN stacks : Events!Clear({t}, EventEnum)
         \/ Events!Clear(DOMAIN stacks, EventEnum)
         \/ Events!AddNotifier
         \/ \E t \in Events!Notifiers : Events!RemoveNotifier(t)
         \/ Events!RemoveAll
         \/ Events!CallNext \/ Events!Return
  BY DEF Events!Next
<1> QED
  BY <1>1, <1>2, <1>3, <1>5, <1>6, <1>7, <1>8, <1>9, <1>10, <1>11, <1>12, <1>13, <1>14, <1>15

\* It holds when there are only empty channels.
LEMMA EventsStart ==
  ASSUME Events!BoundsAssumption, Events!Init PROVE EventsInv
<1>1. <<>> \in Lists /\ Len(<<>>) = 0 /\ DOMAIN <<>> = {} BY EmptySeq DEF Lists
<1>2. Events!Nothing \in [EventEnum -> Lists] /\ \A d \in EventEnum : Events!Nothing[d] = <<>>
  BY <1>1 DEF Events!Nothing
<1>3. Events!Unused \in [EventEnum -> 0 .. MaxIds] /\ \A d \in EventEnum : Events!Unused[d] = 0
  <2>1. 0 \in 0 .. MaxIds BY DEF Events!BoundsAssumption
  <2> QED BY <2>1 DEF Events!Unused
<1>4. /\ stacks = [c \in Channels |-> Events!Nothing] /\ generators = [c \in Channels |-> Events!Unused]
      /\ notifierGen = 0 /\ walks = <<>> /\ subscribed = {}
  BY DEF Events!Init
<1>5. EventsTypeOK
  <2>1. walks \in Seq(Walks) BY <1>4
  <2>2. DOMAIN stacks = Channels /\ stacks \in [Channels -> [EventEnum -> Lists]]
    BY <1>2, <1>4
  <2>3. generators \in [Channels -> [EventEnum -> 0 .. MaxIds]] BY <1>3, <1>4
  <2>4. 0 \in 0 .. MaxNotifiers BY DEF Events!BoundsAssumption
  <2> QED BY <1>4, <2>1, <2>2, <2>3, <2>4 DEF EventsTypeOK
<1>6. \A s \in DOMAIN stacks, e \in EventEnum : stacks[s][e] = <<>> /\ generators[s][e] = 0
  BY <1>2, <1>3, <1>4
<1>7. ListsOK BY <1>1, <1>6 DEF ListsOK, ListOK
<1>8. IdsOK BY <1>4, <1>6 DEF IdsOK, IdsAt
<1>9. WalksOK BY <1>4 DEF WalksOK
<1> QED BY <1>5, <1>7, <1>8, <1>9 DEF EventsInv

-----------------------------------------------------------------------------
(* Timer: what the clock and the ticks say.                                *)

\* What a unit begins at.
Multiples(p) == {k * p : k \in Nat}

\* When each event begins, for all time.
Begins(e) ==
  CASE e = "month" -> {d * Period["day"] : d \in MonthStarts}
    [] e = "year"  -> {d * Period["day"] : d \in YearStarts}
    [] OTHER       -> Multiples(Period[e])

\* The counter is what updates saw of the clock.
TimesOK == real \in 0 .. Horizon /\ seen \in 0 .. real /\ counter = seen

\* Each event was ticked when it last began.
TicksOK == ticked = [e \in Clock!Events |-> Clock!Retick(e, StartTime + counter)]

\* What waits; where a callback was moved from it is empty.
Waiters == [at : Int, cb : TimerCallbacks \cup {Empty}]
WaitingOK == waiting \in [Clock!Lists -> Seq(Waiters)]

\* A number is between a multiple and the next.
LEMMA FloorIs ==
  ASSUME NEW x \in Nat, NEW p \in Nat \ {0}
  PROVE  /\ x \div p \in Nat
         /\ Clock!Floor(x, p) \in Nat /\ Clock!Floor(x, p) <= x /\ x < Clock!Floor(x, p) + p
         /\ \A k \in Nat : k * p <= x <=> k <= x \div p
<1> DEFINE q == x \div p
           r == x % p
<1>1. q \in Nat /\ r \in 0 .. p - 1 /\ x = p * q + r OBVIOUS
<1> HIDE DEF q, r
<1>2. Clock!Floor(x, p) = q * p BY DEF Clock!Floor, q
<1>3. q * p \in Nat /\ q * p <= x /\ x < q * p + p BY <1>1
<1>4. ASSUME NEW k \in Nat PROVE k * p <= x <=> k <= q
  <2>1. k <= q => k * p <= q * p BY <1>1
  <2>2. k >= q + 1 => k * p >= (q + 1) * p BY <1>1
  <2>3. (q + 1) * p = q * p + p BY <1>1
  <2>4. k * p \in Nat OBVIOUS
  <2> QED BY <1>1, <1>3, <2>1, <2>2, <2>3, <2>4
<1> QED BY <1>1, <1>2, <1>3, <1>4 DEF q

\* A unit began since a time exactly when its tick then and its length say so;
\* otherwise the tick is the same.
LEMMA UnitBegan ==
  ASSUME NEW x \in Nat, NEW y \in Nat, x <= y, NEW p \in Nat \ {0}
  PROVE  /\ Clock!Floor(x, p) + p <= y <=> \E b \in Multiples(p) : x < b /\ b <= y
         /\ (~ \E b \in Multiples(p) : x < b /\ b <= y) => Clock!Floor(y, p) = Clock!Floor(x, p)
<1> DEFINE q == x \div p
           s == y \div p
<1>1. /\ q \in Nat /\ s \in Nat
      /\ \A k \in Nat : k * p <= x <=> k <= q
      /\ \A k \in Nat : k * p <= y <=> k <= s
  BY FloorIs
<1>2. Clock!Floor(x, p) = q * p /\ Clock!Floor(y, p) = s * p BY DEF Clock!Floor
<1> HIDE DEF q, s
<1>3. q * p + p = (q + 1) * p /\ q + 1 \in Nat BY <1>1
<1>4. \A k \in Nat : k * p \in Nat OBVIOUS
<1>5. \A k \in Nat : x < k * p <=> q < k BY <1>1, <1>4
<1>6. (\E b \in Multiples(p) : x < b /\ b <= y) <=> \E k \in Nat : q < k /\ k <= s
  BY <1>1, <1>5 DEF Multiples
<1>7. (\E k \in Nat : q < k /\ k <= s) <=> q + 1 <= s BY <1>1
<1>8. q <= s
  <2>1. q * p <= x BY <1>1
  <2>2. q * p <= y BY <1>1, <1>4, <2>1
  <2> QED BY <1>1, <2>2
<1>9. Clock!Floor(x, p) + p <= y <=> q + 1 <= s BY <1>1, <1>2, <1>3
<1>10. ~(q + 1 <= s) => q = s BY <1>1, <1>8
<1> QED BY <1>2, <1>6, <1>7, <1>9, <1>10

\* What begins with a longer unit begins with one it is made of.
LEMMA MultiplesNest ==
  ASSUME NEW p \in Nat \ {0}, NEW q \in Nat \ {0}, q % p = 0
  PROVE  Multiples(q) \subseteq Multiples(p)
<1> DEFINE m == q \div p
<1>1. m \in Nat /\ q = m * p OBVIOUS
<1> HIDE DEF m
<1> SUFFICES ASSUME NEW k \in Nat PROVE k * q \in Multiples(p) BY DEF Multiples
<1>2. k * q = (k * m) * p BY <1>1
<1>3. k * m \in Nat BY <1>1
<1> QED BY <1>2, <1>3 DEF Multiples

\* The month or year a day is in, and the next.
LEMMA StartIs ==
  ASSUME NEW S \in SUBSET Nat, 0 \in S, NEW d \in Nat, \E s \in S : s > d
  PROVE  LET a == Clock!StartOf(d, S)
             b == a + Clock!LengthOf(a, S)
         IN  /\ a \in S /\ a <= d /\ \A s \in S : s <= d => s <= a
             /\ b \in S /\ b > d /\ \A s \in S : s > d => b <= s
<1> DEFINE L == {s \in S : s <= d}
           T == {d - s : s \in L}
<1>1. T \in SUBSET Nat /\ T # {} BY 0 \in L
<1>2. PICK n \in T : \A m \in T : n <= m
  <2> HIDE DEF T
  <2> QED BY <1>1, LeastNumber
<1>3. PICK a0 \in L : n = d - a0 BY <1>2
<1>4. \A s \in L : a0 >= s
  <2> TAKE s \in L
  <2>1. d - s \in T OBVIOUS
  <2>2. d - a0 <= d - s BY <1>2, <1>3, <2>1
  <2> QED BY <1>3, <2>2
<1> DEFINE a == Clock!StartOf(d, S)
<1>5. a \in L /\ \A s \in L : a >= s BY <1>3, <1>4 DEF Clock!StartOf, Clock!Max
<1> HIDE DEF a
<1>6. {s \in S : s <= a} \subseteq L /\ a \in S /\ a \in Nat /\ a <= d
  <2>1. a \in S /\ a \in Nat /\ a <= d BY <1>5
  <2>2. \A s \in S : s <= a => s <= d
    <3> TAKE s \in S
    <3>1. s \in Nat OBVIOUS
    <3> QED BY <2>1, <3>1
  <2> QED BY <2>1, <2>2
<1>7. Clock!StartOf(a, S) = a
  <2>1. a \in {s \in S : s <= a} /\ \A s \in {s \in S : s <= a} : a >= s BY <1>6
  <2>2. \A x \in {s \in S : s <= a} : (\A s \in {s \in S : s <= a} : x >= s) => x = a
    BY <1>6, <2>1
  <2> QED BY <2>1, <2>2 DEF Clock!StartOf, Clock!Max
<1> DEFINE U == {s \in S : s > a}
<1>8. U \in SUBSET Nat /\ U # {}
  <2>1. PICK s \in S : s > d OBVIOUS
  <2>2. s \in Nat OBVIOUS
  <2>3. s > a BY <1>6, <2>1, <2>2
  <2> QED BY <2>3
<1>9. PICK b0 \in U : \A m \in U : b0 <= m
  <2> HIDE DEF U
  <2> QED BY <1>8, LeastNumber
<1> DEFINE b == Clock!Min(U)
<1>10. b \in U /\ \A m \in U : b <= m BY <1>9 DEF Clock!Min
<1> HIDE DEF b
<1>11. Clock!LengthOf(a, S) = b - a BY <1>7 DEF Clock!LengthOf, b
<1>12. a + Clock!LengthOf(a, S) = b BY <1>6, <1>8, <1>10, <1>11
<1>13. b > d
  <2>1. b \in S /\ b > a /\ b \in Nat BY <1>8, <1>10
  <2>2. b <= d => b \in L BY <2>1
  <2> QED BY <1>5, <1>6, <2>1, <2>2
<1>14. \A s \in S : s > d => b <= s
  <2> SUFFICES ASSUME NEW s \in S, s > d PROVE b <= s OBVIOUS
  <2>1. s \in Nat OBVIOUS
  <2>2. s > a BY <1>6, <2>1
  <2> QED BY <1>10, <2>2
<1> QED BY <1>5, <1>6, <1>10, <1>12, <1>13, <1>14 DEF a

\* Months and years: one began between two days exactly when the tick and the
\* length of the one before say so; otherwise it is the same.
LEMMA StartBegan ==
  ASSUME NEW S \in SUBSET Nat, 0 \in S, NEW d \in Nat, NEW f \in Nat, d <= f,
         \E s \in S : s > f
  PROVE  LET a == Clock!StartOf(d, S)
         IN  /\ a + Clock!LengthOf(a, S) <= f <=> \E s \in S : d < s /\ s <= f
             /\ (~ \E s \in S : d < s /\ s <= f) => Clock!StartOf(f, S) = a
<1> DEFINE a == Clock!StartOf(d, S)
           b == a + Clock!LengthOf(a, S)
           c == Clock!StartOf(f, S)
<1>0. \E s \in S : s > d OBVIOUS
<1>1. /\ a \in S /\ a <= d /\ \A s \in S : s <= d => s <= a
      /\ b \in S /\ b > d /\ \A s \in S : s > d => b <= s
  BY <1>0, StartIs
<1>2. c \in S /\ c <= f /\ \A s \in S : s <= f => s <= c BY StartIs
<1> HIDE DEF a, b, c
<1>3. b <= f <=> \E s \in S : d < s /\ s <= f
  <2>1. b <= f => \E s \in S : d < s /\ s <= f BY <1>1
  <2>2. ASSUME NEW s \in S, d < s, s <= f PROVE b <= f
    <3>1. b <= s BY <1>1, <2>2
    <3>2. b \in Nat /\ s \in Nat BY <1>1
    <3> QED BY <2>2, <3>1, <3>2
  <2> QED BY <2>1, <2>2
<1>4. (~ \E s \in S : d < s /\ s <= f) => c = a
  <2> SUFFICES ASSUME ~ \E s \in S : d < s /\ s <= f PROVE c = a OBVIOUS
  <2>0. a \in Nat /\ c \in Nat BY <1>1, <1>2
  <2>1. c <= d BY <1>2, <2>0
  <2>2. c <= a BY <1>1, <1>2, <2>1
  <2>3. a <= f BY <1>1, <2>0
  <2>4. a <= c BY <1>1, <1>2, <2>3
  <2> QED BY <2>0, <2>2, <2>4
<1> QED BY <1>3, <1>4 DEF a, b, c

-----------------------------------------------------------------------------
(* The ticks.                                                              *)

\* The days a time is on, and the times a day begins at.
LEMMA DayIs ==
  ASSUME Clock!CalendarAssumption, NEW x \in Nat
  PROVE  /\ Clock!Day(x) \in Nat
         /\ \A d \in Nat : d * Period["day"] <= x <=> d <= Clock!Day(x)
         /\ \A d \in Nat : x < d * Period["day"] <=> Clock!Day(x) < d
<1> DEFINE p == Period["day"]
<1>1. p \in Nat \ {0} BY DEF Clock!CalendarAssumption, Clock!Units
<1>2. x \div p \in Nat /\ \A k \in Nat : k * p <= x <=> k <= x \div p
  <2> HIDE DEF p
  <2> QED BY <1>1, FloorIs
<1>3. \A d \in Nat : d * p \in Nat
  <2> HIDE DEF p
  <2> QED BY <1>1
<1>4. Clock!Day(x) = x \div p BY DEF Clock!Day
<1> HIDE DEF p
<1>5. \A d \in Nat : x < d * p <=> Clock!Day(x) < d BY <1>2, <1>3, <1>4
<1> QED BY <1>2, <1>4, <1>5 DEF p

\* What begins with an event that is looked at after others begins with those.
LEMMA BeginsNest ==
  ASSUME Clock!CalendarAssumption, NEW e \in Clock!Events, NEW f \in Clock!Before(e)
  PROVE  f \in Clock!Events /\ Begins(e) \subseteq Begins(f)
<1>0. /\ \A u \in Clock!Units : Period[u] \in Nat \ {0} /\ u # "month" /\ u # "year"
      /\ \A u \in Clock!Units : Begins(u) = Multiples(Period[u])
      /\ {"second", "minute", "hour", "day", "week"} = Clock!Units
  BY DEF Clock!CalendarAssumption, Clock!Units, Begins
<1>1. /\ Begins("minute") \subseteq Begins("second")
      /\ Begins("hour") \subseteq Begins("minute")
      /\ Begins("day") \subseteq Begins("hour")
      /\ Begins("week") \subseteq Begins("day")
  BY <1>0, MultiplesNest DEF Clock!CalendarAssumption
<1>2. Begins("month") \subseteq Begins("day")
  <2>1. Begins("month") = {d * Period["day"] : d \in MonthStarts} BY DEF Begins
  <2>2. Begins("day") = Multiples(Period["day"]) BY <1>0
  <2> QED BY <2>1, <2>2 DEF Multiples, Clock!CalendarAssumption
<1>3. Begins("year") \subseteq Begins("month") BY DEF Begins, Clock!CalendarAssumption
<1>4. f \in Clock!Events BY DEF Clock!Before, Clock!Events, Clock!Units
<1>5. CASE e = "second" BY <1>5 DEF Clock!Before
<1>6. CASE e = "minute" BY <1>1, <1>4, <1>6 DEF Clock!Before
<1>7. CASE e = "hour" BY <1>1, <1>4, <1>7 DEF Clock!Before
<1>8. CASE e = "day" BY <1>1, <1>4, <1>8 DEF Clock!Before
<1>9. CASE e \in {"week", "month"}
  <2>1. f \in {"second", "minute", "hour", "day"} BY <1>9 DEF Clock!Before
  <2>2. Begins(e) \subseteq Begins("day") BY <1>1, <1>2, <1>9
  <2> QED BY <1>1, <1>4, <2>1, <2>2
<1>10. CASE e = "year"
  <2>1. f \in {"second", "minute", "hour", "day", "month"} BY <1>10 DEF Clock!Before
  <2> QED BY <1>1, <1>2, <1>3, <1>4, <1>10, <2>1
<1> QED BY <1>5, <1>6, <1>7, <1>8, <1>9, <1>10 DEF Clock!Events, Clock!Units

\* One event, its tick being right: an update finds that it began exactly when
\* it did, and the tick is right after it, whether it is moved or not.
LEMMA EventBegan ==
  ASSUME Clock!CalendarAssumption, NEW old \in Nat, NEW now \in Nat, old <= now,
         now <= StartTime + Horizon, NEW e \in Clock!Events, ticked[e] = Clock!Retick(e, old)
  PROVE  /\ Clock!Began(e, now) <=> \E b \in Begins(e) : old < b /\ b <= now
         /\ (~ \E b \in Begins(e) : old < b /\ b <= now) => Clock!Retick(e, now) = Clock!Retick(e, old)
<1>1. CASE e \in Clock!Units
  <2>1. e # "month" /\ e # "year" /\ Period[e] \in Nat \ {0}
    BY <1>1 DEF Clock!Units, Clock!CalendarAssumption
  <2>2. /\ Clock!Retick(e, old) = Clock!Floor(old, Period[e]) /\ Clock!Retick(e, now) = Clock!Floor(now, Period[e])
        /\ Clock!Began(e, now) <=> ticked[e] + Period[e] <= now
        /\ Begins(e) = Multiples(Period[e])
    BY <2>1 DEF Clock!Retick, Clock!Began, Begins
  <2> QED BY <2>1, <2>2, UnitBegan
<1>2. ASSUME NEW S \in SUBSET Nat, 0 \in S, \E s \in S : s > Clock!Day(now),
             ticked[e] = Clock!StartOf(Clock!Day(old), S),
             Clock!Retick(e, now) = Clock!StartOf(Clock!Day(now), S),
             Clock!Began(e, now) <=> ticked[e] + Clock!LengthOf(ticked[e], S) <= Clock!Day(now),
             Begins(e) = {d * Period["day"] : d \in S}
      PROVE  /\ Clock!Began(e, now) <=> \E b \in Begins(e) : old < b /\ b <= now
             /\ (~ \E b \in Begins(e) : old < b /\ b <= now) => Clock!Retick(e, now) = ticked[e]
  <2>1. /\ Clock!Day(old) \in Nat /\ Clock!Day(now) \in Nat
        /\ \A d \in Nat : old < d * Period["day"] <=> Clock!Day(old) < d
        /\ \A d \in Nat : d * Period["day"] <= now <=> d <= Clock!Day(now)
    BY DayIs
  <2>2. Clock!Day(old) <= Clock!Day(now)
    <3>1. Clock!Day(old) * Period["day"] <= old BY <2>1, DayIs
    <3>2. Clock!Day(old) * Period["day"] \in Nat BY <2>1 DEF Clock!CalendarAssumption, Clock!Units
    <3>3. Clock!Day(old) * Period["day"] <= now BY <3>1, <3>2
    <3> QED BY <2>1, <3>3
  <2>3. (\E b \in Begins(e) : old < b /\ b <= now) <=> \E s \in S : Clock!Day(old) < s /\ s <= Clock!Day(now)
    BY <1>2, <2>1
  <2> QED BY <1>2, <2>1, <2>2, <2>3, StartBegan
<1>3. Clock!Day(now) <= Clock!Day(StartTime + Horizon) /\ Clock!Day(now) \in Nat /\ Clock!Day(StartTime + Horizon) \in Nat
  <2>1. StartTime + Horizon \in Nat BY DEF Clock!CalendarAssumption
  <2>2. Clock!Day(now) * Period["day"] <= now /\ Clock!Day(now) \in Nat BY DayIs
  <2>3. Clock!Day(now) * Period["day"] \in Nat BY <2>2 DEF Clock!CalendarAssumption, Clock!Units
  <2>4. Clock!Day(now) * Period["day"] <= StartTime + Horizon BY <2>1, <2>2, <2>3
  <2> QED BY <2>1, <2>2, <2>4, DayIs
<1>4. \E s \in YearStarts : s > Clock!Day(now)
  <2>1. PICK s \in YearStarts : s > Clock!Day(StartTime + Horizon) BY DEF Clock!CalendarAssumption, Clock!Day
  <2>2. s \in Nat BY DEF Clock!CalendarAssumption
  <2>3. s > Clock!Day(now) BY <1>3, <2>1, <2>2
  <2> QED BY <2>3
<1>5. CASE e = "month"
  <2>1. MonthStarts \in SUBSET Nat /\ 0 \in MonthStarts /\ \E s \in MonthStarts : s > Clock!Day(now)
    BY <1>4 DEF Clock!CalendarAssumption
  <2>2. /\ ticked[e] = Clock!StartOf(Clock!Day(old), MonthStarts)
        /\ Clock!Retick(e, now) = Clock!StartOf(Clock!Day(now), MonthStarts)
        /\ Clock!Began(e, now) <=> ticked[e] + Clock!LengthOf(ticked[e], MonthStarts) <= Clock!Day(now)
        /\ Begins(e) = {d * Period["day"] : d \in MonthStarts}
    BY <1>5 DEF Clock!Retick, Clock!Began, Begins
  <2> QED BY <1>2, <2>1, <2>2
<1>6. CASE e = "year"
  <2>1. YearStarts \in SUBSET Nat /\ 0 \in YearStarts /\ \E s \in YearStarts : s > Clock!Day(now)
    BY <1>4 DEF Clock!CalendarAssumption
  <2>2. /\ ticked[e] = Clock!StartOf(Clock!Day(old), YearStarts)
        /\ Clock!Retick(e, now) = Clock!StartOf(Clock!Day(now), YearStarts)
        /\ Clock!Began(e, now) <=> ticked[e] + Clock!LengthOf(ticked[e], YearStarts) <= Clock!Day(now)
        /\ Begins(e) = {d * Period["day"] : d \in YearStarts}
    BY <1>6 DEF Clock!Retick, Clock!Began, Begins
  <2> QED BY <1>2, <2>1, <2>2
<1> QED BY <1>1, <1>5, <1>6 DEF Clock!Events

\* Every event that an update announces began, and all that began are.
LEMMA TriggeredIs ==
  ASSUME Clock!CalendarAssumption, NEW old \in Nat, NEW now \in Nat, old <= now,
         now <= StartTime + Horizon, ticked = [e \in Clock!Events |-> Clock!Retick(e, old)]
  PROVE  /\ \A e \in Clock!Events : e \in Clock!Triggered(now) <=>
              \E b \in Begins(e) : old < b /\ b <= now
         /\ [e \in Clock!Events |-> IF e \in Clock!Triggered(now) THEN Clock!Retick(e, now) ELSE ticked[e]]
              = [e \in Clock!Events |-> Clock!Retick(e, now)]
<1>1. ASSUME NEW e \in Clock!Events
      PROVE  /\ Clock!Began(e, now) <=> \E b \in Begins(e) : old < b /\ b <= now
             /\ (~ \E b \in Begins(e) : old < b /\ b <= now) => Clock!Retick(e, now) = ticked[e]
  <2>1. ticked[e] = Clock!Retick(e, old) OBVIOUS
  <2> QED BY <2>1, EventBegan
<1>2. ASSUME NEW e \in Clock!Events
      PROVE  e \in Clock!Triggered(now) <=> \E b \in Begins(e) : old < b /\ b <= now
  <2>1. e \in Clock!Triggered(now) <=> \A f \in Clock!Before(e) \cup {e} : Clock!Began(f, now) BY DEF Clock!Triggered
  <2>2. ASSUME Clock!Began(e, now), NEW f \in Clock!Before(e) PROVE Clock!Began(f, now)
    <3>1. PICK b \in Begins(e) : old < b /\ b <= now BY <1>1, <2>2
    <3>2. f \in Clock!Events /\ b \in Begins(f) BY <3>1, BeginsNest
    <3> QED BY <1>1, <3>1, <3>2
  <2> QED BY <1>1, <2>1, <2>2
<1> QED BY <1>1, <1>2

-----------------------------------------------------------------------------
(* The clock.                                                              *)

\* The first ticks are right if the clock starts where the mean month does.
LEMMA InitTimer ==
  Clock!CalendarAssumption /\ Clock!Init => TimesOK /\ WaitingOK /\ (Clock!StartsOnCalendar => TicksOK)
<1> SUFFICES ASSUME Clock!CalendarAssumption, Clock!Init
             PROVE  TimesOK /\ WaitingOK /\ (Clock!StartsOnCalendar => TicksOK)
  OBVIOUS
<1>1. TimesOK BY DEF Clock!Init, Clock!CalendarAssumption, TimesOK
<1>2. StartTime + counter = StartTime BY DEF Clock!Init, Clock!CalendarAssumption
<1>3. Clock!StartsOnCalendar => ticked = [e \in Clock!Events |-> Clock!Retick(e, StartTime)]
  BY DEF Clock!Init, Clock!Retick, Clock!StartsOnCalendar
<1>4. \A l \in Clock!Lists : waiting[l] = <<>> BY DEF Clock!Init
<1>5. waiting \in [Clock!Lists -> Seq(Waiters)] BY DEF Clock!Init
<1> QED BY <1>1, <1>2, <1>3, <1>4, <1>5 DEF TicksOK, WaitingOK

\* What an update knows of time.
LEMMA UpdateTimes ==
  ASSUME Clock!CalendarAssumption, TimesOK, Clock!Update
  PROVE  /\ StartTime + counter \in Nat /\ StartTime + counter' \in Nat
         /\ StartTime + counter <= StartTime + counter' /\ StartTime + counter' <= StartTime + Horizon
         /\ real' \in 0 .. Horizon /\ seen' \in 0 .. real' /\ counter' = seen'
         /\ fired' = Clock!Triggered(StartTime + counter')
         /\ ticked' = [e \in Clock!Events |-> IF e \in Clock!Triggered(StartTime + counter')
                                        THEN Clock!Retick(e, StartTime + counter') ELSE ticked[e]]
<1>1. StartTime \in Nat /\ Horizon \in Nat BY DEF Clock!CalendarAssumption
<1>2. real \in 0 .. Horizon /\ seen \in 0 .. real /\ counter = seen BY DEF TimesOK
<1>3. real' = real /\ seen' = real /\ counter' = counter + (real - seen) BY DEF Clock!Update
<1>4. counter' = real BY <1>1, <1>2, <1>3
<1>5. /\ fired' = Clock!Triggered(StartTime + counter')
      /\ ticked' = [e \in Clock!Events |-> IF e \in Clock!Triggered(StartTime + counter')
                                     THEN Clock!Retick(e, StartTime + counter') ELSE ticked[e]]
  BY DEF Clock!Update
<1> QED BY <1>1, <1>2, <1>3, <1>4, <1>5

\* The clock goes on, and an update catches up with it.
LEMMA TimesStep == Clock!CalendarAssumption /\ TimesOK /\ [Clock!Next]_tVars => TimesOK'
<1> SUFFICES ASSUME Clock!CalendarAssumption, TimesOK, [Clock!Next]_tVars PROVE TimesOK' OBVIOUS
<1>1. CASE UNCHANGED <<real, seen, counter>> BY <1>1 DEF TimesOK
<1>2. CASE Clock!Update BY <1>2, UpdateTimes DEF TimesOK
<1>3. ASSUME NEW dt \in Steps, Clock!Pass(dt) PROVE TimesOK'
  <2>1. dt \in Nat /\ Horizon \in Nat BY DEF Clock!CalendarAssumption
  <2>2. real' \in 0 .. Horizon /\ seen \in 0 .. real' BY <1>3, <2>1 DEF Clock!Pass, TimesOK
  <2> QED BY <1>3, <2>2 DEF Clock!Pass, TimesOK
<1> QED BY <1>1, <1>2, <1>3 DEF Clock!Next, Clock!Go, Clock!Pause, Clock!Unpause, Clock!Subscribe, tVars

\* Every step keeps the ticks right.
LEMMA TicksStep == Clock!CalendarAssumption /\ TimesOK /\ TicksOK /\ [Clock!Next]_tVars => TicksOK'
<1> SUFFICES ASSUME Clock!CalendarAssumption, TimesOK, TicksOK, [Clock!Next]_tVars PROVE TicksOK' OBVIOUS
<1>1. CASE UNCHANGED <<counter, ticked>> BY <1>1 DEF TicksOK, Clock!Retick, Clock!StartOf, Clock!Day, Clock!Floor
<1>2. CASE Clock!Update
  <2>1. ticked = [e \in Clock!Events |-> Clock!Retick(e, StartTime + counter)] BY DEF TicksOK
  <2>2. ticked' = [e \in Clock!Events |-> Clock!Retick(e, StartTime + counter')]
    BY <1>2, <2>1, UpdateTimes, TriggeredIs
  <2> QED BY <2>2 DEF TicksOK
<1> QED BY <1>1, <1>2 DEF Clock!Next, Clock!Go, Clock!Pass, Clock!Pause, Clock!Unpause, Clock!Subscribe, tVars

\* The boundaries that the property names are those below the end of the run.
LEMMA BoundariesAre ==
  ASSUME Clock!CalendarAssumption, NEW e \in Clock!Events, NEW b \in Nat, b <= StartTime + Horizon
  PROVE  b \in Clock!Boundaries(e) <=> b \in Begins(e)
<1>1. CASE e \in {"month", "year"} BY <1>1 DEF Clock!Boundaries, Begins
<1>2. CASE e \in Clock!Units
  <2>1. e # "month" /\ e # "year" /\ Period[e] \in Nat \ {0}
    BY <1>2 DEF Clock!Units, Clock!CalendarAssumption
  <2>2. Clock!Boundaries(e) = {x \in 0 .. StartTime + Horizon : x % Period[e] = 0}
    BY <2>1 DEF Clock!Boundaries
  <2>3. Begins(e) = Multiples(Period[e]) BY <2>1 DEF Begins
  <2>4. b \in 0 .. StartTime + Horizon BY DEF Clock!CalendarAssumption
  <2>5. ASSUME NEW p \in Nat \ {0} PROVE b % p = 0 <=> b \in Multiples(p)
    <3>1. b % p = 0 => b = (b \div p) * p /\ b \div p \in Nat OBVIOUS
    <3>2. \A k \in Nat : (k * p) % p = 0 OBVIOUS
    <3> QED BY <3>1, <3>2 DEF Multiples
  <2> QED BY <2>1, <2>2, <2>3, <2>4, <2>5
<1> QED BY <1>1, <1>2 DEF Clock!Events

\* An update announces what began.
LEMMA UpdateAnnounces ==
  ASSUME Clock!CalendarAssumption, TimesOK, TicksOK, [Clock!Next]_tVars, seen' # seen
  PROVE  \A e \in Clock!Events : e \in fired' <=>
           \E b \in Clock!Boundaries(e) : StartTime + counter < b /\ b <= StartTime + counter'
<1>1. Clock!Update
  BY DEF Clock!Next, Clock!Go, Clock!Pass, Clock!Pause, Clock!Unpause, Clock!Subscribe, tVars
<1> DEFINE old == StartTime + counter
           now == StartTime + counter'
<1>2. /\ old \in Nat /\ now \in Nat /\ old <= now /\ now <= StartTime + Horizon
      /\ fired' = Clock!Triggered(now)
  BY <1>1, UpdateTimes
<1>3. ticked = [e \in Clock!Events |-> Clock!Retick(e, old)] BY DEF TicksOK
<1> HIDE DEF old, now
<1>4. \A e \in Clock!Events : e \in fired' <=> \E b \in Begins(e) : old < b /\ b <= now
  BY <1>2, <1>3, TriggeredIs
<1>5. ASSUME NEW e \in Clock!Events
      PROVE  (\E b \in Begins(e) : old < b /\ b <= now)
               <=> \E b \in Clock!Boundaries(e) : old < b /\ b <= now
  <2>1. \A b \in Begins(e) : b \in Nat
    BY DEF Begins, Multiples, Clock!CalendarAssumption, Clock!Units, Clock!Events
  <2>2. \A b \in Clock!Boundaries(e) : b \in Nat
    BY DEF Clock!Boundaries, Clock!CalendarAssumption, Clock!Units, Clock!Events
  <2>3. \A b \in Nat : b <= now => (b \in Clock!Boundaries(e) <=> b \in Begins(e))
    <3> TAKE b \in Nat
    <3>1. b <= now => b <= StartTime + Horizon BY <1>2 DEF Clock!CalendarAssumption
    <3> QED BY <3>1, BoundariesAre
  <2> QED BY <2>1, <2>2, <2>3
<1> QED BY <1>4, <1>5 DEF old, now

-----------------------------------------------------------------------------
(* The callbacks.                                                          *)

\* What is kept of a list is gathered from the front, one entry at a time.
LEMMA KeptTurns ==
  ASSUME NEW list \in Seq(Waiters), NEW now \in Int
  PROVE  \E h :
           /\ h[0] = <<>> /\ h[Len(list)] = Clock!Kept(list, now)
           /\ \A i \in 1 .. Len(list) :
                h[i] = IF list[i].at > now THEN Append(h[i - 1], list[i]) ELSE h[i - 1]
<1> DEFINE n == Len(list)
           V == Seq(Waiters)
           last == [t \in SUBSET (1 .. n) |-> Max(t)]
           Turn(v, i) == IF list[i].at > now THEN Append(v, list[i]) ELSE v
           step == [i \in 1 .. n |-> [v \in V |-> Turn(v, i)]]
           IsRun(g) ==
             g = [t \in SUBSET (1 .. n) |->
                    IF t = {} THEN <<>> ELSE Turn(g[t \ {Max(t)}], Max(t))]
           c == CHOOSE g : IsRun(g)
<1>0. n \in Nat /\ DOMAIN list = 1 .. n /\ \A i \in 1 .. n : list[i] \in Waiters
  OBVIOUS
<1>1. Clock!Kept(list, now) = c[1 .. n]
  BY <1>0 DEF Clock!Kept, Clock!FoldLeft, Clock!MapThenFoldSet, Clock!Max, Max
<1>2. ASSUME NEW v \in V, NEW i \in 1 .. n PROVE Turn(v, i) \in V
  <2>1. list[i] \in Waiters BY <1>0
  <2>2. Append(v, list[i]) \in V BY <2>1
  <2> QED BY <2>2
<1>3. step \in StepsOver(1 .. n, V)
  <2> HIDE DEF V, Turn
  <2> QED BY <1>2 DEF StepsOver
<1>4. PICK g : IsFold(g, 1 .. n, V, <<>>, step, last)
  <2>1. <<>> \in V OBVIOUS
  <2> HIDE DEF step, V
  <2> QED BY <1>0, <1>3, <2>1, FoldLeftExists
<1>5. /\ g \in [SUBSET (1 .. n) -> V]
      /\ \A t \in SUBSET (1 .. n) :
            g[t] = IF t = {} THEN <<>> ELSE step[Max(t)][g[t \ {Max(t)}]]
  BY <1>4 DEF IsFold
<1>6. ASSUME NEW t \in SUBSET (1 .. n), t # {}
      PROVE  g[t] = Turn(g[t \ {Max(t)}], Max(t))
  <2>1. Max(t) \in 1 .. n BY <1>0, <1>6, LastMember
  <2>2. g[t \ {Max(t)}] \in V
    <3> HIDE DEF V
    <3> QED BY <1>5
  <2> HIDE DEF V, Turn
  <2> QED BY <1>5, <1>6, <2>1, <2>2
<1>7. IsRun(g)
  <2> HIDE DEF V, Turn
  <2> QED BY <1>5, <1>6
<1>8. IsRun(c)
  <2> HIDE DEF IsRun
  <2> QED BY <1>7
<1> HIDE DEF c
<1>9. c[{}] = <<>> BY <1>8
<1>10. ASSUME NEW i \in 1 .. n PROVE c[1 .. i] = Turn(c[1 .. (i - 1)], i)
  <2>1. Max(1 .. i) = i /\ (1 .. i) \ {i} = 1 .. (i - 1) BY <1>0, LastIndex
  <2>2. 1 .. i \in SUBSET (1 .. n) /\ 1 .. i # {}
    <3>1. i \in 1 .. i /\ \A j \in 1 .. i : j \in 1 .. n BY <1>0
    <3> QED BY <3>1
  <2> HIDE DEF Turn
  <2> QED BY <1>8, <2>1, <2>2
<1> DEFINE h == [i \in 0 .. n |-> c[1 .. i]]
<1>11. h[0] = <<>>
  <2>1. 1 .. 0 = {} /\ 0 \in 0 .. n BY <1>0
  <2> QED BY <1>9, <2>1
<1>12. h[n] = Clock!Kept(list, now)
  <2>1. n \in 0 .. n BY <1>0
  <2> QED BY <1>1, <2>1
<1>13. \A i \in 1 .. n : h[i] = Turn(h[i - 1], i)
  <2> TAKE i \in 1 .. n
  <2>1. i \in 0 .. n /\ i - 1 \in 0 .. n BY <1>0
  <2>2. h[i] = c[1 .. i] /\ h[i - 1] = c[1 .. (i - 1)] BY <2>1
  <2> HIDE DEF h, Turn
  <2> QED BY <1>10, <2>2
<1> HIDE DEF h
<1> QED BY <1>11, <1>12, <1>13

\* All that is not due is kept, in no more places than there were.
LEMMA KeptHolds ==
  ASSUME NEW list \in Seq(Waiters), NEW now \in Int
  PROVE  /\ Clock!Kept(list, now) \in Seq(Waiters)
         /\ Len(Clock!Kept(list, now)) <= Len(list)
         /\ \A i \in DOMAIN list : list[i].at > now =>
              \E j \in DOMAIN Clock!Kept(list, now) : Clock!Kept(list, now)[j] = list[i]
<1>1. PICK h :
           /\ h[0] = <<>> /\ h[Len(list)] = Clock!Kept(list, now)
           /\ \A i \in 1 .. Len(list) :
                h[i] = IF list[i].at > now THEN Append(h[i - 1], list[i]) ELSE h[i - 1]
  BY KeptTurns
<1> DEFINE n == Len(list)
           Holds(i) == /\ h[i] \in Seq(Waiters) /\ Len(h[i]) <= i
                       /\ \A k \in 1 .. i : list[k].at > now =>
                            \E j \in 1 .. Len(h[i]) : h[i][j] = list[k]
           T == {i \in 0 .. n : Holds(i)}
<1>2. n \in Nat /\ DOMAIN list = 1 .. n /\ \A i \in 1 .. n : list[i] \in Waiters
  OBVIOUS
<1>3. 0 \in T
  <2>1. 1 .. 0 = {} /\ <<>> \in Seq(Waiters) /\ Len(<<>>) = 0 OBVIOUS
  <2>2. Holds(0) BY <1>1, <2>1
  <2>3. 0 \in 0 .. n BY <1>2
  <2> HIDE DEF Holds
  <2> QED BY <2>2, <2>3
<1>4. ASSUME NEW i \in 1 .. n, i - 1 \in T PROVE i \in T
  <2>1. Holds(i - 1) BY <1>4
  <2>2. i \in 0 .. n /\ i \in Nat /\ i - 1 \in Nat BY <1>2
  <2>3. \A k \in 1 .. i : k \in 1 .. i - 1 \/ k = i BY <2>2
  <2>4. CASE list[i].at > now
    <3> DEFINE old == h[i - 1]
               new == h[i]
               l == list[i]
    <3>1. new = Append(old, l) /\ l \in Waiters BY <1>1, <1>2, <2>4
    <3>2. old \in Seq(Waiters) /\ Len(old) <= i - 1 BY <2>1
    <3>3. \A k \in 1 .. i - 1 : list[k].at > now => \E j \in 1 .. Len(old) : old[j] = list[k]
      BY <2>1
    <3> HIDE DEF old, new, l
    <3>4. /\ new \in Seq(Waiters) /\ Len(new) = Len(old) + 1 /\ Len(old) \in Nat
          /\ \A j \in 1 .. Len(old) : new[j] = old[j] /\ j \in 1 .. Len(new)
          /\ new[Len(old) + 1] = l /\ Len(old) + 1 \in 1 .. Len(new)
      BY <3>1, <3>2
    <3>5. \A k \in 1 .. i - 1 : list[k].at > now => \E j \in 1 .. Len(new) : new[j] = list[k]
      BY <3>3, <3>4
    <3>6. \E j \in 1 .. Len(new) : new[j] = list[i] BY <3>4 DEF l
    <3>7. Len(new) <= i BY <2>2, <3>2, <3>4
    <3>8. \A k \in 1 .. i : list[k].at > now => \E j \in 1 .. Len(new) : new[j] = list[k]
      BY <2>3, <3>5, <3>6
    <3>9. Holds(i) BY <3>4, <3>7, <3>8 DEF new
    <3> HIDE DEF Holds
    <3> QED BY <2>2, <3>9
  <2>5. CASE ~(list[i].at > now)
    <3>1. h[i] = h[i - 1] BY <1>1, <2>5
    <3>2. Len(h[i]) <= i BY <2>1, <2>2, <3>1
    <3>3. Holds(i) BY <2>1, <2>3, <2>5, <3>1, <3>2
    <3> HIDE DEF Holds
    <3> QED BY <2>2, <3>3
  <2> QED BY <2>4, <2>5
<1>5. Holds(n)
  <2> HIDE DEF Holds
  <2>1. n \in 0 .. n BY <1>2
  <2>2. 0 .. n \subseteq T
    <3> HIDE DEF T
    <3> QED BY <1>2, <1>3, <1>4, BoundedInduction
  <2> QED BY <2>1, <2>2
<1>6. DOMAIN h[n] = 1 .. Len(h[n]) BY <1>5
<1> QED BY <1>1, <1>2, <1>5, <1>6

\* Of a list in turn the front is kept.
LEMMA KeptIs ==
  ASSUME NEW list \in Seq(Waiters), NEW now \in Int, Clock!InTurn(list, now)
  PROVE  \E k \in 0 .. Len(list) :
           /\ Clock!Kept(list, now) = SubSeq(list, 1, k)
           /\ \A i \in 1 .. k : list[i].at > now
           /\ \A i \in k + 1 .. Len(list) : list[i].at <= now
<1>1. PICK h :
           /\ h[0] = <<>> /\ h[Len(list)] = Clock!Kept(list, now)
           /\ \A i \in 1 .. Len(list) :
                h[i] = IF list[i].at > now THEN Append(h[i - 1], list[i]) ELSE h[i - 1]
  BY KeptTurns
<1> DEFINE n == Len(list)
<1>0. /\ n \in Nat /\ DOMAIN list = 1 .. n
      /\ \A i \in 1 .. n : list[i] \in Waiters /\ list[i].at \in Int
  <2>1. n \in Nat /\ DOMAIN list = 1 .. n /\ \A i \in 1 .. n : list[i] \in Waiters OBVIOUS
  <2>2. \A x \in Waiters : x.at \in Int BY DEF Waiters
  <2> QED BY <2>1, <2>2
<1>2. \A i, j \in 1 .. n : i <= j /\ list[i].at <= now => list[j].at <= now
  <2> TAKE i, j \in 1 .. n
  <2> HAVE i <= j /\ list[i].at <= now
  <2>1. i \in Clock!Due(list, now) /\ j \in i .. Len(list) BY <1>0 DEF Clock!Due
  <2>2. j \in Clock!Due(list, now) BY <2>1 DEF Clock!InTurn
  <2> QED BY <2>2 DEF Clock!Due
<1> DEFINE FrontLeft(i, k) ==
             /\ h[i] = SubSeq(list, 1, k)
             /\ \A j \in 1 .. k : list[j].at > now
             /\ \A j \in k + 1 .. i : list[j].at <= now
           T == {i \in 0 .. n : \E k \in 0 .. i : FrontLeft(i, k)}
<1>11. 0 \in T
  <2>1. 1 .. 0 = {} /\ 0 + 1 .. 0 = {} OBVIOUS
  <2>2. SubSeq(list, 1, 0) = <<>> BY <1>0
  <2>4. FrontLeft(0, 0) BY <1>1, <2>1, <2>2
  <2>5. 0 \in 0 .. n /\ 0 \in 0 .. 0 BY <1>0
  <2> HIDE DEF FrontLeft
  <2> QED BY <2>4, <2>5
<1>12. ASSUME NEW i \in 1 .. n, i - 1 \in T PROVE i \in T
  <2>1. PICK k \in 0 .. (i - 1) : FrontLeft(i - 1, k) BY <1>12
  <2>2. CASE list[i].at > now
    <3>1. \A j \in 1 .. i : list[j].at > now
      <4> TAKE j \in 1 .. i
      <4>1. j \in 1 .. n /\ j <= i BY <1>0
      <4>2. ~(list[j].at <= now)
        <5> SUFFICES ASSUME list[j].at <= now PROVE FALSE OBVIOUS
        <5>1. list[i].at <= now /\ list[i].at \in Int BY <1>0, <1>2, <4>1
        <5> QED BY <2>2, <5>1
      <4> QED BY <1>0, <4>1, <4>2
    <3>2. k = i - 1
      <4> SUFFICES ASSUME k # i - 1 PROVE FALSE OBVIOUS
      <4>1. k + 1 \in k + 1 .. i - 1 /\ k + 1 \in 1 .. i /\ k + 1 \in 1 .. n BY <1>0
      <4>2. list[k + 1].at <= now /\ list[k + 1].at > now /\ list[k + 1].at \in Int
        BY <1>0, <2>1, <3>1, <4>1
      <4> QED BY <4>2
    <3>3. h[i] = Append(SubSeq(list, 1, i - 1), list[i]) BY <1>1, <2>1, <2>2, <3>2
    <3>4. Append(SubSeq(list, 1, i - 1), list[i]) = SubSeq(list, 1, i) BY <1>0
    <3>5. i + 1 .. i = {} /\ i \in 0 .. i /\ i \in 0 .. n BY <1>0
    <3>6. FrontLeft(i, i) BY <3>1, <3>3, <3>4, <3>5
    <3> HIDE DEF FrontLeft
    <3> QED BY <3>5, <3>6
  <2>3. CASE ~(list[i].at > now)
    <3>1. h[i] = SubSeq(list, 1, k) BY <1>1, <2>1, <2>3
    <3>2. list[i].at <= now BY <1>0, <2>3
    <3>3. \A j \in k + 1 .. i : j \in k + 1 .. i - 1 \/ j = i OBVIOUS
    <3>4. \A j \in k + 1 .. i : list[j].at <= now BY <2>1, <3>2, <3>3
    <3>5. k \in 0 .. i /\ i \in 0 .. n BY <1>0
    <3>6. FrontLeft(i, k) BY <2>1, <3>1, <3>4
    <3> HIDE DEF FrontLeft
    <3> QED BY <3>5, <3>6
  <2> QED BY <2>2, <2>3
<1>13. n \in T
  <2> HIDE DEF T
  <2>1. 0 .. n \subseteq T BY <1>0, <1>11, <1>12, BoundedInduction
  <2> QED BY <1>0, <2>1
<1> QED BY <1>1, <1>13

\* What remove_if leaves, and what of it is called.
LEMMA PartedIs ==
  ASSUME NEW list \in Seq(Waiters), NEW now \in Int
  PROVE  LET kept == Clock!Kept(list, now)
             parted == Clock!Parted(list, now)
             tail == Clock!ToCall(list, now)
         IN  /\ parted \in Seq(Waiters) /\ Len(parted) = Len(list)
             /\ \A i \in 1 .. Len(kept) : parted[i] = kept[i]
             /\ DOMAIN tail = 1 .. Len(list) - Len(kept)
             /\ \A i \in DOMAIN tail : Len(kept) + i \in DOMAIN list
             /\ \A i \in DOMAIN tail : tail[i] = parted[Len(kept) + i]
             /\ \A i \in DOMAIN tail :
                  IF Len(kept) + i \in Clock!Due(list, now) THEN tail[i] = list[Len(kept) + i]
                  ELSE tail[i].cb = Empty
<1> DEFINE n == Len(list)
           kept == Clock!Kept(list, now)
           k == Len(kept)
           parted == Clock!Parted(list, now)
           tail == Clock!ToCall(list, now)
<1>1. kept \in Seq(Waiters) /\ k \in Nat /\ k <= n /\ n \in Nat /\ DOMAIN list = 1 .. n
  BY KeptHolds
<1>2. parted = [i \in 1 .. n |-> IF i <= k THEN kept[i]
                  ELSE IF i \notin Clock!Due(list, now) THEN [list[i] EXCEPT !.cb = Empty]
                  ELSE list[i]]
  BY <1>1 DEF Clock!Parted
<1>3. tail = SubSeq(parted, k + 1, n) BY DEF Clock!ToCall
<1> HIDE DEF kept, parted, tail
<1>4. \A i \in 1 .. n : parted[i] \in Waiters
  <2> TAKE i \in 1 .. n
  <2>1. list[i] \in Waiters BY <1>1
  <2>2. [list[i] EXCEPT !.cb = Empty] \in Waiters BY <2>1 DEF Waiters
  <2>3. i <= k => kept[i] \in Waiters
    <3> HAVE i <= k
    <3>1. i \in 1 .. k BY <1>1
    <3> QED BY <1>1, <3>1 DEF k
  <2> QED BY <1>2, <2>1, <2>2, <2>3
<1>5. parted \in Seq(Waiters) /\ Len(parted) = n
  <2>1. parted = [i \in 1 .. n |-> parted[i]] BY <1>2
  <2>2. parted \in [1 .. n -> Waiters] BY <1>4, <2>1
  <2> QED BY <1>1, <2>1, <2>2
<1>6. \A i \in 1 .. k : parted[i] = kept[i]
  <2> TAKE i \in 1 .. k
  <2>1. i \in 1 .. n /\ i <= k BY <1>1
  <2> QED BY <1>2, <2>1
<1> HIDE DEF k
<1>7. /\ n \in Nat /\ k \in Nat /\ k <= n /\ k + 1 \in 1 .. n + 1 /\ n - k = n - (k + 1) + 1
      /\ \A i \in 1 .. n - k : k + i \in 1 .. n /\ ~(k + i <= k) /\ (k + 1) + i - 1 = k + i
  BY <1>1
<1>8. DOMAIN tail = 1 .. n - k /\ \A i \in 1 .. n - k : tail[i] = parted[k + i]
  <2>1. tail \in Seq(Waiters) BY <1>3, <1>5, <1>7
  <2>2. Len(tail) = n - k BY <1>3, <1>5, <1>7
  <2>3. \A i \in 1 .. n - k : SubSeq(parted, k + 1, n)[i] = parted[k + i]
    <3> TAKE i \in 1 .. n - k
    <3> QED BY <1>5, <1>7
  <2> QED BY <1>3, <2>1, <2>2, <2>3
<1>9. \A i \in 1 .. n - k :
        IF k + i \in Clock!Due(list, now) THEN tail[i] = list[k + i] ELSE tail[i].cb = Empty
  <2> TAKE i \in 1 .. n - k
  <2>1. parted[k + i] = IF k + i \notin Clock!Due(list, now) THEN [list[k + i] EXCEPT !.cb = Empty]
                        ELSE list[k + i]
    BY <1>2, <1>7
  <2>2. list[k + i] \in Waiters BY <1>1, <1>7
  <2>3. [list[k + i] EXCEPT !.cb = Empty].cb = Empty BY <2>2 DEF Waiters
  <2> QED BY <1>8, <2>1, <2>3
<1> QED BY <1>1, <1>5, <1>6, <1>7, <1>8, <1>9 DEF kept, k, parted, tail

\* In any list what is called is due, and what is not due is left.
LEMMA UpdateAny ==
  ASSUME Clock!CallbacksAssumption, NEW list \in Seq(Waiters), NEW now \in Int
  PROVE  /\ Clock!After(list, now) \in Seq(Waiters)
         /\ Clock!Called(list, now) \subseteq Clock!Callees(Clock!DueIn(list, now))
         /\ Clock!EarlyIn(list, now) \subseteq Clock!Entries(Clock!After(list, now))
<1> DEFINE kept == Clock!Kept(list, now)
           parted == Clock!Parted(list, now)
           tail == Clock!ToCall(list, now)
<1>1. /\ kept \in Seq(Waiters) /\ Len(kept) <= Len(list)
      /\ \A i \in DOMAIN list : list[i].at > now => \E j \in DOMAIN kept : kept[j] = list[i]
  BY KeptHolds
<1>2. /\ parted \in Seq(Waiters) /\ Len(parted) = Len(list)
      /\ \A i \in 1 .. Len(kept) : parted[i] = kept[i]
      /\ DOMAIN tail = 1 .. Len(list) - Len(kept)
      /\ \A i \in DOMAIN tail : Len(kept) + i \in DOMAIN list
      /\ \A i \in DOMAIN tail :
           IF Len(kept) + i \in Clock!Due(list, now) THEN tail[i] = list[Len(kept) + i]
           ELSE tail[i].cb = Empty
  BY PartedIs
<1>3. Clock!After(list, now) = parted \/ Clock!After(list, now) = kept
  BY DEF Clock!After
<1>4. ASSUME NEW i \in DOMAIN tail, tail[i].cb # Empty
      PROVE  tail[i] \in Clock!DueIn(list, now)
  BY <1>2, <1>4 DEF Clock!DueIn
<1> DEFINE empty == {i \in DOMAIN tail : tail[i].cb = Empty}
           end == IF empty = {} THEN Len(tail) ELSE Clock!Min(empty) - 1
<1>5. Clock!Called(list, now) = {tail[i].cb : i \in 1 .. end}
  BY DEF Clock!Called
<1>6. ASSUME NEW i \in 1 .. end PROVE i \in DOMAIN tail /\ tail[i].cb # Empty
  <2>1. Len(list) \in Nat /\ Len(kept) \in Nat BY <1>1
  <2>2. DOMAIN tail = 1 .. Len(tail) /\ Len(tail) \in Nat
    <3>1. tail \in Seq(Waiters) BY <1>1, <1>2, <2>1 DEF Clock!ToCall
    <3> QED BY <3>1
  <2>3. CASE empty = {} BY <2>2, <2>3
  <2>4. CASE empty # {}
    <3>1. empty \subseteq 1 .. Len(tail) BY <2>2
    <3> DEFINE m == Clock!Min(empty)
    <3>2. m \in empty /\ \A j \in empty : m <= j
      <4> HIDE DEF empty
      <4>1. PICK j \in empty : \A x \in empty : j <= x BY <2>2, <2>4, <3>1, LeastNumber
      <4> QED BY <4>1 DEF Clock!Min
    <3>3. end = m - 1 BY <2>4
    <3> HIDE DEF m, end
    <3>4. m \in 1 .. Len(tail) BY <3>1, <3>2
    <3>5. i \in 1 .. Len(tail) /\ i < m BY <2>2, <3>3, <3>4
    <3>6. i \notin empty BY <2>2, <3>2, <3>4, <3>5
    <3> QED BY <2>2, <3>5, <3>6
  <2> QED BY <2>3, <2>4
<1>7. Clock!Called(list, now) \subseteq Clock!Callees(Clock!DueIn(list, now))
  <2> HIDE DEF tail, end
  <2> QED BY <1>4, <1>5, <1>6 DEF Clock!Callees
<1> HIDE DEF kept, parted
<1>8. ASSUME NEW i \in DOMAIN list \ Clock!Due(list, now)
      PROVE  list[i] \in Clock!Entries(Clock!After(list, now))
  <2>1. list[i].at \in Int
    <3>1. \A x \in Waiters : x.at \in Int BY DEF Waiters
    <3>2. list[i] \in Waiters OBVIOUS
    <3> QED BY <3>1, <3>2
  <2>2. list[i].at > now BY <2>1 DEF Clock!Due
  <2>3. PICK j \in DOMAIN kept : kept[j] = list[i] BY <1>1, <2>2
  <2>4. j \in 1 .. Len(kept) /\ j \in 1 .. Len(parted) /\ DOMAIN parted = 1 .. Len(parted)
    BY <1>1, <1>2, <2>3
  <2>5. parted[j] = list[i] BY <1>2, <2>3, <2>4
  <2> QED BY <1>3, <2>3, <2>4, <2>5 DEF Clock!Entries
<1>9. Clock!EarlyIn(list, now) \subseteq Clock!Entries(Clock!After(list, now))
  BY <1>8 DEF Clock!EarlyIn
<1> QED BY <1>1, <1>2, <1>3, <1>7, <1>9

\* If nothing to call is empty all of it is called.
LEMMA AllCalled ==
  ASSUME NEW list, NEW now,
         \A i \in DOMAIN Clock!ToCall(list, now) : Clock!ToCall(list, now)[i].cb # Empty
  PROVE  Clock!Called(list, now) =
           {Clock!ToCall(list, now)[i].cb : i \in 1 .. Len(Clock!ToCall(list, now))}
<1>1. {i \in DOMAIN Clock!ToCall(list, now) : Clock!ToCall(list, now)[i].cb = Empty} = {}
  OBVIOUS
<1> QED BY <1>1 DEF Clock!Called

\* In a list in turn nothing is moved from: all that is due is called, and what
\* is left is what is not.
LEMMA UpdateInTurn ==
  ASSUME Clock!CallbacksAssumption, NEW list \in Seq(Waiters), NEW now \in Int,
         Clock!InTurn(list, now)
  PROVE  /\ ~Clock!Throws(list, now)
         /\ Clock!Called(list, now) = Clock!Callees(Clock!DueIn(list, now))
         /\ Clock!Entries(Clock!After(list, now)) = Clock!EarlyIn(list, now)
<1> DEFINE n == Len(list)
           kept == Clock!Kept(list, now)
           tail == Clock!ToCall(list, now)
<1>1. PICK k \in 0 .. Len(list) :
           /\ Clock!Kept(list, now) = SubSeq(list, 1, k)
           /\ \A i \in 1 .. k : list[i].at > now
           /\ \A i \in k + 1 .. Len(list) : list[i].at <= now
  BY KeptIs
<1>2. /\ n \in Nat /\ DOMAIN list = 1 .. n /\ k \in Nat /\ k <= n
      /\ \A i \in 1 .. n : list[i].at \in Int
  <2>1. n \in Nat /\ DOMAIN list = 1 .. n /\ \A i \in 1 .. n : list[i] \in Waiters OBVIOUS
  <2>2. \A x \in Waiters : x.at \in Int BY DEF Waiters
  <2> QED BY <2>1, <2>2
<1>3. Len(kept) = k /\ DOMAIN kept = 1 .. k /\ \A i \in 1 .. k : kept[i] = list[i]
  BY <1>1, <1>2
<1>4. Clock!Due(list, now) = k + 1 .. n
  <2>1. ASSUME NEW i \in 1 .. k PROVE ~(list[i].at <= now)
    <3>1. i \in 1 .. n BY <1>2
    <3>2. list[i].at > now /\ list[i].at \in Int BY <1>1, <1>2, <3>1
    <3> QED BY <3>2
  <2>2. 1 .. n = (1 .. k) \cup (k + 1 .. n) BY <1>2
  <2> QED BY <1>1, <1>2, <2>1, <2>2 DEF Clock!Due
<1>5. /\ DOMAIN tail = 1 .. n - k
      /\ \A i \in 1 .. n - k :
           IF k + i \in Clock!Due(list, now) THEN tail[i] = list[k + i] ELSE tail[i].cb = Empty
  BY <1>3, PartedIs
<1>6. Len(tail) = n - k
  <2>1. tail \in Seq(Waiters)
    <3>1. Clock!Parted(list, now) \in Seq(Waiters) /\ Len(Clock!Parted(list, now)) = n
      BY PartedIs
    <3> QED BY <1>2, <1>3, <3>1 DEF Clock!ToCall
  <2> QED BY <1>2, <1>5, <2>1
<1>17. (\A i \in DOMAIN tail : tail[i].cb # Empty) =>
         Clock!Called(list, now) = {tail[i].cb : i \in 1 .. Len(tail)}
  BY AllCalled
<1> HIDE DEF tail
<1>7. \A i \in 1 .. n - k : k + i \in k + 1 .. n BY <1>2
<1>8. \A i \in 1 .. n - k : tail[i] = list[k + i] BY <1>4, <1>5, <1>7
<1>9. \A i \in 1 .. n - k : tail[i].cb # Empty
  <2> TAKE i \in 1 .. n - k
  <2>1. k + i \in DOMAIN list BY <1>2
  <2> QED BY <1>8, <2>1 DEF Clock!InTurn
<1>10. ~Clock!Throws(list, now) BY <1>5, <1>9 DEF Clock!Throws, tail
<1>11. Clock!Called(list, now) = {tail[i].cb : i \in 1 .. n - k}
  BY <1>5, <1>6, <1>9, <1>17
<1>12. Clock!DueIn(list, now) = {tail[i] : i \in 1 .. n - k}
  <2>1. \A i \in k + 1 .. n : i - k \in 1 .. n - k /\ k + (i - k) = i BY <1>2
  <2>2. \A i \in k + 1 .. n : list[i] = tail[i - k] BY <1>8, <2>1
  <2>3. Clock!DueIn(list, now) = {list[i] : i \in k + 1 .. n} BY <1>4 DEF Clock!DueIn
  <2>4. \A i \in k + 1 .. n : \E j \in 1 .. n - k : list[i] = tail[j] BY <2>1, <2>2
  <2>5. \A j \in 1 .. n - k : \E i \in k + 1 .. n : list[i] = tail[j] BY <1>7, <1>8
  <2> DEFINE A == {list[i] : i \in k + 1 .. n}
             B == {tail[j] : j \in 1 .. n - k}
  <2>6. ASSUME NEW x PROVE x \in A <=> x \in B
    <3>1. x \in A <=> \E i \in k + 1 .. n : x = list[i] OBVIOUS
    <3>2. x \in B <=> \E j \in 1 .. n - k : x = tail[j] OBVIOUS
    <3> HIDE DEF A, B
    <3> QED BY <2>4, <2>5, <3>1, <3>2
  <2>7. A = B
    <3> HIDE DEF A, B
    <3> QED BY <2>6
  <2> QED BY <2>3, <2>7
<1>13. Clock!Called(list, now) = Clock!Callees(Clock!DueIn(list, now))
  BY <1>11, <1>12 DEF Clock!Callees
<1>14. Clock!After(list, now) = kept BY <1>10 DEF Clock!After
<1>15. Clock!EarlyIn(list, now) = {list[i] : i \in 1 .. k}
  <2>1. (1 .. n) \ (k + 1 .. n) = 1 .. k BY <1>2
  <2> QED BY <1>2, <1>4, <2>1 DEF Clock!EarlyIn
<1>16. Clock!Entries(kept) = {list[i] : i \in 1 .. k} BY <1>3 DEF Clock!Entries
<1> QED BY <1>10, <1>13, <1>14, <1>15, <1>16

\* What an update calls of both lists and leaves of them.
CallsRight ==
  LET due == UNION {Clock!DueIn(waiting[l], Clock!Clocks[l]) : l \in Clock!Lists}
  IN  /\ called' \subseteq Clock!Callees(due)
      /\ \A l \in Clock!Lists : \A entry \in Clock!EarlyIn(waiting[l], Clock!Clocks[l]) :
           entry.cb # Empty => entry \in Clock!Entries(waiting'[l])
      /\ (\A l \in Clock!Lists : Clock!InTurn(waiting[l], Clock!Clocks[l])) =>
           /\ called' = Clock!Callees(due)
           /\ \A l \in Clock!Lists :
                Clock!Entries(waiting'[l]) = Clock!EarlyIn(waiting[l], Clock!Clocks[l])

\* An update calls what is right of both lists and leaves lists.
LEMMA UpdateCalls ==
  ASSUME Clock!CalendarAssumption, Clock!CallbacksAssumption, TimesOK, WaitingOK, Clock!Update
  PROVE  WaitingOK' /\ CallsRight
<1> DEFINE w1 == waiting["elapsed"]
           w2 == waiting["time"]
           t1 == counter'
           t2 == StartTime + counter'
           both == ~Clock!Throws(w1, t1)
<1>1. t1 \in Int /\ t2 \in Int
  BY UpdateTimes DEF Clock!CalendarAssumption
<1>2. /\ DOMAIN waiting = Clock!Lists /\ Clock!Lists = {"elapsed", "time"}
      /\ w1 \in Seq(Waiters) /\ w2 \in Seq(Waiters)
  BY DEF WaitingOK, Clock!Lists
<1>3. Clock!Clocks["elapsed"] = t1 /\ Clock!Clocks["time"] = t2 BY DEF Clock!Clocks
<1>4. /\ waiting' = [waiting EXCEPT
                       !["elapsed"] = Clock!After(w1, t1),
                       !["time"] = IF both THEN Clock!After(w2, t2) ELSE w2]
      /\ called' = Clock!Called(w1, t1) \cup (IF both THEN Clock!Called(w2, t2) ELSE {})
  BY DEF Clock!Update, Clock!update_callbacks
<1>5. /\ waiting'["elapsed"] = Clock!After(w1, t1)
      /\ waiting'["time"] = IF both THEN Clock!After(w2, t2) ELSE w2
      /\ waiting' = [l \in Clock!Lists |-> waiting'[l]]
  BY <1>2, <1>4
<1> HIDE DEF t1, t2, w1, w2, both
<1>6. /\ Clock!After(w1, t1) \in Seq(Waiters)
      /\ Clock!Called(w1, t1) \subseteq Clock!Callees(Clock!DueIn(w1, t1))
      /\ Clock!EarlyIn(w1, t1) \subseteq Clock!Entries(Clock!After(w1, t1))
  BY <1>1, <1>2, UpdateAny
<1>7. /\ Clock!After(w2, t2) \in Seq(Waiters)
      /\ Clock!Called(w2, t2) \subseteq Clock!Callees(Clock!DueIn(w2, t2))
      /\ Clock!EarlyIn(w2, t2) \subseteq Clock!Entries(Clock!After(w2, t2))
  BY <1>1, <1>2, UpdateAny
<1>8. WaitingOK'
  <2>1. \A l \in Clock!Lists : waiting'[l] \in Seq(Waiters) BY <1>2, <1>5, <1>6, <1>7
  <2> QED BY <1>5, <2>1 DEF WaitingOK
<1> DEFINE due == UNION {Clock!DueIn(waiting[l], Clock!Clocks[l]) : l \in Clock!Lists}
<1>9. due = Clock!DueIn(w1, t1) \cup Clock!DueIn(w2, t2)
  BY <1>2, <1>3 DEF w1, w2
<1>10. Clock!Callees(due) = Clock!Callees(Clock!DueIn(w1, t1)) \cup Clock!Callees(Clock!DueIn(w2, t2))
  <2> HIDE DEF due
  <2> QED BY <1>9 DEF Clock!Callees
<1> HIDE DEF due
<1>11. called' \subseteq Clock!Callees(due) BY <1>4, <1>6, <1>7, <1>10
<1>12. Clock!EarlyIn(w2, t2) \subseteq Clock!Entries(w2)
  BY DEF Clock!EarlyIn, Clock!Entries
<1>13. \A l \in Clock!Lists :
         Clock!EarlyIn(waiting[l], Clock!Clocks[l]) \subseteq Clock!Entries(waiting'[l])
  BY <1>2, <1>3, <1>5, <1>6, <1>7, <1>12 DEF w1, w2
<1>14. ASSUME \A l \in Clock!Lists : Clock!InTurn(waiting[l], Clock!Clocks[l])
       PROVE  /\ called' = Clock!Callees(due)
              /\ \A l \in Clock!Lists :
                   Clock!Entries(waiting'[l]) = Clock!EarlyIn(waiting[l], Clock!Clocks[l])
  <2>1. Clock!InTurn(w1, t1) /\ Clock!InTurn(w2, t2) BY <1>2, <1>3, <1>14 DEF w1, w2
  <2>2. /\ both /\ Clock!Called(w1, t1) = Clock!Callees(Clock!DueIn(w1, t1))
        /\ Clock!Entries(Clock!After(w1, t1)) = Clock!EarlyIn(w1, t1)
    BY <1>1, <1>2, <2>1, UpdateInTurn DEF both
  <2>3. /\ Clock!Called(w2, t2) = Clock!Callees(Clock!DueIn(w2, t2))
        /\ Clock!Entries(Clock!After(w2, t2)) = Clock!EarlyIn(w2, t2)
    BY <1>1, <1>2, <2>1, UpdateInTurn
  <2>4. called' = Clock!Callees(due) BY <1>4, <1>10, <2>2, <2>3
  <2>5. \A l \in Clock!Lists :
          Clock!Entries(waiting'[l]) = Clock!EarlyIn(waiting[l], Clock!Clocks[l])
    BY <1>2, <1>3, <1>5, <2>2, <2>3 DEF w1, w2
  <2> QED BY <2>4, <2>5
<1> QED BY <1>8, <1>11, <1>13, <1>14 DEF CallsRight, due

\* Every step leaves lists.
LEMMA WaitingStep ==
  Clock!CalendarAssumption /\ Clock!CallbacksAssumption /\ TimesOK /\ WaitingOK /\ [Clock!Next]_tVars => WaitingOK'
<1> SUFFICES ASSUME Clock!CalendarAssumption, Clock!CallbacksAssumption, TimesOK, WaitingOK, [Clock!Next]_tVars
             PROVE  WaitingOK'
  OBVIOUS
<1>1. CASE UNCHANGED waiting BY <1>1 DEF WaitingOK
<1>2. CASE Clock!Update BY <1>2, UpdateCalls
<1>3. ASSUME NEW l \in Clock!Lists, NEW c \in TimerCallbacks, NEW at \in Deadlines, Clock!Subscribe(l, at, c)
      PROVE  WaitingOK'
  <2> DEFINE x == [at |-> at, cb |-> c]
  <2>1. x \in Waiters BY DEF Waiters, Clock!CallbacksAssumption
  <2>2. waiting' = [waiting EXCEPT ![l] = Append(waiting[l], x)] BY <1>3 DEF Clock!Subscribe
  <2> HIDE DEF x
  <2>3. Append(waiting[l], x) \in Seq(Waiters) BY <2>1 DEF WaitingOK
  <2> QED BY <2>2, <2>3 DEF WaitingOK
<1> QED BY <1>1, <1>2, <1>3 DEF Clock!Next, Clock!Go, Clock!Pass, Clock!Pause, Clock!Unpause, tVars

-----------------------------------------------------------------------------
(* The parts share nothing: what holds of one of them holds of it among the  *)
(* others.                                                                   *)

\* A step of the program is a step of the state machine or leaves it alone.
LEMMA FsmAlone == MachinesSpec => Spec
<1>1. MachinesInit => Init BY DEF MachinesInit
<1>2. [MachinesNext]_allVars => [Next]_vars
  BY DEF MachinesNext, allVars, vars, hVars, tVars, eVars
<1> QED BY <1>1, <1>2, PTL DEF MachinesSpec, Spec

\* The lists, generators, ids and walks of the event system agree in every state.
THEOREM EventsInvariance == MachinesSpec => []EventsInv
<1>1. MachinesInit => EventsInv BY EventsStart, EventsAssumption DEF MachinesInit
<1>2. [MachinesNext]_allVars => [Events!Next]_eVars
  BY DEF MachinesNext, allVars, vars, hVars, tVars, eVars
<1>3. EventsInv /\ [MachinesNext]_allVars => EventsInv'
  <2> SUFFICES ASSUME EventsInv, [MachinesNext]_allVars PROVE EventsInv'
    OBVIOUS
  <2>1. [Events!Next]_eVars BY <1>2
  <2> QED BY <2>1, EventsStep, EventsAssumption
<1> QED BY <1>1, <1>3, PTL DEF MachinesSpec

\* An id leads to its own callback until it is taken back, and to nobody after,
\* for any channels, events, callbacks and notifiers.
THEOREM IdsLeadHomeCorrect == MachinesSpec => []IdsLeadHome
<1>1. EventsInv => IdsLeadHome BY InvGivesHome, EventsAssumption DEF IdsLeadHome
<1> QED BY <1>1, EventsInvariance, PTL

\* A trigger calls who was subscribed when it began, in order, once, however deep
\* triggers nest.
THEOREM CallsWhoWasThereCorrect == MachinesSpec => []CallsWhoWasThere
<1>1. EventsInv => CallsWhoWasThere BY InvGivesCalls DEF CallsWhoWasThere
<1> QED BY <1>1, EventsInvariance, PTL

\* A step of anything is one of the timer or leaves it.
LEMMA ClockStep == [MachinesNext]_allVars => [Clock!Next]_tVars
BY DEF MachinesNext, allVars, vars, hVars, tVars, eVars

\* The clock is right in every state.
THEOREM TimesInvariance == MachinesSpec => [](TimesOK /\ WaitingOK)
<1>1. MachinesInit => TimesOK /\ WaitingOK BY ClockAssumption, InitTimer DEF MachinesInit
<1>2. TimesOK /\ WaitingOK /\ [MachinesNext]_allVars => (TimesOK /\ WaitingOK)'
  BY ClockAssumption, ClockStep, TimesStep, WaitingStep
<1> QED BY <1>1, <1>2, PTL DEF MachinesSpec

\* Every unit is ticked when it began, months and years by the calendar.
THEOREM TicksInvariance == ASSUME Clock!StartsOnCalendar PROVE MachinesSpec => []TicksOK
<1>1. MachinesInit => TicksOK BY ClockAssumption, InitTimer DEF MachinesInit
<1>2. TimesOK /\ TicksOK /\ [MachinesNext]_allVars => TicksOK'
  BY ClockAssumption, ClockStep, TicksStep
<1> QED BY <1>1, <1>2, TimesInvariance, PTL DEF MachinesSpec

\* An update announces the units that began since the last, however many did and
\* though it stops at the first that did not.
THEOREM AnnouncesWhatBeganCorrect ==
  ASSUME Clock!StartsOnCalendar PROVE MachinesSpec => AnnouncesWhatBegan
<1>1. TimesOK /\ TicksOK /\ [MachinesNext]_allVars =>
        [seen' # seen => \A e \in Clock!Events : e \in fired' <=>
           \E b \in Clock!Boundaries(e) :
             StartTime + counter < b /\ b <= StartTime + counter']_(Clock!vars)
  BY ClockAssumption, ClockStep, UpdateAnnounces
<1> QED BY <1>1, TimesInvariance, TicksInvariance, PTL
        DEF MachinesSpec, AnnouncesWhatBegan, Clock!AnnouncesWhatBegan

\* Whatever the order in which callbacks were subscribed, an update calls none
\* that is not due and keeps those that are not; it calls all that are due if
\* they stand behind the others.
THEOREM CallsTheDueCorrect == MachinesSpec => CallsTheDue
<1>1. TimesOK /\ WaitingOK /\ [MachinesNext]_allVars => [Clock!Update => CallsRight]_(Clock!vars)
  BY ClockAssumption, UpdateCalls
<1>2. [Clock!Update => CallsRight]_(Clock!vars) =>
      [Clock!Update =>
       LET due == UNION {Clock!DueIn(waiting[l], Clock!Clocks[l]) : l \in Clock!Lists}
       IN  /\ called' \subseteq Clock!Callees(due)
           /\ \A l \in Clock!Lists : \A entry \in Clock!EarlyIn(waiting[l], Clock!Clocks[l]) :
                entry.cb # Empty => entry \in Clock!Entries(waiting'[l])
           /\ (\A l \in Clock!Lists : Clock!InTurn(waiting[l], Clock!Clocks[l])) =>
                /\ called' = Clock!Callees(due)
                /\ \A l \in Clock!Lists :
                     Clock!Entries(waiting'[l]) = Clock!EarlyIn(waiting[l], Clock!Clocks[l])]_(Clock!vars)
  BY DEF CallsRight
<1> QED BY <1>1, <1>2, TimesInvariance, PTL DEF MachinesSpec, CallsTheDue, Clock!CallsTheDue

-----------------------------------------------------------------------------
(* What is proved of Hfsm holds of the machine in it.                      *)

HierFacts == INSTANCE Hfsm_proofs WITH
  States <- HStates, Transitions <- HTransitions, Default <- DefaultState,
  current <- hCurrent, history <- hHistory

\* The instances have the same assumptions.
LEMMA SameHierarchy ==
  /\ Hier!HierarchyAssumption <=> HierFacts!HierarchyAssumption
  /\ Hier!TwoLevels <=> HierFacts!TwoLevels
<1>1. Hier!EventRecords = HierFacts!EventRecords BY DEF Hier!EventRecords, HierFacts!EventRecords
<1>2. Hier!Calls = HierFacts!Calls
  BY DEF Hier!Calls, HierFacts!Calls, Hier!Updating, HierFacts!Updating,
     Hier!Starting, HierFacts!Starting
<1>3. Hier!TwoLevels <=> HierFacts!TwoLevels BY DEF Hier!TwoLevels, HierFacts!TwoLevels
<1> QED BY <1>1, <1>2, <1>3 DEF Hier!HierarchyAssumption, HierFacts!HierarchyAssumption

\* The same states are inside one another.
LEMMA SameChains ==
  ASSUME NEW substate, NEW s
  PROVE  Hier!Chain(substate, s) = HierFacts!Chain(substate, s)
BY DEF Hier!Chain, HierFacts!Chain

\* The same events exit and update the current states.
LEMMA SameDepthFirst ==
  ASSUME NEW s PROVE Hier!DepthFirst(s) = HierFacts!DepthFirst(s)
BY SameChains DEF Hier!DepthFirst, HierFacts!DepthFirst

\* Events are the same records.
LEMMA SameEvents ==
  ASSUME NEW kind, NEW states
  PROVE  /\ Hier!Event(kind, states) = HierFacts!Event(kind, states)
         /\ Hier!Events(kind, states) = HierFacts!Events(kind, states)
BY DEF Hier!Event, HierFacts!Event, Hier!Events, HierFacts!Events

\* The same states are updated.
LEMMA SameUpdated == Hier!Updated = HierFacts!Updated
<1> DEFINE states == Hier!DepthFirst(hCurrent)
           last == {i \in DOMAIN states : states[i] \notin ParentUpdate}
           n == IF last = {} THEN Len(states) ELSE Hier!Min(last)
<1>1. states = HierFacts!DepthFirst(hCurrent) BY SameDepthFirst
<1> HIDE DEF states
<1>2. Hier!Min(last) = HierFacts!Min(last) BY DEF Hier!Min, HierFacts!Min
<1>3. Hier!Updated = Hier!Reverse(SubSeq(states, 1, n)) BY DEF Hier!Updated, states
<1>4. HierFacts!Updated = HierFacts!Reverse(SubSeq(states, 1, n))
  BY <1>1, <1>2 DEF HierFacts!Updated
<1> DEFINE chosen == SubSeq(states, 1, n)
<1> HIDE DEF chosen, n
<1>5. Hier!Reverse(chosen) = HierFacts!Reverse(chosen)
  BY DEF Hier!Reverse, HierFacts!Reverse
<1> QED BY <1>3, <1>4, <1>5 DEF chosen

\* A state is gone to in the same way.
LEMMA SameGoTo == ASSUME NEW s PROVE Hier!GoTo(s) <=> HierFacts!GoTo(s)
BY SameChains
DEF Hier!GoTo, HierFacts!GoTo, Hier!Initialised, HierFacts!Initialised, Hier!ToSet, HierFacts!ToSet

\* The same transitions are offered, taken and decided on.
LEMMA SameDecisions ==
  ASSUME NEW t
  PROVE  /\ Hier!Decisions(t) = HierFacts!Decisions(t)
         /\ \A d : Hier!TakenBy(d, t) <=> HierFacts!TakenBy(d, t)
         /\ Hier!Refusable(t) <=> HierFacts!Refusable(t)
         /\ Hier!Decide(t) <=> HierFacts!Decide(t)
<1>1. Hier!Offered = HierFacts!Offered
  BY SameChains DEF Hier!Offered, HierFacts!Offered, Hier!Reverse, HierFacts!Reverse
<1>2. Hier!Decisions(t) = HierFacts!Decisions(t)
  BY <1>1 DEF Hier!Decisions, HierFacts!Decisions
<1>3. ASSUME NEW d PROVE Hier!TakenBy(d, t) <=> HierFacts!TakenBy(d, t)
  BY DEF Hier!TakenBy, HierFacts!TakenBy
<1>4. Hier!Refusable(t) <=> HierFacts!Refusable(t)
  BY <1>1 DEF Hier!Refusable, HierFacts!Refusable
<1>5. Hier!NoInfo = HierFacts!NoInfo BY DEF Hier!NoInfo, HierFacts!NoInfo
<1>6. Hier!Decide(t) <=> HierFacts!Decide(t)
  BY <1>2, <1>3, <1>4, <1>5 DEF Hier!Decide, HierFacts!Decide
<1> QED BY <1>2, <1>3, <1>4, <1>6

\* A transition is carried out by the same events.
LEMMA SameCarryOut ==
  ASSUME NEW d, NEW rest PROVE Hier!CarryOut(d, rest) = HierFacts!CarryOut(d, rest)
<1>1. Hier!Topmost = HierFacts!Topmost BY DEF Hier!Topmost, HierFacts!Topmost
<1> QED BY <1>1, SameChains, SameDepthFirst, SameEvents DEF Hier!CarryOut, HierFacts!CarryOut

\* A machine is started in the same way.
LEMMA SameStart == ASSUME NEW then PROVE Hier!Start(then) <=> HierFacts!Start(then)
BY SameGoTo, SameChains, SameEvents
DEF Hier!Start, HierFacts!Start, Hier!Starting, HierFacts!Starting

\* The instances take the same steps.
LEMMA SameTurns == [Hier!Next]_hVars => [HierFacts!Next]_(HierFacts!vars)
<1>1. Hier!Resting <=> HierFacts!Resting BY DEF Hier!Resting, HierFacts!Resting
<1>2. Hier!Updating = HierFacts!Updating BY DEF Hier!Updating, HierFacts!Updating
<1>3. ASSUME NEW t PROVE Hier!Trigger(t) <=> HierFacts!Trigger(t)
  BY <1>1, SameStart, SameDecisions DEF Hier!Trigger, HierFacts!Trigger
<1>4. ASSUME NEW t PROVE Hier!Sensible(t) <=> HierFacts!Sensible(t)
  BY SameDecisions DEF Hier!Sensible, HierFacts!Sensible
<1>5. Hier!Update <=> HierFacts!Update
  BY <1>1, <1>2, SameStart, SameUpdated, SameEvents DEF Hier!Update, HierFacts!Update
<1>6. Hier!Started <=> HierFacts!Started
  BY <1>2, SameDecisions, SameUpdated, SameEvents DEF Hier!Started, HierFacts!Started
<1>7. Hier!Return <=> HierFacts!Return BY <1>2 DEF Hier!Return, HierFacts!Return
<1>8. Hier!RunCallback <=> HierFacts!RunCallback BY DEF Hier!RunCallback, HierFacts!RunCallback
<1>9. Hier!RunUpdate <=> HierFacts!RunUpdate BY DEF Hier!RunUpdate, HierFacts!RunUpdate
<1>10. Hier!SkipUpdate <=> HierFacts!SkipUpdate
  BY SameDecisions, SameCarryOut DEF Hier!SkipUpdate, HierFacts!SkipUpdate
<1>11. Hier!ChangeState <=> HierFacts!ChangeState
  BY SameGoTo DEF Hier!ChangeState, HierFacts!ChangeState
<1>12. Hier!ChangeSubstate <=> HierFacts!ChangeSubstate
  BY DEF Hier!ChangeSubstate, HierFacts!ChangeSubstate
<1>13. Hier!CallbackReturns <=> HierFacts!CallbackReturns
  BY SameCarryOut
  DEF Hier!CallbackReturns, HierFacts!CallbackReturns, Hier!Continue, HierFacts!Continue
<1>14. Hier!Next <=> HierFacts!Next
  BY <1>3, <1>4, <1>5, <1>6, <1>7, <1>8, <1>9, <1>10, <1>11, <1>12, <1>13
  DEF Hier!Next, HierFacts!Next
<1> QED BY <1>14 DEF hVars, HierFacts!vars

\* Whatever else moves, the machine behaves as Hfsm.
LEMMA HierAlone == MachinesSpec => HierFacts!Spec
<1>1. MachinesInit => HierFacts!Init
  BY DEF MachinesInit, Hier!Init, HierFacts!Init, Hier!NoInfo, HierFacts!NoInfo
<1>2. [MachinesNext]_allVars => [Hier!Next]_hVars
  BY DEF MachinesNext, allVars, vars, hVars, tVars, eVars
<1>3. [MachinesNext]_allVars => [HierFacts!Next]_(HierFacts!vars) BY <1>2, SameTurns
<1> QED BY <1>1, <1>3, PTL DEF MachinesSpec, HierFacts!Spec

\* However transitions were decided, replaced and cut short, when no call runs
\* the states that were entered and not exited are the current ones.
THEOREM RestsInCurrentCorrect ==
  ASSUME Hier!TwoLevels PROVE MachinesSpec => []RestsInCurrent
<1>1. HierFacts!Spec => []HierFacts!RestsInCurrent
  BY HierarchyAssumption, SameHierarchy, HierFacts!RestsInCurrentCorrect
<1>2. HierFacts!RestsInCurrent => RestsInCurrent
  BY SameChains
  DEF RestsInCurrent, Hier!RestsInCurrent, HierFacts!RestsInCurrent, Hier!Resting,
      HierFacts!Resting, Hier!ToSet, HierFacts!ToSet
<1> QED BY <1>1, <1>2, HierAlone, PTL

\* A state is entered once for each time it is exited, inside the state around
\* it, and exited after the states inside it.
THEOREM EntersAndExitsNestCorrect ==
  ASSUME Hier!TwoLevels PROVE MachinesSpec => EntersAndExitsNest
<1>1. HierFacts!Spec => HierFacts!EntersAndExitsNest
  BY HierarchyAssumption, SameHierarchy, HierFacts!EntersAndExitsNestCorrect
<1>2. HierFacts!EntersAndExitsNest => Hier!EntersAndExitsNest
  BY PTL DEF HierFacts!EntersAndExitsNest, Hier!EntersAndExitsNest, HierFacts!Inside, Hier!Inside,
     HierFacts!vars, Hier!vars
<1> QED BY <1>1, <1>2, HierAlone, PTL DEF EntersAndExitsNest

\* An update runs only in a state that is entered and was not told to change.
THEOREM UpdatesTheActiveCorrect ==
  ASSUME Hier!TwoLevels PROVE MachinesSpec => UpdatesTheActive
<1>1. HierFacts!Spec => HierFacts!UpdatesTheActive
  BY HierarchyAssumption, SameHierarchy, HierFacts!UpdatesTheActiveCorrect
<1>2. HierFacts!UpdatesTheActive => Hier!UpdatesTheActive
  BY PTL DEF HierFacts!UpdatesTheActive, Hier!UpdatesTheActive, HierFacts!vars, Hier!vars
<1> QED BY <1>1, <1>2, HierAlone, PTL DEF UpdatesTheActive
=============================================================================
