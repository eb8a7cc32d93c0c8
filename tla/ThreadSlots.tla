---------------------------- MODULE ThreadSlots ----------------------------
(***************************************************************************)
(* What fea::tls promises, without its mutex, its scan and its deques: a   *)
(* row of data, each bound for good to the thread that asked for it first. *)
(* A thread holds data of its own, each at most once; it reuses one that   *)
(* it does not hold, and a new datum is made for it only when there is     *)
(* none.                                                                   *)
(***************************************************************************)
EXTENDS Naturals, Sequences

CONSTANT Threads

VARIABLES
  owner,    (* owner[i]: the thread the i-th datum is bound to             *)
  inUse     (* per thread: the data it holds                               *)

Data == 1 .. Len(owner)

Init == owner = <<>> /\ inUse = [t \in Threads |-> {}]

Free(t) == {i \in Data : owner[i] = t} \ inUse[t]

Reuse(t) ==
  \E i \in Free(t) :
    /\ inUse' = [inUse EXCEPT ![t] = @ \cup {i}]
    /\ UNCHANGED owner

Grow(t) ==
  /\ Free(t) = {}
  /\ owner' = Append(owner, t)
  /\ inUse' = [inUse EXCEPT ![t] = @ \cup {Len(owner) + 1}]

Release(t) ==
  \E i \in inUse[t] :
    /\ inUse' = [inUse EXCEPT ![t] = @ \ {i}]
    /\ UNCHANGED owner

Reset ==
  /\ \A t \in Threads : inUse[t] = {}
  /\ owner' = <<>>
  /\ UNCHANGED inUse

Next ==
  \/ \E t \in Threads : Reuse(t) \/ Grow(t) \/ Release(t)
  \/ Reset

Spec == Init /\ [][Next]_<<owner, inUse>>

=============================================================================
