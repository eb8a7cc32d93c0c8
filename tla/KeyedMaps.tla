----------------------------- MODULE KeyedMaps -----------------------------
(***************************************************************************)
(* What a slotmap promises: maps from keys to values, and a loop that may  *)
(* erase what it looks at and looks at every key once.                     *)
(***************************************************************************)
EXTENDS Naturals

CONSTANTS Maps, Keys, Values

VARIABLES
  contents,   (* per map: a function from some keys to values              *)
  unseen      (* per map: the keys a loop over it has not looked at        *)

Init ==
  /\ contents = [m \in Maps |-> [k \in {} |-> k]]
  /\ unseen = [m \in Maps |-> {}]

With(f, k, v) == [j \in DOMAIN f \cup {k} |-> IF j = k THEN v ELSE f[j]]
Without(f, S) == [j \in DOMAIN f \ S |-> f[j]]

\* A key is given a value.
Store(m) ==
  /\ LET old == contents
     IN  contents' \in {[old EXCEPT ![m] = With(@, item[1], item[2])] :
                          item \in Keys \X Values}
  /\ UNCHANGED unseen

\* Some keys go, one or those of a range.
Erase(m) ==
  /\ LET old == contents
     IN  contents' \in {[old EXCEPT ![m] = Without(@, S)] : S \in SUBSET DOMAIN old[m]}
  /\ UNCHANGED unseen

Clear(m) ==
  /\ contents' = [contents EXCEPT ![m] = [k \in {} |-> k]]
  /\ UNCHANGED unseen

Swap(m, n) ==
  /\ contents' = [contents EXCEPT ![m] = contents[n], ![n] = contents[m]]
  /\ UNCHANGED unseen

BeginLoop(m) ==
  /\ unseen' = [unseen EXCEPT ![m] = DOMAIN contents[m]]
  /\ UNCHANGED contents

\* A key that was not looked at is: it stays, or it goes.
LookAt(m, k) ==
  /\ k \in unseen[m]
  /\ unseen' = [unseen EXCEPT ![m] = @ \ {k}]
  /\ \/ UNCHANGED contents
     \/ contents' = [contents EXCEPT ![m] = Without(@, {k})]

Next ==
  \E m \in Maps :
    \/ Store(m) \/ Erase(m) \/ Clear(m) \/ BeginLoop(m)
    \/ \E n \in Maps \ {m} : Swap(m, n)
    \/ \E k \in Keys : LookAt(m, k)

Spec == Init /\ [][Next]_<<contents, unseen>>

=============================================================================
