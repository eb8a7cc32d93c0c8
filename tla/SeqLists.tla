------------------------------ MODULE SeqLists ------------------------------
(***************************************************************************)
(* What deque_list promises: each list is a sequence, and an iteration     *)
(* limited to the size it began with reads that prefix, while the list     *)
(* grows.                                                                  *)
(***************************************************************************)
EXTENDS Naturals, Sequences

CONSTANTS Lists, Values

VARIABLES
  contents,   (* per list: a sequence of values                            *)
  reading     (* per list: what an iteration has still to read             *)

Init == contents = [l \in Lists |-> <<>>] /\ reading = [l \in Lists |-> <<>>]

\* The list becomes s, and no iteration of it goes on.
Become(l, s) ==
  /\ contents' = [contents EXCEPT ![l] = s]
  /\ reading' = [reading EXCEPT ![l] = <<>>]

PushBack(l, v) ==
  /\ contents' = [contents EXCEPT ![l] = Append(@, v)]
  /\ UNCHANGED reading

PopBack(l) ==
  /\ contents[l] # <<>>
  /\ Become(l, SubSeq(contents[l], 1, Len(contents[l]) - 1))

Clear(l) == Become(l, <<>>)

Copy(to, from) == Become(to, contents[from])

Move(to, from) ==
  /\ contents' = [contents EXCEPT ![to] = contents[from], ![from] = <<>>]
  /\ reading' = [reading EXCEPT ![to] = <<>>, ![from] = <<>>]

Begin(l) ==
  /\ reading' = [reading EXCEPT ![l] = contents[l]]
  /\ UNCHANGED contents

Read(l) ==
  /\ reading[l] # <<>>
  /\ reading' = [reading EXCEPT ![l] = Tail(@)]
  /\ UNCHANGED contents

Next ==
  \E l \in Lists :
    \/ \E v \in Values : PushBack(l, v)
    \/ PopBack(l) \/ Clear(l) \/ Begin(l) \/ Read(l)
    \/ \E from \in Lists \ {l} : Copy(l, from) \/ Move(l, from)

Spec == Init /\ [][Next]_<<contents, reading>>

=============================================================================
