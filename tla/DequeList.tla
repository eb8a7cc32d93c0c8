----------------------------- MODULE DequeList -----------------------------
(***************************************************************************)
(* fea::deque_list (include_cpp17/fea/containers/deque_list.hpp): a linked *)
(* list of buckets of BucketSize elements, the first one allocated in      *)
(* place.                                                                  *)
(*                                                                         *)
(* A bucket emptied by pop_back or clear stays linked and is used again    *)
(* when the list grows.  An iterator keeps the last bucket there was when  *)
(* it was made, and the caller limits it to the size there was.            *)
(***************************************************************************)
EXTENDS DequeBuckets, SequencesExt

CONSTANTS
  Lists,        (* the containers                                          *)
  Values        (* what they hold                                          *)

VARIABLES
  chain,    (* per list: the linked buckets, each the sequence it holds    *)
  last,     (* per list: the position of _last_bucket in the chain         *)
  size,     (* per list: _size                                             *)
  iter      (* per list: an iterator, and how many elements it may visit   *)

vars == <<chain, last, size, iter>>

NoIter == [bucket |-> 1, idx |-> 0, last |-> 1, left |-> 0]

TypeOK ==
  /\ chain \in [Lists -> Seq(Seq(Values))]
  /\ \A l \in Lists : \A b \in DOMAIN chain[l] : Len(chain[l][b]) <= BucketSize
  /\ last \in [Lists -> Nat \ {0}]
  /\ \A l \in Lists : last[l] <= Len(chain[l])
  /\ size \in [Lists -> 0 .. MaxSize]
  /\ iter \in [Lists -> [bucket : Nat \ {0}, idx : 0 .. BucketSize,
                         last : Nat \ {0}, left : 0 .. MaxSize]]

Init ==
  /\ chain = [l \in Lists |-> << <<>> >>]
  /\ last = [l \in Lists |-> 1]
  /\ size = [l \in Lists |-> 0]
  /\ iter = [l \in Lists |-> NoIter]

-----------------------------------------------------------------------------
\* maybe_grow: a full last bucket gives way to the next one, linked if needed.
Grown(l) ==
  IF Len(chain[l][last[l]]) < BucketSize THEN [chain |-> chain[l], last |-> last[l]]
  ELSE [chain |-> IF last[l] = Len(chain[l]) THEN Append(chain[l], <<>>)
                  ELSE chain[l],
        last |-> last[l] + 1]

\* The assertion of push_back holds.
HasRoom(l) == Len(Grown(l).chain[Grown(l).last]) < BucketSize

PushBack(l, v) ==
  /\ size[l] < MaxSize
  /\ chain' = [chain EXCEPT ![l] = [Grown(l).chain EXCEPT
                                      ![Grown(l).last] = Append(@, v)]]
  /\ last' = [last EXCEPT ![l] = Grown(l).last]
  /\ size' = [size EXCEPT ![l] = @ + 1]
  /\ UNCHANGED iter

\* The last element of the last bucket is the one back() returns.
PopBack(l) ==
  /\ size[l] > 0
  /\ chain[l][last[l]] # <<>>
  /\ chain' = [chain EXCEPT ![l][last[l]] = Front(@)]
  /\ last' = [last EXCEPT ![l] = IF Len(chain[l][@]) = 1 /\ @ > 1 THEN @ - 1 ELSE @]
  /\ size' = [size EXCEPT ![l] = @ - 1]
  /\ iter' = [iter EXCEPT ![l] = NoIter]

\* Mutant of Clear: the last bucket stays the last one.
ClearKeepsLast(l) ==
  /\ chain' = [chain EXCEPT ![l] = [b \in DOMAIN @ |-> <<>>]]
  /\ size' = [size EXCEPT ![l] = 0]
  /\ iter' = [iter EXCEPT ![l] = NoIter]
  /\ UNCHANGED last

\* Every bucket is emptied and stays linked.
Clear(l) ==
  /\ chain' = [chain EXCEPT ![l] = [b \in DOMAIN @ |-> <<>>]]
  /\ last' = [last EXCEPT ![l] = 1]
  /\ size' = [size EXCEPT ![l] = 0]
  /\ iter' = [iter EXCEPT ![l] = NoIter]

\* The buckets after the last one are freed; the first of them must be empty.
ShrinkToFit(l) ==
  /\ last[l] < Len(chain[l])
  /\ chain' = [chain EXCEPT ![l] = SubSeq(@, 1, last[l])]
  /\ UNCHANGED <<last, size, iter>>

-----------------------------------------------------------------------------
\* The buckets an assignment visits: up to the first empty one.
Filled(c) == SelectInSeq(Append(c, <<>>), LAMBDA b : b = <<>>) - 1

\* The chain of a list that was mine once c is assigned to it: each bucket is
\* filled in place, and a new one is linked for each that follows.
Assigned(mine, c) ==
  CASE Filled(c) = 0 -> mine
    [] Filled(c) = 1 -> <<Head(c)>> \o Tail(mine)
    [] OTHER -> SubSeq(c, 1, Filled(c))

Copy(to, from) ==
  /\ to # from
  /\ chain' = [chain EXCEPT ![to] = Assigned(@, chain[from])]
  /\ last' = [last EXCEPT ![to] = IF size[from] = 0 THEN 1 ELSE Filled(chain[from])]
  /\ size' = [size EXCEPT ![to] = size[from]]
  /\ iter' = [iter EXCEPT ![to] = NoIter]

\* Mutant of Move: the buckets of the list moved from keep their sizes.
MoveKeepsBuckets(to, from) ==
  /\ to # from
  /\ chain' = [chain EXCEPT ![to] = Assigned(@, chain[from])]
  /\ last' = [last EXCEPT ![to] = IF size[from] = 0 THEN 1 ELSE Filled(chain[from]),
                          ![from] = 1]
  /\ size' = [size EXCEPT ![to] = size[from], ![from] = 0]
  /\ iter' = [iter EXCEPT ![to] = NoIter, ![from] = NoIter]

\* The same with the elements moved: the buckets moved from are emptied.
Move(to, from) ==
  /\ to # from
  /\ chain' = [chain EXCEPT ![to] = Assigned(@, chain[from]),
                            ![from] = [b \in DOMAIN @ |->
                               IF b <= Filled(chain[from]) THEN <<>> ELSE @[b]]]
  /\ last' = [last EXCEPT ![to] = IF size[from] = 0 THEN 1 ELSE Filled(chain[from]),
                          ![from] = 1]
  /\ size' = [size EXCEPT ![to] = size[from], ![from] = 0]
  /\ iter' = [iter EXCEPT ![to] = NoIter, ![from] = NoIter]

-----------------------------------------------------------------------------
\* begin(), by a caller that limits the iteration to size().
Begin(l) ==
  /\ iter' = [iter EXCEPT ![l] =
                [bucket |-> 1, idx |-> 0, last |-> last[l], left |-> size[l]]]
  /\ UNCHANGED <<chain, last, size>>

\* Mutant of Read: the end of the last bucket is not an exception.
ReadPastLast(l) ==
  /\ iter[l].left > 0
  /\ iter' = [iter EXCEPT ![l] =
       IF @.idx + 1 > BucketSize /\ @.bucket # @.last
       THEN [@ EXCEPT !.bucket = @ + 1, !.idx = 0, !.left = @ - 1]
       ELSE [@ EXCEPT !.idx = IF @ = BucketSize THEN @ ELSE @ + 1, !.left = @ - 1]]
  /\ UNCHANGED <<chain, last, size>>

\* An element is read and the iterator goes on: to the next bucket at the end
\* of one, unless that one was the last.
Read(l) ==
  /\ iter[l].left > 0
  /\ LET it == iter[l]
     IN  iter' = [iter EXCEPT ![l] =
           IF it.idx + 1 = BucketSize /\ it.bucket # it.last
           THEN [bucket |-> it.bucket + 1, idx |-> 0,
                 last |-> it.last, left |-> it.left - 1]
           ELSE [bucket |-> it.bucket, idx |-> it.idx + 1,
                 last |-> it.last, left |-> it.left - 1]]
  /\ UNCHANGED <<chain, last, size>>

-----------------------------------------------------------------------------
OnList(l) ==
  \/ \E v \in Values : PushBack(l, v)
  \/ PopBack(l) \/ Clear(l) \/ ShrinkToFit(l) \/ Begin(l) \/ Read(l)

\* Assignment to a list that never held anything, as the constructors do.
IsNew(l) == chain[l] = << <<>> >>

Next ==
  \E l \in Lists :
    \/ OnList(l)
    \/ IsNew(l) /\ \E from \in Lists : Copy(l, from) \/ Move(l, from)

Spec == Init /\ [][Next]_vars

\* The same with assignment to any list.
NextAssign ==
  \E l, from \in Lists : OnList(l) \/ Copy(l, from) \/ Move(l, from)
SpecAssign == Init /\ [][NextAssign]_vars

-----------------------------------------------------------------------------
(* What makes the list correct.                                            *)

\* The buckets before the last are full, those after it are empty, the last
\* is not empty unless it is the first, and _size counts the elements.  All
\* the assertions of deque_list.hpp follow.
BucketShape ==
  \A l \in Lists :
    /\ \A b \in 1 .. last[l] - 1 : Len(chain[l][b]) = BucketSize
    /\ \A b \in last[l] + 1 .. Len(chain[l]) : chain[l][b] = <<>>
    /\ last[l] > 1 => chain[l][last[l]] # <<>>
    /\ size[l] = (last[l] - 1) * BucketSize + Len(chain[l][last[l]])

\* push_back asserts that there is room once the list has grown.
PushHasRoom == \A l \in Lists : HasRoom(l)

\* An iterator that may still visit an element points to one.
IterInBounds ==
  \A l \in Lists : iter[l].left > 0 =>
    /\ iter[l].bucket \in DOMAIN chain[l]
    /\ iter[l].idx < Len(chain[l][iter[l].bucket])

\* Each list is the sequence that begin() to end() shows, and an iteration that
\* lasts while the list grows reads what the list held when it began.
Elements(l) == FlattenSeq(SubSeq(chain[l], 1, last[l]))
ToRead(l) ==
  LET at == (iter[l].bucket - 1) * BucketSize + iter[l].idx
  IN  SubSeq(Elements(l), at + 1, at + iter[l].left)

Abstract == INSTANCE SeqLists WITH
  contents <- [l \in Lists |-> Elements(l)],
  reading <- [l \in Lists |-> ToRead(l)]

ImplementsSeqLists == Abstract!Spec

=============================================================================
