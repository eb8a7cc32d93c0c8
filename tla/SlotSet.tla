------------------------------ MODULE SlotSet ------------------------------
(***************************************************************************)
(* fea::unsigned_compact_slotset and fea::unsigned_slotset                 *)
(* (containers/unsigned_compact_slotset.hpp, unsigned_slotset.hpp): sets   *)
(* of unsigned numbers, a vector of bitsets that is indexed by key.  In    *)
(* the second one a bitset is a byte for one key: its size is 1.           *)
(*                                                                         *)
(* An operation is a function on the members of a set, its loops folds.    *)
(***************************************************************************)
EXTENDS Naturals, SequencesExt, FiniteSetsExt

CONSTANTS
  Sets,      (* the containers                                             *)
  Widths,    (* the values of bitset_size                                  *)
  Keys,      (* bound: the keys that are inserted                          *)
  Batches    (* bound: the sequences of keys that are inserted at once     *)

\* Keys are unsigned numbers, and a range that is inserted has one.
SetsAssumption ==
  Widths \subseteq Nat \ {0} /\ Keys \subseteq Nat /\ Batches \subseteq Seq(Nat) \ {<<>>}

VARIABLES
  bits,      (* bitset_size: a constant of the type, one per behaviour     *)
  sets,      (* per set: its members _lookup and _size                     *)
  movedFrom  (* history: the sets that were moved from                     *)

vars == <<bits, sets, movedFrom>>

EmptySet == [lookup |-> <<>>, size |-> 0]

Init == bits \in Widths /\ sets = [s \in Sets |-> EmptySet] /\ movedFrom = {}

-----------------------------------------------------------------------------
(* The vector of bitsets                                                     *)

\* contains; lookup_idx and local_idx are the quotient and the remainder.
Has(set, key) ==
  /\ key \div bits < Len(set.lookup)
  /\ key % bits \in set.lookup[key \div bits + 1]

\* maybe_resize
Resized(set, key) ==
  [set EXCEPT !.lookup =
     @ \o [i \in 1 .. key \div bits + 1 - Len(@) |-> {}]]

Mark(set, key) ==
  IF Has(set, key) THEN set
  ELSE [set EXCEPT !.lookup[key \div bits + 1] = @ \cup {key % bits},
                   !.size = @ + 1]

\* insert of a range: room for the largest key first.
Filled(set, keys) == FoldLeft(Mark, Resized(set, Max(ToSet(keys))), keys)

\* Mutant of Erased: erase does not look whether the key is there.
ErasedAnyway(set, key) ==
  IF key \div bits >= Len(set.lookup) THEN set
  ELSE [set EXCEPT !.lookup[key \div bits + 1] = @ \ {key % bits},
                   !.size = IF @ = 0 THEN @ ELSE @ - 1]

Erased(set, key) ==
  IF ~Has(set, key) THEN set
  ELSE [set EXCEPT !.lookup[key \div bits + 1] = @ \ {key % bits},
                   !.size = @ - 1]

-----------------------------------------------------------------------------
(* Iterators: an iterator is the place of its bit.                           *)

End(set) == Len(set.lookup) * bits
Elements(set) == {k \in 0 .. End(set) - 1 : Has(set, k)}

\* operator++ stops at the next bit that is set, or at the end.
After(set, it) ==
  Min({i \in it + 1 .. End(set) : i = End(set) \/ Has(set, i)})
Begin(set) == IF set.lookup = <<>> \/ Has(set, 0) THEN 0 ELSE After(set, 0)

\* A loop from an iterator to another that erases the keys in Unwanted: erase by
\* iterator and erase of a key followed by ++ both go on at the next bit.
Loop(set, from, upto, Unwanted) ==
  FoldLeft(LAMBDA acc, i :
             IF acc.it = upto THEN acc
             ELSE LET c == IF acc.it \in Unwanted THEN Erased(acc.set, acc.it)
                                                  ELSE acc.set
                  IN  [set |-> c, it |-> After(c, acc.it)],
           [set |-> set, it |-> from], [i \in 1 .. End(set) |-> i]).set

\* erase of a range: every key that the loop meets.
ErasedRange(set, first, last) == Loop(set, first, last, first .. last)

\* A loop of the program that erases, by iterator, what it does not want.
Pruned(set, Unwanted) == Loop(set, Begin(set), End(set), Unwanted)

\* Mutant of Merged: keys that both sets have are taken as well.
MergedAll(to, from) ==
  LET stolen == Elements(from)
      room == IF from.lookup = <<>> THEN to ELSE Resized(to, End(from) - 1)
  IN  [to   |-> FoldSet(LAMBDA k, c : Mark(c, k), room, stolen),
       from |-> FoldSet(LAMBDA k, c : Erased(c, k), from, stolen)]

\* merge: what the other set has and this one has not moves over.
Merged(to, from) ==
  LET stolen == {k \in Elements(from) : ~Has(to, k)}
      room == IF from.lookup = <<>> THEN to ELSE Resized(to, End(from) - 1)
  IN  [to   |-> FoldSet(LAMBDA k, c : Mark(c, k), room, stolen),
       from |-> FoldSet(LAMBDA k, c : Erased(c, k), from, stolen)]

-----------------------------------------------------------------------------
(* The operations, on sets that are as the program left them                 *)

Usable(s) == s \notin movedFrom
Becomes(s, set) == /\ sets' = [sets EXCEPT ![s] = set]
                   /\ movedFrom' = movedFrom \ {s}

Insert(s, key) == Usable(s) /\ Becomes(s, Mark(Resized(sets[s], key), key))

InsertBatch(s, keys) == Usable(s) /\ Becomes(s, Filled(sets[s], keys))

Erase(s, key) == Usable(s) /\ Becomes(s, Erased(sets[s], key))

Positions(set) == Elements(set) \cup {End(set)}

EraseRange(s, first, last) ==
  /\ Usable(s) /\ first < last
  /\ {first, last} \subseteq Positions(sets[s])
  /\ Becomes(s, ErasedRange(sets[s], first, last))

Prune(s, Unwanted) == Usable(s) /\ Becomes(s, Pruned(sets[s], Unwanted))

Clear(s) == Becomes(s, EmptySet)

Merge(to, from) ==
  /\ Usable(to) /\ Usable(from) /\ to # from
  /\ sets' = [sets EXCEPT ![to] = Merged(sets[to], sets[from]).to,
                         ![from] = Merged(sets[to], sets[from]).from]
  /\ UNCHANGED movedFrom

Swap(s, other) ==
  /\ Usable(s) /\ Usable(other) /\ s # other
  /\ sets' = [sets EXCEPT ![s] = sets[other], ![other] = sets[s]]
  /\ UNCHANGED movedFrom

Copy(to, from) == Usable(from) /\ to # from /\ Becomes(to, sets[from])

\* The defaulted move empties the vector and leaves _size: a program clears such
\* a set, or assigns to it, before it uses it again.
Move(to, from) ==
  /\ Usable(from) /\ to # from
  /\ sets' = [sets EXCEPT ![to] = sets[from], ![from].lookup = <<>>]
  /\ movedFrom' = (movedFrom \ {to}) \cup {from}

Next ==
  /\ UNCHANGED bits
  /\ \E s \in Sets :
       \/ \E key \in Keys : Insert(s, key) \/ Erase(s, key)
       \/ \E keys \in Batches : InsertBatch(s, keys)
       \/ \E first, last \in Positions(sets[s]) : EraseRange(s, first, last)
       \/ \E Unwanted \in SUBSET Keys : Prune(s, Unwanted)
       \/ Clear(s)
       \/ \E other \in Sets :
            Merge(s, other) \/ Swap(s, other) \/ Copy(s, other) \/ Move(s, other)

Spec == Init /\ [][Next]_vars

-----------------------------------------------------------------------------
(* What makes the sets correct.                                              *)

\* A set has these keys, and counts them.
Holds(set, keys) == Elements(set) = keys /\ set.size = Cardinality(keys)

\* Whatever bitsets the usable sets have come to have, however long and however
\* empty, each operation on keys, ranges and other sets leaves the keys it is
\* documented to leave, and a size that counts them.
SetsAsAsked ==
  \A s \in Sets \ movedFrom :
    LET set == sets[s]
        old == Elements(set)
    IN  /\ Holds(set, old)
        /\ \A key \in Keys : /\ Holds(Mark(Resized(set, key), key), old \cup {key})
                             /\ Holds(Erased(set, key), old \ {key})
        /\ \A keys \in Batches : Holds(Filled(set, keys), old \cup ToSet(keys))
        /\ \A first, last \in Positions(set) :
             first < last =>
               Holds(ErasedRange(set, first, last), old \ (first .. last - 1))
        /\ \A Unwanted \in SUBSET old : Holds(Pruned(set, Unwanted), old \ Unwanted)
        /\ \A other \in Sets \ (movedFrom \cup {s}) :
             LET them == Elements(sets[other])
             IN  /\ Holds(Merged(set, sets[other]).to, old \cup them)
                 /\ Holds(Merged(set, sets[other]).from, old \cap them)
=============================================================================
