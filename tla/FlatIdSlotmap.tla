--------------------------- MODULE FlatIdSlotmap ---------------------------
(***************************************************************************)
(* fea::flat_id_slotmap (include_cpp17/fea/containers/flat_id_slotmap.hpp):*)
(* values stored side by side, their keys in an array of the same order,   *)
(* and an id_slot_lookup from keys to positions.                           *)
(*                                                                         *)
(* Erasing moves the last item into the hole.  A range is erased key by    *)
(* key, and callers erase while they iterate with it = erase(it).          *)
(***************************************************************************)
EXTENDS IdSlotLookup, Sequences, SequencesExt

CONSTANTS Maps, Values

VARIABLES
  lookup,   (* per map: _lookup                                            *)
  keys,     (* per map: _reverse_lookup, the key of each value             *)
  vals,     (* per map: _values                                            *)
  toErase,  (* per map: the keys that erase(first, last) has still to erase*)
  loop      (* per map: a caller's iterator as a position, NoLoop if none  *)

vars == <<lookup, keys, vals, toErase, loop>>

NoLoop == Sentinel + 1

TypeOK ==
  /\ lookup \in [Maps -> Lookups]
  /\ keys \in [Maps -> Seq(Keys)]
  /\ vals \in [Maps -> Seq(Values)]
  /\ toErase \in [Maps -> Seq(Keys)]
  /\ loop \in [Maps -> 0 .. NoLoop]

Init ==
  /\ lookup = [m \in Maps |-> EmptyLookup]
  /\ keys = [m \in Maps |-> <<>>]
  /\ vals = [m \in Maps |-> <<>>]
  /\ toErase = [m \in Maps |-> <<>>]
  /\ loop = [m \in Maps |-> NoLoop]

\* No call is in progress on the map, and no caller holds an iterator.
Idle(m) == toErase[m] = <<>> /\ loop[m] = NoLoop

Has(m, k) == ContainsKey(lookup[m], k)
IndexOf(m, k) == Find(lookup[m], k, Len(vals[m])) + 1     \* counted from 1

-----------------------------------------------------------------------------
\* emplace, insert and operator[] of a key that is not there.
Insert(m, k, v) ==
  /\ Idle(m)
  /\ ~Has(m, k)
  /\ lookup' = [lookup EXCEPT ![m] = Inserted(@, k, Len(vals[m]))]
  /\ keys' = [keys EXCEPT ![m] = Append(@, k)]
  /\ vals' = [vals EXCEPT ![m] = Append(@, v)]
  /\ UNCHANGED <<toErase, loop>>

\* insert_or_assign, or a write through operator[], of a key that is there.
Assign(m, k, v) ==
  /\ Idle(m)
  /\ Has(m, k)
  /\ vals' = [vals EXCEPT ![m][IndexOf(m, k)] = v]
  /\ UNCHANGED <<lookup, keys, toErase, loop>>

\* Mutant of LookupErased: the item that fills the hole keeps its old position.
LookupErasedOnly(m, k) == Invalidated(lookup[m], k)

\* erase(k), on the lookup: the last item, unless it is k's, gets k's position.
LookupErased(m, k) ==
  LET without == Invalidated(lookup[m], k)
  IN  IF IndexOf(m, k) = Len(vals[m]) THEN without
      ELSE Updated(without, Last(keys[m]), IndexOf(m, k) - 1)

\* Mutant of SwapPopped: the items after the hole move down by one.
SwapPoppedInOrder(s, i) == RemoveAt(s, i)

\* On an array: the last element goes to position i, then the array shrinks.
SwapPopped(s, i) == Front([s EXCEPT ![i] = Last(s)])

EraseItem(m, k) ==
  IF Has(m, k)
  THEN /\ lookup' = [lookup EXCEPT ![m] = LookupErased(m, k)]
       /\ keys' = [keys EXCEPT ![m] = SwapPopped(@, IndexOf(m, k))]
       /\ vals' = [vals EXCEPT ![m] = SwapPopped(@, IndexOf(m, k))]
  ELSE UNCHANGED <<lookup, keys, vals>>

Erase(m, k) ==
  /\ Idle(m)
  /\ EraseItem(m, k)
  /\ UNCHANGED <<toErase, loop>>

\* erase(first, last) copies the keys of the range ...
EraseRange(m, first, last) ==
  /\ Idle(m)
  /\ first < last
  /\ last <= Len(keys[m])
  /\ toErase' = [toErase EXCEPT ![m] = SubSeq(keys[m], first + 1, last)]
  /\ UNCHANGED <<lookup, keys, vals, loop>>

\* ... and erases one after the other.
EraseNext(m) ==
  /\ toErase[m] # <<>>
  /\ EraseItem(m, Head(toErase[m]))
  /\ toErase' = [toErase EXCEPT ![m] = Tail(@)]
  /\ UNCHANGED loop

Clear(m) ==
  /\ Idle(m)
  /\ lookup' = [lookup EXCEPT ![m] = EmptyLookup]
  /\ keys' = [keys EXCEPT ![m] = <<>>]
  /\ vals' = [vals EXCEPT ![m] = <<>>]
  /\ UNCHANGED <<toErase, loop>>

Swap(m, n) ==
  /\ Idle(m)
  /\ Idle(n)
  /\ lookup' = [lookup EXCEPT ![m] = lookup[n], ![n] = lookup[m]]
  /\ keys' = [keys EXCEPT ![m] = keys[n], ![n] = keys[m]]
  /\ vals' = [vals EXCEPT ![m] = vals[n], ![n] = vals[m]]
  /\ UNCHANGED <<toErase, loop>>

-----------------------------------------------------------------------------
(* A caller's loop: for (it = begin(); it != end();).                      *)

LoopBegin(m) ==
  /\ Idle(m)
  /\ loop' = [loop EXCEPT ![m] = 0]
  /\ UNCHANGED <<lookup, keys, vals, toErase>>

LoopKeeps(m) ==
  /\ loop[m] < Len(vals[m])
  /\ loop' = [loop EXCEPT ![m] = @ + 1]
  /\ UNCHANGED <<lookup, keys, vals, toErase>>

\* Mutant of LoopErases: the loop steps over the item that filled the hole.
LoopErasesAndSteps(m) ==
  /\ loop[m] < Len(vals[m])
  /\ EraseItem(m, keys[m][loop[m] + 1])
  /\ loop' = [loop EXCEPT ![m] = IF @ + 1 < Len(vals[m]) THEN @ + 1 ELSE @]
  /\ UNCHANGED toErase

\* it = erase(it): the position stays, where the last item now is.
LoopErases(m) ==
  /\ loop[m] < Len(vals[m])
  /\ EraseItem(m, keys[m][loop[m] + 1])
  /\ UNCHANGED <<toErase, loop>>

LoopEnds(m) ==
  /\ loop[m] = Len(vals[m])
  /\ loop' = [loop EXCEPT ![m] = NoLoop]
  /\ UNCHANGED <<lookup, keys, vals, toErase>>

-----------------------------------------------------------------------------
Next ==
  \E m \in Maps :
    \/ \E k \in Keys : Erase(m, k) \/ \E v \in Values : Insert(m, k, v) \/ Assign(m, k, v)
    \/ \E first, last \in Positions : EraseRange(m, first, last)
    \/ EraseNext(m) \/ Clear(m)
    \/ \E n \in Maps \ {m} : Swap(m, n)
    \/ LoopBegin(m) \/ LoopKeeps(m) \/ LoopErases(m) \/ LoopEnds(m)

Spec == Init /\ [][Next]_vars

-----------------------------------------------------------------------------
(* What makes the slotmap correct.                                         *)

\* Every function of the class asserts it on its way out.
SameSize == \A m \in Maps : Len(vals[m]) = Len(keys[m])

\* The lookup and the array of keys are inverse to each other: at most one item
\* per key, none unreachable, no entry past the end, none cut to its width.
LookupInverse ==
  \A m \in Maps :
    /\ \A i \in DOMAIN keys[m] : Has(m, keys[m][i]) /\ lookup[m][keys[m][i]] = i - 1
    /\ \A k \in DOMAIN lookup[m] : lookup[m][k] # Sentinel =>
         lookup[m][k] < Len(keys[m]) /\ keys[m][lookup[m][k] + 1] = k

\* operator==: the same number of items, each found in the other map.
Equal(m, n) ==
  /\ Len(vals[m]) = Len(vals[n])
  /\ \A i \in DOMAIN keys[m] :
       Has(n, keys[m][i]) /\ vals[m][i] = vals[n][IndexOf(n, keys[m][i])]

\* The slotmap is a map, and a loop that erases what it looks at looks at every
\* key once.
Map(m) == [k \in {j \in Keys : Has(m, j)} |-> vals[m][IndexOf(m, k)]]

Abstract == INSTANCE KeyedMaps WITH
  contents <- [m \in Maps |-> Map(m)],
  unseen <- [m \in Maps |->
               IF loop[m] = NoLoop THEN {}
               ELSE {keys[m][i] : i \in loop[m] + 1 .. Len(keys[m])}]

ImplementsKeyedMaps == Abstract!Spec

\* Maps built in any order compare equal exactly when they map the same keys
\* to the same values.
EqualSound == \A m, n \in Maps : Equal(m, n) <=> Map(m) = Map(n)

=============================================================================
