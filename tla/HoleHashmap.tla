---------------------------- MODULE HoleHashmap ----------------------------
(***************************************************************************)
(* fea::unsigned_hole_hashmap (containers/unsigned_hole_hashmap.hpp): the  *)
(* values are packed; a table finds them by key.  A key's own slot is even;*)
(* keys that collide take the odd slots behind it, the first that is free, *)
(* which the keys of all own slots share.                                  *)
(*                                                                         *)
(* An operation is a function on the members of the map, so that those     *)
(* that call others, rehash and the erasing of a range, are whole.         *)
(***************************************************************************)
EXTENDS Naturals, SequencesExt, FiniteSetsExt

CONSTANTS
  Sentinel,    (* the largest value of the type of keys and positions      *)
  Keys,        (* the unsigned keys                                        *)
  Values,      (* the values                                               *)
  Items,       (* bound: the pairs of a key and a value that are inserted  *)
  MaxLoads,    (* the load factors that may be set, as pairs, at most 2    *)
  Counts,      (* bound: what rehash is called with                        *)
  MaxHash      (* bound: the largest _hash_max                             *)

VARIABLES
  map,   (* the members: _hash_max, _lookup, _reverse_lookup, _values and     *)
         (* _max_load_factor                                                 *)
  asked  (* history: the keys that the program has inserted and not erased,  *)
         (* each with the value that it gave                                 *)

vars == <<map, asked>>

\* lookup_data, and what a vector grows with: a hole.
Hole == [key |-> Sentinel, idx |-> Sentinel]
IsHole(slot) == slot.idx = Sentinel

\* _lookup is a function on 0 .. its size - 1, as are the positions it holds.
Size(lookup) == Cardinality(DOMAIN lookup)
Resized(lookup, n) ==
  [i \in 0 .. n - 1 |-> IF i \in DOMAIN lookup THEN lookup[i] ELSE Hole]

Emptied(m) ==
  [m EXCEPT !.hashMax = 0, !.lookup = Resized(<<>>, 0), !.keys = <<>>, !.values = <<>>]

Init ==
  /\ map = [hashMax |-> 0, lookup |-> Resized(<<>>, 0), keys |-> <<>>,
            values |-> <<>>, maxLoad |-> <<3, 4>>]
  /\ asked = <<>>

-----------------------------------------------------------------------------
(* The table                                                                 *)

IsPrime(n) == n > 1 /\ \A d \in 2 .. n - 1 : n % d # 0
NextPrime(n) == IF n = 3 THEN 3 ELSE Min({p \in n + 1 .. 2 * n : IsPrime(p)})

OwnSlot(key, hashMax) == (key % hashMax) * 2

\* Where a key may be: its own slot, then the odd ones behind it.
Probes(lookup, start) ==
  {i \in DOMAIN lookup : i = start \/ (i > start /\ i % 2 = 1)}

\* find_slot: the first of the slots that will do, the end of the table if none.
FindSlot(lookup, start, fits) ==
  Min((Probes(lookup, start) \cap fits) \cup {Size(lookup)})

HolesOf(lookup) == {i \in DOMAIN lookup : IsHole(lookup[i])}
SlotsOf(lookup, key) == {i \in DOMAIN lookup : lookup[i].key = key}

\* find_first_slot_or_hole
FindKey(m, key) ==
  IF m.hashMax = 0 THEN Size(m.lookup)
  ELSE FindSlot(m.lookup, OwnSlot(key, m.hashMax),
                SlotsOf(m.lookup, key) \cup HolesOf(m.lookup))

\* find: whether there is a slot of this key.
Holds(m, key) ==
  LET i == FindKey(m, key) IN i < Size(m.lookup) /\ ~IsHole(m.lookup[i])
IdxOf(m, key) == m.lookup[FindKey(m, key)].idx

\* trailing_resize: the odd slot behind the table, and a quarter more.
Trailing(lookup) == IF Size(lookup) % 2 = 0 THEN Size(lookup) + 1 ELSE Size(lookup)
SlotAt(lookup, i, slot) ==
  IF i < Size(lookup) THEN [lookup EXCEPT ![i] = slot]
  ELSE LET at == Trailing(lookup)
       IN  [Resized(lookup, (at * 5) \div 4) EXCEPT ![at] = slot]

Rehashed(m, count) ==
  LET hashMax == IF count < 3 THEN 3 ELSE NextPrime(count)
      old == [i \in 1 .. Size(m.lookup) |-> m.lookup[i - 1]]
      Place(lookup, slot) ==
        SlotAt(lookup, FindSlot(lookup, OwnSlot(slot.key, hashMax), HolesOf(lookup)), slot)
  IN  [m EXCEPT
         !.hashMax = hashMax,
         !.lookup = FoldLeft(Place, Resized(<<>>, 2 * hashMax),
                             SelectSeq(old, LAMBDA slot : ~IsHole(slot)))]

\* load_factor() >= max_load_factor()
Loaded(m) == m.hashMax = 0 \/ Len(m.values) * m.maxLoad[2] >= m.maxLoad[1] * m.hashMax
Grown(m) == IF Loaded(m) THEN Rehashed(m, 2 * m.hashMax) ELSE m

-----------------------------------------------------------------------------
(* minsert and try_emplace                                                   *)

\* A key that is not in the map.
Added(m, key, value) ==
  LET g == Grown(m)
  IN  [g EXCEPT
         !.lookup = SlotAt(g.lookup, FindKey(g, key),
                           [key |-> key, idx |-> Len(g.values)]),
         !.keys = Append(@, key),
         !.values = Append(@, value)]

\* One that is: the table grows all the same.
Assigned(m, key, value) ==
  LET g == Grown(m) IN [g EXCEPT !.values[IdxOf(g, key) + 1] = value]

-----------------------------------------------------------------------------
(* erase                                                                     *)

\* The odd slots behind a hole, up to the first that is one too, in order.
Run(lookup, hole) ==
  LET first == IF hole % 2 = 0 THEN hole + 1 ELSE hole + 2
      end == FindSlot(lookup, first, HolesOf(lookup))
  IN  [i \in 1 .. (end - first + 1) \div 2 |-> first + 2 * (i - 1)]

Moved(lookup, from, to) == [lookup EXCEPT ![to] = lookup[from], ![from] = Hole]

\* Mutant of Repacked: a key may move before its own slot.
RepackedAll(lookup, hashMax, hole) ==
  LET Move(acc, right) ==
        [lookup |-> Moved(acc.lookup, right, acc.left), left |-> right]
  IN  FoldLeft(Move, [lookup |-> lookup, left |-> hole], Run(lookup, hole)).lookup

\* repack_collisions: what may move to the hole does, and leaves one itself.
Repacked(lookup, hashMax, hole) ==
  LET Move(acc, right) ==
        IF OwnSlot(acc.lookup[right].key, hashMax) > acc.left THEN acc
        ELSE [lookup |-> Moved(acc.lookup, right, acc.left), left |-> right]
  IN  FoldLeft(Move, [lookup |-> lookup, left |-> hole], Run(lookup, hole)).lookup

\* The last value takes the place of the erased one, then the table is packed.
Erased(m, key) ==
  LET at == FindKey(m, key)
      idx == IdxOf(m, key)
      last == Last(m.keys)
      moved == IF idx = Len(m.values) - 1 THEN m.lookup
               ELSE [m.lookup EXCEPT ![FindKey(m, last)].idx = idx]
  IN  IF ~Holds(m, key) THEN m
      ELSE [m EXCEPT
              !.lookup = Repacked([moved EXCEPT ![at] = Hole], m.hashMax, at),
              !.keys = Front([@ EXCEPT ![idx + 1] = last]),
              !.values = Front([@ EXCEPT ![idx + 1] = Last(m.values)])]

-----------------------------------------------------------------------------
(* The operations                                                            *)

\* What is left to find once the program has erased some keys.
Spared(keys) == Restrict(asked, DOMAIN asked \ keys)

Insert(key, value) ==
  /\ map' = IF Holds(Grown(map), key) THEN Grown(map) ELSE Added(map, key, value)
  /\ asked' = asked @@ key :> value

InsertOrAssign(key, value) ==
  /\ map' = IF Holds(Grown(map), key) THEN Assigned(map, key, value)
            ELSE Added(map, key, value)
  /\ asked' = key :> value @@ asked

\* The constructor of the value throws in try_emplace, which has grown.
EmplaceThrows(key) ==
  LET g == Grown(map)
      at == FindKey(g, key)
  IN  /\ ~Holds(g, key)
      /\ map' = [g EXCEPT !.lookup = SlotAt(@, at, Hole)]
      /\ UNCHANGED asked

EraseKey(key) ==
  /\ map' = Erased(map, key)
  /\ asked' = Spared({key})

\* erase of a range of iterators: the keys are noted first.
EraseRange(from, upto) ==
  /\ from < upto /\ upto <= Len(map.keys)
  /\ map' = FoldLeft(Erased, map, SubSeq(map.keys, from, upto))
  /\ asked' = Spared(ToSet(SubSeq(map.keys, from, upto)))

Clear == map' = Emptied(map) /\ asked' = <<>>

Rehash(count) == map' = Rehashed(map, count) /\ UNCHANGED asked

SetMaxLoad(load) == map' = [map EXCEPT !.maxLoad = load] /\ UNCHANGED asked

\* The home of the keys that repack_collisions may move must not be before the
\* even slot that an erased key leaves: the table would lose them.
ErasesWell(m, key) ==
  LET at == FindKey(m, key)
  IN  Holds(m, key) /\ at % 2 = 0
      => \A i \in DOMAIN Run(m.lookup, at) :
           OwnSlot(m.lookup[Run(m.lookup, at)[i]].key, m.hashMax) >= at

Others ==
  /\ map.hashMax <= MaxHash
  /\ \/ \E item \in Items :
          Insert(item[1], item[2]) \/ InsertOrAssign(item[1], item[2])
     \/ \E key \in Keys : EmplaceThrows(key)
     \/ Clear
     \/ \E count \in Counts : Rehash(count)
     \/ \E load \in MaxLoads : SetMaxLoad(load)

\* A program that erases only where the table is left well.
Next ==
  \/ Others
  \/ \E key \in Keys : ErasesWell(map, key) /\ EraseKey(key)
  \/ \E from, upto \in 1 .. Cardinality(Keys) :
       /\ \A i \in from .. upto \cap DOMAIN map.keys :
            ErasesWell(FoldLeft(Erased, map, SubSeq(map.keys, from, i - 1)), map.keys[i])
       /\ EraseRange(from, upto)
Spec == Init /\ [][Next]_vars

\* Any program.
NextAny == Others \/ \E key \in Keys : EraseKey(key)
SpecAny == Init /\ [][NextAny]_vars

-----------------------------------------------------------------------------
(* What makes the map correct.                                               *)

\* repack_collisions: "The container must guarantee collisions are packed in a
\* first serve manner", or searches break.  Every key the map stores is found
\* where its value is, and no slot of the table is for anything else.
KeysFound ==
  /\ \A i \in DOMAIN map.keys :
       Holds(map, map.keys[i]) /\ IdxOf(map, map.keys[i]) = i - 1
  /\ Cardinality({i \in DOMAIN map.lookup : ~IsHole(map.lookup[i])}) = Len(map.keys)

\* The map is a map: whatever collides, moves or grows, find sees the keys that
\* were inserted and not erased, each with the value it was given, and no other.
MapAsAsked ==
  /\ KeysFound
  /\ Len(map.keys) = Cardinality(DOMAIN asked)
  /\ \A key \in Keys : Holds(map, key) <=> key \in DOMAIN asked
  /\ \A key \in DOMAIN asked : map.values[IdxOf(map, key) + 1] = asked[key]
=============================================================================
