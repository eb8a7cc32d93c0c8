---------------------------- MODULE StackVector ----------------------------
(***************************************************************************)
(* fea::stack_vector (containers/stack_vector.hpp): a vector whose slots   *)
(* are raw memory inside of the object.  Its operations construct, move,   *)
(* assign and destroy elements in these slots one at a time, and the value *)
(* they are given may be one of the elements they move.                    *)
(*                                                                         *)
(* Places are counted from one; size + 1 is end().                         *)
(***************************************************************************)
EXTENDS Integers, SequencesExt

CONSTANTS
  Vectors,   (* the containers                                             *)
  Values,    (* bound: what elements hold                                  *)
  StackSize, (* the capacity                                               *)
  Blank,     (* an element that was moved from, or default constructed     *)
  Raw,       (* no element                                                 *)
  Bad        (* an assignment without an element, or one written over      *)

SlotsAssumption == StackSize \in Nat /\ Raw \notin Values \cup {Blank}

VARIABLES
  trivial,   (* whether T is trivially copyable: fixed in a behaviour      *)
  vecs       (* per vector: _data and _size                                *)

vars == <<trivial, vecs>>

Init == /\ trivial \in BOOLEAN
        /\ vecs = [v \in Vectors |->
                     [data |-> [i \in 1 .. StackSize |-> Raw], size |-> 0]]

-----------------------------------------------------------------------------
(* One slot (memory.hpp: what is trivial is copied, never moved)             *)

Left(x) == IF trivial THEN x ELSE Blank
Assigned(slot, x) == IF slot = Raw /\ ~trivial THEN Bad ELSE x
Constructed(slot, x) == IF slot # Raw /\ ~trivial THEN Bad ELSE x
Destroyed(slot) == IF slot = Raw THEN Bad ELSE Raw

\* std::move of one element, to an element or, for the first, to raw memory.
MoveOne(data, from, to) ==
  [data EXCEPT ![to] = Assigned(@, data[from]), ![from] = Left(@)]
Construct(data, i, x) == [data EXCEPT ![i] = Constructed(@, x)]
Assign(data, i, x) == [data EXCEPT ![i] = Assigned(@, x)]
Destroy(data, i) == [data EXCEPT ![i] = Destroyed(@)]

Up(i, j) == [k \in 1 .. j - i + 1 |-> i + k - 1]
Down(i, j) == Reverse(Up(j, i))

\* The same for the slots at some places, one after the other; move_backward
\* begins at the last.
MoveEach(data, places, by) ==
  FoldLeft(LAMBDA d, i : MoveOne(d, i, i + by), data, places)
ConstructEach(data, places, x) ==
  FoldLeft(LAMBDA d, i : Construct(d, i, x), data, places)
DestroyEach(data, places) == FoldLeft(Destroy, data, places)

-----------------------------------------------------------------------------
(* The operations on one vector.  A value is given by reference: `at' is the *)
(* element it is, zero when it is none.                                      *)

Value(data, ref) == IF ref.at = 0 THEN ref.value ELSE data[ref.at]

\* From a place on, the values that are referred to.
AssignEach(data, pos, refs) ==
  FoldLeft(LAMBDA d, k : Assign(d, pos + k - 1, Value(d, refs[k])),
           data, Up(1, Len(refs)))

Pushed(vec, ref) ==
  [data |-> Construct(vec.data, vec.size + 1, Value(vec.data, ref)),
   size |-> vec.size + 1]

\* erase of one place or of a range.
Erased(vec, first, last) ==
  LET count == last - first
      moved == MoveEach(vec.data, Up(last, vec.size), -count)
  IN  IF count = 0 THEN vec
      ELSE [data |-> DestroyEach(moved, Up(vec.size - count + 1, vec.size)),
            size |-> vec.size - count]

\* Mutant of Inserted: the reference is not followed to where its element went.
InsertedAsIs(vec, pos, ref) ==
  LET last == vec.size
      grown == [Construct(vec.data, last + 1, vec.data[last])
                  EXCEPT ![last] = Left(@)]
      moved == MoveEach(grown, Down(last - 1, pos), 1)
  IN  IF pos = last + 1 THEN Pushed(vec, ref)
      ELSE [data |-> Assign(moved, pos, Value(moved, ref)), size |-> last + 1]

\* insert of one value.  The overload for temporaries does the same: the pointer
\* it follows is to a constant, so that it copies as well.
Inserted(vec, pos, ref) ==
  LET last == vec.size
      grown == [Construct(vec.data, last + 1, vec.data[last])
                  EXCEPT ![last] = Left(@)]
      moved == MoveEach(grown, Down(last - 1, pos), 1)
      there == [ref EXCEPT !.at = IF pos <= @ THEN @ + 1 ELSE @]
  IN  IF pos = last + 1 THEN Pushed(vec, ref)
      ELSE [data |-> Assign(moved, pos, Value(moved, there)), size |-> last + 1]

\* insert of a number of values: room first, then each is read and assigned.
InsertedMany(vec, pos, refs) ==
  LET last == vec.size
      count == Len(refs)
      grown == IF trivial THEN vec.data
               ELSE ConstructEach(vec.data, Up(last + 1, last + count), Blank)
      moved == MoveEach(grown, Down(last, pos), count)
  IN  IF count = 0 THEN vec
      ELSE [data |-> AssignEach(moved, pos, refs), size |-> last + count]

InsertedCount(vec, pos, count, ref) ==
  InsertedMany(vec, pos, [k \in 1 .. count |-> ref])

InsertedRange(vec, pos, range) ==
  InsertedMany(vec, pos, [k \in DOMAIN range |-> [at |-> 0, value |-> range[k]]])

Resized(vec, size, value) ==
  [data |-> IF size > vec.size
            THEN ConstructEach(vec.data, Up(vec.size + 1, size), value)
            ELSE DestroyEach(vec.data, Up(size + 1, vec.size)),
   size |-> size]

-----------------------------------------------------------------------------
(* The program: what the assertions ask of it is in the guards.              *)

Places(vec) == 1 .. vec.size + 1
Refs(vec) == [at : {0}, value : Values] \cup [at : 1 .. vec.size, value : {Blank}]

\* For several copies the value must not be one of the elements that move.
StableRefs(vec, pos) == {ref \in Refs(vec) : ref.at < pos}

Room(vec) == StackSize - vec.size
Ranges(vec) == UNION {[1 .. n -> Values] : n \in 0 .. Room(vec)}

Becomes(v, vec) == vecs' = [vecs EXCEPT ![v] = vec]

PushBack(v) == \E ref \in Refs(vecs[v]) :
  Room(vecs[v]) > 0 /\ Becomes(v, Pushed(vecs[v], ref))

\* erase; pop_back erases the last place.
Erase(v) == \E first, last \in Places(vecs[v]) :
  first <= last /\ Becomes(v, Erased(vecs[v], first, last))

Insert(v) == \E pos \in Places(vecs[v]) : \E ref \in Refs(vecs[v]) :
  Room(vecs[v]) > 0 /\ Becomes(v, Inserted(vecs[v], pos, ref))

InsertCopies(v) ==
  \E pos \in Places(vecs[v]), count \in 0 .. Room(vecs[v]) :
  \E ref \in StableRefs(vecs[v], pos) :
    Becomes(v, InsertedCount(vecs[v], pos, count, ref))

InsertRange(v) == \E pos \in Places(vecs[v]) : \E range \in Ranges(vecs[v]) :
  Becomes(v, InsertedRange(vecs[v], pos, range))

Resize(v) == \E size \in 0 .. StackSize, value \in Values :
  Becomes(v, Resized(vecs[v], size, value))

Clear(v) == Becomes(v, Erased(vecs[v], 1, vecs[v].size + 1))

\* The defaulted copies and swap copy the bytes of the slots: programs use them
\* with types for which that is a copy.
Copy(v, from) == trivial /\ Becomes(v, vecs[from])
Swap(v, other) ==
  trivial /\ vecs' = [vecs EXCEPT ![v] = vecs[other], ![other] = vecs[v]]

Next ==
  /\ UNCHANGED trivial
  /\ \E v \in Vectors :
       \/ PushBack(v) \/ Erase(v) \/ Insert(v) \/ InsertCopies(v)
       \/ InsertRange(v) \/ Resize(v) \/ Clear(v)
       \/ \E other \in Vectors : Copy(v, other) \/ Swap(v, other)

Spec == Init /\ [][Next]_vars

-----------------------------------------------------------------------------
(* What makes the vector correct.                                            *)

Elements(vec) == SubSeq(vec.data, 1, vec.size)

\* The vector holds these, and there is no element past them.
Holds(vec, elements) ==
  /\ Elements(vec) = elements
  /\ trivial \/ \A i \in vec.size + 1 .. StackSize : vec.data[i] = Raw

Spliced(seq, pos, range) ==
  SubSeq(seq, 1, pos - 1) \o range \o SubSeq(seq, pos, Len(seq))

\* On every vector that the operations build, each does what std::vector does,
\* also when the value it inserts is an element that it moves; none is left
\* without an element it assigns to, writes over one or forgets one.
VectorsAsAsked ==
  \A v \in Vectors :
    LET vec == vecs[v]
        old == Elements(vec)
    IN  /\ Holds(vec, old) /\ Range(old) \subseteq Values
        /\ \A pos \in Places(vec) :
             /\ Room(vec) > 0 => \A ref \in Refs(vec) :
                  Holds(Inserted(vec, pos, ref),
                        Spliced(old, pos, <<Value(old, ref)>>))
             /\ \A range \in Ranges(vec) :
                  Holds(InsertedRange(vec, pos, range), Spliced(old, pos, range))
             /\ \A count \in 0 .. Room(vec), ref \in StableRefs(vec, pos) :
                  Holds(InsertedCount(vec, pos, count, ref),
                        Spliced(old, pos, [k \in 1 .. count |-> Value(old, ref)]))
             /\ \A first \in 1 .. pos :
                  Holds(Erased(vec, first, pos),
                        SubSeq(old, 1, first - 1) \o SubSeq(old, pos, vec.size))
        /\ \A size \in 0 .. StackSize, value \in Values :
             Holds(Resized(vec, size, value),
                   [i \in 1 .. size |-> IF i <= vec.size THEN old[i] ELSE value])
=============================================================================
