----------------------------- MODULE Containers -----------------------------
(***************************************************************************)
(* Four containers that share nothing: FlatIdSlotmap, DequeList, SlotSet   *)
(* and StackVector.  A behaviour is one of one of them, or of one of the   *)
(* OtherParts that a module which extends this one adds, and the rest do   *)
(* nothing.                                                                *)
(***************************************************************************)
EXTENDS FlatIdSlotmap, DequeBuckets

CONSTANTS
  OtherParts,                              \* what is modelled beside the four
  Lists,                                          \* DequeList, of Values
  Sets, Widths, SetKeys, Batches,                               \* SlotSet
  Vectors, StackSize, Blank, Raw, Bad           \* StackVector, of Values

VARIABLES
  container,                                                    \* which of them
  linked, lastBucket, listSize, listIter,                       \* DequeList
  bits, sets, movedFrom,                                        \* SlotSet
  trivial, vecs                                                 \* StackVector

List == INSTANCE DequeList WITH chain <- linked, last <- lastBucket,
                               size <- listSize, iter <- listIter
Set == INSTANCE SlotSet WITH Keys <- SetKeys
Vector == INSTANCE StackVector

ASSUME SetsAssumption == Set!SetsAssumption
ASSUME SlotsAssumption == Vector!SlotsAssumption

listVars == <<linked, lastBucket, listSize, listIter>>
setVars == <<bits, sets, movedFrom>>
vectorVars == <<trivial, vecs>>
containerVars == <<container, vars, listVars, setVars, vectorVars>>

\* The ones that begin in several states begin in one when they are not run.
ContainersInit ==
  /\ container \in {"flat_id_slotmap", "deque_list", "slotset", "stack_vector"}
                  \cup OtherParts
  /\ Init /\ List!Init /\ Set!Init /\ Vector!Init
  /\ container = "slotset" \/ bits = CHOOSE w \in Widths : TRUE
  /\ container = "stack_vector" \/ trivial

ContainersNext ==
  /\ UNCHANGED container
  /\ \/ container = "flat_id_slotmap" /\ Next /\ UNCHANGED <<listVars, setVars, vectorVars>>
     \/ container = "deque_list" /\ List!Next /\ UNCHANGED <<vars, setVars, vectorVars>>
     \/ container = "slotset" /\ Set!Next /\ UNCHANGED <<vars, listVars, vectorVars>>
     \/ container = "stack_vector" /\ Vector!Next /\ UNCHANGED <<vars, listVars, setVars>>

ContainersSpec == ContainersInit /\ [][ContainersNext]_containerVars

-----------------------------------------------------------------------------
\* The buckets of a deque_list before the last are full and those after it are
\* empty, whatever was pushed, popped, cleared, shrunk, copied and moved.
BucketShape == List!BucketShape

\* An iterator made before its list grew points to an element while it may
\* still visit one.
IterInBounds == List!IterInBounds

\* Each deque_list is a sequence, and an iteration that lasts while it grows
\* reads what it held.
ImplementsSeqLists == List!ImplementsSeqLists

\* On every set of numbers that insertions, erasures, merges and moves build,
\* each operation leaves the keys it is documented to leave and counts them.
SetsAsAsked == container = "slotset" => Set!SetsAsAsked

\* On every vector in raw memory each operation does what std::vector does, also
\* with one of its own elements for a value, and keeps elements alive or raw
\* memory raw as it should.
VectorsAsAsked == container = "stack_vector" => Vector!VectorsAsAsked
=============================================================================
