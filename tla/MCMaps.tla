------------------------------- MODULE MCMaps -------------------------------
(* Instances for TLC of Containers, and of HoleHashmap and RadixSort beside  *)
(* them.                                                                     *)
EXTENDS Containers, TLC
CONSTANTS HoleKeys, HoleValues, Items, MaxLoads, Counts

VARIABLES
  map, asked,                                                   \* HoleHashmap
  counts, idxes, call, calls                                    \* RadixSort

Hole == INSTANCE HoleHashmap WITH Sentinel <- 255, Keys <- HoleKeys,
                                  Values <- HoleValues, MaxHash <- 7

\* Two or three numbers of one byte, or of two, that are negative or not, some
\* with a byte in common; three do not fit the first index type.
SortInputs ==
  UNION {{<<type, values>> : values \in [1 .. n -> range]} :
           type \in {"unsigned", "signed", "float"}, n \in {2, 3},
           range \in {{<<1>>, <<2>>, <<3>>}, {<<2, 3>>, <<2, 0>>, <<1, 3>>}}}

Sort == INSTANCE RadixSort WITH Base <- 4, IndexMaxes <- <<3, 15>>,
          Inputs <- SortInputs, MaxCalls <- 2

\* 14, 8 and 29 share their own slot in a table of three, the last one; in a
\* table of seven 14 and 0 share one and 8 and 29 the next.
MCKeys == {0, 14, 8, 29}
MCValues == MCKeys \cup {1}
MCItems == {<<k, k>> : k \in MCKeys} \cup {<<14, 1>>}
MCMaxLoads == {<<3, 4>>, <<2, 1>>}

\* Three share one in a table of seven, and one has the next.
MCCollidingItems == {<<k, k>> : k \in HoleKeys}

\* For the sets of numbers, whose keys share a bitset, in one or two of two.
MCBatches == {<<0, 2>>, <<3, 3, 1>>}

Symmetry == Permutations(Maps) \cup Permutations(Values)

holeVars == <<map, asked>>
sortVars == <<counts, idxes, call, calls>>
othersVars == <<holeVars, sortVars>>
allVars == <<containerVars, othersVars>>

MapsInit == ContainersInit /\ Hole!Init /\ Sort!Init

MapsNext ==
  \/ ContainersNext /\ UNCHANGED othersVars
  \/ /\ UNCHANGED containerVars
     /\ \/ container = "hole_hashmap" /\ Hole!Next /\ UNCHANGED sortVars
        \/ container = "radix_sort" /\ Sort!Next /\ UNCHANGED holeVars

MapsSpec == MapsInit /\ [][MapsNext]_allVars

\* The hash map under programs that erase what they like.
AnyNext == /\ container = "hole_hashmap" /\ Hole!NextAny
           /\ UNCHANGED <<containerVars, sortVars>>
AnySpec == MapsInit /\ container = "hole_hashmap" /\ [][AnyNext]_allVars

\* Every key the hash map stores is found where its value is, and no slot of
\* its table is for anything else: repack_collisions keeps searches whole.
KeysFound == Hole!KeysFound

\* The hash map is a map: whatever collides, moves or grows, find sees the keys
\* that were inserted and not erased, each with its value, and no other.
MapAsAsked == Hole!MapAsAsked

\* A radix sort orders values of every type, whatever was sorted before, and
\* keeps equal integers in order.
SortsStably == container = "radix_sort" => Sort!SortsStably
=============================================================================
