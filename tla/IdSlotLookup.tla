---------------------------- MODULE IdSlotLookup ----------------------------
(***************************************************************************)
(* fea::id_slot_lookup (include_cpp17/fea/containers/id_slot_lookup.hpp):  *)
(* where the item of each key is stored.                                   *)
(*                                                                         *)
(* A key is its hash, an unsigned integer of a type whose largest value is *)
(* Sentinel.  The lookup is a vector of positions of the same type, indexed*)
(* by key: a function of 0 .. length - 1.  It holds Sentinel where there   *)
(* is no item.                                                             *)
(***************************************************************************)
EXTENDS Naturals

CONSTANT Sentinel     (* numeric_limits<pos_type>::max()                   *)

ASSUME SentinelAssumption == Sentinel \in Nat \ {0}

Keys == 0 .. Sentinel - 1         \* maybe_resize throws for Sentinel itself
Positions == 0 .. Sentinel

Lookups == UNION {[0 .. n - 1 -> Positions] : n \in Positions}

EmptyLookup == [k \in {} |-> Sentinel]

ContainsKey(lookup, k) == k \in DOMAIN lookup /\ lookup[k] # Sentinel

\* find: the position of k, or what the caller says is the end.
Find(lookup, k, end) == IF ContainsKey(lookup, k) THEN lookup[k] ELSE end

\* maybe_resize: the keys up to k get an entry.
Resized(lookup, k) ==
  IF k \in DOMAIN lookup THEN lookup
  ELSE [j \in 0 .. k |-> IF j \in DOMAIN lookup THEN lookup[j] ELSE Sentinel]

\* insert: a position is cut to the width of its type.
Inserted(lookup, k, new) == [Resized(lookup, k) EXCEPT ![k] = new % (Sentinel + 1)]

Updated(lookup, k, new) == [lookup EXCEPT ![k] = new % (Sentinel + 1)]

Invalidated(lookup, k) == [lookup EXCEPT ![k] = Sentinel]

=============================================================================
