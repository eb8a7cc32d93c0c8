---------------------------- MODULE DequeBuckets ----------------------------
(* The sizes of a deque_list.                                                *)
EXTENDS Naturals

CONSTANTS
  BucketSize,   (* template parameter                                      *)
  MaxSize       (* bound of the model: no list grows further               *)

ASSUME BucketAssumption == BucketSize \in Nat \ {0} /\ MaxSize \in Nat
=============================================================================
