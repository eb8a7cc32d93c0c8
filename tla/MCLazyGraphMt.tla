--------------------------- MODULE MCLazyGraphMt ---------------------------
(* Instances of LazyGraphMt for TLC. *)
EXTENDS LazyGraphMt

\* The last node alone, twice, and pairs that may or may not be independent.
LeafRequests == {<<4>>, <<3, 4>>, <<4, 4>>, <<2, 3>>}
=============================================================================
