--------------------------- MODULE MCObjectStore ----------------------------
(* Bounded instances of ObjectStore.                                       *)
EXTENDS ObjectStore, TLC

CONSTANTS w1, w2, k1, k2

Symmetry == Permutations(Writers) \cup Permutations(Keys)
=============================================================================
