------------------------------ MODULE MCQuery -------------------------------
(* Bounded instances of Query.  The classes are interchangeable.           *)
EXTENDS Query, TLC

Symmetry == Permutations(Classes)
=============================================================================
