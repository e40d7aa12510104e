---------------------------- MODULE MCStatusPage ----------------------------
(* A bounded instance of StatusPage: three jobs, two of which started at   *)
(* the same time and are interchangeable, on pages of one.                 *)
EXTENDS StatusPage, TLC

CONSTANTS j1, j2, j3

MCStarted == [j \in {j1, j2, j3} |-> IF j = j1 THEN 1 ELSE 2]

Symmetry == Permutations({j2, j3})
=============================================================================
