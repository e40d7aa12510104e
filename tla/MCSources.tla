------------------------------ MODULE MCSources -----------------------------
(* Bounded instances of Sources: files that list two feeds in either       *)
(* order, and one that lists a feed twice.                                 *)
EXTENDS Sources

CONSTANTS f1, f2

MCFiles == {<<f1, f2>>, <<f2, f1>>, <<f1, f1>>}
=============================================================================
