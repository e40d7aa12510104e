------------------------------ MODULE MCIngest ------------------------------
(* Bounded instances of Ingest.  Raw documents, items, URLs and crawlers   *)
(* are interchangeable; texts are when no two of them are near.            *)
EXTENDS Ingest, TLC

CONSTANTS a, b, c

NoNear == {}
NearAB == {<<a, b>>, <<b, a>>}

IdSymmetry == Permutations(RawIds) \cup Permutations(ItemIds)
                \cup Permutations(Crawlers) \cup Permutations(Urls)
FullSymmetry == IdSymmetry \cup Permutations(Texts)
=============================================================================
