------------------------------ MODULE MCPlatform ------------------------------
(* Bounded instances of Platform.  Raw documents, items, URLs, crawlers    *)
(* and texts, no two of them near, are interchangeable; outbox ids are     *)
(* not.                                                                    *)
EXTENDS Platform, TLC

CONSTANTS a, b

NoNear == {}

FullSymmetry == Permutations(RawIds) \cup Permutations(ItemIds)
                  \cup Permutations(Crawlers) \cup Permutations(Urls)
                  \cup Permutations(Texts)
=============================================================================
