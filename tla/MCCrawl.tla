------------------------------- MODULE MCCrawl ------------------------------
(* Bounded instances of Crawl.  The URLs are interchangeable.              *)
EXTENDS Crawl, TLC

Symmetry == Permutations(Urls)
=============================================================================
