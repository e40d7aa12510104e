------------------------------- MODULE MCRelay -------------------------------
(* Bounded instances of Relay.                                             *)
EXTENDS Relay

CONSTANTS r1, r2, l1, k1, k2
=============================================================================
