----------------------------- MODULE MCRouting -----------------------------
(* Small instances of RoutingLeases for TLC.                               *)
EXTENDS RoutingLeases, TLC

CONSTANTS a1, a2, q1, q2, q3, c1

Symmetry == Permutations(Accounts) \cup Permutations(Requests)
=============================================================================
