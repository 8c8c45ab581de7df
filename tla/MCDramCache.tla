----------------------------- MODULE MCDramCache ----------------------------
(* A set of two ways and three lines that map to it.                       *)
EXTENDS DramCache, TLC

CONSTANTS a1, a2, a3, v1, v2

MCAddrs == {a1, a2, a3}
MCValues == {v1, v2}
Symmetry == Permutations(MCAddrs) \cup Permutations(MCValues)
=============================================================================
