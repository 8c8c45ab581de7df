----------------------------- MODULE MCNucaCache -----------------------------
(* A slice of one way before a DRAM cache of two ways, and three lines.    *)
EXTENDS NucaCache, TLC

CONSTANTS a1, a2, a3, v1, v2

MCAddrs == {a1, a2, a3}
MCValues == {v1, v2}
Symmetry == Permutations(MCAddrs) \cup Permutations(MCValues)
=============================================================================
