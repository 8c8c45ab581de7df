--------------------------- MODULE MCPeriodicHook ---------------------------
(* Three cores that report every two instructions or so.                   *)
EXTENDS PeriodicHook, TLC

CONSTANTS c1, c2, c3

MCCores == {c1, c2, c3}
MCCounts == {1, 2}

Symmetry == Permutations(MCCores)
=============================================================================
