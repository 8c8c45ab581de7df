-------------------------- MODULE MCHawkeyeHistory --------------------------
(* Small sets for TLC: interchangeable lines and instruction addresses.    *)
EXTENDS HawkeyeHistory, TLC

CONSTANTS t1, t2, t3, e1, e2, e3

MCTags == {t1, t2, t3}
MCEips == {NoEip, e1, e2, e3}

Symmetry == Permutations(MCTags) \cup Permutations({e1, e2, e3})
=============================================================================
