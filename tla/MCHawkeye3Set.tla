---------------------------- MODULE MCHawkeye3Set ---------------------------
(* Small sets for TLC under the project 3 policy: interchangeable tags.    *)
EXTENDS Hawkeye3Set, TLC

CONSTANTS t1, t2, t3, t4

MCTags4 == {t1, t2, t3, t4}

TagSymmetry4 == Permutations(MCTags4)
=============================================================================
