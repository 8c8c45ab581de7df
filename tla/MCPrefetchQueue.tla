--------------------------- MODULE MCPrefetchQueue ---------------------------
(* A cache that two threads share.                                         *)
EXTENDS PrefetchQueue, TLC

CONSTANTS c1, c2, a1, a2

MCThreads == {c1, c2}
MCAddrs == {a1, a2}
Interchangeable == Permutations(MCThreads) \cup Permutations(MCAddrs)
=============================================================================
