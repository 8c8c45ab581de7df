----------------------------- MODULE MCSetLocks -----------------------------
(* Lines of two bytes: plain accesses inside a line, to the end of one,    *)
(* and over up to three; atomic ones inside a line and over two.           *)
EXTENDS SetLocks, TLC

CONSTANTS c1, c2, c3

MCCores == {c1, c2, c3}
MCAccess(address, size, signal) ==
  [address |-> address, size |-> size, signal |-> signal]
MCAccesses ==
  {MCAccess(address, size, "NONE") : address \in 0 .. 1, size \in {1, 2, 4}}
    \cup {MCAccess(0, 1, "LOCK"), MCAccess(3, 1, "LOCK"), MCAccess(1, 2, "LOCK")}

CoreSymmetry == Permutations(Cores)
=============================================================================
