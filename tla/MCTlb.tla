-------------------------------- MODULE MCTlb --------------------------------
(* An instruction TLB of one way and a data TLB of two before one of three.*)
(* Two pages hold code, in blocks of two bytes.                            *)
EXTENDS InstructionFetch, TLC

CONSTANTS itlb, dtlb, stlb, c1, c2, d1, d2, d3

MCTlbs == {itlb, dtlb}
MCAssociativity == (itlb :> 1) @@ (dtlb :> 2) @@ (stlb :> 3)
MCPages == {c1, c2, d1, d2, d3}
MCCodePage == (0 :> c1) @@ (1 :> c2)

PageSymmetry == Permutations({d1, d2, d3})
=============================================================================
