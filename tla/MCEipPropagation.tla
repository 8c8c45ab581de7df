-------------------------- MODULE MCEipPropagation --------------------------
(* One core and its last-level cache.                                      *)
EXTENDS EipPropagation, TLC

CONSTANTS c1, e1, e2

MCCores == {c1}
MCMasterOf == c1 :> c1
MCEips == {e1, e2}
=============================================================================
