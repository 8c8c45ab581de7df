-------------------------- MODULE MCCoherentCaches --------------------------
(* Small machines: a last-level cache for each of two cores, one shared by *)
(* the data caches of two cores, and the latter beside a private one.      *)
EXTENDS CoherentCaches, TLC

CONSTANTS i1, d1, i2, d2, d3, m1, m2, a1, a2

MCTwoLlcs == {m1, m2}
MCOneLlc == {m1}
MCNoLlc == {}
MCOneAddr == {a1}
MCTwoAddrs == {a1, a2}

(* Two cores with an instruction and a data cache each: the program        *)
(* executes and reads line a1, and reads and writes line a2.               *)
MCSplit == {i1, d1, i2, d2}
MCSplitCore == (i1 :> 1) @@ (d1 :> 1) @@ (i2 :> 2) @@ (d2 :> 2)
MCPrivate == (i1 :> m1) @@ (d1 :> m1) @@ (i2 :> m2) @@ (d2 :> m2)
MCCodeAndData == (i1 :> {a1}) @@ (d1 :> {a1, a2}) @@ (i2 :> {a1}) @@ (d2 :> {a1, a2})
MCData == (i1 :> {}) @@ (d1 :> {a2}) @@ (i2 :> {}) @@ (d2 :> {a2})

(* Data caches only, with one line that all of them write.                 *)
MCTwo == {d1, d2}
MCTwoCore == (d1 :> 1) @@ (d2 :> 2)
MCShared == (d1 :> m1) @@ (d2 :> m1)
MCThree == {d1, d2, d3}
MCThreeCore == (d1 :> 1) @@ (d2 :> 2) @@ (d3 :> 3)
MCMixed == (d1 :> m1) @@ (d2 :> m1) @@ (d3 :> m2)
MCAll == [c \in L1s |-> Addrs]
=============================================================================
