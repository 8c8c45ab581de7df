---------------------------- MODULE CacheSetSpec ----------------------------
(***************************************************************************)
(* What a cache set promises its controller, whatever the replacement      *)
(* policy: it holds at most Assoc lines, it gives up a line only when the  *)
(* set is full and exactly one then, and never one that is being upgraded. *)
(***************************************************************************)
EXTENDS Naturals, FiniteSets

CONSTANTS Assoc, Tags

VARIABLES
  lines,   \* the resident lines
  pinned   \* those whose upgrade is outstanding

Init == lines = {} /\ pinned = {}

Fill(t) ==
  /\ t \notin lines
  /\ Cardinality(lines) < Assoc
  /\ lines' = lines \cup {t}
  /\ UNCHANGED pinned

Replace(t, victim) ==
  /\ t \notin lines
  /\ Cardinality(lines) = Assoc
  /\ victim \in lines \ pinned
  /\ lines' = (lines \ {victim}) \cup {t}
  /\ UNCHANGED pinned

Remove(t) ==
  /\ t \in lines
  /\ lines' = lines \ {t}
  /\ pinned' = pinned \ {t}

Pin(t) ==
  /\ t \in lines \ pinned
  /\ pinned' = pinned \cup {t}
  /\ UNCHANGED lines

Unpin(t) ==
  /\ t \in pinned
  /\ pinned' = pinned \ {t}
  /\ UNCHANGED lines

Next ==
  \E t \in Tags :
    \/ Fill(t) \/ Remove(t) \/ Pin(t) \/ Unpin(t)
    \/ \E victim \in Tags : Replace(t, victim)

Spec == Init /\ [][Next]_<<lines, pinned>>
=============================================================================
