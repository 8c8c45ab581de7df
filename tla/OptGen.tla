------------------------------- MODULE OptGen -------------------------------
(***************************************************************************)
(* The OPTgen bookkeeping both Hawkeye sets of the repository share: a     *)
(* circular occupancy vector of WindowFactor * Assoc positions, one        *)
(* position per access to the set, and per way the position of its last    *)
(* access.  Pure operators; HawkeyeSet and Hawkeye3Set own the variables.  *)
(***************************************************************************)
EXTENDS Integers

CONSTANTS
  Assoc,         \* m_associativity
  WindowFactor,  \* the literal 8 of m_associativity*8
  Capacity,      \* occupancy at which a position is full: 15, or 13 in project3
  ByteSize       \* 2^8: occupancy, priority and last_index are UInt8

ASSUME OptGenAssumption ==
  /\ Assoc \in Nat \ {0}
  /\ WindowFactor \in Nat \ {0}
  /\ Capacity \in Nat \ {0}
  /\ ByteSize \in Nat
  /\ Capacity < ByteSize

Ways == 0 .. Assoc - 1
Window == Assoc * WindowFactor
Positions == 0 .. Window - 1
Byte == 0 .. ByteSize - 1

Never == -1      \* m_last_occurrence of a way without an access in the window

IsFirst(i, S) == i \in S /\ \A j \in S : i <= j

(* Fault for the mutation runs: the overwritten position is not forgotten. *)
ForgetNothing(occurrence, index) == occurrence

(* The loop that forgets the way whose last access is about to be          *)
(* overwritten: it stops at the first such way.                            *)
Forget(occurrence, index) ==
  [w \in Ways |-> IF IsFirst(w, {v \in Ways : occurrence[v] = index})
                    THEN Never ELSE occurrence[w]]

(* Fault: an interval that wraps around loses its second part.             *)
UsageIntervalCut(previous, index) ==
  IF previous = Never THEN {}
  ELSE IF previous > index THEN previous .. Window - 1
  ELSE previous .. index - 1

(* The positions from the previous access up to, not including, the        *)
(* current one.                                                            *)
UsageInterval(previous, index) ==
  IF previous = Never THEN {}
  ELSE IF previous > index
    THEN (previous .. Window - 1) \cup (0 .. index - 1)
    ELSE previous .. index - 1

(* Fault: an interval is accepted however full its positions are.          *)
WouldHitWhenFull(interval, occ) == interval # {}

(* available_interval = total_interval, and both are positive.             *)
WouldHit(interval, occ) ==
  interval # {} /\ \A p \in interval : occ[p] < Capacity

(* available_interval < total_interval                                     *)
WouldMiss(interval, occ) == \E p \in interval : occ[p] >= Capacity

Occupy(interval, occ) ==
  [p \in Positions |-> IF p \in interval THEN (occ[p] + 1) % ByteSize
                                         ELSE occ[p]]

Advance(index) == IF index < Window - 1 THEN (index + 1) % ByteSize ELSE 0
=============================================================================
