------------------------- MODULE Hawkeye3Set_proofs -------------------------
(***************************************************************************)
(* Proofs about the project 3 set, for every associativity, window,        *)
(* capacity and number of cores.  The first four lemmas are those of       *)
(* HawkeyeSet_proofs on the operators both sets share.                     *)
(***************************************************************************)
EXTENDS Hawkeye3Set, TLAPS

(* The window is never empty: last_index always has a position to name.    *)
LEMMA WindowPositive == Window \in Nat \ {0} /\ 0 \in Positions
<1>1. \A a, b \in Nat \ {0} : a * b \in Nat \ {0}
  BY Z3
<1>2. Window \in Nat \ {0}
  BY <1>1, OptGenAssumption DEF Window
<1>. QED BY <1>2 DEF Positions

(* The interval of a reuse lies inside the vector and stops before the     *)
(* current position.                                                       *)
LEMMA IntervalInVector ==
  ASSUME NEW previous \in Positions \cup {Never}, NEW index \in Positions
  PROVE  UsageInterval(previous, index) \subseteq Positions \ {index}
<1>1. Window \in Nat \ {0}
  BY WindowPositive
<1>. QED BY <1>1 DEF UsageInterval, Positions, Never

(* The circular index stays inside the vector although it is a UInt8.      *)
LEMMA AdvanceInVector ==
  ASSUME NEW index \in Positions
  PROVE  Advance(index) \in Positions
<1>1. Window \in Nat \ {0} /\ 0 \in Positions
  BY WindowPositive
<1>2. CASE index < Window - 1
  <2>1. ByteSize \in Nat \ {0}
    BY OptGenAssumption
  <2>2. \A a \in Nat, b \in Nat \ {0} : a % b \in Nat /\ a % b <= a
    BY Z3
  <2>3. (index + 1) % ByteSize \in Nat /\ (index + 1) % ByteSize <= index + 1
    BY <2>1, <2>2 DEF Positions
  <2>. QED BY <1>1, <1>2, <2>3 DEF Advance, Positions
<1>3. CASE ~(index < Window - 1)
  BY <1>1, <1>3 DEF Advance
<1>. QED BY <1>2, <1>3

(* Counting an interval all of whose positions had room never passes the   *)
(* capacity, and so never wraps a UInt8 counter.                           *)
LEMMA OccupyBounded ==
  ASSUME NEW interval \in SUBSET Positions,
         NEW occ \in [Positions -> Byte],
         \A p \in Positions : occ[p] <= Capacity,
         \A p \in interval : occ[p] < Capacity
  PROVE  /\ Occupy(interval, occ) \in [Positions -> Byte]
         /\ \A p \in Positions : Occupy(interval, occ)[p] <= Capacity
<1>1. \A n \in 0 .. ByteSize - 1 : n < Capacity => (n + 1) % ByteSize = n + 1
  <2>1. \A a \in Nat, b \in Nat \ {0} : a < b => a % b = a
    BY Z3
  <2>. QED BY <2>1, OptGenAssumption
<1>2. ASSUME NEW p \in Positions
      PROVE  /\ Occupy(interval, occ)[p] \in Byte
             /\ Occupy(interval, occ)[p] <= Capacity
  <2>1. occ[p] \in 0 .. ByteSize - 1 /\ occ[p] <= Capacity
    BY DEF Byte
  <2>2. CASE p \in interval
    BY <1>1, <2>1, <2>2, OptGenAssumption DEF Occupy, Byte
  <2>3. CASE p \notin interval
    BY <2>1, <2>3 DEF Occupy, Byte
  <2>. QED BY <2>2, <2>3
<1>3. Occupy(interval, occ) = [p \in Positions |-> Occupy(interval, occ)[p]]
  BY DEF Occupy
<1>. QED BY <1>2, <1>3

(* Forgetting the overwritten position keeps the types, leaves no way at   *)
(* that position, and moves no other way.                                  *)
LEMMA ForgetClears ==
  ASSUME NEW occurrence \in [Ways -> Positions \cup {Never}],
         NEW index \in Positions,
         \A v, w \in Ways : occurrence[v] = occurrence[w] /\ v # w
                             => occurrence[v] = Never
  PROVE  /\ Forget(occurrence, index) \in [Ways -> Positions \cup {Never}]
         /\ \A w \in Ways : Forget(occurrence, index)[w] # index
         /\ \A w \in Ways : Forget(occurrence, index)[w] \in {occurrence[w], Never}
<1>. DEFINE at == {v \in Ways : occurrence[v] = index}
<1>1. index # Never
  BY DEF Positions, Never
<1>2. \A w \in at : IsFirst(w, at)
  <2>1. \A v, w \in at : v = w
    BY <1>1
  <2>. QED BY <2>1 DEF IsFirst, Ways
<1>3. \A w \in Ways : Forget(occurrence, index)[w]
                        = IF IsFirst(w, at) THEN Never ELSE occurrence[w]
  BY DEF Forget
<1>4. \A w \in Ways : Forget(occurrence, index)[w] # index
  BY <1>1, <1>2, <1>3
<1>5. \A w \in Ways : Forget(occurrence, index)[w] \in {occurrence[w], Never}
  BY <1>3
<1>6. Forget(occurrence, index) = [w \in Ways |-> Forget(occurrence, index)[w]]
  BY DEF Forget
<1>. QED BY <1>4, <1>5, <1>6

-----------------------------------------------------------------------------
(* The inductive invariant: the clearing loop stops at the first way of a  *)
(* position, and the counters stay within a byte only while no full        *)
(* position is counted again.                                              *)
IInv == TypeOK /\ PositionsDistinct

LEMMA InitIInv == Init => IInv
<1>. SUFFICES ASSUME Init PROVE IInv
  OBVIOUS
<1>1. Window \in Nat \ {0} /\ 0 \in Positions
  BY WindowPositive
<1>2. 0 \in Byte /\ 0 <= Capacity
  BY OptGenAssumption DEF Byte
<1>3. m_priority_eviction \in [Ways -> 0 .. Averse]
  BY Hawkeye3Assumption DEF Init
<1>. QED BY <1>1, <1>2, <1>3 DEF Init, IInv, TypeOK, PositionsDistinct

(* One access: the vector advances and OPTgen's verdict is the priority.   *)
LEMMA AccessIInv ==
  ASSUME IInv, NEW w \in Ways, Access(w)
  PROVE  IInv'
<1>. DEFINE occurrence == Forget(m_last_occurence, last_index)
            occ        == [m_occupancy EXCEPT ![last_index] = 0]
            interval   == UsageInterval(occurrence[w], last_index)
<1>1. /\ m_last_occurence' = [occurrence EXCEPT ![w] = last_index]
      /\ m_priority_eviction' = [m_priority_eviction EXCEPT ![w] =
            IF WouldMiss(interval, occ) THEN Averse ELSE 0]
      /\ m_occupancy' = IF WouldHit(interval, occ) THEN Occupy(interval, occ)
                                                    ELSE occ
      /\ last_index' = Advance(last_index)
  BY DEF Access, UpdateReplacementIndex
<1>2. TypeOK /\ PositionsDistinct
  BY DEF IInv
<1>3. /\ occurrence \in [Ways -> Positions \cup {Never}]
      /\ \A v \in Ways : occurrence[v] # last_index
      /\ \A v \in Ways : occurrence[v] \in {m_last_occurence[v], Never}
  BY <1>2, ForgetClears DEF TypeOK, PositionsDistinct
<1>4. interval \in SUBSET Positions
  BY <1>2, <1>3, IntervalInVector DEF TypeOK
<1>5. /\ occ \in [Positions -> Byte]
      /\ \A p \in Positions : occ[p] <= Capacity
  BY <1>2, OptGenAssumption DEF TypeOK, PositionsDistinct, Byte
<1>6. /\ m_occupancy' \in [Positions -> Byte]
      /\ \A p \in Positions : m_occupancy'[p] <= Capacity
  <2>1. CASE WouldHit(interval, occ)
    <3>1. \A p \in interval : occ[p] < Capacity
      BY <2>1 DEF WouldHit
    <3>2. /\ Occupy(interval, occ) \in [Positions -> Byte]
          /\ \A p \in Positions : Occupy(interval, occ)[p] <= Capacity
      BY <1>4, <1>5, <3>1, OccupyBounded
    <3>. QED BY <1>1, <2>1, <3>2
  <2>2. CASE ~WouldHit(interval, occ)
    BY <1>1, <1>5, <2>2
  <2>. QED BY <2>1, <2>2
<1>7. /\ m_last_occurence' \in [Ways -> Positions \cup {Never}]
      /\ \A v, u \in Ways : m_last_occurence'[v] = m_last_occurence'[u] /\ v # u
                              => m_last_occurence'[v] = Never
  <2>1. last_index \in Positions
    BY <1>2 DEF TypeOK
  <2>2. m_last_occurence' = [occurrence EXCEPT ![w] = last_index]
    BY <1>1
  <2>3. \A u, v \in Ways : occurrence[u] = occurrence[v] /\ u # v
                            => occurrence[u] = Never
    BY <1>2, <1>3 DEF PositionsDistinct
  <2>. QED BY <1>3, <2>1, <2>2, <2>3
<1>8. last_index' \in Positions
  BY <1>1, <1>2, AdvanceInVector DEF TypeOK
<1>9. m_priority_eviction' \in [Ways -> 0 .. Averse]
  BY <1>1, <1>2, Hawkeye3Assumption DEF TypeOK
<1>10. /\ tag' \in [Ways -> Tags \cup {NoTag}]
       /\ upgrading' \subseteq Ways
       /\ aborted' \in BOOLEAN
  BY <1>2 DEF TypeOK, Access, blocks
<1>. QED BY <1>6, <1>7, <1>8, <1>9, <1>10 DEF IInv, TypeOK, PositionsDistinct

(* Ageing stops below the priority of the victim, so it never passes the   *)
(* averse priority and never wraps a byte.                                 *)
LEMMA AgeBounded ==
  ASSUME TypeOK, NEW w \in Ways
  PROVE  IncrementAge(w) \in [Ways -> 0 .. Averse]
<1>1. \A a \in Nat, b \in Nat \ {0} : a < b => a % b = a
  BY Z3
<1>2. \A v \in Ways : m_priority_eviction[v] \in 0 .. Averse
  BY DEF TypeOK
<1>3. ASSUME NEW v \in Ways, m_priority_eviction[v] < m_priority_eviction[w]
      PROVE  (m_priority_eviction[v] + 1) % ByteSize \in 0 .. Averse
  <2>1. m_priority_eviction[v] + 1 \in 0 .. Averse
    BY <1>2, <1>3, Hawkeye3Assumption
  <2>2. m_priority_eviction[v] + 1 < ByteSize
    BY <2>1, Hawkeye3Assumption, OptGenAssumption
  <2>3. (m_priority_eviction[v] + 1) % ByteSize = m_priority_eviction[v] + 1
    BY <1>1, <2>1, <2>2, Hawkeye3Assumption, OptGenAssumption
  <2>. QED BY <2>1, <2>3
<1>4. \A v \in Ways : IncrementAge(w)[v] \in 0 .. Averse
  BY <1>2, <1>3, Hawkeye3Assumption DEF IncrementAge
<1>5. IncrementAge(w) = [v \in Ways |-> IncrementAge(w)[v]]
  BY DEF IncrementAge
<1>. QED BY <1>4, <1>5

LEMMA InsertIInv ==
  ASSUME IInv, NEW t \in Tags, Insert(t)
  PROVE  IInv'
<1>1. TypeOK /\ PositionsDistinct
  BY DEF IInv
<1>2. UNCHANGED <<upgrading, m_occupancy, m_last_occurence, last_index>>
  BY DEF Insert, optgen
<1>3. /\ tag' \in [Ways -> Tags \cup {NoTag}]
      /\ m_priority_eviction' \in [Ways -> 0 .. Averse]
      /\ aborted' \in BOOLEAN
  BY <1>1, AgeBounded DEF Insert, TypeOK
<1>. QED BY <1>1, <1>2, <1>3 DEF IInv, TypeOK, PositionsDistinct

LEMMA StepIInv == IInv /\ [Next]_vars => IInv'
<1>. SUFFICES ASSUME IInv, [Next]_vars PROVE IInv'
  OBVIOUS
<1>1. TypeOK /\ PositionsDistinct
  BY DEF IInv
<1>2. ASSUME NEW w \in Ways, Access(w) PROVE IInv'
  BY <1>2, AccessIInv
<1>3. ASSUME NEW t \in Tags, Insert(t) PROVE IInv'
  BY <1>3, InsertIInv
<1>4. ASSUME NEW w \in Ways, Invalidate(w) PROVE IInv'
  BY <1>1, <1>4 DEF IInv, TypeOK, PositionsDistinct, Invalidate, optgen
<1>5. ASSUME NEW w \in Ways, StartUpgrade(w) PROVE IInv'
  BY <1>1, <1>5 DEF IInv, TypeOK, PositionsDistinct, StartUpgrade, optgen
<1>6. ASSUME NEW w \in Ways, EndUpgrade(w) PROVE IInv'
  BY <1>1, <1>6 DEF IInv, TypeOK, PositionsDistinct, EndUpgrade, optgen
<1>7. CASE UNCHANGED vars
  BY <1>1, <1>7 DEF IInv, TypeOK, PositionsDistinct, vars, blocks, optgen
<1>. QED BY <1>2, <1>3, <1>4, <1>5, <1>6, <1>7 DEF Next

(* Every reachable state is well typed: the circular index, the counters   *)
(* and the priorities never leave the ranges the arrays are declared for.  *)
THEOREM TypeCorrect == Spec => []TypeOK
<1>1. IInv => TypeOK
  BY DEF IInv
<1>. QED BY InitIInv, StepIInv, <1>1, PTL DEF Spec

(* No two ways claim the same position of the vector, and no position      *)
(* counts more lines than the modelled cache can hold.                     *)
THEOREM PositionsAreDistinct == Spec => []PositionsDistinct
<1>1. IInv => PositionsDistinct
  BY DEF IInv
<1>. QED BY InitIInv, StepIInv, <1>1, PTL DEF Spec

-----------------------------------------------------------------------------
(* While every priority lies where the search looks, no eviction fails     *)
(* unless each way is being upgraded; and an upgrade in every way of a     *)
(* stopped set stays.                                                      *)
LEMMA StepVictim ==
  ASSUME Averse < Assoc, IInv, VictimAlwaysFound, [Next]_vars
  PROVE  VictimAlwaysFound'
<1>1. TypeOK
  BY DEF IInv
<1>2. ASSUME NEW w \in Ways,
             Access(w) \/ Invalidate(w) \/ StartUpgrade(w) \/ EndUpgrade(w)
      PROVE  VictimAlwaysFound'
  BY <1>2 DEF VictimAlwaysFound, Access, Invalidate, StartUpgrade, EndUpgrade
<1>3. ASSUME NEW t \in Tags, Insert(t)
      PROVE  VictimAlwaysFound'
  <2>1. ~aborted /\ upgrading' = upgrading
    BY <1>3 DEF Insert
  <2>2. CASE Evictable = {}
    <3>1. \A w \in Ways : m_priority_eviction[w] < Assoc
      BY <1>1, Hawkeye3Assumption, OptGenAssumption DEF TypeOK
    <3>2. \A w \in Ways : w \in upgrading
      BY <2>2, <3>1 DEF Evictable
    <3>. QED BY <1>1, <2>1, <3>2 DEF VictimAlwaysFound, TypeOK
  <2>3. CASE Evictable # {}
    BY <1>3, <2>1, <2>3 DEF Insert, VictimAlwaysFound
  <2>. QED BY <2>2, <2>3
<1>4. CASE UNCHANGED vars
  BY <1>4 DEF VictimAlwaysFound, vars, blocks
<1>. QED BY <1>2, <1>3, <1>4 DEF Next

(* The search fails only when every way is being upgraded, provided the    *)
(* averse priority is below the associativity: the search starts at the    *)
(* associativity (cache_set_hawkeye.cc of project 3).                      *)
THEOREM VictimIsAlwaysFound ==
  ASSUME Averse < Assoc
  PROVE  Spec => []VictimAlwaysFound
<1>1. Init => VictimAlwaysFound
  BY DEF Init, VictimAlwaysFound
<1>2. IInv /\ VictimAlwaysFound /\ [Next]_vars => VictimAlwaysFound'
  BY StepVictim
<1>. QED BY <1>1, <1>2, InitIInv, StepIInv, PTL DEF Spec
=============================================================================
