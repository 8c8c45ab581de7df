-------------------------- MODULE HawkeyeSet_proofs --------------------------
(***************************************************************************)
(* Proofs about HawkeyeSet for every associativity, window, capacity,      *)
(* table size and set of instructions and lines; then the same set beside  *)
(* the reference OPTgen of HawkeyeHistory.                                 *)
(***************************************************************************)
EXTENDS HawkeyeHistory, FiniteSetTheorems, TLAPS

(* The window is never empty: last_index always has a position to name.    *)
LEMMA WindowPositive == Window \in Nat \ {0} /\ 0 \in Positions
<1>1. \A a, b \in Nat \ {0} : a * b \in Nat \ {0}
  BY Z3
<1>2. Window \in Nat \ {0}
  BY <1>1, OptGenAssumption DEF Window
<1>. QED BY <1>2 DEF Positions

(* The interval of a reuse lies inside the vector and stops before the     *)
(* current position.                                                       *)
LEMMA IntervalInVector ==
  ASSUME NEW previous \in Positions \cup {Never}, NEW index \in Positions
  PROVE  UsageInterval(previous, index) \subseteq Positions \ {index}
<1>1. Window \in Nat \ {0}
  BY WindowPositive
<1>. QED BY <1>1 DEF UsageInterval, Positions, Never

(* The circular index stays inside the vector although it is a UInt8.      *)
LEMMA AdvanceInVector ==
  ASSUME NEW index \in Positions
  PROVE  Advance(index) \in Positions
<1>1. Window \in Nat \ {0} /\ 0 \in Positions
  BY WindowPositive
<1>2. CASE index < Window - 1
  <2>1. ByteSize \in Nat \ {0}
    BY OptGenAssumption
  <2>2. \A a \in Nat, b \in Nat \ {0} : a % b \in Nat /\ a % b <= a
    BY Z3
  <2>3. (index + 1) % ByteSize \in Nat /\ (index + 1) % ByteSize <= index + 1
    BY <2>1, <2>2 DEF Positions
  <2>. QED BY <1>1, <1>2, <2>3 DEF Advance, Positions
<1>3. CASE ~(index < Window - 1)
  BY <1>1, <1>3 DEF Advance
<1>. QED BY <1>2, <1>3

(* Counting an interval all of whose positions had room never passes the   *)
(* capacity, and so never wraps a UInt8 counter.                           *)
LEMMA OccupyBounded ==
  ASSUME NEW interval \in SUBSET Positions,
         NEW occ \in [Positions -> Byte],
         \A p \in Positions : occ[p] <= Capacity,
         \A p \in interval : occ[p] < Capacity
  PROVE  /\ Occupy(interval, occ) \in [Positions -> Byte]
         /\ \A p \in Positions : Occupy(interval, occ)[p] <= Capacity
<1>1. \A n \in 0 .. ByteSize - 1 : n < Capacity => (n + 1) % ByteSize = n + 1
  <2>1. \A a \in Nat, b \in Nat \ {0} : a < b => a % b = a
    BY Z3
  <2>. QED BY <2>1, OptGenAssumption
<1>2. ASSUME NEW p \in Positions
      PROVE  /\ Occupy(interval, occ)[p] \in Byte
             /\ Occupy(interval, occ)[p] <= Capacity
  <2>1. occ[p] \in 0 .. ByteSize - 1 /\ occ[p] <= Capacity
    BY DEF Byte
  <2>2. CASE p \in interval
    BY <1>1, <2>1, <2>2, OptGenAssumption DEF Occupy, Byte
  <2>3. CASE p \notin interval
    BY <2>1, <2>3 DEF Occupy, Byte
  <2>. QED BY <2>2, <2>3
<1>3. Occupy(interval, occ) = [p \in Positions |-> Occupy(interval, occ)[p]]
  BY DEF Occupy
<1>. QED BY <1>2, <1>3

(* Forgetting the overwritten position keeps the types, leaves no way at   *)
(* that position, and moves no other way.                                  *)
LEMMA ForgetClears ==
  ASSUME NEW occurrence \in [Ways -> Positions \cup {Never}],
         NEW index \in Positions,
         \A v, w \in Ways : occurrence[v] = occurrence[w] /\ v # w
                             => occurrence[v] = Never
  PROVE  /\ Forget(occurrence, index) \in [Ways -> Positions \cup {Never}]
         /\ \A w \in Ways : Forget(occurrence, index)[w] # index
         /\ \A w \in Ways : Forget(occurrence, index)[w] \in {occurrence[w], Never}
<1>. DEFINE at == {v \in Ways : occurrence[v] = index}
<1>1. index # Never
  BY DEF Positions, Never
<1>2. \A w \in at : IsFirst(w, at)
  <2>1. \A v, w \in at : v = w
    BY <1>1
  <2>. QED BY <2>1 DEF IsFirst, Ways
<1>3. \A w \in Ways : Forget(occurrence, index)[w]
                        = IF IsFirst(w, at) THEN Never ELSE occurrence[w]
  BY DEF Forget
<1>4. \A w \in Ways : Forget(occurrence, index)[w] # index
  BY <1>1, <1>2, <1>3
<1>5. \A w \in Ways : Forget(occurrence, index)[w] \in {occurrence[w], Never}
  BY <1>3
<1>6. Forget(occurrence, index) = [w \in Ways |-> Forget(occurrence, index)[w]]
  BY DEF Forget
<1>. QED BY <1>4, <1>5, <1>6

-----------------------------------------------------------------------------
(* The inductive invariant: TypeOK alone is not enough, because the        *)
(* clearing loop stops at the first way of a position, and the counters    *)
(* stay within a byte only while no full position is counted again.        *)
IInv == TypeOK /\ PositionsDistinct /\ OccupancyBounded

LEMMA InitIInv == Init => IInv
<1>. SUFFICES ASSUME Init PROVE IInv
  OBVIOUS
<1>1. Window \in Nat \ {0} /\ 0 \in Positions
  BY WindowPositive
<1>2. TypeOK
  <2>1. 0 \in Byte /\ InitScore \in 0 .. MaxScore /\ Averse \in 0 .. Averse
    BY OptGenAssumption, HawkeyeAssumption DEF Byte
  <2>2. m_occupancy \in [Positions -> Byte] /\ last_index \in Positions
    BY <1>1, <2>1 DEF Init
  <2>3. /\ m_eip_score \in [Slot -> 0 .. MaxScore]
        /\ m_priority_eviction \in [Ways -> 0 .. Averse]
    BY <2>1 DEF Init
  <2>. QED BY <2>2, <2>3 DEF Init, TypeOK
<1>3. PositionsDistinct
  BY DEF Init, PositionsDistinct
<1>4. OccupancyBounded
  BY OptGenAssumption DEF Init, OccupancyBounded
<1>. QED BY <1>2, <1>3, <1>4 DEF IInv

(* One access, whatever slot its instruction has.                          *)
LEMMA AccessIInv ==
  ASSUME IInv, NEW w \in Ways, NEW eip \in Eips, Access(w, eip)
  PROVE  IInv'
<1>0. PICK s \in 0 .. Slots, friendly \in BOOLEAN :
        SlotFor(eip, s) /\ UpdateWithSlot(w, eip, s, friendly)
  BY DEF Access, UpdateReplacementEIP
<1>. DEFINE occurrence == Forget(m_last_occurrence, last_index)
            occ        == [m_occupancy EXCEPT ![last_index] = 0]
            interval   == UsageInterval(occurrence[w], last_index)
<1>1. /\ m_eip_list' = IF s \in Slot THEN [m_eip_list EXCEPT ![s] = eip]
                                      ELSE m_eip_list
      /\ m_eip_score' = Trained(s, interval, occ)
      /\ outOfBounds' = (outOfBounds \/ s \notin Slot)
      /\ m_last_eip_accessing' = [m_last_eip_accessing EXCEPT ![w] = eip]
      /\ m_occupancy' = IF WouldHit(interval, occ) THEN Occupy(interval, occ)
                                                    ELSE occ
      /\ m_priority_eviction' = [m_priority_eviction EXCEPT ![w] =
            IF interval = {} THEN Fresh ELSE IF friendly THEN 0 ELSE Averse]
      /\ m_last_occurrence' = [occurrence EXCEPT ![w] = last_index]
      /\ last_index' = Advance(last_index)
  BY <1>0 DEF UpdateWithSlot
<1>2. TypeOK /\ PositionsDistinct /\ OccupancyBounded
  BY DEF IInv
<1>3. /\ occurrence \in [Ways -> Positions \cup {Never}]
      /\ \A v \in Ways : occurrence[v] # last_index
      /\ \A v \in Ways : occurrence[v] \in {m_last_occurrence[v], Never}
  BY <1>2, ForgetClears DEF TypeOK, PositionsDistinct
<1>4. interval \in SUBSET Positions
  BY <1>2, <1>3, IntervalInVector DEF TypeOK
<1>5. /\ occ \in [Positions -> Byte]
      /\ \A p \in Positions : occ[p] <= Capacity
  BY <1>2, OptGenAssumption DEF TypeOK, OccupancyBounded, Byte
<1>6. m_occupancy' \in [Positions -> Byte] /\ OccupancyBounded'
  <2>1. CASE WouldHit(interval, occ)
    <3>1. \A p \in interval : occ[p] < Capacity
      BY <2>1 DEF WouldHit
    <3>2. /\ Occupy(interval, occ) \in [Positions -> Byte]
          /\ \A p \in Positions : Occupy(interval, occ)[p] <= Capacity
      BY <1>4, <1>5, <3>1, OccupyBounded
    <3>. QED BY <1>1, <2>1, <3>2 DEF OccupancyBounded
  <2>2. CASE ~WouldHit(interval, occ)
    BY <1>1, <1>5, <2>2 DEF OccupancyBounded
  <2>. QED BY <2>1, <2>2
<1>7. m_eip_score' \in [Slot -> 0 .. MaxScore]
  <2>1. m_eip_score \in [Slot -> 0 .. MaxScore]
    BY <1>2 DEF TypeOK
  <2>. QED BY <1>1, <2>1, HawkeyeAssumption DEF Trained
<1>8. m_last_occurrence' \in [Ways -> Positions \cup {Never}] /\ PositionsDistinct'
  <2>1. last_index \in Positions
    BY <1>2 DEF TypeOK
  <2>2. m_last_occurrence' = [occurrence EXCEPT ![w] = last_index]
    BY <1>1
  <2>3. \A u, v \in Ways : occurrence[u] = occurrence[v] /\ u # v
                            => occurrence[u] = Never
    BY <1>2, <1>3 DEF PositionsDistinct
  <2>. QED BY <1>3, <2>1, <2>2, <2>3 DEF PositionsDistinct
<1>9. last_index' \in Positions
  BY <1>1, <1>2, AdvanceInVector DEF TypeOK
<1>10. m_priority_eviction' \in [Ways -> 0 .. Averse]
  BY <1>1, <1>2, HawkeyeAssumption DEF TypeOK
<1>11. /\ tag' \in [Ways -> Tags \cup {NoTag}]
       /\ upgrading' \subseteq Ways
       /\ aborted' \in BOOLEAN
  BY <1>2 DEF TypeOK, Access, blocks
<1>12. /\ m_eip_list' \in [Slot -> Eips \cup {NoEip}]
       /\ m_last_eip_accessing' \in [Ways -> Eips \cup {NoEip}]
       /\ outOfBounds' \in BOOLEAN
  BY <1>1, <1>2 DEF TypeOK
<1>. QED BY <1>6, <1>7, <1>8, <1>9, <1>10, <1>11, <1>12 DEF IInv, TypeOK

(* An eviction ages the other ways and detrains the victim's instruction.  *)
LEMMA ReplaceIInv ==
  ASSUME IInv, NEW t \in Tags, Replace(t)
  PROVE  IInv'
<1>1. PICK w \in Ways : /\ IsVictim(w)
                         /\ tag' = [tag EXCEPT ![w] = t]
                         /\ m_priority_eviction' = IncrementAge(w)
                         /\ m_eip_score' = Detrained(w)
  BY DEF Replace
<1>2. TypeOK /\ PositionsDistinct /\ OccupancyBounded
  BY DEF IInv
<1>3. m_priority_eviction' \in [Ways -> 0 .. Averse]
  <2>1. \A a \in Nat, b \in Nat \ {0} : a < b => a % b = a
    BY Z3
  <2>2. \A v \in Ways : m_priority_eviction[v] \in 0 .. Averse
    BY <1>2 DEF TypeOK
  <2>3. ASSUME NEW v \in Ways, m_priority_eviction[v] < m_priority_eviction[w]
        PROVE  (m_priority_eviction[v] + 1) % ByteSize \in 0 .. Averse
    <3>1. m_priority_eviction[v] + 1 \in 0 .. Averse
      BY <2>2, <2>3, HawkeyeAssumption
    <3>2. m_priority_eviction[v] + 1 < ByteSize
      BY <3>1, HawkeyeAssumption, OptGenAssumption
    <3>3. (m_priority_eviction[v] + 1) % ByteSize = m_priority_eviction[v] + 1
      BY <2>1, <3>1, <3>2, HawkeyeAssumption, OptGenAssumption
    <3>. QED BY <3>1, <3>3
  <2>4. \A v \in Ways : IncrementAge(w)[v] \in 0 .. Averse
    BY <2>2, <2>3, HawkeyeAssumption DEF IncrementAge
  <2>5. IncrementAge(w) = [v \in Ways |-> IncrementAge(w)[v]]
    BY DEF IncrementAge
  <2>. QED BY <1>1, <2>4, <2>5
<1>4. m_eip_score' \in [Slot -> 0 .. MaxScore]
  BY <1>1, <1>2, HawkeyeAssumption DEF TypeOK, Detrained
<1>5. TypeOK'
  BY <1>1, <1>2, <1>3, <1>4 DEF TypeOK, Replace, optgen
<1>6. PositionsDistinct' /\ OccupancyBounded'
  BY <1>2 DEF PositionsDistinct, OccupancyBounded, Replace, optgen
<1>. QED BY <1>5, <1>6 DEF IInv

LEMMA StepIInv == IInv /\ [Next]_vars => IInv'
<1>. SUFFICES ASSUME IInv, [Next]_vars PROVE IInv'
  OBVIOUS
<1>1. TypeOK /\ PositionsDistinct /\ OccupancyBounded
  BY DEF IInv
<1>2. ASSUME NEW w \in Ways, NEW eip \in Eips, Access(w, eip) PROVE IInv'
  BY <1>2, AccessIInv
<1>3. ASSUME NEW t \in Tags, Fill(t) PROVE IInv'
  BY <1>1, <1>3 DEF IInv, TypeOK, PositionsDistinct, OccupancyBounded, Fill,
                    optgen, predictor
<1>4. ASSUME NEW t \in Tags, Replace(t) PROVE IInv'
  BY <1>4, ReplaceIInv
<1>5. ASSUME NEW t \in Tags, NoVictim(t) PROVE IInv'
  BY <1>1, <1>5 DEF IInv, TypeOK, PositionsDistinct, OccupancyBounded, NoVictim,
                    blocks, optgen, predictor
<1>6. ASSUME NEW w \in Ways, Invalidate(w) PROVE IInv'
  BY <1>1, <1>6 DEF IInv, TypeOK, PositionsDistinct, OccupancyBounded, Invalidate,
                    optgen, predictor
<1>7. ASSUME NEW w \in Ways, StartUpgrade(w) PROVE IInv'
  BY <1>1, <1>7 DEF IInv, TypeOK, PositionsDistinct, OccupancyBounded, StartUpgrade,
                    optgen, predictor
<1>8. ASSUME NEW w \in Ways, EndUpgrade(w) PROVE IInv'
  BY <1>1, <1>8 DEF IInv, TypeOK, PositionsDistinct, OccupancyBounded, EndUpgrade,
                    optgen, predictor
<1>9. CASE UNCHANGED vars
  BY <1>1, <1>9 DEF IInv, TypeOK, PositionsDistinct, OccupancyBounded, vars,
                    blocks, optgen, predictor
<1>. QED BY <1>2, <1>3, <1>4, <1>5, <1>6, <1>7, <1>8, <1>9 DEF Next

(* Every reachable state is well typed: the circular index, the counters   *)
(* and the priorities never leave the ranges the arrays are declared for.  *)
THEOREM TypeCorrect == Spec => []TypeOK
<1>1. IInv => TypeOK
  BY DEF IInv
<1>. QED BY InitIInv, StepIInv, <1>1, PTL DEF Spec

(* No two ways of the set ever claim the same position of the vector.      *)
THEOREM PositionsAreDistinct == Spec => []PositionsDistinct
<1>1. IInv => PositionsDistinct
  BY DEF IInv
<1>. QED BY InitIInv, StepIInv, <1>1, PTL DEF Spec

(* No position ever counts more lines than the modelled cache can hold.    *)
THEOREM OccupancyIsBounded == Spec => []OccupancyBounded
<1>1. IInv => OccupancyBounded
  BY DEF IInv
<1>. QED BY InitIInv, StepIInv, <1>1, PTL DEF Spec

-----------------------------------------------------------------------------
(* What SlotFor's three cases say of the table when it is a prefix: the    *)
(* instruction's slot, if there is one, already holds it or is the first   *)
(* free one, and nothing else changes.                                     *)
LEMMA SlotKeepsTable ==
  ASSUME IInv, TableConsistent, NEW eip \in Eips, NEW s \in Slot, SlotFor(eip, s)
  PROVE  \/ m_eip_list[s] = eip
         \/ /\ m_eip_list[s] = NoEip
            /\ \A i \in Slot : m_eip_list[i] # eip
            /\ \A i \in Slot : i < s => m_eip_list[i] # NoEip
<1>. DEFINE known == {i \in Slot : m_eip_list[i] = eip}
            free  == {i \in Slot : m_eip_list[i] = NoEip}
<1>1. \/ IsFirst(s, known)
      \/ known = {} /\ IsFirst(s, free)
  <2>1. s # Slots
    BY HawkeyeAssumption DEF Slot
  <2>. QED BY <2>1 DEF SlotFor
<1>2. CASE IsFirst(s, known)
  BY <1>2 DEF IsFirst
<1>3. CASE known = {} /\ IsFirst(s, free)
  <2>1. m_eip_list[s] = NoEip
    BY <1>3 DEF IsFirst
  <2>2. \A i \in Slot : m_eip_list[i] # eip
    BY <1>3
  <2>3. \A i \in Slot : i < s => m_eip_list[i] # NoEip
    <3>1. \A i \in free : s <= i
      BY <1>3 DEF IsFirst
    <3>. QED BY <3>1, HawkeyeAssumption DEF Slot
  <2>. QED BY <2>1, <2>2, <2>3
<1>. QED BY <1>1, <1>2, <1>3

LEMMA AccessTable ==
  ASSUME IInv, TableConsistent,
         NEW w \in Ways, NEW eip \in Eips, Access(w, eip)
  PROVE  /\ TableConsistent'
         /\ \A i \in Slot : m_eip_list[i] # NoEip => m_eip_list'[i] = m_eip_list[i]
<1>1. PICK s \in 0 .. Slots, friendly \in BOOLEAN :
        SlotFor(eip, s) /\ UpdateWithSlot(w, eip, s, friendly)
  BY DEF Access, UpdateReplacementEIP
<1>2. /\ m_eip_list' = IF s \in Slot THEN [m_eip_list EXCEPT ![s] = eip]
                                      ELSE m_eip_list
      /\ outOfBounds' = (outOfBounds \/ s \notin Slot)
      /\ m_last_eip_accessing' = [m_last_eip_accessing EXCEPT ![w] = eip]
  BY <1>1 DEF UpdateWithSlot
<1>3. /\ m_eip_list \in [Slot -> Eips \cup {NoEip}]
      /\ m_last_eip_accessing \in [Ways -> Eips \cup {NoEip}]
      /\ outOfBounds \in BOOLEAN
  BY DEF IInv, TypeOK
<1>4. CASE s \notin Slot
  <2>1. m_eip_list' = m_eip_list /\ outOfBounds'
    BY <1>2, <1>4
  <2>. QED BY <2>1 DEF TableConsistent
<1>5. CASE s \in Slot
  <2>1. \/ m_eip_list[s] = eip
        \/ /\ m_eip_list[s] = NoEip
           /\ \A i \in Slot : m_eip_list[i] # eip
           /\ \A i \in Slot : i < s => m_eip_list[i] # NoEip
    BY <1>1, <1>5, SlotKeepsTable
  <2>2. \A i \in Slot : m_eip_list'[i] = IF i = s THEN eip ELSE m_eip_list[i]
    BY <1>2, <1>3, <1>5
  <2>3. \A i \in Slot : m_eip_list[i] # NoEip => m_eip_list'[i] = m_eip_list[i]
    BY <2>1, <2>2
  <2>4. \A i, j \in Slot : m_eip_list'[i] = m_eip_list'[j] /\ i # j
                            => m_eip_list'[i] = NoEip
    BY <2>1, <2>2 DEF TableConsistent
  <2>5. \A i, j \in Slot : m_eip_list'[i] = NoEip /\ i < j => m_eip_list'[j] = NoEip
    <3>1. CASE m_eip_list[s] = eip
      BY <2>2, <3>1 DEF TableConsistent
    <3>2. CASE /\ m_eip_list[s] = NoEip
               /\ \A i \in Slot : m_eip_list[i] # eip
               /\ \A i \in Slot : i < s => m_eip_list[i] # NoEip
      <4>1. ASSUME NEW i \in Slot, NEW j \in Slot, m_eip_list'[i] = NoEip, i < j
            PROVE  m_eip_list'[j] = NoEip
        <5>1. eip # NoEip
          BY <1>5, <3>2
        <5>2. i # s /\ m_eip_list[i] = NoEip
          BY <2>2, <4>1, <5>1
        <5>3. m_eip_list[j] = NoEip
          BY <4>1, <5>2 DEF TableConsistent
        <5>4. j # s
          BY <3>2, <4>1, <5>2
        <5>. QED BY <2>2, <5>3, <5>4
      <4>. QED BY <4>1
    <3>. QED BY <2>1, <3>1, <3>2
  <2>6. ~outOfBounds' => \A v \in Ways :
          \/ m_last_eip_accessing'[v] = NoEip
          \/ \E i \in Slot : m_eip_list'[i] = m_last_eip_accessing'[v]
    <3>1. SUFFICES ASSUME ~outOfBounds, NEW v \in Ways,
                          m_last_eip_accessing'[v] # NoEip
                   PROVE  \E i \in Slot : m_eip_list'[i] = m_last_eip_accessing'[v]
      BY <1>2, <1>5
    <3>2. CASE v = w
      BY <1>2, <1>3, <1>5, <2>2, <3>2
    <3>3. CASE v # w
      <4>1. m_last_eip_accessing'[v] = m_last_eip_accessing[v]
        BY <1>2, <1>3, <3>3
      <4>2. PICK i \in Slot : m_eip_list[i] = m_last_eip_accessing[v]
        BY <3>1, <4>1 DEF TableConsistent
      <4>. QED BY <2>3, <3>1, <4>1, <4>2
    <3>. QED BY <3>2, <3>3
  <2>. QED BY <2>3, <2>4, <2>5, <2>6 DEF TableConsistent
<1>. QED BY <1>4, <1>5

LEMMA StepTable ==
  IInv /\ TableConsistent /\ [Next]_vars
    => /\ TableConsistent'
       /\ \A i \in Slot : m_eip_list[i] # NoEip => m_eip_list'[i] = m_eip_list[i]
<1>. SUFFICES ASSUME IInv, TableConsistent, [Next]_vars
              PROVE  /\ TableConsistent'
                     /\ \A i \in Slot : m_eip_list[i] # NoEip
                                          => m_eip_list'[i] = m_eip_list[i]
  OBVIOUS
<1>1. CASE \E w \in Ways, eip \in Eips : Access(w, eip)
  BY <1>1, AccessTable
<1>2. CASE UNCHANGED <<m_eip_list, m_last_eip_accessing, outOfBounds>>
  BY <1>2 DEF TableConsistent
<1>3. ASSUME NEW t \in Tags, Fill(t) \/ Replace(t) \/ NoVictim(t)
      PROVE  UNCHANGED <<m_eip_list, m_last_eip_accessing, outOfBounds>>
  BY <1>3 DEF Fill, Replace, NoVictim, predictor
<1>4. ASSUME NEW w \in Ways, Invalidate(w) \/ StartUpgrade(w) \/ EndUpgrade(w)
      PROVE  UNCHANGED <<m_eip_list, m_last_eip_accessing, outOfBounds>>
  BY <1>4 DEF Invalidate, StartUpgrade, EndUpgrade, predictor
<1>5. CASE UNCHANGED vars
  BY <1>2, <1>5 DEF vars, predictor
<1>. QED BY <1>1, <1>2, <1>3, <1>4, <1>5 DEF Next

(* Training and detraining always agree on the one slot of an instruction: *)
(* the table is a duplicate-free prefix and forgets nobody.                *)
THEOREM TableIsConsistent == Spec => []TableConsistent
<1>1. Init => TableConsistent
  BY DEF Init, TableConsistent
<1>2. IInv /\ TableConsistent /\ [Next]_vars => TableConsistent'
  BY StepTable
<1>. QED BY InitIInv, StepIInv, <1>1, <1>2, PTL DEF Spec

(* An instruction keeps its slot, and with it its score, for ever.         *)
THEOREM SlotsStick == Spec => SlotsAreSticky
<1>1. Init => TableConsistent
  BY DEF Init, TableConsistent
<1>2. IInv /\ TableConsistent /\ [Next]_vars
        => /\ TableConsistent'
           /\ [\A s \in Slot : m_eip_list[s] # NoEip
                  => m_eip_list'[s] = m_eip_list[s]]_vars
  BY StepTable
<1>. QED BY InitIInv, StepIInv, <1>1, <1>2, PTL DEF Spec, SlotsAreSticky

-----------------------------------------------------------------------------
(* A way that is not being upgraded can be evicted: its priority is one    *)
(* the search looks for provided Averse is below the associativity.        *)
LEMMA SomeWayEvictable ==
  ASSUME TypeOK, Averse < Assoc, upgrading # Ways
  PROVE  Evictable # {}
<1>1. PICK w \in Ways : w \notin upgrading
  BY DEF TypeOK
<1>2. m_priority_eviction[w] < Assoc
  <2>1. m_priority_eviction[w] \in 0 .. Averse
    BY DEF TypeOK
  <2>. QED BY <2>1, OptGenAssumption, HawkeyeAssumption
<1>. QED BY <1>1, <1>2 DEF Evictable

(* The search for a victim falls through to its error only when every way  *)
(* is being upgraded, for every associativity above the averse priority.   *)
THEOREM VictimIsAlwaysFound ==
  ASSUME Averse < Assoc
  PROVE  Spec => []VictimAlwaysFound
<1>1. Init => VictimAlwaysFound
  BY DEF Init, VictimAlwaysFound
<1>2. IInv /\ VictimAlwaysFound /\ [Next]_vars => VictimAlwaysFound'
  <2>. SUFFICES ASSUME IInv, VictimAlwaysFound, [Next]_vars
                PROVE  VictimAlwaysFound'
    OBVIOUS
  <2>1. ASSUME NEW t \in Tags, NoVictim(t) PROVE VictimAlwaysFound'
    <3>1. TypeOK /\ Evictable = {} /\ upgrading' = upgrading
      BY <2>1 DEF IInv, NoVictim, blocks
    <3>2. upgrading = Ways
      BY <3>1, SomeWayEvictable
    <3>. QED BY <3>1, <3>2 DEF VictimAlwaysFound
  <2>2. ASSUME NEW w \in Ways,
               \/ \E eip \in Eips : Access(w, eip)
               \/ Invalidate(w) \/ StartUpgrade(w) \/ EndUpgrade(w)
        PROVE  ~aborted'
    BY <2>2 DEF Access, Invalidate, StartUpgrade, EndUpgrade
  <2>3. ASSUME NEW t \in Tags, Fill(t) \/ Replace(t)
        PROVE  ~aborted'
    BY <2>3 DEF Fill, Replace, CanInsert
  <2>4. CASE UNCHANGED vars
    BY <2>4 DEF vars, blocks, VictimAlwaysFound
  <2>. QED BY <2>1, <2>2, <2>3, <2>4 DEF Next, VictimAlwaysFound
<1>. QED BY InitIInv, StepIInv, <1>1, <1>2, PTL DEF Spec

-----------------------------------------------------------------------------
(* Address 0 cannot be told from a free slot: an access that carries it    *)
(* trains the first one, which stays free.  No other free slot ever loses  *)
(* its initial score: training names the slot found for the address, and   *)
(* detraining skips the ways whose last address is 0.                      *)
THEOREM FreeSlotsStayNeutral == Spec => []FreeSlotsNeutral
<1>1. Init => FreeSlotsNeutral
  BY HawkeyeAssumption DEF Init, FreeSlotsNeutral
<1>2. IInv /\ FreeSlotsNeutral /\ [Next]_vars => FreeSlotsNeutral'
  <2>. SUFFICES ASSUME IInv, FreeSlotsNeutral, [Next]_vars,
                       NEW j \in Slot, NEW i \in Slot, j < i,
                       m_eip_list'[j] = NoEip, m_eip_list'[i] = NoEip
                PROVE  m_eip_score'[i] = InitScore
    BY DEF FreeSlotsNeutral
  <2>0. /\ m_eip_list \in [Slot -> Eips \cup {NoEip}]
        /\ m_eip_score \in [Slot -> 0 .. MaxScore]
        /\ m_eip_list[j] = NoEip /\ m_eip_list[i] = NoEip => m_eip_score[i] = InitScore
    BY DEF IInv, TypeOK, FreeSlotsNeutral
  <2>1. ASSUME NEW w \in Ways, NEW eip \in Eips, Access(w, eip)
        PROVE  m_eip_score'[i] = InitScore
    <3>1. PICK s \in 0 .. Slots, friendly \in BOOLEAN :
            SlotFor(eip, s) /\ UpdateWithSlot(w, eip, s, friendly)
      BY <2>1 DEF Access, UpdateReplacementEIP
    <3>. DEFINE occ      == [m_occupancy EXCEPT ![last_index] = 0]
                interval == UsageInterval(Forget(m_last_occurrence, last_index)[w], last_index)
    <3>2. /\ m_eip_list' = IF s \in Slot THEN [m_eip_list EXCEPT ![s] = eip]
                                          ELSE m_eip_list
          /\ m_eip_score' = Trained(s, interval, occ)
      BY <3>1 DEF UpdateWithSlot
    <3>3. ASSUME s \in Slot, eip = NoEip
          PROVE  m_eip_list[s] = NoEip /\ \A k \in Slot : k < s => m_eip_list[k] # NoEip
      <4>. DEFINE free == {k \in Slot : m_eip_list[k] = NoEip}
      <4>1. IsFirst(s, free)
        <5>1. s # Slots
          BY <3>3, HawkeyeAssumption DEF Slot
        <5>. QED BY <3>1, <3>3, <5>1 DEF SlotFor
      <4>2. m_eip_list[s] = NoEip /\ \A k \in free : s <= k
        BY <4>1 DEF IsFirst
      <4>. QED BY <4>2, HawkeyeAssumption DEF Slot
    <3>4. i # s
      BY <2>0, <3>2, <3>3
    <3>5. m_eip_list[j] = NoEip /\ m_eip_list[i] = NoEip
      BY <2>0, <3>2, <3>3, <3>4
    <3>6. m_eip_score'[i] = m_eip_score[i]
      BY <2>0, <3>2, <3>4 DEF Trained
    <3>. QED BY <2>0, <3>5, <3>6
  <2>2. ASSUME NEW t \in Tags, Replace(t)
        PROVE  m_eip_score'[i] = InitScore
    <3>1. PICK w \in Ways : m_eip_score' = Detrained(w)
      BY <2>2 DEF Replace
    <3>2. m_eip_list[j] = NoEip /\ m_eip_list[i] = NoEip
      BY <2>2 DEF Replace
    <3>. QED BY <2>0, <3>1, <3>2 DEF Detrained
  <2>3. CASE UNCHANGED <<m_eip_list, m_eip_score>>
    BY <2>0, <2>3
  <2>4. ASSUME NEW t \in Tags, Fill(t) \/ NoVictim(t)
        PROVE  UNCHANGED <<m_eip_list, m_eip_score>>
    BY <2>4 DEF Fill, NoVictim, predictor
  <2>5. ASSUME NEW w \in Ways, Invalidate(w) \/ StartUpgrade(w) \/ EndUpgrade(w)
        PROVE  UNCHANGED <<m_eip_list, m_eip_score>>
    BY <2>5 DEF Invalidate, StartUpgrade, EndUpgrade, predictor
  <2>6. CASE UNCHANGED vars
    BY <2>3, <2>6 DEF vars, predictor
  <2>. QED BY <2>1, <2>2, <2>3, <2>4, <2>5, <2>6 DEF Next
<1>. QED BY InitIInv, StepIInv, <1>1, <1>2, PTL DEF Spec

-----------------------------------------------------------------------------
(* What the refinement needs beyond the types: a line is in one way, and   *)
(* only a valid block is being upgraded.                                   *)
LinesDistinct ==
  /\ \A v, w \in Ways : tag[v] = tag[w] /\ v # w => tag[v] = NoTag
  /\ \A w \in upgrading : tag[w] # NoTag

LEMMA StepLinesDistinct == TypeOK /\ LinesDistinct /\ [Next]_vars => LinesDistinct'
<1>. SUFFICES ASSUME TypeOK, LinesDistinct, [Next]_vars PROVE LinesDistinct'
  OBVIOUS
<1>. USE DEF TypeOK, LinesDistinct
<1>1. ASSUME NEW t \in Tags, Fill(t) PROVE LinesDistinct'
  <2>1. PICK w \in Ways : IsFirst(w, InvalidWays) /\ tag' = [tag EXCEPT ![w] = t]
    BY <1>1 DEF Fill
  <2>2. tag[w] = NoTag /\ upgrading' = upgrading /\ \A v \in Ways : tag[v] # t
    BY <1>1, <2>1 DEF Fill, CanInsert, IsFirst, InvalidWays
  <2>. QED BY <2>1, <2>2
<1>2. ASSUME NEW t \in Tags, Replace(t) PROVE LinesDistinct'
  <2>1. PICK w \in Ways : IsVictim(w) /\ tag' = [tag EXCEPT ![w] = t]
    BY <1>2 DEF Replace
  <2>2. w \notin upgrading /\ upgrading' = upgrading /\ \A v \in Ways : tag[v] # t
    BY <1>2, <2>1 DEF Replace, CanInsert, IsVictim, IsFirst, Evictable
  <2>. QED BY <2>1, <2>2
<1>3. ASSUME NEW w \in Ways, Invalidate(w) PROVE LinesDistinct'
  BY <1>3 DEF Invalidate
<1>4. ASSUME NEW w \in Ways, StartUpgrade(w) \/ EndUpgrade(w) PROVE LinesDistinct'
  BY <1>4 DEF StartUpgrade, EndUpgrade
<1>5. CASE UNCHANGED blocks
  BY <1>5 DEF blocks
<1>6. ASSUME NEW w \in Ways, NEW eip \in Eips, Access(w, eip) PROVE UNCHANGED blocks
  BY <1>6 DEF Access, blocks
<1>7. ASSUME NEW t \in Tags, NoVictim(t) PROVE UNCHANGED blocks
  BY <1>7 DEF NoVictim, blocks
<1>. QED BY <1>1, <1>2, <1>3, <1>4, <1>5, <1>6, <1>7 DEF Next, vars, blocks

(* As many lines are resident as blocks are valid.                         *)
LEMMA ResidentCounted ==
  ASSUME TypeOK, LinesDistinct
  PROVE  /\ Cardinality(Resident(Ways)) <= Assoc
         /\ Cardinality(Resident(Ways)) \in Nat
         /\ Cardinality(Resident(Ways)) = Assoc <=> InvalidWays = {}
<1>. DEFINE valid == {w \in Ways : tag[w] # NoTag}
            f     == [w \in valid |-> tag[w]]
<1>1. IsFiniteSet(Ways) /\ Cardinality(Ways) = Assoc
  BY FS_Interval, OptGenAssumption DEF Ways
<1>2. /\ IsFiniteSet(valid) /\ Cardinality(valid) <= Assoc
      /\ Cardinality(valid) = Assoc => valid = Ways
  BY <1>1, FS_Subset
<1>3. f \in Surjection(valid, Resident(Ways)) /\ f \in Injection(valid, Resident(Ways))
  BY DEF TypeOK, LinesDistinct, Resident, Surjection, Injection, IsInjective
<1>4. /\ IsFiniteSet(Resident(Ways))
      /\ Cardinality(Resident(Ways)) = Cardinality(valid)
  BY <1>2, <1>3, FS_Surjection
<1>5. valid = Ways <=> InvalidWays = {}
  BY DEF InvalidWays
<1>. QED BY <1>1, <1>2, <1>4, <1>5, FS_CardinalityType

(* The instance's operators on finite sets are those of this module.       *)
LEMMA AbstractCardinality == \A S : Abstract!Cardinality(S) = Cardinality(S)
BY DEF Abstract!Cardinality, Cardinality

(* Every step is a step of the abstract cache set or changes none of its   *)
(* lines: filling needs a free block, an eviction takes one line that is   *)
(* not being upgraded, and only out of a full set.                         *)
LEMMA StepRefines ==
  ASSUME TypeOK, LinesDistinct, [Next]_vars
  PROVE  [Abstract!Next]_<<Resident(Ways), Resident(upgrading)>>
<1>. USE DEF TypeOK, LinesDistinct
<1>1. ASSUME NEW t \in Tags, Fill(t) PROVE Abstract!Fill(t)
  <2>1. PICK w \in Ways : IsFirst(w, InvalidWays) /\ tag' = [tag EXCEPT ![w] = t]
    BY <1>1 DEF Fill
  <2>2. tag[w] = NoTag /\ upgrading' = upgrading /\ \A v \in Ways : tag[v] # t
    BY <1>1, <2>1 DEF Fill, CanInsert, IsFirst, InvalidWays
  <2>3. t \notin Resident(Ways)
    BY <2>2 DEF Resident
  <2>4. Cardinality(Resident(Ways)) < Assoc
    BY <2>2, ResidentCounted, OptGenAssumption DEF InvalidWays
  <2>5. Resident(Ways)' = Resident(Ways) \cup {t}
    BY <2>1, <2>2, HawkeyeAssumption DEF Resident
  <2>6. Resident(upgrading)' = Resident(upgrading)
    BY <2>1, <2>2 DEF Resident
  <2>. QED BY <2>3, <2>4, <2>5, <2>6, AbstractCardinality DEF Abstract!Fill
<1>2. ASSUME NEW t \in Tags, Replace(t) PROVE \E victim \in Tags : Abstract!Replace(t, victim)
  <2>1. PICK w \in Ways : IsVictim(w) /\ tag' = [tag EXCEPT ![w] = t]
    BY <1>2 DEF Replace
  <2>2. w \notin upgrading /\ upgrading' = upgrading /\ \A v \in Ways : tag[v] # t
    BY <1>2, <2>1 DEF Replace, CanInsert, IsVictim, IsFirst, Evictable
  <2>3. InvalidWays = {} /\ \A v \in Ways : tag[v] # NoTag
    BY <1>2 DEF Replace, InvalidWays
  <2>4. t \notin Resident(Ways)
    BY <2>2 DEF Resident
  <2>5. Cardinality(Resident(Ways)) = Assoc
    BY <2>3, ResidentCounted
  <2>6. tag[w] \in Tags /\ tag[w] \in Resident(Ways) \ Resident(upgrading)
    BY <2>2, <2>3 DEF Resident
  <2>7. Resident(Ways)' = (Resident(Ways) \ {tag[w]}) \cup {t}
    BY <2>1, <2>2, <2>3, HawkeyeAssumption DEF Resident
  <2>8. Resident(upgrading)' = Resident(upgrading)
    BY <2>1, <2>2 DEF Resident
  <2>. QED BY <2>4, <2>5, <2>6, <2>7, <2>8, AbstractCardinality DEF Abstract!Replace
<1>3. ASSUME NEW w \in Ways, Invalidate(w) PROVE tag[w] \in Tags /\ Abstract!Remove(tag[w])
  <2>1. /\ tag[w] # NoTag
        /\ tag' = [tag EXCEPT ![w] = NoTag]
        /\ upgrading' = upgrading \ {w}
    BY <1>3 DEF Invalidate
  <2>2. tag[w] \in Resident(Ways)
    BY <2>1 DEF Resident
  <2>3. Resident(Ways)' = Resident(Ways) \ {tag[w]}
    BY <2>1 DEF Resident
  <2>4. Resident(upgrading)' = Resident(upgrading) \ {tag[w]}
    BY <2>1 DEF Resident
  <2>. QED BY <2>1, <2>2, <2>3, <2>4 DEF Abstract!Remove
<1>4. ASSUME NEW w \in Ways, StartUpgrade(w) PROVE tag[w] \in Tags /\ Abstract!Pin(tag[w])
  <2>1. /\ tag[w] # NoTag /\ w \notin upgrading
        /\ upgrading' = upgrading \cup {w} /\ tag' = tag
    BY <1>4 DEF StartUpgrade
  <2>2. tag[w] \in Resident(Ways) \ Resident(upgrading)
    BY <2>1 DEF Resident
  <2>3. /\ Resident(upgrading)' = Resident(upgrading) \cup {tag[w]}
        /\ Resident(Ways)' = Resident(Ways)
    BY <2>1 DEF Resident
  <2>. QED BY <2>1, <2>2, <2>3 DEF Abstract!Pin
<1>5. ASSUME NEW w \in Ways, EndUpgrade(w) PROVE tag[w] \in Tags /\ Abstract!Unpin(tag[w])
  <2>1. w \in upgrading /\ upgrading' = upgrading \ {w} /\ tag' = tag
    BY <1>5 DEF EndUpgrade
  <2>2. tag[w] \in Resident(upgrading) /\ tag[w] \in Tags
    BY <2>1 DEF Resident
  <2>3. /\ Resident(upgrading)' = Resident(upgrading) \ {tag[w]}
        /\ Resident(Ways)' = Resident(Ways)
    BY <2>1 DEF Resident
  <2>. QED BY <2>2, <2>3 DEF Abstract!Unpin
<1>6. CASE UNCHANGED blocks
  BY <1>6 DEF blocks, Resident
<1>7. ASSUME NEW w \in Ways, NEW eip \in Eips, Access(w, eip) PROVE UNCHANGED blocks
  BY <1>7 DEF Access, blocks
<1>8. ASSUME NEW t \in Tags, NoVictim(t) PROVE UNCHANGED blocks
  BY <1>8 DEF NoVictim, blocks
<1>9. UNCHANGED vars => UNCHANGED blocks
  BY DEF vars
<1>10. \/ UNCHANGED blocks
       \/ \E t \in Tags : Fill(t) \/ Replace(t)
       \/ \E w \in Ways : Invalidate(w) \/ StartUpgrade(w) \/ EndUpgrade(w)
  BY <1>7, <1>8, <1>9 DEF Next
<1>. QED BY <1>1, <1>2, <1>3, <1>4, <1>5, <1>6, <1>10 DEF Abstract!Next

(* CacheSet with the Hawkeye policy is a cache set: whatever the policy    *)
(* remembers and predicts, it gives up a line only when the set is full,   *)
(* one line then, and never one whose upgrade is outstanding.              *)
THEOREM HawkeyeImplementsCacheSet == Spec => ImplementsCacheSet
<1>1. Init => LinesDistinct
  BY DEF Init, LinesDistinct
<1>2. Init => Abstract!Init
  BY DEF Init, Abstract!Init, Resident
<1>3. IInv /\ LinesDistinct /\ [Next]_vars => LinesDistinct'
  BY StepLinesDistinct DEF IInv
<1>4. IInv /\ LinesDistinct /\ [Next]_vars
        => [Abstract!Next]_<<Resident(Ways), Resident(upgrading)>>
  BY StepRefines DEF IInv
<1>. QED BY InitIInv, StepIInv, <1>1, <1>2, <1>3, <1>4, PTL
         DEF Spec, ImplementsCacheSet, Abstract!Spec

-----------------------------------------------------------------------------
(* The circular vector against the reference OPTgen.  Back(i, b) is the    *)
(* position of the access b accesses before the one that will take i.      *)
Back(i, b) == IF b <= i THEN i - b ELSE i - b + Window

LEMMA BackIsModulo ==
  ASSUME NEW i \in Positions, NEW b \in 1 .. Window
  PROVE  (i - b) % Window = Back(i, b) /\ Back(i, b) \in Positions
<1>1. Window \in Nat \ {0}
  BY WindowPositive
<1>2. \A x \in Int, n \in Nat \ {0} : 0 <= x /\ x < n => x % n = x
  BY Z3
<1>3. \A x \in Int, n \in Nat \ {0} : 0 - n <= x /\ x < 0 => x % n = x + n
  BY Z3
<1> DEFINE W == Window
           x == i - b
<1>4. i \in 0 .. W - 1 /\ b \in 1 .. W /\ W \in Nat \ {0}
  BY <1>1 DEF Positions
<1> HIDE DEF W
<1>5. x \in Int /\ 0 - W <= x /\ x < W /\ (b <= i <=> 0 <= x)
  BY <1>4
<1>6. x % W = IF 0 <= x THEN x ELSE x + W
  <2> HIDE DEF x
  <2> QED
    BY <1>2, <1>3, <1>4, <1>5
<1>7. (IF 0 <= x THEN x ELSE x + W) \in 0 .. W - 1
  BY <1>4, <1>5
<1> QED
  BY <1>5, <1>6, <1>7 DEF Back, Positions, W

(* The next access takes the next position, as long as a UInt8 can hold    *)
(* it; every earlier one is then one access further back, and the one a    *)
(* whole window back is the one that position was of.                      *)
LEMMA BackSteps ==
  ASSUME NEW i \in Positions, Window <= ByteSize
  PROVE  /\ Back(Advance(i), 1) = i
         /\ \A b \in 1 .. Window - 1 : Back(Advance(i), b + 1) = Back(i, b)
         /\ \A b \in 1 .. Window : Back(i, b) = i <=> b = Window
         /\ \A b, c \in 1 .. Window : Back(i, b) = Back(i, c) => b = c
         /\ \A p \in Positions : \E b \in 1 .. Window : p = Back(i, b)
<1>1. Window \in Nat \ {0} /\ i \in 0 .. Window - 1
  BY WindowPositive DEF Positions
<1>2. Advance(i) = IF i < Window - 1 THEN i + 1 ELSE 0
  <2>1. \A x \in Nat, n \in Nat \ {0} : x < n => x % n = x
    BY Z3
  <2>2. i < Window - 1 => i + 1 \in Nat /\ i + 1 < ByteSize /\ ByteSize \in Nat \ {0}
    BY <1>1, OptGenAssumption
  <2> QED
    BY <2>1, <2>2 DEF Advance
<1>3. /\ Back(Advance(i), 1) = i
      /\ \A b \in 1 .. Window - 1 : Back(Advance(i), b + 1) = Back(i, b)
  BY <1>1, <1>2 DEF Back
<1>4. /\ \A b \in 1 .. Window : Back(i, b) = i <=> b = Window
      /\ \A b, c \in 1 .. Window : Back(i, b) = Back(i, c) => b = c
  BY <1>1 DEF Back
<1>5. ASSUME NEW p \in Positions PROVE \E b \in 1 .. Window : p = Back(i, b)
  <2>1. p \in 0 .. Window - 1
    BY DEF Positions
  <2>2. CASE p < i
    <3>1. i - p \in 1 .. Window /\ p = Back(i, i - p)
      BY <1>1, <2>1, <2>2 DEF Back
    <3> QED
      BY <3>1
  <2>3. CASE p >= i
    <3>1. i - p + Window \in 1 .. Window /\ p = Back(i, i - p + Window)
      BY <1>1, <2>1, <2>3 DEF Back
    <3> QED
      BY <3>1
  <2> QED
    BY <1>1, <2>1, <2>2, <2>3
<1> QED
  BY <1>3, <1>4, <1>5

(* The interval of a reuse, wrapped around or not, is the accesses since.  *)
LEMMA IntervalIsBack ==
  ASSUME NEW i \in Positions, NEW b \in 1 .. Window - 1
  PROVE  UsageInterval(Back(i, b), i) = {Back(i, c) : c \in 1 .. b}
<1>1. Window \in Nat \ {0} /\ i \in 0 .. Window - 1
  BY WindowPositive DEF Positions
<1>2. Back(i, b) # Never
  BY <1>1 DEF Back, Never
<1>3. CASE b <= i
  <2>1. UsageInterval(Back(i, b), i) = (i - b) .. (i - 1)
    BY <1>1, <1>2, <1>3 DEF UsageInterval, Back
  <2>2. \A c \in 1 .. b : Back(i, c) = i - c
    BY <1>1, <1>3 DEF Back
  <2>3. \A p \in (i - b) .. (i - 1) : i - p \in 1 .. b /\ p = i - (i - p)
    BY <1>1
  <2>4. \A c \in 1 .. b : i - c \in (i - b) .. (i - 1)
    BY <1>1
  <2> QED
    BY <2>1, <2>2, <2>3, <2>4
<1>4. CASE b > i
  <2>1. UsageInterval(Back(i, b), i)
          = ((i - b + Window) .. (Window - 1)) \cup (0 .. (i - 1))
    BY <1>1, <1>2, <1>4 DEF UsageInterval, Back
  <2>2. \A c \in 1 .. b : Back(i, c) = IF c <= i THEN i - c ELSE i - c + Window
    BY DEF Back
  <2>3. \A p \in 0 .. (i - 1) : i - p \in 1 .. b /\ i - p <= i /\ p = i - (i - p)
    BY <1>1, <1>4
  <2>4. \A p \in (i - b + Window) .. (Window - 1) :
          /\ i - p + Window \in 1 .. b /\ i - p + Window > i
          /\ p = i - (i - p + Window) + Window
    BY <1>1, <1>4
  <2>5. \A c \in 1 .. b : c <= i => i - c \in 0 .. (i - 1)
    BY <1>1
  <2>6. \A c \in 1 .. b : c > i => i - c + Window \in (i - b + Window) .. (Window - 1)
    BY <1>1
  <2>7. \A p \in UsageInterval(Back(i, b), i) : \E c \in 1 .. b : p = Back(i, c)
    <3>1. ASSUME NEW p \in 0 .. (i - 1) PROVE \E c \in 1 .. b : p = Back(i, c)
      <4>1. p = Back(i, i - p) /\ i - p \in 1 .. b
        BY <2>2, <2>3
      <4> QED
        BY <4>1
    <3>2. ASSUME NEW p \in (i - b + Window) .. (Window - 1)
          PROVE  \E c \in 1 .. b : p = Back(i, c)
      <4> DEFINE c == i - p + Window
      <4>1. c \in 1 .. b /\ c > i /\ p = i - c + Window
        BY <2>4
      <4>2. p = Back(i, c)
        <5> HIDE DEF c
        <5> QED
          BY <1>1, <2>2, <4>1
      <4> QED
        BY <4>1, <4>2
    <3> QED
      BY <2>1, <3>1, <3>2
  <2>8. \A c \in 1 .. b : Back(i, c) \in UsageInterval(Back(i, b), i)
    BY <1>1, <2>1, <2>2, <2>5, <2>6
  <2> QED
    BY <2>7, <2>8
<1> QED
  BY <1>1, <1>3, <1>4

-----------------------------------------------------------------------------
(* The history variables.  Every access accepts at most one interval, so   *)
(* no two end at the same access.                                          *)
HistoryTyped ==
  /\ age \in [Ways -> 0 .. Window]
  /\ IsFiniteSet(accepted)
  /\ accepted \subseteq (1 .. Window) \X (1 .. Window - 1)
  /\ \A x, y \in accepted : x[2] = y[2] => x = y

Covering(S, a) == {iv \in S : iv[2] < a /\ a <= iv[1]}

(* One access further back; nothing is remembered beyond the window.       *)
Older(iv) == <<IF iv[1] < Window THEN iv[1] + 1 ELSE Window, iv[2] + 1>>

LEMMA OlderCovers ==
  ASSUME NEW S \in SUBSET ((1 .. Window) \X (1 .. Window - 1)), IsFiniteSet(S),
         \A x, y \in S : x[2] = y[2] => x = y
  PROVE  LET T == {Older(iv) : iv \in {x \in S : x[2] < Window - 1}}
         IN  /\ IsFiniteSet(T)
             /\ T \subseteq (1 .. Window) \X (2 .. Window - 1)
             /\ \A x, y \in T : x[2] = y[2] => x = y
             /\ \A b \in 1 .. Window - 1 :
                  Cardinality(Covering(T, b + 1)) = Cardinality(Covering(S, b))
<1> DEFINE R == {x \in S : x[2] < Window - 1}
           T == {Older(iv) : iv \in R}
           f == [x \in R |-> Older(x)]
<1>1. Window \in Nat \ {0}
  BY WindowPositive
<1>2. \A x \in S : x[1] \in 1 .. Window /\ x[2] \in 1 .. Window - 1
  OBVIOUS
<1>3. /\ \A x \in R : x \in S /\ x[2] < Window - 1
      /\ \A x \in S : x[2] < Window - 1 => x \in R
      /\ \A x \in R : Older(x) \in T
      /\ \A y \in T : \E x \in R : y = Older(x)
  OBVIOUS
<1>4. IsFiniteSet(R)
  BY FS_Subset
<1> HIDE DEF R, T
<1>5. \A x \in R : /\ Older(x)[2] = x[2] + 1
                   /\ Older(x)[1] = IF x[1] < Window THEN x[1] + 1 ELSE Window
                   /\ Older(x) = <<Older(x)[1], Older(x)[2]>>
  BY DEF Older
<1>6. \A x, y \in R : Older(x)[2] = Older(y)[2] => x = y
  BY <1>2, <1>3, <1>5
<1>7. f \in Surjection(R, T)
  BY <1>3 DEF Surjection
<1>8. IsFiniteSet(T)
  BY <1>4, <1>7, FS_Surjection
<1>9. \A x \in R : /\ Older(x)[1] \in 1 .. Window
                   /\ Older(x)[2] \in 2 .. Window - 1
  BY <1>1, <1>2, <1>3, <1>5
<1>10. T \subseteq (1 .. Window) \X (2 .. Window - 1)
  <2>1. \A x \in R : <<Older(x)[1], Older(x)[2]>> \in (1 .. Window) \X (2 .. Window - 1)
    BY <1>9
  <2> QED
    BY <1>3, <1>5, <2>1
<1>11. \A x, y \in T : x[2] = y[2] => x = y
  BY <1>3, <1>6
<1>12. ASSUME NEW b \in 1 .. Window - 1
       PROVE  Cardinality(Covering(T, b + 1)) = Cardinality(Covering(S, b))
  <2> DEFINE C == Covering(S, b)
             D == Covering(T, b + 1)
             g == [x \in C |-> Older(x)]
  <2>1. \A x \in C : x \in S /\ x[2] < b /\ b <= x[1]
    BY DEF Covering
  <2>2. \A x \in S : x[2] < b /\ b <= x[1] => x \in C
    BY DEF Covering
  <2>3. \A y \in D : y \in T /\ y[2] < b + 1 /\ b + 1 <= y[1]
    BY DEF Covering
  <2>4. \A y \in T : y[2] < b + 1 /\ b + 1 <= y[1] => y \in D
    BY DEF Covering
  <2>5. IsFiniteSet(C)
    BY FS_Subset DEF Covering
  <2> HIDE DEF C, D
  <2>6. \A x \in C : x \in R
    BY <1>1, <1>2, <1>3, <2>1
  <2>7. \A x \in C : Older(x) \in D
    BY <1>1, <1>2, <1>3, <1>5, <2>1, <2>4, <2>6
  <2>8. ASSUME NEW y \in D PROVE \E x \in C : y = Older(x)
    <3>1. PICK x \in R : y = Older(x)
      BY <1>3, <2>3
    <3>2. x[2] + 1 < b + 1 /\ b + 1 <= Older(x)[1]
      BY <1>5, <2>3, <3>1
    <3>3. x \in S /\ x[2] < b /\ b <= x[1]
      BY <1>1, <1>2, <1>3, <1>5, <3>2
    <3> QED
      BY <2>2, <3>1, <3>3
  <2>9. g \in Surjection(C, D) /\ g \in Injection(C, D)
    <3>1. g \in [C -> D]
      BY <2>7
    <3>2. \A y \in D : \E x \in C : g[x] = y
      BY <2>8
    <3>3. \A x, y \in C : g[x] = g[y] => x = y
      BY <1>6, <2>6
    <3> QED
      BY <3>1, <3>2, <3>3 DEF Surjection, Injection, IsInjective
  <2>10. Cardinality(D) = Cardinality(C)
    <3> HIDE DEF g
    <3> QED
      BY <2>5, <2>9, FS_Surjection
  <2> QED
    BY <2>10 DEF C, D
<1> QED
  BY <1>8, <1>10, <1>11, <1>12 DEF R, T

LEMMA LoadRecorded ==
  ASSUME HistoryTyped, NEW w \in Ways, RecordAccess(w)
  PROVE  /\ HistoryTyped'
         /\ Cardinality(Covering(accepted', 1)) = 0
         /\ \A b \in 1 .. Window - 1 :
              /\ Cardinality(Covering(accepted, b)) \in Nat
              /\ Cardinality(Covering(accepted', b + 1))
                   = IF OptHit(w) /\ b <= age[w]
                       THEN Cardinality(Covering(accepted, b)) + 1
                       ELSE Cardinality(Covering(accepted, b))
<1> DEFINE S == accepted
           T == {Older(iv) : iv \in {x \in S : x[2] < Window - 1}}
           hit == OptHit(w)
           e == <<age[w] + 1, 1>>
<1>1. Window \in Nat \ {0}
  BY WindowPositive
<1>2. age' = [v \in Ways |-> IF v = w THEN 1
                            ELSE IF age[v] \in 1 .. Window - 1 THEN age[v] + 1
                            ELSE 0]
  BY DEF RecordAccess
<1>3. accepted' = T \cup (IF hit THEN {e} ELSE {})
  BY DEF RecordAccess, Older
<1>4. age' \in [Ways -> 0 .. Window]
  BY <1>1, <1>2
<1>5. /\ IsFiniteSet(T)
      /\ T \subseteq (1 .. Window) \X (2 .. Window - 1)
      /\ \A x, y \in T : x[2] = y[2] => x = y
      /\ \A b \in 1 .. Window - 1 :
           Cardinality(Covering(T, b + 1)) = Cardinality(Covering(S, b))
  BY OlderCovers DEF HistoryTyped
<1>6. hit => age[w] \in 1 .. Window - 1
  BY DEF OptHit
<1>7. S = accepted
  OBVIOUS
<1> HIDE DEF S, T, hit
<1>8. /\ hit => e \in (1 .. Window) \X (1 .. Window - 1)
      /\ e[1] = age[w] + 1 /\ e[2] = 1
  BY <1>1, <1>6
<1> HIDE DEF e
<1>9. \A x \in T : x[2] \in 2 .. Window - 1 /\ x[1] \in 1 .. Window
  BY <1>5
<1>10. e \notin T
  BY <1>8, <1>9
<1>11. IsFiniteSet(accepted')
  BY <1>3, <1>5, FS_AddElement
<1>12. accepted' \subseteq (1 .. Window) \X (1 .. Window - 1)
  <2>1. T \subseteq (1 .. Window) \X (1 .. Window - 1)
    BY <1>1, <1>5
  <2> QED
    BY <1>3, <1>8, <2>1
<1>13. \A x, y \in accepted' : x[2] = y[2] => x = y
  BY <1>3, <1>5, <1>8, <1>9
<1>14. Cardinality(Covering(accepted', 1)) = 0
  <2>1. \A x \in accepted' : x[2] >= 1 /\ x[2] \in Nat
    BY <1>3, <1>8, <1>9
  <2>2. Covering(accepted', 1) = {}
    BY <2>1 DEF Covering
  <2> QED
    BY <2>2, FS_EmptySet
<1>15. ASSUME NEW b \in 1 .. Window - 1
       PROVE  /\ Cardinality(Covering(S, b)) \in Nat
              /\ Cardinality(Covering(accepted', b + 1))
                   = IF hit /\ b <= age[w] THEN Cardinality(Covering(S, b)) + 1
                                           ELSE Cardinality(Covering(S, b))
  <2> DEFINE C == Covering(T, b + 1)
             D == Covering(accepted', b + 1)
  <2>1. C \subseteq T /\ D \subseteq accepted'
    BY DEF Covering
  <2>2. IsFiniteSet(C) /\ Cardinality(C) \in Nat
    BY <1>5, <2>1, FS_Subset, FS_CardinalityType
  <2>3. e \notin C
    BY <1>10, <2>1
  <2>4. hit /\ b <= age[w] => D = C \cup {e}
    BY <1>3, <1>6, <1>8 DEF Covering
  <2>5. ~(hit /\ b <= age[w]) => D = C
    BY <1>3, <1>6, <1>8 DEF Covering
  <2>6. Cardinality(C) = Cardinality(Covering(S, b))
    BY <1>5
  <2> HIDE DEF C, D
  <2>7. D = Covering(accepted', b + 1)
    BY DEF D
  <2>8. Cardinality(D) = IF hit /\ b <= age[w] THEN Cardinality(C) + 1 ELSE Cardinality(C)
    BY <2>2, <2>3, <2>4, <2>5, FS_AddElement
  <2> QED
    BY <2>2, <2>6, <2>7, <2>8
<1> QED
  BY <1>4, <1>7, <1>11, <1>12, <1>13, <1>14, <1>15 DEF HistoryTyped, hit

LEMMA LoadCovers ==
  \A a : Load(a) = Cardinality(Covering(accepted, a))
BY DEF Load, Covering

HistoryInv == IInv /\ HistoryTyped /\ OccupancyIsLoad /\ OccurrenceIsAge

(* The two properties without the modulo.                                  *)
LEMMA VectorByAge ==
  ASSUME last_index \in Positions
  PROVE  /\ OccupancyIsLoad <=>
              \A a \in 1 .. Window :
                m_occupancy[Back(last_index, a)] = Cardinality(Covering(accepted, a))
         /\ age \in [Ways -> 0 .. Window] =>
              (OccurrenceIsAge <=>
                 \A v \in Ways : m_last_occurrence[v] =
                   IF age[v] = 0 THEN Never ELSE Back(last_index, age[v]))
<1>1. \A a \in 1 .. Window : (last_index - a) % Window = Back(last_index, a)
  BY BackIsModulo
<1>2. OccupancyIsLoad <=>
        \A a \in 1 .. Window :
          m_occupancy[Back(last_index, a)] = Cardinality(Covering(accepted, a))
  BY <1>1, LoadCovers DEF OccupancyIsLoad
<1>3. ASSUME age \in [Ways -> 0 .. Window]
      PROVE  \A v \in Ways : age[v] # 0 =>
               (last_index - age[v]) % Window = Back(last_index, age[v])
  <2>1. \A v \in Ways : age[v] # 0 => age[v] \in 1 .. Window
    BY <1>3, WindowPositive
  <2> QED
    BY <1>1, <2>1
<1> QED
  BY <1>2, <1>3 DEF OccurrenceIsAge

(* What an access sees of a way once the overwritten position is forgotten.*)
Remembered(w) == Forget(m_last_occurrence, last_index)[w]
Reuse(w) == UsageInterval(Remembered(w), last_index)
Cleared == [m_occupancy EXCEPT ![last_index] = 0]

LEMMA RememberedByAge ==
  ASSUME Window <= ByteSize, HistoryInv
  PROVE  \A v \in Ways :
           Remembered(v) = IF age[v] \in 1 .. Window - 1 THEN Back(last_index, age[v])
                                                        ELSE Never
<1> DEFINE i == last_index
<1>1. /\ i \in Positions /\ m_last_occurrence \in [Ways -> Positions \cup {Never}]
      /\ \A v \in Ways : age[v] \in 0 .. Window
      /\ \A u, v \in Ways : m_last_occurrence[u] = m_last_occurrence[v] /\ u # v
                              => m_last_occurrence[u] = Never
  BY DEF HistoryInv, IInv, TypeOK, HistoryTyped, PositionsDistinct
<1>2. \A v \in Ways : m_last_occurrence[v] =
        IF age[v] = 0 THEN Never ELSE Back(i, age[v])
  BY <1>1, VectorByAge DEF HistoryInv, HistoryTyped
<1>3. \A b \in 1 .. Window : Back(i, b) = i <=> b = Window
  BY <1>1, BackSteps
<1>4. Window \in Nat \ {0} /\ Never # i
  BY <1>1, WindowPositive DEF Positions, Never
<1>5. \A v \in Ways : m_last_occurrence[v] = i <=> age[v] = Window
  BY <1>1, <1>2, <1>3, <1>4
<1>6. ASSUME NEW v \in Ways
      PROVE  Remembered(v) = IF m_last_occurrence[v] = i THEN Never
                                                         ELSE m_last_occurrence[v]
  <2> DEFINE at == {u \in Ways : m_last_occurrence[u] = i}
  <2>1. Remembered(v) = IF IsFirst(v, at) THEN Never ELSE m_last_occurrence[v]
    BY DEF Remembered, Forget
  <2>2. v \in at => IsFirst(v, at)
    <3>1. \A u \in at : v \in at => u = v
      BY <1>1, <1>4
    <3> QED
      BY <3>1 DEF IsFirst, Ways
  <2>3. IsFirst(v, at) => v \in at
    BY DEF IsFirst
  <2> QED
    BY <2>1, <2>2, <2>3
<1>7. \A v \in Ways : age[v] \in 1 .. Window - 1 <=> age[v] # 0 /\ age[v] # Window
  BY <1>1, <1>4
<1> QED
  BY <1>2, <1>5, <1>6, <1>7

LEMMA ReuseByAge ==
  ASSUME Window <= ByteSize, HistoryInv, NEW w \in Ways
  PROVE  Reuse(w) = IF age[w] \in 1 .. Window - 1
                      THEN {Back(last_index, c) : c \in 1 .. age[w]} ELSE {}
<1>1. last_index \in Positions
  BY DEF HistoryInv, IInv, TypeOK
<1>2. CASE age[w] \in 1 .. Window - 1
  BY <1>1, <1>2, RememberedByAge, IntervalIsBack DEF Reuse
<1>3. CASE age[w] \notin 1 .. Window - 1
  BY <1>3, RememberedByAge DEF Reuse, UsageInterval
<1> QED
  BY <1>2, <1>3

(* The verdict on an access is the reference's.                            *)
LEMMA VerdictByAge ==
  ASSUME Window <= ByteSize, HistoryInv, NEW w \in Ways
  PROVE  /\ WouldHit(Reuse(w), Cleared) <=> OptHit(w)
         /\ WouldMiss(Reuse(w), Cleared) => ~OptHit(w) /\ age[w] \in 1 .. Window - 1
<1> DEFINE i == last_index
<1>1. i \in Positions /\ m_occupancy \in [Positions -> Byte]
  BY DEF HistoryInv, IInv, TypeOK
<1>2. \A a \in 1 .. Window :
        m_occupancy[Back(i, a)] = Cardinality(Covering(accepted, a))
  BY <1>1, VectorByAge DEF HistoryInv
<1>3. \A a \in 1 .. Window : Back(i, a) \in Positions
  BY <1>1, BackIsModulo
<1>4. \A a \in 1 .. Window : Back(i, a) = i <=> a = Window
  BY <1>1, BackSteps
<1>5. Window \in Nat \ {0}
  BY WindowPositive
<1>6. ASSUME NEW a \in 1 .. Window - 1
      PROVE  Cleared[Back(i, a)] = Load(a) /\ Load(a) \in Nat
  <2>1. a \in 1 .. Window /\ a # Window
    BY <1>5
  <2>2. Cleared[Back(i, a)] = m_occupancy[Back(i, a)]
    BY <1>1, <1>3, <1>4, <2>1 DEF Cleared
  <2>3. m_occupancy[Back(i, a)] \in Nat
    BY <1>1, <1>3, <2>1, OptGenAssumption DEF Byte
  <2> QED
    BY <1>2, <2>1, <2>2, <2>3, LoadCovers
<1>7. CASE age[w] \in 1 .. Window - 1
  <2>1. Reuse(w) = {Back(i, c) : c \in 1 .. age[w]}
    BY <1>7, ReuseByAge
  <2>2. \A c \in 1 .. age[w] : c \in 1 .. Window - 1
    BY <1>5, <1>7
  <2>3. \A c \in 1 .. age[w] : Back(i, c) \in Reuse(w) /\ Cleared[Back(i, c)] = Load(c)
                               /\ Load(c) \in Nat
    BY <1>6, <2>1, <2>2
  <2>4. \A p \in Reuse(w) : \E c \in 1 .. age[w] : p = Back(i, c)
    BY <2>1
  <2>5. Reuse(w) # {}
    BY <1>5, <1>7, <2>3
  <2>6. (\A p \in Reuse(w) : Cleared[p] < Capacity) <=> (\A c \in 1 .. age[w] : Load(c) < Capacity)
    BY <2>3, <2>4
  <2>7. (\E p \in Reuse(w) : Cleared[p] >= Capacity) => (\E c \in 1 .. age[w] : ~(Load(c) < Capacity))
    BY <2>3, <2>4, OptGenAssumption
  <2> QED
    BY <1>7, <2>5, <2>6, <2>7 DEF WouldHit, WouldMiss, OptHit
<1>8. CASE age[w] \notin 1 .. Window - 1
  <2>1. Reuse(w) = {}
    BY <1>8, ReuseByAge
  <2> QED
    BY <1>8, <2>1 DEF WouldHit, WouldMiss, OptHit
<1> QED
  BY <1>7, <1>8

LEMMA AccessUpdates ==
  ASSUME NEW w \in Ways, NEW eip, Access(w, eip)
  PROVE  /\ m_occupancy' = IF WouldHit(Reuse(w), Cleared) THEN Occupy(Reuse(w), Cleared)
                                                         ELSE Cleared
         /\ m_last_occurrence' =
              [Forget(m_last_occurrence, last_index) EXCEPT ![w] = last_index]
         /\ last_index' = Advance(last_index)
         /\ \E s \in 0 .. Slots : m_eip_score' = Trained(s, Reuse(w), Cleared)
BY DEF Access, UpdateReplacementEIP, UpdateWithSlot, Reuse, Remembered, Cleared

LEMMA AccessHistory ==
  ASSUME Window <= ByteSize, HistoryInv, NEW w \in Ways, NEW eip \in Eips,
         Access(w, eip), RecordAccess(w)
  PROVE  HistoryInv'
<1> DEFINE i == last_index
           j == last_index'
<1>1. IInv'
  BY AccessIInv DEF HistoryInv
<1>2. /\ i \in Positions /\ j \in Positions /\ j = Advance(i)
      /\ m_occupancy \in [Positions -> Byte]
      /\ m_last_occurrence \in [Ways -> Positions \cup {Never}]
  BY <1>1, AccessUpdates DEF HistoryInv, IInv, TypeOK
<1>3. Window \in Nat \ {0}
  BY WindowPositive
<1>4. /\ HistoryTyped /\ HistoryTyped'
      /\ Cardinality(Covering(accepted', 1)) = 0
      /\ \A b \in 1 .. Window - 1 :
           /\ Cardinality(Covering(accepted, b)) \in Nat
           /\ Cardinality(Covering(accepted', b + 1))
                = IF OptHit(w) /\ b <= age[w]
                    THEN Cardinality(Covering(accepted, b)) + 1
                    ELSE Cardinality(Covering(accepted, b))
  BY LoadRecorded DEF HistoryInv
<1>5. /\ Back(j, 1) = i
      /\ \A b \in 1 .. Window - 1 : Back(j, b + 1) = Back(i, b)
      /\ \A b \in 1 .. Window : Back(i, b) = i <=> b = Window
      /\ \A b, c \in 1 .. Window : Back(i, b) = Back(i, c) => b = c
  BY <1>2, BackSteps
<1>6. \A b \in 1 .. Window : Back(i, b) \in Positions
  BY <1>2, BackIsModulo
<1>7. \A b \in 1 .. Window : b = 1 \/ b - 1 \in 1 .. Window - 1
  BY <1>3
<1>8. \A a \in 1 .. Window :
        m_occupancy'[Back(j, a)] = Cardinality(Covering(accepted', a))
  <2>1. OptHit(w) => age[w] \in 1 .. Window - 1 /\ Reuse(w) = {Back(i, c) : c \in 1 .. age[w]}
    BY ReuseByAge DEF OptHit
  <2>2. m_occupancy' = IF OptHit(w) THEN Occupy(Reuse(w), Cleared) ELSE Cleared
    BY VerdictByAge, AccessUpdates
  <2>3. OptHit(w) => \A p \in Reuse(w) : Cleared[p] < Capacity
    BY VerdictByAge DEF WouldHit
  <2>4. \A p \in Positions : Cleared[p] = IF p = i THEN 0 ELSE m_occupancy[p]
    BY <1>2 DEF Cleared
  <2>5. \A p \in Positions : m_occupancy[p] \in 0 .. ByteSize - 1
    BY <1>2 DEF Byte
  <2>6. \A n \in 0 .. ByteSize - 1 : n < Capacity => (n + 1) % ByteSize = n + 1
    <3>1. \A x \in Nat, n \in Nat \ {0} : x < n => x % n = x
      BY Z3
    <3> QED
      BY <3>1, OptGenAssumption
  <2>7. \A p \in Positions :
          m_occupancy'[p] = IF OptHit(w) /\ p \in Reuse(w) THEN Cleared[p] + 1
                                                          ELSE Cleared[p]
    <3>1. \A p \in Positions : Cleared[p] \in 0 .. ByteSize - 1
      BY <2>4, <2>5, OptGenAssumption
    <3>2. \A p \in Positions : Occupy(Reuse(w), Cleared)[p] =
             IF p \in Reuse(w) THEN (Cleared[p] + 1) % ByteSize ELSE Cleared[p]
      BY DEF Occupy
    <3> QED
      BY <2>2, <2>3, <2>6, <3>1, <3>2
  <2>8. m_occupancy'[i] = 0
    <3>1. OptHit(w) => i \notin Reuse(w)
      <4>1. ASSUME OptHit(w), NEW c \in 1 .. age[w] PROVE Back(i, c) # i
        <5>1. c \in 1 .. Window /\ c # Window
          BY <1>3, <2>1, <4>1
        <5> QED
          BY <1>5, <5>1
      <4> QED
        BY <2>1, <4>1
    <3> QED
      BY <1>2, <2>4, <2>7, <3>1
  <2>9. ASSUME NEW b \in 1 .. Window - 1
        PROVE  m_occupancy'[Back(i, b)] = Cardinality(Covering(accepted', b + 1))
    <3>1. b \in 1 .. Window /\ b # Window
      BY <1>3
    <3>2. Back(i, b) \in Positions /\ Back(i, b) # i
      BY <1>5, <1>6, <3>1
    <3>3. m_occupancy[Back(i, b)] = Cardinality(Covering(accepted, b))
      BY <1>2, <3>1, VectorByAge DEF HistoryInv
    <3>4. OptHit(w) => (Back(i, b) \in Reuse(w) <=> b <= age[w])
      <4>1. OptHit(w) => \A c \in 1 .. age[w] : c \in 1 .. Window
        BY <1>3, <2>1
      <4>2. OptHit(w) /\ b <= age[w] => b \in 1 .. age[w]
        BY <2>1
      <4>3. OptHit(w) /\ b \in 1 .. age[w] => b <= age[w]
        BY <2>1
      <4> QED
        BY <1>5, <2>1, <3>1, <4>1, <4>2, <4>3
    <3> QED
      BY <1>4, <2>4, <2>7, <3>2, <3>3, <3>4
  <2> HIDE DEF i, j
  <2>10. ASSUME NEW a \in 1 .. Window
         PROVE  m_occupancy'[Back(j, a)] = Cardinality(Covering(accepted', a))
    <3>1. CASE a = 1
      BY <1>4, <1>5, <2>8, <3>1
    <3>2. CASE a # 1
      <4> DEFINE b == a - 1
      <4>1. b \in 1 .. Window - 1 /\ a = b + 1
        BY <1>7, <3>2
      <4> HIDE DEF b
      <4> QED
        BY <1>5, <2>9, <4>1
    <3> QED
      BY <3>1, <3>2
  <2> QED
    BY <2>10
<1>9. \A v \in Ways : m_last_occurrence'[v] =
        IF age'[v] = 0 THEN Never ELSE Back(j, age'[v])
  <2>1. ASSUME NEW v \in Ways
        PROVE  m_last_occurrence'[v] = IF v = w THEN i ELSE Remembered(v)
    <3>1. Forget(m_last_occurrence, i) = [u \in Ways |-> Forget(m_last_occurrence, i)[u]]
      BY DEF Forget
    <3> QED
      BY <3>1, AccessUpdates DEF Remembered
  <2>2. \A v \in Ways : age'[v] = IF v = w THEN 1
                                  ELSE IF age[v] \in 1 .. Window - 1 THEN age[v] + 1 ELSE 0
    BY DEF RecordAccess
  <2>3. \A v \in Ways : Remembered(v) =
          IF age[v] \in 1 .. Window - 1 THEN Back(i, age[v]) ELSE Never
    BY RememberedByAge
  <2> HIDE DEF i, j
  <2> QED
    BY <1>5, <2>1, <2>2, <2>3
<1>10. OccupancyIsLoad' /\ OccurrenceIsAge'
  <2>1. \A a \in 1 .. Window : (j - a) % Window = Back(j, a)
    BY <1>2, BackIsModulo
  <2>2. OccupancyIsLoad'
    BY <1>8, <2>1 DEF OccupancyIsLoad, Load, Covering
  <2>3. \A v \in Ways : age'[v] = 0 \/ age'[v] \in 1 .. Window
    BY <1>3, <1>4 DEF HistoryTyped
  <2>4. OccurrenceIsAge'
    BY <1>9, <2>1, <2>3 DEF OccurrenceIsAge
  <2> QED
    BY <2>2, <2>4
<1> QED
  BY <1>1, <1>4, <1>10 DEF HistoryInv

LEMMA InitHistory == HistoryInit => HistoryInv
<1> SUFFICES ASSUME HistoryInit PROVE HistoryInv
  OBVIOUS
<1>1. IInv
  BY InitIInv DEF HistoryInit
<1>2. Window \in Nat \ {0}
  BY WindowPositive
<1>3. HistoryTyped
  BY <1>2, FS_EmptySet DEF HistoryInit, HistoryTyped
<1>4. /\ last_index \in Positions
      /\ \A p \in Positions : m_occupancy[p] = 0
      /\ \A v \in Ways : m_last_occurrence[v] = Never /\ age[v] = 0
      /\ accepted = {}
  BY <1>1 DEF HistoryInit, Init, IInv, TypeOK
<1>5. \A a \in 1 .. Window : Back(last_index, a) \in Positions
  BY <1>4, BackIsModulo
<1>6. \A a : Cardinality(Covering(accepted, a)) = 0
  <2>1. \A a : Covering(accepted, a) = {}
    BY <1>4 DEF Covering
  <2> QED
    BY <2>1, FS_EmptySet
<1>7. OccupancyIsLoad
  BY <1>4, <1>5, <1>6, VectorByAge
<1>8. OccurrenceIsAge
  BY <1>4 DEF OccurrenceIsAge
<1> QED
  BY <1>1, <1>3, <1>7, <1>8 DEF HistoryInv

LEMMA StepHistory ==
  ASSUME Window <= ByteSize
  PROVE  HistoryInv /\ [HistoryNext]_<<vars, history>> => HistoryInv'
<1> SUFFICES ASSUME HistoryInv, [HistoryNext]_<<vars, history>> PROVE HistoryInv'
  OBVIOUS
<1>1. ASSUME NEW w \in Ways, NEW eip \in Eips, Access(w, eip), RecordAccess(w)
      PROVE  HistoryInv'
  BY <1>1, AccessHistory
<1>2. ASSUME UNCHANGED <<m_occupancy, m_last_occurrence, last_index, age, accepted>>, [Next]_vars
      PROVE  HistoryInv'
  <2>1. IInv'
    BY <1>2, StepIInv DEF HistoryInv
  <2>2. HistoryTyped' /\ OccupancyIsLoad' /\ OccurrenceIsAge'
    BY <1>2 DEF HistoryInv, HistoryTyped, OccupancyIsLoad, OccurrenceIsAge, Load
  <2> QED
    BY <2>1, <2>2 DEF HistoryInv
<1>3. ASSUME NEW t \in Tags, Fill(t) \/ Replace(t) \/ NoVictim(t), UNCHANGED history
      PROVE  HistoryInv'
  <2>1. UNCHANGED optgen /\ Next
    BY <1>3 DEF Fill, Replace, NoVictim, Next
  <2> QED
    BY <1>2, <1>3, <2>1 DEF optgen, history
<1>4. ASSUME NEW w \in Ways, Invalidate(w) \/ StartUpgrade(w) \/ EndUpgrade(w),
             UNCHANGED history
      PROVE  HistoryInv'
  <2>1. UNCHANGED optgen /\ Next
    BY <1>4 DEF Invalidate, StartUpgrade, EndUpgrade, Next
  <2> QED
    BY <1>2, <1>4, <2>1 DEF optgen, history
<1>5. CASE UNCHANGED <<vars, history>>
  BY <1>2, <1>5 DEF vars, optgen, history
<1> QED
  BY <1>1, <1>3, <1>4, <1>5 DEF HistoryNext

(* The vector counts what the reference OPTgen keeps, at every distance    *)
(* and over every wrap-around of last_index (updateReplacementEIP), while  *)
(* the window fits the byte last_index is held in: up to 32 ways.          *)
THEOREM OccupancyIsAlwaysLoad ==
  ASSUME Window <= ByteSize
  PROVE  HistorySpec => []OccupancyIsLoad
<1>1. HistoryInv => OccupancyIsLoad
  BY DEF HistoryInv
<1> QED
  BY <1>1, InitHistory, StepHistory, PTL DEF HistorySpec

(* And a way's position names its last access exactly while that access is *)
(* in the window: the loop that forgets the overwritten position never     *)
(* misses one.                                                             *)
THEOREM OccurrenceIsAlwaysAge ==
  ASSUME Window <= ByteSize
  PROVE  HistorySpec => []OccurrenceIsAge
<1>1. HistoryInv => OccurrenceIsAge
  BY DEF HistoryInv
<1> QED
  BY <1>1, InitHistory, StepHistory, PTL DEF HistorySpec

LEMMA VerdictStep ==
  ASSUME Window <= ByteSize, HistoryInv, [HistoryNext]_<<vars, history>>,
         NEW w \in Ways, NEW s \in Slot, last_index' # last_index, age'[w] = 1
  PROVE  /\ m_eip_score'[s] > m_eip_score[s] => OptHit(w)
         /\ m_eip_score'[s] < m_eip_score[s] => ~OptHit(w) /\ age[w] \in 1 .. Window - 1
<1>1. PICK v \in Ways, eip \in Eips : Access(v, eip) /\ RecordAccess(v)
  <2>1. ~ UNCHANGED <<vars, history>>
    BY DEF vars, optgen
  <2>2. \A t \in Tags : ~(Fill(t) \/ Replace(t) \/ NoVictim(t))
    BY DEF Fill, Replace, NoVictim, optgen
  <2>3. \A u \in Ways : ~(Invalidate(u) \/ StartUpgrade(u) \/ EndUpgrade(u))
    BY DEF Invalidate, StartUpgrade, EndUpgrade, optgen
  <2> QED
    BY <2>1, <2>2, <2>3 DEF HistoryNext
<1>2. v = w
  <2>1. age'[w] = IF w = v THEN 1 ELSE IF age[w] \in 1 .. Window - 1 THEN age[w] + 1 ELSE 0
    BY <1>1 DEF RecordAccess
  <2>2. \A n \in 1 .. Window - 1 : n + 1 # 1
    BY WindowPositive
  <2> QED
    BY <2>1, <2>2
<1>3. PICK x \in 0 .. Slots : m_eip_score' = Trained(x, Reuse(w), Cleared)
  BY <1>1, <1>2, AccessUpdates
<1>4. m_eip_score \in [Slot -> 0 .. MaxScore]
  BY DEF HistoryInv, IInv, TypeOK
<1>5. /\ m_eip_score'[s] > m_eip_score[s] => WouldHit(Reuse(w), Cleared)
      /\ m_eip_score'[s] < m_eip_score[s] => WouldMiss(Reuse(w), Cleared)
  BY <1>3, <1>4, HawkeyeAssumption DEF Trained
<1> QED
  BY <1>5, VerdictByAge

(* An instruction is trained up only by an access the reference OPTgen     *)
(* would have served, and down only by a reuse in the window it would not. *)
THEOREM VerdictIsAlwaysOptimal ==
  ASSUME Window <= ByteSize
  PROVE  HistorySpec => VerdictIsOptimal
<1>1. HistoryInv /\ [HistoryNext]_<<vars, history>> =>
        [\A w \in Ways, s \in Slot :
           last_index' # last_index /\ age'[w] = 1 =>
             /\ m_eip_score'[s] > m_eip_score[s] => OptHit(w)
             /\ m_eip_score'[s] < m_eip_score[s] =>
                  ~OptHit(w) /\ age[w] \in 1 .. Window - 1]_<<vars, history>>
  BY VerdictStep
<1> QED
  BY <1>1, InitHistory, StepHistory, PTL DEF HistorySpec, VerdictIsOptimal
=============================================================================
