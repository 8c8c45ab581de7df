----------------------------- MODULE HawkeyeSet -----------------------------
(***************************************************************************)
(* One set of a cache whose replacement policy is Hawkeye (project 4):     *)
(* CacheSetHAWKEYE together with the parts of CacheSet and of the cache    *)
(* controller that read and write the same block array.  A step is one     *)
(* call under the set's lock.                                              *)
(***************************************************************************)
EXTENDS OptGen, FiniteSets

CONSTANTS
  Averse,     \* priority of a line predicted cache-averse (and of a new way): 15
  Fresh,      \* priority of a first access: 8
  Slots,      \* length of m_eip_list and of m_eip_score: 50
  MaxScore,   \* 7
  Friendly,   \* a score above this predicts cache-friendly: 3
  InitScore,  \* 4
  Eips,       \* the instruction addresses the accesses carry
  NoEip,      \* 0: a free slot of m_eip_list, a way nobody accessed
  Tags,       \* tags of the lines that map to this set
  NoTag,      \* the tag of an invalid block
  Cores       \* threads that share the cache: outstanding requests

ASSUME HawkeyeAssumption ==
  /\ Averse \in Nat /\ Averse < ByteSize
  /\ Fresh \in 0 .. Averse
  /\ Slots \in Nat \ {0}
  /\ MaxScore \in Nat /\ InitScore \in 0 .. MaxScore /\ Friendly \in 0 .. MaxScore
  /\ NoTag \notin Tags
  /\ Cores \in Nat \ {0}

VARIABLES
  tag,              \* the tag of each way, NoTag when the block is invalid
  upgrading,        \* the ways in state SHARED_UPGRADING
  m_occupancy,
  m_last_occurrence,
  m_priority_eviction,
  last_index,
  m_eip_list,
  m_eip_score,
  m_last_eip_accessing,
  outOfBounds,      \* m_eip_score[50] has been read or written
  aborted           \* LOG_PRINT_ERROR: no victim was found

blocks == <<tag, upgrading>>
optgen == <<m_occupancy, m_last_occurrence, last_index>>
predictor == <<m_eip_list, m_eip_score, m_last_eip_accessing, outOfBounds>>
vars == <<blocks, optgen, predictor, m_priority_eviction, aborted>>

Slot == 0 .. Slots - 1

Init ==
  /\ tag = [w \in Ways |-> NoTag]
  /\ upgrading = {}
  /\ m_occupancy = [p \in Positions |-> 0]
  /\ m_last_occurrence = [w \in Ways |-> Never]
  /\ m_priority_eviction = [w \in Ways |-> Averse]
  /\ last_index = 0
  /\ m_eip_list = [s \in Slot |-> NoEip]
  /\ m_eip_score = [s \in Slot |-> InitScore]
  /\ m_last_eip_accessing = [w \in Ways |-> NoEip]
  /\ outOfBounds = FALSE
  /\ aborted = FALSE

-----------------------------------------------------------------------------
(* Faults for the mutation runs: the table is not searched for the address;*)
(* an unknown address takes the slot with the lowest score.                *)
SlotForUnsearched(eip, s) ==
  LET free == {i \in Slot : m_eip_list[i] = NoEip}
  IN IsFirst(s, free) \/ (free = {} /\ s = Slots)

SlotForLowestScore(eip, s) ==
  LET known == {i \in Slot : m_eip_list[i] = eip}
      low   == {i \in Slot : \A j \in Slot : m_eip_score[i] <= m_eip_score[j]}
  IN IsFirst(s, known) \/ (known = {} /\ IsFirst(s, low))

(* The slot of an instruction address: the slot that holds it, else the    *)
(* first free one, else Slots, one past the end of both arrays.            *)
SlotFor(eip, s) ==
  LET known == {i \in Slot : m_eip_list[i] = eip}
      free  == {i \in Slot : m_eip_list[i] = NoEip}
  IN \/ IsFirst(s, known)
     \/ known = {} /\ IsFirst(s, free)
     \/ known = {} /\ free = {} /\ s = Slots

(* Trains the score of slot s with OPTgen's verdict on the interval.       *)
Trained(s, interval, occ) ==
  IF s \notin Slot THEN m_eip_score
  ELSE [m_eip_score EXCEPT ![s] =
          IF WouldHit(interval, occ) /\ @ < MaxScore THEN @ + 1
          ELSE IF WouldMiss(interval, occ) /\ @ > 0 THEN @ - 1
          ELSE @]

(* What is left of an access once its slot is known: OPTgen's verdict on   *)
(* the way's usage interval, training, the new priority, the next position.*)
UpdateWithSlot(w, eip, s, friendly) ==
  LET occurrence == Forget(m_last_occurrence, last_index)
      occ        == [m_occupancy EXCEPT ![last_index] = 0]
      interval   == UsageInterval(occurrence[w], last_index)
  IN /\ m_eip_list' = IF s \in Slot THEN [m_eip_list EXCEPT ![s] = eip]
                                    ELSE m_eip_list
     /\ m_eip_score' = Trained(s, interval, occ)
     /\ s \in Slot => friendly = (m_eip_score'[s] > Friendly)
     /\ outOfBounds' = (outOfBounds \/ s \notin Slot)
     /\ m_last_eip_accessing' = [m_last_eip_accessing EXCEPT ![w] = eip]
     /\ m_occupancy' = IF WouldHit(interval, occ) THEN Occupy(interval, occ)
                                                  ELSE occ
     /\ m_priority_eviction' = [m_priority_eviction EXCEPT ![w] =
          IF interval = {} THEN Fresh ELSE IF friendly THEN 0 ELSE Averse]
     /\ m_last_occurrence' = [occurrence EXCEPT ![w] = last_index]
     /\ last_index' = Advance(last_index)

(* Past the table's end the score read is whatever lies there, so the      *)
(* prediction it gives is arbitrary.                                       *)
UpdateReplacementEIP(w, eip) ==
  \E s \in 0 .. Slots, friendly \in BOOLEAN :
    SlotFor(eip, s) /\ UpdateWithSlot(w, eip, s, friendly)

(* A hit: the controller finds the block in a readable state, so it is     *)
(* not being upgraded, and reads or writes it with update_replacement set. *)
Access(w, eip) ==
  /\ ~aborted
  /\ tag[w] # NoTag
  /\ w \notin upgrading
  /\ UpdateReplacementEIP(w, eip)
  /\ UNCHANGED <<blocks, aborted>>

-----------------------------------------------------------------------------
InvalidWays == {w \in Ways : tag[w] = NoTag}

(* Faults: the search starts one priority too low; it does not ask         *)
(* isValidReplacement.                                                     *)
EvictableBelow == {w \in Ways : w \notin upgrading /\ m_priority_eviction[w] < Assoc - 1}
EvictableUnchecked == {w \in Ways : m_priority_eviction[w] < Assoc}

(* The way with the highest priority below the associativity, the first    *)
(* such way among equals, that is not being upgraded.                      *)
Evictable == {w \in Ways : w \notin upgrading /\ m_priority_eviction[w] < Assoc}
IsVictim(w) ==
  IsFirst(w, {v \in Evictable : \A u \in Evictable :
                m_priority_eviction[u] <= m_priority_eviction[v]})

(* Fault: the ways with the victim's own priority age too.                 *)
IncrementAgeOfEquals(w) ==
  [v \in Ways |->
     IF v = w THEN 0
     ELSE IF m_priority_eviction[v] <= m_priority_eviction[w]
       THEN (m_priority_eviction[v] + 1) % ByteSize
       ELSE m_priority_eviction[v]]

IncrementAge(w) ==
  [v \in Ways |->
     IF v = w THEN 0
     ELSE IF m_priority_eviction[v] < m_priority_eviction[w]
       THEN (m_priority_eviction[v] + 1) % ByteSize
       ELSE m_priority_eviction[v]]

(* Fault: a way without an address detrains the slots without one.         *)
DetrainedUnguarded(w) ==
  [s \in Slot |->
     IF m_eip_list[s] = m_last_eip_accessing[w] /\ m_eip_score[s] > Friendly
       THEN m_eip_score[s] - 1
       ELSE m_eip_score[s]]

(* The scores after the victim's last instruction address was detrained.   *)
Detrained(w) ==
  [s \in Slot |->
     IF /\ m_last_eip_accessing[w] # NoEip
        /\ m_eip_list[s] = m_last_eip_accessing[w]
        /\ m_eip_score[s] > Friendly
       THEN m_eip_score[s] - 1
       ELSE m_eip_score[s]]

(* insertCacheBlock's precondition, and a thread left to make the request. *)
CanInsert(t) ==
  /\ ~aborted
  /\ \A w \in Ways : tag[w] # t
  /\ Cardinality(upgrading) < Cores

Fill(t) ==
  /\ CanInsert(t)
  /\ \E w \in Ways : IsFirst(w, InvalidWays) /\ tag' = [tag EXCEPT ![w] = t]
  /\ UNCHANGED <<upgrading, optgen, predictor, m_priority_eviction, aborted>>

Replace(t) ==
  /\ CanInsert(t)
  /\ InvalidWays = {}
  /\ \E w \in Ways :
       /\ IsVictim(w)
       /\ tag' = [tag EXCEPT ![w] = t]
       /\ m_priority_eviction' = IncrementAge(w)
       /\ m_eip_score' = Detrained(w)
  /\ UNCHANGED <<upgrading, optgen, m_eip_list, m_last_eip_accessing,
                 outOfBounds, aborted>>

(* "Error Finding Hawkeye bits"                                            *)
NoVictim(t) ==
  /\ CanInsert(t)
  /\ InvalidWays = {}
  /\ Evictable = {}
  /\ aborted' = TRUE
  /\ UNCHANGED <<blocks, optgen, predictor, m_priority_eviction>>

-----------------------------------------------------------------------------
(* The controller's other writes to the block array.                       *)
Invalidate(w) ==
  /\ ~aborted
  /\ tag[w] # NoTag
  /\ tag' = [tag EXCEPT ![w] = NoTag]
  /\ upgrading' = upgrading \ {w}
  /\ UNCHANGED <<optgen, predictor, m_priority_eviction, aborted>>

StartUpgrade(w) ==
  /\ ~aborted
  /\ tag[w] # NoTag
  /\ w \notin upgrading
  /\ Cardinality(upgrading) < Cores
  /\ upgrading' = upgrading \cup {w}
  /\ UNCHANGED <<tag, optgen, predictor, m_priority_eviction, aborted>>

EndUpgrade(w) ==
  /\ ~aborted
  /\ w \in upgrading
  /\ upgrading' = upgrading \ {w}
  /\ UNCHANGED <<tag, optgen, predictor, m_priority_eviction, aborted>>

Next ==
  \/ \E w \in Ways, eip \in Eips : Access(w, eip)
  \/ \E t \in Tags : Fill(t) \/ Replace(t) \/ NoVictim(t)
  \/ \E w \in Ways : Invalidate(w) \/ StartUpgrade(w) \/ EndUpgrade(w)

Spec == Init /\ [][Next]_vars

-----------------------------------------------------------------------------
TypeOK ==
  /\ tag \in [Ways -> Tags \cup {NoTag}]
  /\ upgrading \subseteq Ways
  /\ m_occupancy \in [Positions -> Byte]
  /\ m_last_occurrence \in [Ways -> Positions \cup {Never}]
  /\ m_priority_eviction \in [Ways -> 0 .. Averse]
  /\ last_index \in Positions
  /\ m_eip_list \in [Slot -> Eips \cup {NoEip}]
  /\ m_eip_score \in [Slot -> 0 .. MaxScore]
  /\ m_last_eip_accessing \in [Ways -> Eips \cup {NoEip}]
  /\ outOfBounds \in BOOLEAN
  /\ aborted \in BOOLEAN

(* No two ways claim the same position of the occupancy vector.  The       *)
(* clearing loop relies on it: it stops at the first way it finds.         *)
PositionsDistinct ==
  \A v, w \in Ways :
    m_last_occurrence[v] = m_last_occurrence[w] /\ v # w
      => m_last_occurrence[v] = Never

(* A position never holds more lines than the modelled cache has room for, *)
(* so the UInt8 counters never wrap.                                       *)
OccupancyBounded == \A p \in Positions : m_occupancy[p] <= Capacity

(* The instruction table is a prefix of distinct addresses, and every      *)
(* address remembered for a way is in it as long as the table had room:    *)
(* training and detraining find one slot for an address, the same one.     *)
TableConsistent ==
  /\ \A i, j \in Slot : m_eip_list[i] = m_eip_list[j] /\ i # j
                          => m_eip_list[i] = NoEip
  /\ \A i, j \in Slot : m_eip_list[i] = NoEip /\ i < j => m_eip_list[j] = NoEip
  /\ ~outOfBounds => \A w \in Ways :
       \/ m_last_eip_accessing[w] = NoEip
       \/ \E s \in Slot : m_eip_list[s] = m_last_eip_accessing[w]

(* Address 0, which the accesses of the threads without the master L1 and   *)
(* the first ones carry, trains the first free slot, the one the next new  *)
(* instruction takes; it and the ways nobody accessed leave the scores of  *)
(* all other free slots as they were initialised.                          *)
FreeSlotsNeutral ==
  \A i, j \in Slot :
    i < j /\ m_eip_list[i] = NoEip /\ m_eip_list[j] = NoEip => m_eip_score[j] = InitScore

(* getReplacementIndex reaches its error, "Error Finding Hawkeye bits",     *)
(* only when every way is being upgraded: no priority hides a line from it.*)
VictimAlwaysFound == aborted => upgrading = Ways

(* The set implements the abstract cache set.                              *)
Resident(S) == {tag[w] : w \in S} \ {NoTag}
Abstract == INSTANCE CacheSetSpec WITH lines <- Resident(Ways),
                                       pinned <- Resident(upgrading)
ImplementsCacheSet == Abstract!Spec

(* An instruction keeps its slot for the life of the set.                  *)
SlotsAreSticky ==
  [][\A s \in Slot : m_eip_list[s] # NoEip => m_eip_list'[s] = m_eip_list[s]]_vars
=============================================================================
