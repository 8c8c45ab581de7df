---------------------------- MODULE Hawkeye3Set -----------------------------
(***************************************************************************)
(* One set under the project 3 version of the policy: OPTgen's verdict on  *)
(* the access sets the line's priority directly, no instruction table.     *)
(***************************************************************************)
EXTENDS OptGen, FiniteSets

CONSTANTS
  Averse,   \* 15
  Initial,  \* 7
  Tags, NoTag,
  Cores

ASSUME Hawkeye3Assumption ==
  /\ Averse \in Nat /\ Averse < ByteSize
  /\ Initial \in 0 .. Averse
  /\ NoTag \notin Tags
  /\ Cores \in Nat \ {0}

VARIABLES tag, upgrading, m_occupancy, m_last_occurence, m_priority_eviction,
          last_index, aborted

blocks == <<tag, upgrading>>
optgen == <<m_occupancy, m_last_occurence, last_index>>
vars == <<blocks, optgen, m_priority_eviction, aborted>>

Init ==
  /\ tag = [w \in Ways |-> NoTag]
  /\ upgrading = {}
  /\ m_occupancy = [p \in Positions |-> 0]
  /\ m_last_occurence = [w \in Ways |-> Never]
  /\ m_priority_eviction = [w \in Ways |-> Initial]
  /\ last_index = 0
  /\ aborted = FALSE

UpdateReplacementIndex(w) ==
  LET occurrence == Forget(m_last_occurence, last_index)
      occ        == [m_occupancy EXCEPT ![last_index] = 0]
      interval   == UsageInterval(occurrence[w], last_index)
  IN /\ m_last_occurence' = [occurrence EXCEPT ![w] = last_index]
     /\ m_priority_eviction' = [m_priority_eviction EXCEPT ![w] =
          IF WouldMiss(interval, occ) THEN Averse ELSE 0]
     /\ m_occupancy' = IF WouldHit(interval, occ) THEN Occupy(interval, occ)
                                                  ELSE occ
     /\ last_index' = Advance(last_index)

Access(w) ==
  /\ ~aborted
  /\ tag[w] # NoTag
  /\ w \notin upgrading
  /\ UpdateReplacementIndex(w)
  /\ UNCHANGED <<blocks, aborted>>

InvalidWays == {w \in Ways : tag[w] = NoTag}
(* Fault for the mutation runs: the search starts one priority too low.    *)
EvictableBelow == {w \in Ways : w \notin upgrading /\ m_priority_eviction[w] < Assoc - 1}

Evictable == {w \in Ways : w \notin upgrading /\ m_priority_eviction[w] < Assoc}
IsVictim(w) ==
  IsFirst(w, {v \in Evictable : \A u \in Evictable :
                m_priority_eviction[u] <= m_priority_eviction[v]})

IncrementAge(w) ==
  [v \in Ways |->
     IF v = w THEN 0
     ELSE IF m_priority_eviction[v] < m_priority_eviction[w]
       THEN (m_priority_eviction[v] + 1) % ByteSize
       ELSE m_priority_eviction[v]]

(* CacheSet::insert: the way getReplacementIndex returns takes the line.   *)
Insert(t) ==
  /\ ~aborted
  /\ \A w \in Ways : tag[w] # t
  /\ Cardinality(upgrading) < Cores
  /\ \/ \E w \in Ways :
          /\ IsFirst(w, InvalidWays)
          /\ tag' = [tag EXCEPT ![w] = t]
          /\ UNCHANGED <<m_priority_eviction, aborted>>
     \/ \E w \in Ways :
          /\ InvalidWays = {}
          /\ IsVictim(w)
          /\ tag' = [tag EXCEPT ![w] = t]
          /\ m_priority_eviction' = IncrementAge(w)
          /\ UNCHANGED aborted
     \/ /\ InvalidWays = {}
        /\ Evictable = {}
        /\ aborted' = TRUE
        /\ UNCHANGED <<tag, m_priority_eviction>>
  /\ UNCHANGED <<upgrading, optgen>>

Invalidate(w) ==
  /\ ~aborted
  /\ tag[w] # NoTag
  /\ tag' = [tag EXCEPT ![w] = NoTag]
  /\ upgrading' = upgrading \ {w}
  /\ UNCHANGED <<optgen, m_priority_eviction, aborted>>

StartUpgrade(w) ==
  /\ ~aborted
  /\ tag[w] # NoTag /\ w \notin upgrading
  /\ Cardinality(upgrading) < Cores
  /\ upgrading' = upgrading \cup {w}
  /\ UNCHANGED <<tag, optgen, m_priority_eviction, aborted>>

EndUpgrade(w) ==
  /\ ~aborted
  /\ w \in upgrading
  /\ upgrading' = upgrading \ {w}
  /\ UNCHANGED <<tag, optgen, m_priority_eviction, aborted>>

Next ==
  \/ \E w \in Ways : Access(w)
  \/ \E t \in Tags : Insert(t)
  \/ \E w \in Ways : Invalidate(w) \/ StartUpgrade(w) \/ EndUpgrade(w)

Spec == Init /\ [][Next]_vars

-----------------------------------------------------------------------------
TypeOK ==
  /\ tag \in [Ways -> Tags \cup {NoTag}]
  /\ upgrading \subseteq Ways
  /\ m_occupancy \in [Positions -> Byte]
  /\ m_last_occurence \in [Ways -> Positions \cup {Never}]
  /\ m_priority_eviction \in [Ways -> 0 .. Averse]
  /\ last_index \in Positions
  /\ aborted \in BOOLEAN

(* As in project 4: the loop that clears one overwritten position relies   *)
(* on no two ways sharing one, and full positions stop counting.           *)
PositionsDistinct ==
  /\ \A v, w \in Ways : m_last_occurence[v] = m_last_occurence[w] /\ v # w
                          => m_last_occurence[v] = Never
  /\ \A p \in Positions : m_occupancy[p] <= Capacity

(* getReplacementIndex reaches its error only when every way is being     *)
(* upgraded: the search looks for every priority the policy assigns.       *)
VictimAlwaysFound == aborted => upgrading = Ways
=============================================================================
