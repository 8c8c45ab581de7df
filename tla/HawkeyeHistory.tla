--------------------------- MODULE HawkeyeHistory ---------------------------
(***************************************************************************)
(* HawkeyeSet with history variables: the liveness intervals a reference   *)
(* OPTgen would have accepted, computed from the distances between the     *)
(* accesses and not from the circular vector.                              *)
(***************************************************************************)
EXTENDS HawkeyeSet

VARIABLES
  age,       \* accesses to the set since the way's last one, 0 when not in the window
  accepted   \* accepted intervals <<from, to>>: they cover the ages to+1 .. from

history == <<age, accepted>>

HistoryInit ==
  /\ Init
  /\ age = [w \in Ways |-> 0]
  /\ accepted = {}

(* The lines OPTgen keeps in the modelled cache a accesses ago.            *)
Load(a) == Cardinality({iv \in accepted : iv[2] < a /\ a <= iv[1]})

(* OPTgen's rule: the line was used at most Window-1 accesses ago and the  *)
(* modelled cache had room for it ever since.                              *)
OptHit(w) == age[w] \in 1 .. Window - 1 /\ \A a \in 1 .. age[w] : Load(a) < Capacity

RecordAccess(w) ==
  LET older(iv) == <<IF iv[1] < Window THEN iv[1] + 1 ELSE Window, iv[2] + 1>>
  IN /\ age' = [v \in Ways |-> IF v = w THEN 1
                               ELSE IF age[v] \in 1 .. Window - 1 THEN age[v] + 1
                               ELSE 0]
     /\ accepted' = {older(iv) : iv \in {x \in accepted : x[2] < Window - 1}}
                      \cup (IF OptHit(w) THEN {<<age[w] + 1, 1>>} ELSE {})

HistoryNext ==
  \/ \E w \in Ways, eip \in Eips : Access(w, eip) /\ RecordAccess(w)
  \/ \E t \in Tags : (Fill(t) \/ Replace(t) \/ NoVictim(t)) /\ UNCHANGED history
  \/ \E w \in Ways : (Invalidate(w) \/ StartUpgrade(w) \/ EndUpgrade(w))
                       /\ UNCHANGED history

HistorySpec == HistoryInit /\ [][HistoryNext]_<<vars, history>>

-----------------------------------------------------------------------------
(* The circular vector counts exactly the accepted intervals that cover    *)
(* each of the last Window accesses, over every wrap-around of last_index. *)
OccupancyIsLoad ==
  \A a \in 1 .. Window : m_occupancy[(last_index - a) % Window] = Load(a)

(* m_last_occurrence is the position of the way's last access exactly      *)
(* while that access is still in the window: no stale position survives.   *)
OccurrenceIsAge ==
  \A w \in Ways : m_last_occurrence[w] =
    IF age[w] = 0 THEN Never ELSE (last_index - age[w]) % Window

(* An access trains its instruction up only when the reference OPTgen hits *)
(* and down only when it misses on a visible reuse.                        *)
VerdictIsOptimal ==
  [][\A w \in Ways, s \in Slot :
       last_index' # last_index /\ age'[w] = 1 =>
         /\ m_eip_score'[s] > m_eip_score[s] => OptHit(w)
         /\ m_eip_score'[s] < m_eip_score[s] =>
              ~OptHit(w) /\ age[w] \in 1 .. Window - 1]_<<vars, history>>
=============================================================================
