------------------------------ MODULE DramCache -----------------------------
(***************************************************************************)
(* The optional cache in front of a memory controller: whole lines, write- *)
(* back, filled on loads and stores and by a prefetcher.  The lines        *)
(* modelled map to one of its sets; the controller behind it is a map from *)
(* lines to data.  A step is one call of getDataFromDram or putDataToDram. *)
(***************************************************************************)
EXTENDS Naturals, FiniteSets

CONSTANTS
  Addrs,
  Values,               \* what a line may hold
  Ways,                 \* associativity
  PrefetchOnPrefetchHit \* m_prefetch_on_prefetch_hit

VARIABLES
  cache,   \* a line, or Absent, per address
  dram,    \* the contents of the memory behind
  lastPut  \* history: what was put last

vars == <<cache, dram, lastPut>>

Absent == [st |-> "INVALID"]
NoAddr == "none"
Line(st, data, prefetched) == [st |-> st, data |-> data, prefetched |-> prefetched]
Cached(s) == {a \in Addrs : s.cache[a] # Absent}

Init ==
  /\ cache = [a \in Addrs |-> Absent]
  /\ \E v \in Values : dram = [a \in Addrs |-> v]
  /\ lastPut = dram

Now == [cache |-> cache, dram |-> dram]

(* insertLine: data_buf goes into the line, and to memory as the contents  *)
(* of a modified victim.                                                   *)
Victims(s) == IF Cardinality(Cached(s)) < Ways THEN {NoAddr} ELSE Cached(s)
WrittenBack(s, victim, line) == line.data
InsertLine(s, a, line, victim) ==
  [cache |-> [b \in Addrs |-> IF b = a THEN line
                              ELSE IF b = victim THEN Absent ELSE s.cache[b]],
   dram  |-> IF victim # NoAddr /\ s.cache[victim].st = "MODIFIED"
               THEN [s.dram EXCEPT ![victim] = WrittenBack(s, victim, line)]
               ELSE s.dram]

(* callPrefetcher: nothing is prefetched, or one line that is not here; a  *)
(* longer list of addresses repeats the same step.                         *)
Prefetches(s) ==
  UNION {{InsertLine(s, p, Line("SHARED", s.dram[p], TRUE), victim) :
            victim \in Victims(s)} : p \in Addrs \ Cached(s)}

Commit(s, trigger) ==
  \E after \in {s} \cup (IF trigger THEN Prefetches(s) ELSE {}) :
    cache' = after.cache /\ dram' = after.dram

(* A miss, or a first use of a prefetched line, lets the prefetcher act.   *)
HitTriggers(a) == PrefetchOnPrefetchHit /\ cache[a].prefetched

(* doAccess                                                                *)
Hit(a, line) == cache[a] # Absent /\ Commit([Now EXCEPT !.cache[a] = line], HitTriggers(a))
MissAndInsert(a, line) ==
  /\ cache[a] = Absent
  /\ \E victim \in Victims(Now) : Commit(InsertLine(Now, a, line, victim), TRUE)

GetDataFromDram(a) ==
  /\ \/ Hit(a, [cache[a] EXCEPT !.prefetched = FALSE])
     \/ MissAndInsert(a, Line("SHARED", dram[a], FALSE))
  /\ UNCHANGED lastPut

(* Fault: a store that hits leaves the line's state alone.                 *)
PutLeavesState(a, v) ==
  /\ \/ Hit(a, [cache[a] EXCEPT !.data = v, !.prefetched = FALSE])
     \/ MissAndInsert(a, Line("MODIFIED", v, FALSE))
  /\ lastPut' = [lastPut EXCEPT ![a] = v]

PutDataToDram(a, v) ==
  /\ \/ Hit(a, Line("MODIFIED", v, FALSE))
     \/ MissAndInsert(a, Line("MODIFIED", v, FALSE))
  /\ lastPut' = [lastPut EXCEPT ![a] = v]

Next == \E a \in Addrs : GetDataFromDram(a) \/ \E v \in Values : PutDataToDram(a, v)

Spec == Init /\ [][Next]_vars

-----------------------------------------------------------------------------
(* A clean line holds what memory holds, so that it may be dropped without *)
(* writing it back; a line is only marked prefetched while it is clean.    *)
CleanLinesMatchMemory ==
  \A a \in Cached(Now) :
    /\ cache[a].st = "SHARED" => cache[a].data = dram[a]
    /\ cache[a].prefetched => cache[a].st = "SHARED"

(* "Writeback to DRAM done off-line": evicting a modified line leaves its  *)
(* data in memory, so the next load gets what was put last.                *)
KeepsLastPut ==
  \A a \in Addrs :
    (IF cache[a] = Absent THEN dram[a] ELSE cache[a].data) = lastPut[a]
=============================================================================
