------------------------------ MODULE NucaCache ------------------------------
(***************************************************************************)
(* One NUCA slice in front of one memory controller with a DRAM cache: the *)
(* memory side of a directory.  The directory, which is not part of the    *)
(* repository, reads a line from the slice first and from memory when the  *)
(* slice misses, writes into the slice what memory answered and what the   *)
(* caches give back, and sends dirty victims to memory.  It serves one     *)
(* request per line at a time; its messages to memory arrive in order.     *)
(* Lines modelled map to one set of either cache.  A step is one call.     *)
(***************************************************************************)
EXTENDS DramCache, Sequences

CONSTANTS
  NucaWays,    \* associativity of the slice
  MaxMessages  \* bound of the model: messages on their way to memory

ASSUME NucaAssumption ==
  /\ NucaWays \in Nat \ {0} /\ MaxMessages \in Nat \ {0}
  /\ NoAddr \notin Addrs

VARIABLES
  nuca,      \* a line, or Absent, per address
  toDram,    \* messages to the memory controller
  awaiting,  \* the lines whose read is at the memory controller
  replies,   \* its answers
  written,   \* history: what the caches gave back last
  unmarked,  \* history: the last write of the caches missed the slice
  garbled    \* history: the DRAM cache gave up the last data put there

memoryVars == <<cache, dram, lastPut>>
nucaVars == <<memoryVars, nuca, toDram, awaiting, replies, written, unmarked, garbled>>

NucaInit ==
  /\ Init
  /\ nuca = [a \in Addrs |-> Absent]
  /\ toDram = <<>>
  /\ awaiting = {}
  /\ replies = {}
  /\ written = dram
  /\ unmarked = {}
  /\ garbled = {}

ReadReq(a) == [type |-> "DRAM_READ_REQ", addr |-> a]
WriteReq(a, v) == [type |-> "DRAM_WRITE_REQ", addr |-> a, data |-> v]

InNuca == {a \in Addrs : nuca[a] # Absent}

(* Fault for the mutation runs: a hit leaves the state alone.              *)
NucaHitUnmarked(a, v) ==
  /\ a \in InNuca
  /\ nuca' = [nuca EXCEPT ![a].data = v]
  /\ UNCHANGED toDram

(* NucaCache::write.  A hit marks the line; a miss inserts one as          *)
(* insertSingleLine leaves it, INVALID whatever the data is.  Only a       *)
(* MODIFIED victim is handed to the caller.                                *)
NucaHit(a, v) ==
  /\ a \in InNuca
  /\ nuca' = [nuca EXCEPT ![a] = [st |-> "MODIFIED", data |-> v]]
  /\ UNCHANGED toDram

NucaInsert(a, v) ==
  /\ a \notin InNuca
  /\ \E victim \in IF Cardinality(InNuca) < NucaWays THEN {NoAddr} ELSE InNuca :
       /\ nuca' = [b \in Addrs |-> IF b = a THEN [st |-> "INVALID", data |-> v]
                                   ELSE IF b = victim THEN Absent ELSE nuca[b]]
       /\ toDram' = IF victim # NoAddr /\ nuca[victim].st = "MODIFIED"
                      THEN Append(toDram, WriteReq(victim, nuca[victim].data))
                      ELSE toDram

Write(a, v) == NucaHit(a, v) \/ NucaInsert(a, v)

(* A read the slice cannot answer.  One it can answer changes nothing.     *)
ReadMiss(a) ==
  /\ a \notin InNuca \cup awaiting
  /\ Len(toDram) < MaxMessages
  /\ toDram' = Append(toDram, ReadReq(a))
  /\ awaiting' = awaiting \cup {a}
  /\ UNCHANGED <<memoryVars, nuca, replies, written, unmarked, garbled>>

(* What the caches give back of a line nobody is reading.                  *)
WriteBack(a, v) ==
  /\ a \notin awaiting
  /\ Len(toDram) < MaxMessages
  /\ Write(a, v)
  /\ written' = [written EXCEPT ![a] = v]
  /\ unmarked' = IF a \in InNuca THEN unmarked \ {a} ELSE unmarked \cup {a}
  /\ UNCHANGED <<memoryVars, awaiting, replies, garbled>>

(* The answer of memory goes into the slice and to the caches.             *)
Fill(r) ==
  /\ r \in replies
  /\ Len(toDram) < MaxMessages
  /\ Write(r.addr, r.data)
  /\ replies' = replies \ {r}
  /\ awaiting' = awaiting \ {r.addr}
  /\ UNCHANGED <<memoryVars, written, unmarked, garbled>>

-----------------------------------------------------------------------------
MemoryHolds(a) == IF cache[a] = Absent THEN dram[a] ELSE cache[a].data

(* The lines of the DRAM cache, those put in this step included, that are  *)
(* not MODIFIED any more.                                                  *)
GivenUp(put) == {a \in Addrs : (cache[a].st = "MODIFIED" \/ a \in put) /\ cache'[a].st # "MODIFIED"}

MemoryReads ==
  /\ toDram # <<>> /\ Head(toDram).type = "DRAM_READ_REQ"
  /\ LET a == Head(toDram).addr
     IN /\ GetDataFromDram(a)
        /\ replies' = replies \cup {[addr |-> a, data |-> MemoryHolds(a)]}
  /\ garbled' = garbled \cup GivenUp({})
  /\ toDram' = Tail(toDram)
  /\ UNCHANGED <<nuca, awaiting, written, unmarked>>

MemoryWrites ==
  /\ toDram # <<>> /\ Head(toDram).type = "DRAM_WRITE_REQ"
  /\ LET a == Head(toDram).addr
     IN /\ PutDataToDram(a, Head(toDram).data)
        /\ garbled' = (garbled \ {a}) \cup GivenUp({a})
  /\ toDram' = Tail(toDram)
  /\ UNCHANGED <<nuca, awaiting, replies, written, unmarked>>

NucaNext ==
  \/ \E a \in Addrs : ReadMiss(a) \/ \E v \in Values : WriteBack(a, v)
  \/ \E r \in replies : Fill(r)
  \/ MemoryReads \/ MemoryWrites

NucaSpec == NucaInit /\ [][NucaNext]_nucaVars

-----------------------------------------------------------------------------
IsWriteOf(m, a) == m.type = "DRAM_WRITE_REQ" /\ m.addr = a
Queued(q, a) == \E i \in DOMAIN q : IsWriteOf(q[i], a)
NewestQueued(q, a, v) ==
  \E i \in DOMAIN q : /\ q[i] = WriteReq(a, v)
                     /\ \A j \in DOMAIN q : j > i => ~IsWriteOf(q[j], a)

(* What a read of the line finds, wherever it is found.                    *)
Finds(a, v) ==
  IF a \in InNuca THEN nuca[a].data = v
  ELSE IF Queued(toDram, a) THEN NewestQueued(toDram, a, v)
  ELSE MemoryHolds(a) = v

(* "Unless data is dirty, don't have caller write it back": through fills, *)
(* evictions and messages under way, a line is found as the caches gave it *)
(* back, and a read is answered so.  There are two ways to lose it: the    *)
(* write missed the slice and left no mark, or the DRAM cache evicted the  *)
(* line it was put in, and no newer data is in the slice or on its way.    *)
KeepsLastWrite ==
  \A a \in Addrs \ unmarked :
    \/ /\ Finds(a, written[a])
       /\ \A r \in replies : r.addr = a => r.data = written[a]
    \/ a \in garbled /\ nuca[a].st # "MODIFIED" /\ ~Queued(toDram, a)
=============================================================================
