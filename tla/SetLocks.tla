------------------------------ MODULE SetLocks ------------------------------
(***************************************************************************)
(* How the accesses of project 4's cores hold the set locks of a last-level*)
(* cache: Core::initiateMemoryAccess splits an access into lines, and      *)
(* processMemOpFromCore takes the lock of each line's set, shared, or      *)
(* exclusive after a miss.  An atomic operation is an access with LOCK and *)
(* then the same with UNLOCK; in between it keeps its locks.  Whether a    *)
(* line hits is left open here: CoherentCaches models the caches.          *)
(***************************************************************************)
EXTENDS Integers, FiniteSets

CONSTANTS
  Cores,
  BlockSize,       \* cache_block_size
  Sets,            \* set locks of the last-level cache
  Accesses,        \* what a core may ask for: address, size, lock_signal
  Prefetcher,      \* whether the caches have one
  None

ASSUME SetLocksAssumption ==
  /\ BlockSize \in Nat \ {0} /\ Sets \in Nat \ {0}
  /\ Accesses \subseteq [address : Nat, size : Nat \ {0}, signal : {"NONE", "LOCK"}]
  /\ Prefetcher \in BOOLEAN
  /\ None \notin Cores

VARIABLES
  pc,       \* each core: idle, or what it does for the line
  access,   \* its access: address, size, lock_signal
  line,     \* the line it is at
  ahead,    \* the set of the line it prefetches
  shared,   \* per set, the cores that hold it shared
  exclusive \* per set, the core that holds it exclusive
vars == <<pc, access, line, ahead, shared, exclusive>>

SetOf(l) == l % Sets
SetIds == 0 .. Sets - 1

Init ==
  /\ pc = [c \in Cores |-> "idle"]
  /\ access = [c \in Cores |-> None]
  /\ line = [c \in Cores |-> 0]
  /\ ahead = [c \in Cores |-> 0]
  /\ shared = [s \in SetIds |-> {}]
  /\ exclusive = [s \in SetIds |-> None]

-----------------------------------------------------------------------------
(* The loop of initiateMemoryAccess over the lines from the aligned begin  *)
(* to the aligned end; the last one is skipped when nothing of it is left. *)
FirstLine(a) == a.address \div BlockSize
EndLine(a) == (a.address + a.size) \div BlockSize
Offset(a, l) == IF l = FirstLine(a) THEN a.address % BlockSize ELSE 0

(* Fault for the mutation runs: a first line counts from its beginning.    *)
SizeWhole(a, l) ==
  IF l = EndLine(a) THEN ((a.address + a.size) % BlockSize) - Offset(a, l) ELSE BlockSize

Size(a, l) ==
  IF l = EndLine(a) THEN ((a.address + a.size) % BlockSize) - Offset(a, l)
                    ELSE BlockSize - Offset(a, l)

Lines(a) == {l \in FirstLine(a) .. EndLine(a) : Size(a, l) # 0}
IsLast(c) == \A l \in Lines(access[c]) : l <= line[c]

Goes(c, from, to) == pc[c] = from /\ pc' = [pc EXCEPT ![c] = to]

(* Access c starts, or goes on with the next line, or is over.  A core that*)
(* is over with LOCK has the access with UNLOCK still to make.             *)
Begin(c, a) ==
  /\ Goes(c, "idle", "acquire")
  /\ access' = [access EXCEPT ![c] = a]
  /\ line' = [line EXCEPT ![c] = FirstLine(a)]
  /\ UNCHANGED <<ahead, shared, exclusive>>

NextLine(c) ==
  /\ Goes(c, "over", IF access[c].signal = "UNLOCK" THEN "access" ELSE "acquire")
  /\ ~IsLast(c)
  /\ line' = [line EXCEPT ![c] = @ + 1]
  /\ UNCHANGED <<access, ahead, shared, exclusive>>

EndLock(c) ==
  /\ Goes(c, "over", "access")
  /\ IsLast(c) /\ access[c].signal = "LOCK"
  /\ access' = [access EXCEPT ![c].signal = "UNLOCK"]
  /\ line' = [line EXCEPT ![c] = FirstLine(access[c])]
  /\ UNCHANGED <<ahead, shared, exclusive>>

End(c) ==
  /\ Goes(c, "over", "idle")
  /\ IsLast(c) /\ access[c].signal # "LOCK"
  /\ access' = [access EXCEPT ![c] = None]
  /\ line' = [line EXCEPT ![c] = 0]
  /\ UNCHANGED <<ahead, shared, exclusive>>

-----------------------------------------------------------------------------
(* SetLock, which is not part of the repository.                           *)
Exclusive(c, s) ==
  /\ exclusive[s] = None /\ shared[s] = {}
  /\ exclusive' = [exclusive EXCEPT ![s] = c]

(* acquireLock, unless the first half of the operation has left it held.   *)
AcquireLock(c) ==
  LET s == SetOf(line[c])
  IN /\ Goes(c, "acquire", "access")
     /\ exclusive[s] = None
     /\ shared' = [shared EXCEPT ![s] = @ \cup {c}]
     /\ UNCHANGED <<access, line, ahead, exclusive>>

(* Fault: the shared lock is held while waiting for the exclusive one.     *)
MissHolding(c) ==
  /\ Goes(c, "access", "upgrade")
  /\ access[c].signal # "UNLOCK"
  /\ UNCHANGED <<access, line, ahead, shared, exclusive>>

(* A miss: "Upgrade therefore internally releases the cache lock!"         *)
Miss(c) ==
  /\ Goes(c, "access", "upgrade")
  /\ access[c].signal # "UNLOCK"
  /\ shared' = [shared EXCEPT ![SetOf(line[c])] = @ \ {c}]
  /\ UNCHANGED <<access, line, ahead, exclusive>>

Upgraded(c) ==
  /\ Goes(c, "upgrade", "fill")
  /\ Exclusive(c, SetOf(line[c]))
  /\ UNCHANGED <<access, line, ahead, shared>>

(* The last level has to ask the directory: the lock is released, and taken*)
(* again by the network thread, which hands it to this core.               *)
AskDirectory(c) ==
  /\ Goes(c, "fill", "answer")
  /\ exclusive' = [exclusive EXCEPT ![SetOf(line[c])] = None]
  /\ UNCHANGED <<access, line, ahead, shared>>

Answered(c) ==
  /\ Goes(c, "answer", "filled")
  /\ Exclusive(c, SetOf(line[c]))
  /\ UNCHANGED <<access, line, ahead, shared>>

(* The line is in the first level: the lock is shared again.               *)
Filled(c) ==
  LET s == SetOf(line[c])
  IN /\ pc[c] \in {"fill", "filled"}
     /\ pc' = [pc EXCEPT ![c] = "complete"]
     /\ exclusive' = [exclusive EXCEPT ![s] = None]
     /\ shared' = [shared EXCEPT ![s] = @ \cup {c}]
     /\ UNCHANGED <<access, line, ahead>>

(* After a hit or a fill the lock is kept for the second half of an atomic *)
(* operation, else released, and the caches may prefetch: "but not for     *)
(* atomic instructions as that causes a locking mess", that is, with LOCK. *)
Complete(c) ==
  LET s == SetOf(line[c])
      locks == access[c].signal = "LOCK"
  IN /\ pc[c] \in {"access", "complete"}
     /\ pc' = [pc EXCEPT ![c] = IF locks THEN "over" ELSE "prefetch"]
     /\ shared' = IF locks THEN shared ELSE [shared EXCEPT ![s] = @ \ {c}]
     /\ UNCHANGED <<access, line, ahead, exclusive>>

-----------------------------------------------------------------------------
(* Prefetch with nothing to prefetch; else doPrefetch takes the exclusive  *)
(* lock of the line it found and releases it again.                        *)
PrefetchNothing(c) ==
  /\ Goes(c, "prefetch", "over")
  /\ UNCHANGED <<access, line, ahead, shared, exclusive>>

Prefetch(c) ==
  /\ Prefetcher
  /\ Goes(c, "prefetch", "prefetching")
  /\ \E s \in SetIds : ahead' = [ahead EXCEPT ![c] = s]
  /\ UNCHANGED <<access, line, shared, exclusive>>

DoPrefetch(c) ==
  /\ Goes(c, "prefetching", "over")
  /\ exclusive[ahead[c]] = None /\ shared[ahead[c]] = {}
  /\ ahead' = [ahead EXCEPT ![c] = 0]
  /\ UNCHANGED <<access, line, shared, exclusive>>

Next ==
  \E c \in Cores :
    \/ \E a \in Accesses : Begin(c, a)
    \/ NextLine(c) \/ EndLock(c) \/ End(c)
    \/ AcquireLock(c) \/ Miss(c) \/ Upgraded(c) \/ AskDirectory(c) \/ Answered(c)
    \/ Filled(c) \/ Complete(c)
    \/ PrefetchNothing(c) \/ Prefetch(c) \/ DoPrefetch(c)

Spec == Init /\ [][Next]_vars

-----------------------------------------------------------------------------
(* Whom a core has to wait for before it can take its next step.           *)
Holders(s) == shared[s] \cup ({exclusive[s]} \ {None})
WaitsFor(c) ==
  CASE pc[c] = "acquire" -> {exclusive[SetOf(line[c])]} \ {None}
    [] pc[c] \in {"upgrade", "answer"} -> Holders(SetOf(line[c]))
    [] pc[c] = "prefetching" -> Holders(ahead[c])
    [] OTHER -> {}

(* "If two threads decide to upgrade at the same time, we could deadlock": *)
(* acquireStackLock gives the shared lock up so that no cores wait for each*)
(* other, and prefetching stays out of atomic operations for the same end. *)
(* That is enough but for atomic operations that hold more than one line:  *)
(* without one of them, no cores wait in a circle.                         *)
HoldsSeveralLines(c) ==
  /\ pc[c] # "idle"
  /\ access[c].signal # "NONE"
  /\ Cardinality(Lines(access[c])) > 1
NoCircularWait ==
  \A D \in (SUBSET Cores) \ {{}} :
    (\A c \in D : WaitsFor(c) \cap D # {}) => \E c \in D : HoldsSeveralLines(c)

(* initiateMemoryAccess: the lines of an access cover its bytes, all of    *)
(* them and no others, wherever it begins and ends.                        *)
BytesOf(a, l) ==
  LET from == l * BlockSize + Offset(a, l) IN from .. from + Size(a, l) - 1
SplitExact ==
  \A c \in Cores : pc[c] # "idle" =>
    UNION {BytesOf(access[c], l) : l \in Lines(access[c])}
      = access[c].address .. access[c].address + access[c].size - 1
=============================================================================
