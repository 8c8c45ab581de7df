--------------------------- MODULE CoherentCaches ---------------------------
(***************************************************************************)
(* The coherent cache hierarchy of project 4: first-level caches, an       *)
(* instruction and a data cache for each core, last-level caches each below*)
(* some of them, and the directory behind the network.  The lines modelled *)
(* map to one cache set, so each last-level cache has one set lock: user   *)
(* threads hold it shared for a first-level access and exclusive for a     *)
(* miss; the network thread of the cache holds it exclusive while it       *)
(* handles a message and hands it to the user thread whose request was     *)
(* answered.  A step is one stretch under the lock, or one step of the     *)
(* directory.  The contents of a line are modelled by one bit: whether the *)
(* copy holds the last value written.                                      *)
(***************************************************************************)
EXTENDS Naturals, Sequences, FiniteSets

CONSTANTS
  L1s, Llcs,         \* the first-level and the last-level caches
  CoreOf, LlcOf,     \* the core and the last-level cache of each first-level cache
  Addrs,             \* line addresses of one set
  Accessed, Written, \* what the program and the prefetchers read through each
                     \* first-level cache, and what it writes
  L1Lines, LlcLines, \* associativities
  Prefetching,       \* the last-level caches with a prefetcher
  Mesi,              \* the directory grants EXCLUSIVE to a lone reader
  LostUpgradeReplies \* the directory's answers to an UPGRADE_REQ that lost its copy

None == "none"

ASSUME CoherentAssumption ==
  /\ None \notin Addrs \cup Llcs
  /\ LlcOf \in [L1s -> Llcs] /\ Prefetching \subseteq Llcs
  /\ \A c, d \in L1s : CoreOf[c] = CoreOf[d] => LlcOf[c] = LlcOf[d]
  /\ Accessed \in [L1s -> SUBSET Addrs] /\ Written \in [L1s -> SUBSET Addrs]
  /\ \A c \in L1s : Written[c] \subseteq Accessed[c]
  /\ L1Lines \in Nat \ {0} /\ LlcLines \in Nat \ {0}
  /\ Mesi \in BOOLEAN
  /\ LostUpgradeReplies \subseteq {"EX_REP", "UPGRADE_DATA_REP"}

VARIABLES
  l1, llc,     \* a copy per cache and line
  pc, op, at,  \* the access to each first-level cache: its place, operation, address
  waiters,     \* m_directory_waiters
  net, served, \* each network thread: what it is doing, for which address
  toDir, toLlc,\* the network: one FIFO per direction and last-level cache
  dir,         \* the directory: sharers, owner, queued requests, snoops sent
  memory,      \* whether memory holds the last value
  failed       \* the assertions that did not hold, by their messages

caches == <<l1, llc>>
threads == <<pc, op, at>>
vars == <<caches, threads, waiters, net, served, toDir, toLlc, dir, memory, failed>>

Ops == {"READ", "WRITE", "ATOMIC"}   \* ATOMIC: READ_EX with LOCK, WRITE with UNLOCK
Reads == {"READ", "PREFETCH"}        \* PREFETCH: a READ by the last-level cache itself
Replies == {"EX_REP", "SH_REP",
            "UPGRADE_REP", "UPGRADE_DATA_REP"}   \* without and with the line's data
Requests == {"EX_REQ", "SH_REQ", "UPGRADE_REQ"}
SnoopRequests == {"INV_REQ", "FLUSH_REQ", "WB_REQ"}
Answers == {"INV_REP", "FLUSH_REP", "WB_REP"}   \* also of an eviction
L1sOf(l) == {c \in L1s : LlcOf[c] = l}

Invalid == [st |-> "INVALID", new |-> FALSE]
Msg(t, a, new) == [t |-> t, a |-> a, new |-> new]

Init ==
  /\ l1 = [c \in L1s |-> [a \in Addrs |-> Invalid]]
  /\ llc = [l \in Llcs |-> [a \in Addrs |-> Invalid]]
  /\ pc = [c \in L1s |-> "idle"]
  /\ op = [c \in L1s |-> None]
  /\ at = [c \in L1s |-> None]
  /\ waiters = [l \in Llcs |-> [a \in Addrs |-> <<>>]]
  /\ net = [l \in Llcs |-> "idle"]
  /\ served = [l \in Llcs |-> None]
  /\ toDir = [l \in Llcs |-> <<>>]
  /\ toLlc = [l \in Llcs |-> <<>>]
  /\ dir = [a \in Addrs |-> [sharers |-> {}, owner |-> None, queue |-> <<>>,
                             asked |-> FALSE]]
  /\ memory = [a \in Addrs |-> TRUE]
  /\ failed = {}

-----------------------------------------------------------------------------
(* The caches as a record the operations below transform in turn, together *)
(* with the messages they send to the directory and the assertions they    *)
(* break.                                                                  *)
Now == [l1 |-> l1, llc |-> llc, sent |-> <<>>, failed |-> failed]

Check(s, ok, what) == IF ok THEN s ELSE [s EXCEPT !.failed = @ \cup {what}]
Send(s, t, a, new) == [s EXCEPT !.sent = Append(@, Msg(t, a, new))]

(* CacheState::readable and CacheState::writable                           *)
Permissible(state, o) ==
  IF o \in Reads THEN state \in {"SHARED", "EXCLUSIVE", "MODIFIED"}
                 ELSE state = "MODIFIED"

(* Fault for the mutation runs: the first-level caches are not snooped.    *)
SnoopNothing(s, l, a, skip, n) == s

(* updateCacheBlock on every first-level cache of l that is not in skip:   *)
(* modified data goes to the last-level copy, the state becomes n.         *)
Snoop(s, l, a, skip, n) ==
  LET holders == {c \in L1sOf(l) \ skip : s.l1[c][a].st # "INVALID"}
      dirty == {c \in holders : s.l1[c][a].st = "MODIFIED"}
      updated(copy) == IF n = "INVALID" THEN Invalid ELSE [copy EXCEPT !.st = n]
  IN [s EXCEPT !.l1 = [c \in L1s |-> IF c \in holders
                         THEN [s.l1[c] EXCEPT ![a] = updated(@)] ELSE s.l1[c]],
               !.llc[l][a].new = IF dirty = {} THEN @
                                 ELSE \E c \in dirty : s.l1[c][a].new]

(* writeCacheBlock: the block must be there and MODIFIED.                  *)
WritebackAllowed(s, l, a, skip) ==
  \A c \in L1sOf(l) \ skip :
    s.l1[c][a].st = "MODIFIED" => s.llc[l][a].st = "MODIFIED"

SnoopChecked(s, l, a, skip, n) ==
  Check(Snoop(s, l, a, skip, n), WritebackAllowed(s, l, a, skip),
        "Got_writeback_for_non_MODIFIED_line")

Resident(cache) == {a \in Addrs : cache[a].st # "INVALID"}

(* The lines an insertion may evict; None when an invalid way is left.     *)
L1Victims(s, c) ==
  IF Cardinality(Resident(s.l1[c])) < L1Lines THEN {None} ELSE Resident(s.l1[c])
LlcVictims(s, l) ==
  IF Cardinality(Resident(s.llc[l])) < LlcLines THEN {None}
  ELSE {a \in Resident(s.llc[l]) : s.llc[l][a].st # "SHARED_UPGRADING"}

(* insertCacheBlock of a first-level cache: a modified victim is written   *)
(* to the last-level cache.                                                *)
InsertL1(s, c, a, copy, victim) ==
  LET l == LlcOf[c]
      put == [s EXCEPT !.l1[c] = [b \in Addrs |-> IF b = a THEN copy
                                    ELSE IF b = victim THEN Invalid ELSE @[b]]]
  IN IF victim # None /\ s.l1[c][victim].st = "MODIFIED"
       THEN Check([put EXCEPT !.llc[l][victim].new = s.l1[c][victim].new],
                  s.llc[l][victim].st = "MODIFIED",
                  "Got_writeback_for_non_MODIFIED_line")
       ELSE put

(* Faults: the victim's data is read before the first-level caches gave    *)
(* theirs; a clean victim is dropped without a word; the first-level caches*)
(* keep the victim.                                                        *)
Placed(s, l, a, copy, victim) ==
  [s EXCEPT !.llc[l] = [@ EXCEPT ![victim] = Invalid, ![a] = copy]]

InsertLlcEarly(s, l, a, copy, victim) ==
  LET old == s.llc[l][victim]
      gone == Placed(Snoop(s, l, victim, {}, "INVALID"), l, a, copy, victim)
  IN IF victim = None THEN [s EXCEPT !.llc[l][a] = copy]
     ELSE IF old.st = "MODIFIED" THEN Send(gone, "FLUSH_REP", victim, old.new)
     ELSE Send(gone, "INV_REP", victim, FALSE)

InsertLlcSilent(s, l, a, copy, victim) ==
  LET back == Snoop(s, l, victim, {}, "INVALID")
      old == back.llc[l][victim]
      gone == Placed(back, l, a, copy, victim)
  IN IF victim = None THEN [s EXCEPT !.llc[l][a] = copy]
     ELSE IF old.st = "MODIFIED" THEN Send(gone, "FLUSH_REP", victim, old.new)
     ELSE gone

InsertLlcNotInclusive(s, l, a, copy, victim) ==
  IF victim = None THEN [s EXCEPT !.llc[l][a] = copy]
  ELSE Send(Placed(s, l, a, copy, victim), "INV_REP", victim, FALSE)

(* insertCacheBlock of a last-level cache: the victim is invalidated in    *)
(* the first-level caches, whose modified data lands in the evict buffer,  *)
(* and given up to the directory.                                          *)
InsertLlc(s, l, a, copy, victim) ==
  LET checked == Check(s, s.llc[l][a].st = "INVALID", "we_already_have_this_line")
  IN IF victim = None THEN [checked EXCEPT !.llc[l][a] = copy]
     ELSE LET back == Snoop(checked, l, victim, {}, "INVALID")
              old == back.llc[l][victim]
              gone == [back EXCEPT !.llc[l] = [@ EXCEPT ![victim] = Invalid,
                                                        ![a] = copy]]
          IN IF old.st = "MODIFIED" THEN Send(gone, "FLUSH_REP", victim, old.new)
                                    ELSE Send(gone, "INV_REP", victim, FALSE)

(* processShmemReqFromPrevCache at the last level when the operation can   *)
(* be satisfied here: downgrade or invalidate the siblings.  A prefetch is *)
(* no first-level cache's request: it spares none.                         *)
LlcHit(s, c, a, o) ==
  LET state == s.llc[LlcOf[c]][a].st
  IN Permissible(state, o) \/ state = "EXCLUSIVE"

Satisfied(s, c, a, o) ==
  LET l == LlcOf[c]
      state == s.llc[l][a].st
  IN IF o \notin Reads
       THEN [SnoopChecked(s, l, a, {c}, "INVALID") EXCEPT !.llc[l][a].st = "MODIFIED"]
     ELSE IF state \in {"MODIFIED", "EXCLUSIVE"}
       THEN SnoopChecked(s, l, a, IF o = "PREFETCH" THEN {} ELSE {c}, "SHARED")
     ELSE s

(* A write makes every other copy of the line, and of its data on the way, *)
(* an old one.                                                             *)
Wrote(s, c, a) ==
  [s EXCEPT
     !.l1 = [d \in L1s |-> [s.l1[d] EXCEPT ![a] =
               IF d = c THEN [@ EXCEPT !.new = TRUE] ELSE [@ EXCEPT !.new = FALSE]]],
     !.llc = [l \in Llcs |-> [s.llc[l] EXCEPT ![a].new = FALSE]]]

Outdated(channel, a) ==
  [i \in DOMAIN channel |-> IF channel[i].a = a THEN [channel[i] EXCEPT !.new = FALSE]
                                                ELSE channel[i]]

(* The variables after caches s on behalf of l, with a's write if written. *)
Commit(s, l, written) ==
  /\ l1' = s.l1
  /\ llc' = s.llc
  /\ failed' = s.failed
  /\ IF written = None
       THEN /\ toDir' = [toDir EXCEPT ![l] = @ \o s.sent]
            /\ UNCHANGED memory
       ELSE /\ toDir' = [k \in Llcs |-> Outdated(toDir[k], written)
                                          \o (IF k = l THEN s.sent ELSE <<>>)]
            /\ memory' = [memory EXCEPT ![written] = FALSE]
CommitQuiet(s, l) == Commit(s, l, None)

(* What remains of an operation once the caches permit it: of an access,   *)
(* copyDataFromNextLevel and the access itself; nothing of a prefetch.     *)
FillAndAccess(s, c, a, o) ==
  \E victim \in L1Victims(s, c) :
    LET l == LlcOf[c]
        filled == InsertL1(s, c, a, s.llc[l][a], victim)
        wrote == o = "WRITE"
        done == IF wrote THEN Wrote(filled, c, a) ELSE filled
    IN /\ Commit(Check(done, Permissible(filled.l1[c][a].st, o),
                       "Expected_to_be_valid_in_L1"),
                 l, IF wrote THEN a ELSE None)
       /\ toLlc' = IF wrote THEN [k \in Llcs |-> Outdated(toLlc[k], a)] ELSE toLlc
       /\ pc' = [pc EXCEPT ![c] = IF o = "ATOMIC" THEN "locked" ELSE "idle"]
       /\ op' = [op EXCEPT ![c] = None]
       /\ at' = [at EXCEPT ![c] = IF o = "ATOMIC" THEN a ELSE None]

Prefetched(s, c) ==
  /\ CommitQuiet(s, LlcOf[c])
  /\ pc' = [pc EXCEPT ![c] = "idle"]
  /\ op' = [op EXCEPT ![c] = None]
  /\ at' = [at EXCEPT ![c] = None]
  /\ UNCHANGED toLlc

Complete(s, c, a, o) ==
  \/ o = "PREFETCH" /\ Prefetched(s, c)
  \/ o # "PREFETCH" /\ FillAndAccess(s, c, a, o)

-----------------------------------------------------------------------------
(* User threads.  An access holds its core's m_mem_lock to its end, an     *)
(* atomic operation to the end of its second half, so the caches of one    *)
(* core take turns.  The set lock: the network thread holds it exclusive   *)
(* between its steps only while it serves; a user thread holds it shared   *)
(* between the two halves of an atomic operation.                          *)
MemLockFree(c) == \A d \in L1s \ {c} : CoreOf[d] = CoreOf[c] => pc[d] = "idle"
ExclusiveFree(l) == /\ net[l] # "serving"
                    /\ \A c \in L1sOf(l) : pc[c] # "locked"
SharedFree(l) == net[l] # "serving"
Running == failed = {}

(* A first-level write hit, under the shared lock.  A read hit changes no  *)
(* state of this model.                                                    *)
WriteHit(c, a) ==
  /\ Running /\ pc[c] = "idle" /\ MemLockFree(c) /\ SharedFree(LlcOf[c])
  /\ a \in Written[c] /\ Permissible(l1[c][a].st, "WRITE")
  /\ Commit(Wrote(Now, c, a), LlcOf[c], a)
  /\ toLlc' = [k \in Llcs |-> Outdated(toLlc[k], a)]
  /\ UNCHANGED <<threads, waiters, net, served, dir>>

(* The first half of an atomic operation that hits keeps the shared lock.  *)
AtomicHit(c, a) ==
  /\ Running /\ pc[c] = "idle" /\ MemLockFree(c) /\ SharedFree(LlcOf[c])
  /\ a \in Written[c] /\ Permissible(l1[c][a].st, "ATOMIC")
  /\ pc' = [pc EXCEPT ![c] = "locked"]
  /\ at' = [at EXCEPT ![c] = a]
  /\ UNCHANGED <<caches, op, waiters, net, served, toDir, toLlc, dir, memory, failed>>

(* The second half: the line must still be writable in the first level.    *)
AtomicUnlock(c) ==
  /\ Running /\ pc[c] = "locked"
  /\ Commit(Check(Wrote(Now, c, at[c]), Permissible(l1[c][at[c]].st, "WRITE"),
                  "Expected_to_find_address_in_L1_Cache"), LlcOf[c], at[c])
  /\ toLlc' = [k \in Llcs |-> Outdated(toLlc[k], at[c])]
  /\ pc' = [pc EXCEPT ![c] = "idle"]
  /\ at' = [at EXCEPT ![c] = None]
  /\ UNCHANGED <<op, waiters, net, served, dir>>

(* A miss under the shared lock; upgrading the lock releases it in between.*)
Miss(c, o, a) ==
  /\ Running /\ pc[c] = "idle" /\ MemLockFree(c) /\ SharedFree(LlcOf[c])
  /\ a \in (IF o \in Reads THEN Accessed[c] ELSE Written[c])
  /\ ~Permissible(l1[c][a].st, o)
  /\ pc' = [pc EXCEPT ![c] = "upgrading"]
  /\ op' = [op EXCEPT ![c] = o]
  /\ at' = [at EXCEPT ![c] = a]
  /\ UNCHANGED <<caches, waiters, net, served, toDir, toLlc, dir, memory, failed>>

(* doPrefetch of a last-level cache, which a thread calls after any of its *)
(* accesses for a line the cache did not hold a moment ago.  That of a     *)
(* first-level cache is a read miss.                                       *)
DoPrefetch(c, a) ==
  /\ Running /\ pc[c] = "idle" /\ MemLockFree(c) /\ LlcOf[c] \in Prefetching
  /\ ~Permissible(llc[LlcOf[c]][a].st, "PREFETCH")
  /\ pc' = [pc EXCEPT ![c] = "upgrading"]
  /\ op' = [op EXCEPT ![c] = "PREFETCH"]
  /\ at' = [at EXCEPT ![c] = a]
  /\ UNCHANGED <<caches, waiters, net, served, toDir, toLlc, dir, memory, failed>>

(* The rest with the lock exclusive: a miss drops the first-level copy     *)
(* first.                                                                  *)
Dropped(c) ==
  IF op[c] = "PREFETCH" THEN Now ELSE
  Check([Now EXCEPT !.l1[c][at[c]] = Invalid], l1[c][at[c]].st # "MODIFIED",
        "invalidateCacheBlock_of_MODIFIED")

MissHitsLlc(c) ==
  /\ Running /\ pc[c] = "upgrading" /\ ExclusiveFree(LlcOf[c])
  /\ LlcHit(Now, c, at[c], op[c])
  /\ Complete(Satisfied(Dropped(c), c, at[c], op[c]), c, at[c], op[c])
  /\ UNCHANGED <<waiters, net, served, dir>>

(* initiateDirectoryAccess: only the first to ask for a line sends.        *)
MissGoesToDirectory(c) ==
  LET l == LlcOf[c]
      a == at[c]
      state == llc[l][a].st
      exclusive == op[c] \notin Reads
      shared == IF state = "SHARED" THEN SnoopChecked(Dropped(c), l, a, {c}, "INVALID")
                                    ELSE Dropped(c)
      requested ==
        IF waiters[l][a] # <<>> THEN shared
        ELSE IF ~exclusive THEN Send(shared, "SH_REQ", a, FALSE)
        ELSE IF state = "SHARED"
          THEN [Send(shared, "UPGRADE_REQ", a, FALSE)
                  EXCEPT !.llc[l][a].st = "SHARED_UPGRADING"]
        ELSE Check(Send(shared, "EX_REQ", a, FALSE), state = "INVALID",
                   "ExReq_for_a_line_that_is_not_INVALID")
  IN /\ Running /\ pc[c] = "upgrading" /\ ExclusiveFree(l)
     /\ ~LlcHit(Now, c, a, op[c])
     /\ CommitQuiet(requested, l)
     /\ waiters' = [waiters EXCEPT ![l][a] = Append(@, c)]
     /\ pc' = [pc EXCEPT ![c] = "waiting"]
     /\ UNCHANGED <<op, at, net, served, toLlc, dir>>

-----------------------------------------------------------------------------
(* The network thread of a last-level cache.                               *)
Received(l, types) ==
  /\ Running /\ net[l] = "idle" /\ ExclusiveFree(l)
  /\ toLlc[l] # <<>> /\ Head(toLlc[l]).t \in types
  /\ toLlc' = [toLlc EXCEPT ![l] = Tail(@)]

(* The stack lock stays exclusive after a reply, to serve the waiters.     *)
NowServing(l, a) ==
  /\ net' = [net EXCEPT ![l] = "serving"]
  /\ served' = [served EXCEPT ![l] = a]
  /\ UNCHANGED <<threads, waiters, dir>>

Awaited(l, a) == Check(Now, waiters[l][a] # <<>>, "no_waiter_for_the_reply")

(* EX_REP and SH_REP are inserted.  A set with a way per core always has a *)
(* victim: HawkeyeSet!VictimAlwaysFound.                                   *)
ReceiveData(l, type, state) ==
  LET m == Head(toLlc[l])
  IN /\ Received(l, {type})
     /\ \E victim \in LlcVictims(Now, l) :
          CommitQuiet(InsertLlc(Awaited(l, m.a), l, m.a,
                                [st |-> state, new |-> m.new], victim), l)
     /\ NowServing(l, m.a)

ReceiveExRep(l) == ReceiveData(l, "EX_REP", "EXCLUSIVE")
ReceiveShRep(l) == ReceiveData(l, "SH_REP", "SHARED")

(* An upgraded line becomes MODIFIED here and in the first-level caches    *)
(* that still hold it.  A line lost in the meantime is not inserted: the   *)
(* message's data is passed as a buffer to be written to.                  *)
ReceiveUpgradeRep(l) ==
  LET a == Head(toLlc[l]).a
      sent == Check(Awaited(l, a), Head(toLlc[l]).t = "UPGRADE_DATA_REP",
                    "now_INV_and_no_data_in_the_shmem_msg")
      upgraded == [SnoopChecked(Awaited(l, a), l, a, {}, "MODIFIED")
                     EXCEPT !.llc[l][a].st = "MODIFIED"]
      lost == Check(sent, FALSE, "out_buf_passed_in_but_never_written_to")
      wrong == Check(Awaited(l, a), FALSE, "upgrade_of_a_line_not_SHARED_UPGRADING")
  IN /\ Received(l, {"UPGRADE_REP", "UPGRADE_DATA_REP"})
     /\ CommitQuiet(CASE llc[l][a].st = "SHARED_UPGRADING" -> upgraded
                      [] llc[l][a].st = "INVALID" -> lost
                      [] OTHER -> wrong, l)
     /\ NowServing(l, a)

(* The front waiter needs more than a shared copy: the network thread asks *)
(* for the upgrade in its place, and the lock is released.                 *)
FrontWaiter(l) == Head(waiters[l][served[l]])
(* Fault: the front waiter's needs are not looked at.                      *)
NeverNeedsUpgrade(l) == FALSE

NeedsUpgrade(l) ==
  op[FrontWaiter(l)] \notin Reads /\ llc[l][served[l]].st = "SHARED"

(* Fault: the thread the upgrade is asked for is taken off the list.       *)
ServeUpgradeDequeues(l) ==
  /\ Running /\ net[l] = "serving"
  /\ NeedsUpgrade(l)
  /\ CommitQuiet([Send(Now, "UPGRADE_REQ", served[l], FALSE)
                    EXCEPT !.llc[l][served[l]].st = "SHARED_UPGRADING"], l)
  /\ waiters' = [waiters EXCEPT ![l][served[l]] = Tail(@)]
  /\ net' = [net EXCEPT ![l] = "idle"]
  /\ served' = [served EXCEPT ![l] = None]
  /\ UNCHANGED <<threads, toLlc, dir>>

ServeUpgrade(l) ==
  /\ Running /\ net[l] = "serving"
  /\ NeedsUpgrade(l)
  /\ CommitQuiet([Send(Now, "UPGRADE_REQ", served[l], FALSE)
                    EXCEPT !.llc[l][served[l]].st = "SHARED_UPGRADING"], l)
  /\ net' = [net EXCEPT ![l] = "idle"]
  /\ served' = [served EXCEPT ![l] = None]
  /\ UNCHANGED <<threads, waiters, toLlc, dir>>

(* Fault: a reader wakes up without the lock and tries again.              *)
ServeWaiterRetry(l) ==
  LET c == FrontWaiter(l)
  IN /\ Running /\ net[l] = "serving"
     /\ ~NeedsUpgrade(l)
     /\ net' = [net EXCEPT ![l] = "resuming"]
     /\ \/ /\ op[c] = "READ"
           /\ pc' = [pc EXCEPT ![c] = "upgrading"]
           /\ UNCHANGED <<caches, op, at, toDir, toLlc, memory, failed>>
        \/ /\ op[c] # "READ"
           /\ Complete(Satisfied(Now, c, at[c], op[c]), c, at[c], op[c])
     /\ UNCHANGED <<waiters, served, dir>>

(* The front waiter's user thread wakes up with the lock in its hands and  *)
(* completes its operation; the network thread waits to get the lock back. *)
ServeWaiter(l) ==
  /\ Running /\ net[l] = "serving"
  /\ ~NeedsUpgrade(l)
  /\ LET c == FrontWaiter(l)
         found == Check(Now, LlcHit(Now, c, at[c], op[c]),
                        "Tried_to_read_in_next_level_cache_but_data_is_already_gone")
     IN Complete(Satisfied(found, c, at[c], op[c]), c, at[c], op[c])
  /\ net' = [net EXCEPT ![l] = "resuming"]
  /\ UNCHANGED <<waiters, served, dir>>

(* Faults: the line served is not reset; only the first waiter is served.  *)
ResumeServingForever(l) ==
  LET left == Tail(waiters[l][served[l]])
  IN /\ Running /\ net[l] = "resuming" /\ ExclusiveFree(l)
     /\ waiters' = [waiters EXCEPT ![l][served[l]] = left]
     /\ net' = [net EXCEPT ![l] = IF left = <<>> THEN "idle" ELSE "serving"]
     /\ UNCHANGED <<caches, threads, served, toDir, toLlc, dir, memory, failed>>

ResumeServingOne(l) ==
  /\ Running /\ net[l] = "resuming" /\ ExclusiveFree(l)
  /\ waiters' = [waiters EXCEPT ![l][served[l]] = Tail(@)]
  /\ net' = [net EXCEPT ![l] = "idle"]
  /\ served' = [served EXCEPT ![l] = None]
  /\ UNCHANGED <<caches, threads, toDir, toLlc, dir, memory, failed>>

ResumeServing(l) ==
  LET left == Tail(waiters[l][served[l]])
  IN /\ Running /\ net[l] = "resuming" /\ ExclusiveFree(l)
     /\ waiters' = [waiters EXCEPT ![l][served[l]] = left]
     /\ net' = [net EXCEPT ![l] = IF left = <<>> THEN "idle" ELSE "serving"]
     /\ served' = [served EXCEPT ![l] = IF left = <<>> THEN None ELSE @]
     /\ UNCHANGED <<caches, threads, toDir, toLlc, dir, memory, failed>>

(* The directory's snoops.  A line that is not here was evicted: nothing   *)
(* is answered, "hoping eviction message is underway".                     *)
ReceiveInvReq(l) ==
  LET a == Head(toLlc[l]).a
      snooped == Check(SnoopChecked(Now, l, a, {}, "INVALID"),
                       llc[l][a].st # "MODIFIED", "MODIFIED_data_is_about_to_get_lost")
      answer == Send([snooped EXCEPT !.llc[l][a] = Invalid], "INV_REP", a, FALSE)
  IN /\ Received(l, {"INV_REQ"})
     /\ CommitQuiet(IF llc[l][a].st = "INVALID" THEN Now ELSE answer, l)
     /\ UNCHANGED <<threads, waiters, net, served, dir>>

ReceiveFlushReq(l) ==
  LET a == Head(toLlc[l]).a
      snooped == SnoopChecked(Now, l, a, {}, "INVALID")
      answer == Send([snooped EXCEPT !.llc[l][a] = Invalid], "FLUSH_REP", a,
                     snooped.llc[l][a].new)
  IN /\ Received(l, {"FLUSH_REQ"})
     /\ CommitQuiet(IF llc[l][a].st = "INVALID" THEN Now ELSE answer, l)
     /\ UNCHANGED <<threads, waiters, net, served, dir>>

(* Fault: a modified line is written back and stays modified.              *)
ReceiveWbReqOwner(l) ==
  LET a == Head(toLlc[l]).a
      snooped == SnoopChecked(Now, l, a, {}, "SHARED")
  IN /\ Received(l, {"WB_REQ"})
     /\ CommitQuiet(IF llc[l][a].st = "INVALID" THEN Now
                      ELSE Send(snooped, "WB_REP", a, snooped.llc[l][a].new), l)
     /\ UNCHANGED <<threads, waiters, net, served, dir>>

(* Fault: the first-level caches are not asked for the modified data.      *)
ReceiveWbReqUnsnooped(l) ==
  LET a == Head(toLlc[l]).a
  IN /\ Received(l, {"WB_REQ"})
     /\ CommitQuiet(IF llc[l][a].st = "INVALID" THEN Now
                      ELSE Send([Now EXCEPT !.llc[l][a].st = "SHARED"], "WB_REP", a,
                                llc[l][a].new), l)
     /\ UNCHANGED <<threads, waiters, net, served, dir>>

(* An upgrading line is answered without its data: the buffer is left as   *)
(* it was.                                                                 *)
ReceiveWbReq(l) ==
  LET a == Head(toLlc[l]).a
      snooped == SnoopChecked(Now, l, a, {}, "SHARED")
      answer == Send([snooped EXCEPT !.llc[l][a].st = "SHARED"], "WB_REP", a,
                     snooped.llc[l][a].new)
      blind == Send(Now, "WB_REP", a, FALSE)
  IN /\ Received(l, {"WB_REQ"})
     /\ CommitQuiet(CASE llc[l][a].st = "INVALID" -> Now
                      [] llc[l][a].st = "SHARED_UPGRADING" -> blind
                      [] OTHER -> answer, l)
     /\ UNCHANGED <<threads, waiters, net, served, dir>>

-----------------------------------------------------------------------------
(* The directory, which is not part of the repository: one request at a    *)
(* time per line, answered once the copies it must not coexist with are    *)
(* gone.  Evictions it did not ask for count as answers.                   *)
DirReceive(l) ==
  LET m == Head(toDir[l])
      d == dir[m.a]
      asking == [d EXCEPT !.queue = Append(@, <<m.t, l>>)]
      gone == [d EXCEPT !.sharers = @ \ {l}, !.owner = IF @ = l THEN None ELSE @]
      clean == [d EXCEPT !.owner = None]
  IN /\ Running /\ toDir[l] # <<>>
     /\ toDir' = [toDir EXCEPT ![l] = Tail(@)]
     /\ dir' = [dir EXCEPT ![m.a] =
          CASE m.t \in Requests -> asking
            [] m.t \in {"INV_REP", "FLUSH_REP"} -> gone
            [] m.t = "WB_REP" -> clean]
     /\ memory' = IF m.t \in {"FLUSH_REP", "WB_REP"}
                    THEN [memory EXCEPT ![m.a] = m.new] ELSE memory
     /\ UNCHANGED <<caches, threads, waiters, net, served, toLlc, failed>>

(* The caches whose copies keep the first queued request waiting.          *)
Blockers(a) ==
  LET r == Head(dir[a].queue)
  IN IF r[1] = "SH_REQ" THEN {dir[a].owner} \ {None}
                        ELSE dir[a].sharers \ {r[2]}

DirSnoop(a) ==
  LET snoop(l) == IF Head(dir[a].queue)[1] = "SH_REQ" THEN "WB_REQ"
                  ELSE IF dir[a].owner = l THEN "FLUSH_REQ" ELSE "INV_REQ"
  IN /\ Running /\ dir[a].queue # <<>> /\ ~dir[a].asked
     /\ Blockers(a) # {}
     /\ toLlc' = [l \in Llcs |-> IF l \in Blockers(a)
                    THEN Append(toLlc[l], Msg(snoop(l), a, FALSE)) ELSE toLlc[l]]
     /\ dir' = [dir EXCEPT ![a].asked = TRUE]
     /\ UNCHANGED <<caches, threads, waiters, net, served, toDir, memory, failed>>

DirAnswer(a, lost) ==
  LET r == Head(dir[a].queue)
      l == r[2]
      held == l \in dir[a].sharers
      reply == CASE r[1] = "SH_REQ" -> IF Mesi /\ dir[a].sharers = {} THEN "EX_REP"
                                                                     ELSE "SH_REP"
                 [] r[1] = "EX_REQ" -> "EX_REP"
                 [] r[1] = "UPGRADE_REQ" -> IF held THEN "UPGRADE_REP"
                                                    ELSE lost
  IN /\ Running /\ dir[a].queue # <<>> /\ Blockers(a) = {}
     /\ toLlc' = [toLlc EXCEPT ![l] =
          Append(@, Msg(reply, a, memory[a] /\ ~(held /\ reply = "UPGRADE_REP")))]
     /\ dir' = [dir EXCEPT ![a] =
          [sharers |-> @.sharers \cup {l},
           owner |-> IF reply = "SH_REP" THEN None ELSE l,
           queue |-> Tail(@.queue), asked |-> FALSE]]
     /\ UNCHANGED <<caches, threads, waiters, net, served, toDir, memory, failed>>

DirReply(a) == \E lost \in LostUpgradeReplies : DirAnswer(a, lost)

-----------------------------------------------------------------------------
UserStep(c) ==
  \/ \E a \in Addrs : WriteHit(c, a) \/ AtomicHit(c, a) \/ \E o \in Ops : Miss(c, o, a)
  \/ \E a \in Addrs : DoPrefetch(c, a)
  \/ AtomicUnlock(c) \/ MissHitsLlc(c) \/ MissGoesToDirectory(c)

NetworkStep(l) ==
  \/ ReceiveExRep(l) \/ ReceiveShRep(l) \/ ReceiveUpgradeRep(l)
  \/ ServeUpgrade(l) \/ ServeWaiter(l) \/ ResumeServing(l)
  \/ ReceiveInvReq(l) \/ ReceiveFlushReq(l) \/ ReceiveWbReq(l)

Next ==
  \/ \E c \in L1s : UserStep(c)
  \/ \E l \in Llcs : NetworkStep(l) \/ DirReceive(l)
  \/ \E a \in Addrs : DirSnoop(a) \/ DirReply(a)

Spec == Init /\ [][Next]_vars

(* Threads that have work do it, the network delivers; the set lock is     *)
(* fair to whoever keeps asking for it.  No core has to start an operation.*)
Fairness ==
  /\ \A c \in L1s : /\ WF_vars(AtomicUnlock(c))
                    /\ SF_vars(MissHitsLlc(c) \/ MissGoesToDirectory(c))
  /\ \A l \in Llcs : SF_vars(NetworkStep(l)) /\ WF_vars(DirReceive(l))
  /\ \A a \in Addrs : WF_vars(DirSnoop(a) \/ DirReply(a))

FairSpec == Spec /\ Fairness

-----------------------------------------------------------------------------
States == {"INVALID", "SHARED", "SHARED_UPGRADING", "EXCLUSIVE", "MODIFIED"}
Copy == [st : States, new : BOOLEAN]
Message(types) == [t : types, a : Addrs, new : BOOLEAN]
ToDirectory == Message(Requests \cup Answers)
FromDirectory == Message(Replies \cup SnoopRequests)

TypeOK ==
  /\ l1 \in [L1s -> [Addrs -> Copy]]
  /\ llc \in [Llcs -> [Addrs -> Copy]]
  /\ pc \in [L1s -> {"idle", "upgrading", "waiting", "locked"}]
  /\ op \in [L1s -> Ops \cup Reads \cup {None}]
  /\ at \in [L1s -> Addrs \cup {None}]
  /\ \A c \in L1s : /\ pc[c] # "idle" => at[c] \in Addrs
                    /\ pc[c] \in {"upgrading", "waiting"} => op[c] # None
  /\ waiters \in [Llcs -> [Addrs -> Seq(L1s)]]
  /\ net \in [Llcs -> {"idle", "serving", "resuming"}]
  /\ served \in [Llcs -> Addrs \cup {None}]
  /\ \A l \in Llcs : served[l] = None <=> net[l] = "idle"
  /\ toDir \in [Llcs -> Seq(ToDirectory)]
  /\ toLlc \in [Llcs -> Seq(FromDirectory)]
  /\ dir \in [Addrs -> [sharers : SUBSET Llcs, owner : Llcs \cup {None},
                        queue : Seq(Requests \X Llcs), asked : BOOLEAN]]
  /\ memory \in [Addrs -> BOOLEAN]

(* None of the controller's assertions fails: writebacks find MODIFIED     *)
(* lines, insertions find no copy, replies find their waiter, woken        *)
(* threads, prefetches ("Line was not there after prefetch") and second    *)
(* halves of atomic operations find their data.                            *)
NoAssertionFails == failed = {}

(* A first-level copy has a copy below it, a modified one a modified one:  *)
(* back-invalidation and snoops that go down from the last level reach     *)
(* everything.                                                             *)
Inclusive ==
  \A c \in L1s, a \in Addrs :
    /\ l1[c][a].st # "INVALID" => llc[LlcOf[c]][a].st # "INVALID"
    /\ l1[c][a].st = "MODIFIED" => llc[LlcOf[c]][a].st = "MODIFIED"

(* Whatever the directory answers to an upgrade that lost its copy, the    *)
(* only assertion to fail is the one about the data of that answer.        *)
OnlyLostUpgradesFail == failed \subseteq {"out_buf_passed_in_but_never_written_to"}

(* A last-level cache that may write or silently become writable has the   *)
(* only copy of the line among last-level caches.                          *)
LlcExclusive ==
  \A k, l \in Llcs, a \in Addrs :
    k # l /\ llc[l][a].st \in {"EXCLUSIVE", "MODIFIED"} => llc[k][a].st = "INVALID"

(* "We now have the only copy. Change to a writeable state.": a first-level*)
(* cache that may write without asking has the only first-level copy.      *)
SingleWriter ==
  \A c, d \in L1s, a \in Addrs :
    c # d /\ l1[c][a].st = "MODIFIED" => l1[d][a].st = "INVALID"

(* Every first-level copy a read may hit holds the last value written.     *)
ReadsSeeLastWrite ==
  \A c \in L1s, a \in Addrs : l1[c][a].st # "INVALID" => l1[c][a].new

(* The last value written is never lost on its way between the caches,     *)
(* the messages and the memory.                                            *)
LastWriteSurvives ==
  \A a \in Addrs :
    \/ memory[a]
    \/ \E c \in L1s : l1[c][a].new
    \/ \E l \in Llcs :
         \/ llc[l][a].new
         \/ \E i \in DOMAIN toDir[l] : toDir[l][i].a = a /\ toDir[l][i].new

(* The waiters of a line have exactly one request on its way through the   *)
(* directory, or the network thread is serving them: whoever was not first *)
(* can rely on somebody else's request.                                    *)
Outstanding(l, a) ==
  Cardinality({i \in DOMAIN toDir[l] : toDir[l][i].a = a /\ toDir[l][i].t \in Requests})
  + Cardinality({i \in DOMAIN dir[a].queue : dir[a].queue[i][2] = l})
  + Cardinality({i \in DOMAIN toLlc[l] : toLlc[l][i].a = a /\ toLlc[l][i].t \in Replies})
  + (IF served[l] = a THEN 1 ELSE 0)
OneRequestPerLine ==
  Running => \A l \in Llcs, a \in Addrs :
    Outstanding(l, a) = IF waiters[l][a] = <<>> THEN 0 ELSE 1

(* A thread waits exactly when its line's list names it, once.  An entry is*)
(* only taken off the list after its thread was woken (Woken), however     *)
(* upgrades asked on the way and new misses of the same line follow.       *)
Woken(l, a) == IF net[l] = "resuming" /\ served[l] = a THEN {1} ELSE {}
Entries(c, l, a) == {i \in DOMAIN waiters[l][a] \ Woken(l, a) : waiters[l][a][i] = c}
WaitersListed ==
  \A c \in L1s, l \in Llcs, a \in Addrs :
    IF pc[c] = "waiting" /\ LlcOf[c] = l /\ at[c] = a
      THEN \E i \in DOMAIN waiters[l][a] : Entries(c, l, a) = {i}
      ELSE Entries(c, l, a) = {}

(* "hoping eviction message is underway": when the directory counts a      *)
(* cache among the sharers that has no copy and no copy on its way, the    *)
(* message giving the copy up is in the network.                           *)
EvictionUnderway ==
  Running => \A l \in Llcs, a \in Addrs :
    l \in dir[a].sharers /\ llc[l][a].st = "INVALID" =>
      \/ \E i \in DOMAIN toLlc[l] : toLlc[l][i].a = a /\ toLlc[l][i].t \in Replies
      \/ \E i \in DOMAIN toDir[l] :
           toDir[l][i].a = a /\ toDir[l][i].t \in {"INV_REP", "FLUSH_REP"}

(* Every miss and every prefetch completes, whatever the other cores and   *)
(* caches do, unless an assertion stops the simulator.                     *)
MissesComplete ==
  \A c \in L1s :
    pc[c] \in {"upgrading", "waiting"} ~> pc[c] \in {"idle", "locked"} \/ ~Running
=============================================================================
