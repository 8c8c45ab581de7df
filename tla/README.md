# TLA+ models of the MO601 repository

The repository holds four computer-architecture projects: two Pin tools
(`src/project1`, `src/project2`) and two sets of files for the Sniper multicore
simulator (`src/project3`, `src/project4`) that add the Hawkeye cache replacement
policy to it. Project 4 also contains the simulator files that were changed to carry
the instruction address to the policy: core, memory manager, cache controllers, TLB,
NUCA cache and DRAM cache. The core logic, and all of the concurrency, is there.
Below, `MSI/` is `src/project4/src/common/core/memory_subsystem/parametric_dram_directory_msi/`.

Directory, network, `SetLock`, `Semaphore`, prefetchers, memory controllers and the
"lru" set of Sniper are not in the repository. They are modelled as `src/` uses them,
as loosely as that use allows, and marked external in `PROJECT.json`.

## The system

| Component | State | Operations | Interacts with |
|---|---|---|---|
| Hawkeye set, project 4 (`cache_set_hawkeye.cc`, `cache_set.cc`) | per way: tag, state, eviction priority, last occurrence, last instruction; occupancy vector, `last_index`; table of 50 instructions and their scores | read/write hit, insert with victim search, invalidate; upgrades pin a way | called by the controllers under the set's lock |
| Hawkeye set, project 3 | the same without the table | the same | the same |
| Cache controllers (`MSI/cache_cntlr.cc`) | copies per level, directory waiters, MSHR, prefetch queue, statistics | processor accesses (plain, LOCK/UNLOCK), requests to the next level, messages from the directory, snoops of the levels above, evictions | user threads and one network thread per last-level cache share the set locks; messages to and from the directory |
| Core (`core.cc`) | instruction counters, HPI threshold, memory lock, the block fetched last | `countInstructions`, periodic hook, `initiateMemoryAccess`, `readInstructionMemory` | thread manager lock; calls the memory manager line by line |
| Memory manager (`MSI/memory_manager.cc`) | `global_eip`, TLBs | starts accesses, dispatches messages | writes `global_eip`, read when a message arrives |
| TLB (`MSI/tlb.cc`) | one cache of pages per level | `lookup`, `allocate` | the next level takes the victims |
| DRAM cache (`dram_cache.cc`) | lines with data, prefetched bits | load, store, prefetch | memory controller behind |
| NUCA cache (`MSI/nuca_cache.cc`) | lines with data and state | read, write | the directory asks it before memory, and sends its victims to memory |
| Pin tools (projects 1, 2) | counters; caches of `pin_cache.H` | callbacks per instruction | the instrumented threads |

What makes the components hard, and what makes them correct:

* **Hawkeye sets** run long sequences of calls over circular, byte-sized structures.
  The vector must be what a straightforward OPTgen computes, over any wrap-around; the
  instruction table must stay consistent, also when full; a victim must be found, never
  one with an outstanding upgrade.
* **Controllers** mix user threads, which give up their lock in the middle of an
  operation, with network threads, which hand their lock to a user thread, and with
  messages that cross. Correct means: one writer, no lost write, inclusion, one request
  per line, assertions that hold, and misses that complete.
* **Set locks**: several may be held by one atomic operation; nobody may wait in a circle.
* **Prefetch queue, instruction address, periodic hook**: shared state read and written
  outside or across lock regions.
* **DRAM cache, NUCA slice, TLB**: what is evicted must be kept, where it belongs, once.
* **Instruction fetch** leaves out accesses; it must not leave out a block or a TLB miss.

`PROJECT.json` lists these hazards at their lines with the properties that cover them.

## The modules

| Module | Models | State and actions |
|---|---|---|
| `OptGen` | the circular vector's operators, common to projects 3 and 4 | none: pure operators |
| `HawkeyeSet` | one set, project 4 | variables named as the members; `Access`, `Fill`, `Replace`, `NoVictim`, `Invalidate`, `StartUpgrade`, `EndUpgrade` |
| `CacheSetSpec` | what a cache set promises its controller | lines and pinned lines; `HawkeyeSet` implements it (`ImplementsCacheSet`) |
| `HawkeyeHistory` | `HawkeyeSet` beside a reference OPTgen | history variables: ages, accepted intervals |
| `Hawkeye3Set` | one set, project 3 | `Access`, `Insert`, `Invalidate`, `StartUpgrade`, `EndUpgrade` |
| `CoherentCaches` | controllers of instruction, data and last-level caches, set lock, waiters, network, directory | user thread: `WriteHit`, `AtomicHit`, `AtomicUnlock`, `Miss`, `MissHitsLlc`, `MissGoesToDirectory`; network thread: `Receive*`, `ServeUpgrade`, `ServeWaiter`, `ResumeServing`; a thread that is done: `DoPrefetch`; directory: `Dir*` |
| `SetLocks` | split accesses and the set locks they hold | one action per lock operation of `processMemOpFromCore` and `Prefetch` |
| `EipPropagation` | `global_eip` and `m_eip` | `Issue`, `HitAbove`, `HitLastLevel`, `MissLastLevel`, `Reply`, `Snooped` |
| `PrefetchQueue` | `m_prefetch_list`, `m_prefetch_next` | `Access` (with training), `Take`, `Issue`, `Fetch`, `Return`, `Evict`; history variables: the last training, the last start |
| `DramCache` | the cache before a memory controller | `GetDataFromDram`, `PutDataToDram`, each with the prefetch it triggers |
| `NucaCache` | a NUCA slice between a directory and a DRAM cache | `ReadMiss`, `WriteBack`, `Fill` of the directory, with `Write` of the slice; `MemoryReads`, `MemoryWrites` of the memory controller, which are the actions of `DramCache` |
| `Tlb` | first-level TLBs and the one behind them | `Lookup` |
| `InstructionFetch` | `readInstructionMemory` over the TLBs | `Execute` an instruction, `Jump`, `AccessData` |
| `PeriodicHook` | `countInstructions` and the HPI hook | `CountInstructions`, `Add`, `QuickCheck`, `LockAndCheck`, `HookReturns` |
| `HawkeyeSet_proofs`, `Hawkeye3Set_proofs`, `CoherentCaches_proofs`, `CoherentDirectory_proofs`, `ControllerLocks_proofs`, `PeriodicHook_proofs`, `NucaCache_proofs`, `Core_proofs` | theorems | |
| `MC*` | constants for TLC | |

What a step is:

* `HawkeyeSet`, `Hawkeye3Set`, `DramCache`, `Tlb`, `InstructionFetch`: one call. The callers
  hold a lock that keeps calls apart (set lock, memory lock), or there is only one caller.
* `NucaCache`: one call of the slice, with what the directory does with its result, or one
  message handled by the memory controller. The messages to memory are in order. Which lines
  the directory reads and writes is open, but for a line it is already reading.
* `CoherentCaches`: one stretch of code under the set lock, or one step of the directory.
  All lines modelled belong to one set. The caches are a record that operators transform in
  the order of the calls; the same record collects the messages sent and the assertions
  broken. Data is one bit per copy: whether it holds the last value written. A core has two
  first-level caches, for instructions and for data, above the same last level
  (`MSI/memory_manager.cc:301`), so that every last level has siblings above it, a private one too;
  the core's `m_mem_lock` lets them take turns (`MemLockFree`). `Accessed` and `Written` say which
  lines the program reads and writes through which cache. A prefetch is a
  step of its own, since it takes the lock again; which line it takes is open (`PrefetchQueue`
  says which), and it may happen after any operation of a thread behind that cache.
* `SetLocks`, `PrefetchQueue`, `PeriodicHook`: one stretch between lock operations.

The alternative definitions marked "Fault" are plausible mistakes in the code next to them.
No specification uses them; each is paired in `PROJECT.json` with a property it violates,
which shows that the property depends on the code.

## The runs

Passing runs, with the bounds and why they are enough:

| Run | Instance | Shows |
|---|---|---|
| `HawkeyeSet` | 2 ways, window 4, 2 slots for 3 addresses and for address 0, which also marks a free slot, 3 lines, 3 threads | vector, table and victim, beside a reference OPTgen, and the refinement of `CacheSetSpec`. The window wraps, four positions let intervals of every length wrap; the third address overflows the table; every line can be replaced, every way can be pinned, and then no victim is found: the set may stop, so deadlock is not checked |
| `Hawkeye3Set` | 3 ways, window 3, 4 lines, 4 threads, averse priority below the associativity | positions, victim. Three ways, because two of them can share a position only if a third moves on |
| `CoherentPrivate` | 2 cores, each with an instruction cache, a data cache and a last level of 1 way each; a line that all caches read and one that the data caches write; MESI, one of the last levels prefetches, a lost upgrade is answered with EX_REP | coherence between last-level caches and among the first-level caches above them, with evictions crossing requests, prefetches and snoops |
| `CoherentLive` | 2 data caches of different cores behind one last level, a third with its own; 1 line that all of them write, MESI, the shared one prefetches, a lost upgrade is answered either way | waiters, each listed once, hand-over of the lock, upgrades, atomic operations; every miss completes. Every race for one line needs at most two cores of one cache and one of another. The one assertion that can fail stops the simulator, so deadlock is not checked: a thread left waiting would violate `MissesComplete` |
| `SetLocks` | 3 cores, lines of 2 bytes, 2 sets; accesses of 1, 2 and 4 bytes from the start and the middle of a line, atomic ones inside a line and over two | circular waits only with an atomic operation over several lines, splits exact. Two sets let lines of one access fall in one set and in two; such operations really deadlock, so deadlock is not checked |
| `PrefetchQueue` | 2 threads, 2 lines, queue of 1, up to 3 addresses from the prefetcher, times up to 3 | spacing of prefetches, from the last training and from the prefetch before, length of the queue. Accesses come at any time, as the time of an access is its caller's or its own core's (`core.cc:292`), and may lie before that of the access before it. Two threads are enough for one to train or take between the other's steps; the prefetcher may return more addresses than the queue holds |
| `MemorySide` | a slice of 1 way before a DRAM cache of 2 ways, 3 lines, 2 values, at most 2 messages on their way | the last write is found, in the slice, under way or in memory, but for the two ways the code has of losing it. Three lines overflow both caches, two messages let a read pass behind a write of another line and of the same |
| `Tlb` | instruction TLB of 1 way, data TLB of 2, one of 3 behind; 2 pages of code of 2 blocks of 2 bytes, 3 of data | no duplicates in a first level; only overflow forgets; skipped fetches skip no block and no TLB miss. Five pages overflow the levels together; instructions of one and two bytes lie in a block, over two, and over two pages |
| `PeriodicHook` | 3 cores, up to 4 instructions each, period 3 | never early, never forgotten, counted once; the cores stop at the bound, so deadlock is not checked |

Scaled-down constants: `Averse`, `Fresh`, `Capacity`, `Slots`, `MaxScore` and `WindowFactor`
stand for 15, 8, 15 (13 in project 3), 50, 7 and 8; `ByteSize` for 256. A passing run sets
`Averse` below `Assoc`, so that the search for a victim can see every priority. The theorems
hold for every value, the code's included, under the assumptions they name.

`Limit` (`PeriodicHook`), `MaxTime` (`PrefetchQueue`) and `MaxMessages` (`NucaCache`) are the only
bounds put into guards. Queues of `CoherentCaches` are bounded by its protocol.

Runs that end in a violation each check one statement of a comment, an assertion or a readme
that the code does not keep; `PROJECT.json` quotes it under `findings`:

| Run | Statement |
|---|---|
| `EipTraining` | the policy sees the PC of the access: it sees that of an earlier miss |
| `CoherentSharing` | a line that is writeable is "the only copy" (`MSI/cache_cntlr.cc:1903`): of two siblings one keeps a SHARED copy beside the other's MODIFIED one, which it took from the last level |
| `DramCacheWriteback` | the victim is written back: the new line's data is |

`SingleWriter` and `ReadsSeeLastWrite` hold where no first-level cache accesses a line that a
sibling, another cache above the same last level, writes (`CoherentPrivate`, with code and data
apart). `CoherentSharing` shows with two data caches how they break otherwise. The trace needs
siblings, not two cores: a core whose program executes a line it also writes has the same two
copies, in its instruction and its data cache, below a private last level too. `CoherentLive` has
siblings that write and therefore checks assertions, requests and exclusiveness between last-level
caches.

### Divergences without a run

Reading and modelling showed more places where the code does something other than its comments
say. The models do what the code does; no run is about them.

* What a Hawkeye way remembers of its last access outlives the line: evicting a line nobody
  accessed detrains the instruction of the line before it (`cache_set_hawkeye.cc:75`), and the
  first access to a new line can count as a reuse (`cache_set_hawkeye.cc:227`).
* The search for a victim starts at the associativity, while averse lines have priority 15: with
  fewer than 16 ways, all of them averse, it reports an error although any could go
  (`cache_set_hawkeye.cc:93`). `VictimIsAlwaysFound` assumes `Averse < Assoc` for that reason, in
  both projects.
* `MSI/cache_cntlr.cc:1909` says that the answer to an upgrade whose copy was lost brings the data.
  `processUpgradeRepFromDramDirectory` passes this data to `updateCacheBlock` as the buffer to write
  to (1915); there is no line to write from, and the assertion "out_buf passed in but never written
  to" (1693) fails. `LostUpgradeReplies` has both answers the code can take, this one
  (`UPGRADE_DATA_REP`) and EX_REP; with the former, `NoAssertionFails` is violated by two caches that
  upgrade one line, and `OnlyLostUpgradesFail` says that no other assertion fails.
* The comment at `MSI/cache_cntlr.cc:1919` has an upgrade invalidate the siblings of the
  requester; the call passes MODIFIED and they keep their copies (1923).
* The prefetch queue lets one entry more in than "at most" (`MSI/cache_cntlr.cc:682`), which is
  why `QueueBounded` allows `MaxQueue + 1`.
* PREFETCH_INTERVAL is the "Time between prefetches" (`MSI/cache_cntlr.h:42`), but two threads of a
  shared cache that each take a line under the lock can start their prefetches at the same
  `m_prefetch_next`, which is read and advanced after the lock was released (719, 720).
  `PrefetchesSpaced` is therefore about a prefetch that starts while no other is under way. A
  training also sets `m_prefetch_next` afresh, from the time of the access that trains: it can
  move back (678).
* A write of the caches that misses the NUCA slice is inserted unmarked (`MSI/nuca_cache.cc:102`);
  when the line is evicted, the write is gone. `KeepsLastWrite` names it as one of the two ways
  to lose one; the writeback of `DramCacheWriteback` is the other.
* Statistics: `updateCounters` counts a store that finds its line in flight as a miss of its own
  (`MSI/cache_cntlr.cc:2066`).
* The next-level TLB can hold a page twice, since it takes victims without looking and keeps
  what it gave back (`MSI/tlb.cc:54`).
* Atomic operations over two lines can wait for each other, and one of them for its own prefetch,
  although both precautions are commented as preventing deadlock (`MSI/cache_cntlr.cc:597`, 2214).
  `NoCircularWait` says that nothing else can.

### Fairness

Only `CoherentLive` needs it (`FairSpec`): weak fairness for a thread with an unconditional
step to make (the second half of an atomic operation, the directory receiving and answering),
because the simulator's threads keep running and the network delivers; strong fairness for
steps that compete for the set lock (a miss, the network thread), because the lock is freed
again and again and serves who waits for it. No fairness is assumed for starting operations.
`SetLock` is external: that it starves nobody is an assumption. `SetLocks` states deadlock as
a safety property (`NoCircularWait`) and needs no fairness.

## The proofs

**`HawkeyeSet_proofs`**, from `OptGenAssumption` and `HawkeyeAssumption`:

* `TypeCorrect`, `PositionsAreDistinct`, `OccupancyIsBounded` come from the inductive invariant
  `IInv == TypeOK /\ PositionsDistinct /\ OccupancyBounded`. None of the three is inductive
  alone. Forgetting stops at the first way of a position, so that it leaves none behind only
  if positions are distinct; the counters stay in a byte only if no full position is counted
  again; both need the index in range. The lemmas on `UsageInterval`, `Advance`, `Occupy` and
  `Forget` say what an access does to the vector, `AccessIInv` and `ReplaceIInv` treat the two
  large actions.
* `TableIsConsistent` adds that the table is a prefix of distinct addresses that holds what the
  ways remember until it overflows. `SlotsStick` follows from it: a new address goes to a
  free slot.
* `VictimIsAlwaysFound` assumes `Averse < Assoc`. Only then does every priority lie where the
  search looks; the error is then reached only when every way is being upgraded.
* `FreeSlotsStayNeutral` follows action by action, for accesses that carry address 0 too: training
  writes the address and the score of the same slot, detraining skips ways without an address, and
  0, which is found where the first free slot is, touches the score of that one only. The next new
  instruction starts from what it left there.
* `HawkeyeImplementsCacheSet` is the refinement: `Spec => CacheSetSpec!Spec` with the lines of the
  valid blocks for `lines`. It needs that no line is in two ways and that only valid blocks
  are being upgraded (`LinesDistinct`), from which there are as many lines as valid blocks
  (`ResidentCounted`). `NoVictim` and `Access` are stutters.
* `OccupancyIsAlwaysLoad`, `OccurrenceIsAlwaysAge` and `VerdictIsAlwaysOptimal` are about
  `HistorySpec`, the set beside the reference OPTgen. They assume `Window <= ByteSize`:
  `last_index` is a `UInt8`, which names the positions of up to 32 ways; the last level has fewer.
  `HistoryInv` joins both state properties to `IInv` and the shape of the accepted intervals.
  `Back(i, b)` is the position `b` accesses before `i`, and an interval of positions is the ages
  it spans (`IntervalIsBack`). An access makes every interval one age older. Shifting could merge
  two intervals that reach past the window if both ended at the same access; at most one does,
  so the shift is injective and the counts carry over (`OlderCovers`, `LoadCovers`). The verdict
  read from the vector is then the reference's (`VerdictByAge`), for the score as for the counts.

**`Hawkeye3Set_proofs`**, from `OptGenAssumption` and `Hawkeye3Assumption`: `TypeCorrect`,
`PositionsAreDistinct` and, with `Averse < Assoc`, `VictimIsAlwaysFound`, along the same argument for
the set without a table; the lemmas on the vector are those of project 4.

**`PeriodicHook_proofs`**, from `HookAssumption`: `HookIsNeverEarly`. `HookNotEarly` is not
inductive: a core in the hook advances the threshold without another look. The strengthening
says that it holds the lock and that the count stays ahead of the threshold while the lock is
held (`LockProtectsHook`), which in turn needs that reports only add (`ReportsExecuted`).
Nothing is assumed of how often cores report. `HookIsNotForgotten` does need `PacingAssumption`,
that a report fits in a period: every core underway then stands for a period the count may be
ahead. What a core has yet to report is bounded by `ReportsFit`, and leaving the hook or finding
nothing due takes a core away only with the period it stood for. `EveryReportCountsOnce` is about
a sum over the cores: `SumAdds` says what one core's report does to it.

The sum and the loop over the prefetcher's addresses are folds. The induction over them is one
over the sizes of finite sets: a set of naturals without a least missing one has them all
(`Naturally`, from the library's `WFMin`), which first shows that the fold's recursive function
exists (`SumExists`, `LoopRuns`) and then what it computes.

**`NucaCache_proofs`** first treats the DRAM cache alone, without assumptions
(`CleanLinesAlwaysMatchMemory`). The invariant `Sound` is stated of a record of cache and memory, so that it carries through the intermediate states of a
call that inserts a line and then prefetches another. What is wrong with the writeback of a
modified victim (`DramCacheWriteback`) does not disturb it: only the victim's memory changes.

Then, from `NucaAssumption`, the memory side as a whole: `MemorySideKeepsLastWrite` and
`MemorySideCleanLines`. The invariant follows the last write of a line through the slice, the
queue to memory (`TailQueued`, `AppendQueued`) and the DRAM cache, whose `Sound` is reused: for
every line not in `unmarked`, the newest place that holds it holds its last write, or the line
is in `garbled`. The theorem therefore says that there is no third way to lose a write.

**`Core_proofs`** has the theorems on what a core sends into the memory system. Of
`InstructionFetch`, from `TlbAssumption` and `FetchAssumption`: `FirstLevelsHoldPagesOnce`
and `OnlyVictimsAreForgotten` from what a lookup does (`AllocateEffect`, `LookupEffect`,
`LookupForgets`), which data and instruction accesses share; `SkippedFetchesHit` and
`StraightLineCodeIsRead` from `FetchInv`, whose heart is the block still owed: an instruction over
two blocks leaves at most the one it ends in, and the next instruction begins there.

Of `EipPropagation`, from `EipAssumption` (every core has a master, which is its own):
`SharersAlwaysTrainZero`, because only masters' controllers are ever written
(`SharersHearNothing`); and, for a machine with one core, `LoneCoreRepliesCarryRequester`, because
nothing overwrites `global_eip` between an access and its answer (`Pending`). `EipTraining` shows
that even then a hit trains with an older address.

**`ControllerLocks_proofs`** has the theorems on what the locks of the controllers protect. Of
`SetLocks`, from `SetLocksAssumption`: `SplitIsExact` and `CirclesNeedSeveralLines`. A split
is a matter of quotients and remainders (`AccessEnds`): an access that ends on a boundary has a
last line of no bytes, which is not accessed, and the byte ranges of consecutive lines join
(`LinesAreConsecutive`, `LinesCoverBytes`). The invariant `LocksInv` ties the set locks to what
each core does: exclusively it holds at most the set of the line it fills, shared at most the
sets of the line it is looking up and of the lines of an atomic operation it keeps (`Kept`,
`Owns`). From it: a core that waits and has no atomic access over several lines holds no lock
at all (`WaitingEmpty`), because it gave the shared lock up before asking for the exclusive one
and does not prefetch between the halves of an atomic operation. Nobody waits for such a core, so it is in no circle.

Of `PrefetchQueue`, from `PrefetchAssumption` and for any number of threads, whose accesses come at
any times: `PrefetchesWait`, because a training moves `m_prefetch_next` an interval beyond itself and
nothing else moves it back (`AfterTraining`), so that it does not matter that it is read without
the lock; `PrefetchesAreSpaced`, because `m_prefetch_next` is never before the last start or
training, and an interval beyond it whenever no prefetch is under way (`AtDistance`); and
`QueueIsBounded`, an induction over the loop of `trainPrefetcher` (`LoopKeepsLimit`).

**`CoherentCaches_proofs`**: `CoherentTypeCorrect`, `EveryWaiterListed` and `InclusiveUnlessAsserted`
come from `CoherentInv`: types, every waiting thread exactly once on its line's list and, as long
as no assertion has failed, inclusion and that a network thread that holds a line has a waiter
to serve. The caches' operators transform a record, so most lemmas say what one of them keeps of
any record. Of the directory, which is external, only the types of its messages are used:
inclusion and the lists of waiters are the controllers' own doing.

**`CoherentDirectory_proofs`** adds the directory, for any number of cores, caches and lines, and
whichever answers it gives to an upgrade whose copy was taken back before the directory got to it
(`LostUpgradeReplies`). The directory is not in the repository, so the code does not settle this;
its comment expects the data with an UPGRADE_REP, and then one assertion does fail (see above). The
invariant (`Coherent`) is therefore a disjunction: the two halves below, or that assertion has
failed, nothing moves any more, and the caches are what they were before.

* `DirectoryInv` is `Line` for every last-level cache and line. It looks at the line as one cache
  and the directory see it (`View`: the messages of that line in either direction, the copy's
  state, the directory's entry, the waiters), and says how these go together. `Sharing` and
  `Custody`: a sharer has the copy, or it is coming, or the message giving it up is going, and
  nobody else has one. `Ownership`: who may write is the owner. `Transaction`: between the
  first waiter and the last there is one request, in exactly one of four places. `Upgrading`,
  `Fetched`: what a request still on its way knows of the copy; `Entitled`: the owner may
  write, or the answer that lets it is coming, or what takes the ownership back is going. `Snooped`, `WroteBack`: a snoop
  that will find a copy (`Live`) is the only one, comes after every reply, and is of the kind
  the first request in the queue calls for; one that will find nothing may be of any kind and
  age, since evictions cross snoops.
* `ControllerInv`: no assertion has failed; a thread in the middle of an atomic operation still
  has its line modified, and the network thread is not serving; upgrades are asked for writers
  only; a thread about to drop its first-level copy drops no modified data, unless the line is
  being served to it.

The argument goes one line at a time. For each way a line can change there is a lemma on views
(`LineRequested`, `LineQueued`, `LineAsked`, `LineReplied`, `LineGone`...) that says `Line` survives; each
action is then shown to be one of these for the line it is about and nothing, or a matching
change of the directory's entry, for the others (`Followed`). What arrives at and leaves a
queue is said once for all of them (`Arrival`, `Departure`, `SnoopJoined`, `SnoopLeft`). From the
invariant follow `OnlyOneAssertionCanFail`, `AlwaysInclusive` (the condition of
`InclusiveUnlessAsserted` goes away), `WritableCopyIsTheOnlyOne`, `EvictionIsUnderway` and
`WaitersShareOneRequest`. `EvictionUnderway` and `OneRequestPerLine` speak of a simulator that still
runs: the answer at which the assertion fails is lost with it.

The last part of the module proves what the protocol is for, under one condition on the program
(`Apart`): no first-level cache accesses a line that a sibling above the same last level writes. With
a last level per core this says that no core fetches code it also writes; with a shared one also
that its cores share only what they read. Without it `CoherentSharing` refutes the first theorem.
`UnsharedWritesHaveSingleWriter`: who may write without asking has the only first-level copy.
`ReadsAlwaysSeeLastWrite`: whatever a first-level cache holds is the value written last.
`LastWriteAlwaysSurvives`: that value is always in memory, in a cache, or on its way to the
directory. They come from `DataInv`, a fact about contents beside the two halves above:

* `Sound`: a first-level copy has the last value, a last-level copy has it too unless it lies
  below a modified one, and a modified line on its way back has it (`FreshNet`, which says the
  same of the data the directory sends);
* `Stored`: memory has it unless the owner still holds the line modified or has just sent it
  back;
* `WaitsEmpty`: a first-level cache whose thread waits has no copy of that line.

`Sound` includes that every copy is of a line the program accesses through its cache, and that a
writeable last-level copy lies below a cache that writes it (`Within`), which `Programmed`, the same of
the accesses under way, preserves.

A write makes every other copy old, so `Sound` survives it only because the writer is alone
(`WriterAlone`): that is `DirectoryInv` across last-level caches, and `Apart` with `Within` among the
first-level caches above one. Everything else moves data, and each operator on the caches is shown
to carry it (`Carries`: sound caches stay sound and no modified line leaves except in a message).

Only model-checked: `MissesComplete`, as liveness and ENABLED are beyond the prover. No module
declares a RECURSIVE operator.

## Not modelled

* The cache levels between the first and the last, write-through first levels,
  `PRIVATE_L2_OPTIMIZATION` and caches that ask memory directly, without a directory.
* The MSHR, the auxiliary tag directories, all latencies and statistics: no copy, message or
  lock depends on what they hold.
* More than one line for a call of the DRAM cache's prefetcher (`dram_cache.cc:211` loops): each is
  inserted like the first.
* `nativeMemOp` copies bytes of the simulated program and is only called without a lock signal;
  the `cpuid` emulation is a table.
* `cache.cc` splits an address into tag and set and forwards; the memory manager's
  constructor parses a configuration and its dispatch adds nothing to what the handlers do.
* The Pin tools. Project 1 bumps unsynchronised counters in callbacks of a runtime that is not in
  the repository, and calls `IncrementBBL`, which is defined nowhere (`MyPinTool.cpp:85`). Project 2
  chains accesses through caches of `pin_cache.H`, which is not in the repository either, and
  keeps no state of its own but two counters. Benchmarks and scripts keep no state.

## Plan

Done, in this order: `OptGen`, `HawkeyeSet`, `CacheSetSpec`, `HawkeyeSet_proofs`,
`HawkeyeHistory`, `Hawkeye3Set`, `CoherentCaches`, `EipPropagation`, `DramCache`,
`PeriodicHook` with proofs, `PrefetchQueue`, `Tlb`, `SetLocks`, the theorems on
`EipPropagation`, `NucaCache` with proofs, `InstructionFetch` with proofs (`Core_proofs`), prefetches in
`CoherentCaches`, `CoherentCaches_proofs`, the refinement of `CacheSetSpec` and
`HookIsNotForgotten`, `Hawkeye3Set_proofs`, `CoherentDirectory_proofs`, the reference OPTgen in
`HawkeyeSet_proofs`, data in `CoherentDirectory_proofs`, `ControllerLocks_proofs`, `EveryReportCountsOnce`.

Next, in this order:

1. An abstract coherent memory that `CoherentCaches` implements for programs that keep `Apart`, now
   that what its reads return is proved.
2. A level between the first and the last in `CoherentCaches`; `EipPropagation` composed with
   `HawkeyeSet`.
