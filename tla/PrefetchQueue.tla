---------------------------- MODULE PrefetchQueue ----------------------------
(***************************************************************************)
(* The prefetch queue of one cache controller of project 4: trainPrefetcher*)
(* fills it, Prefetch issues one line of it when m_prefetch_next has come. *)
(* Both touch the queue under the cache's lock, but a line is issued, and  *)
(* m_prefetch_next read and advanced, after the lock was released.  The    *)
(* threads are the ones whose accesses go through the cache.  An access    *)
(* comes with the time its caller gives it, which may lie before that of   *)
(* the access before it; the cache above may have a prefetcher of its own, *)
(* which trains this one at yet another time.                              *)
(***************************************************************************)
EXTENDS Integers, SequencesExt

CONSTANTS
  Threads, Addrs,
  MaxQueue,     \* PREFETCH_MAX_QUEUE_LENGTH: 32
  Interval,     \* PREFETCH_INTERVAL
  Degree,       \* how many addresses the prefetcher may return
  OnPrefetchHit,\* m_prefetch_on_prefetch_hit
  MaxTime,      \* bound of the model: no access and no prefetch is later
  NoAddr        \* INVALID_ADDRESS

ASSUME PrefetchAssumption ==
  /\ MaxQueue \in Nat /\ Interval \in Nat \ {0} /\ Degree \in Nat /\ MaxTime \in Nat
  /\ OnPrefetchHit \in BOOLEAN
  /\ NoAddr \notin Addrs

VARIABLES
  resident,         \* the lines the cache permits reading
  m_prefetch_list, m_prefetch_next,
  clock,            \* t_now of each thread's call of Prefetch
  stage, taken, start, \* each thread in Prefetch: the line it took, its start time
  trained,          \* history: t_issue of the last training
  latest            \* history: the start time of the last prefetch, or
                    \* t_issue of a training since

queue == <<m_prefetch_list, m_prefetch_next>>
history == <<trained, latest>>
prefetchVars == <<resident, queue, clock, stage, taken, start, history>>

PrefetchInit ==
  /\ resident = {}
  /\ m_prefetch_list = <<>>
  /\ m_prefetch_next = 0
  /\ clock = [c \in Threads |-> 0]
  /\ stage = [c \in Threads |-> "idle"]
  /\ taken = [c \in Threads |-> NoAddr]
  /\ start = [c \in Threads |-> 0]
  /\ trained = -Interval
  /\ latest = -Interval

Moves(c, from, to) == stage[c] = from /\ stage' = [stage EXCEPT ![c] = to]

(* What the prefetcher, which is not part of the repository, may return.   *)
Returned == UNION {[1 .. n -> Addrs] : n \in 0 .. Degree}

(* Fault for the mutation runs: the length is not compared.                *)
QueuedUnchecked(offered) == SelectSeq(offered, LAMBDA a : a \notin resident)

(* The loop over what the prefetcher returned: an address is appended but  *)
(* for lines in the cache, until the list has grown longer than the limit. *)
Appended(list, a) ==
  IF Len(list) <= MaxQueue /\ a \notin resident THEN Append(list, a) ELSE list
Queued(offered) == FoldLeft(Appended, <<>>, offered)

Trained(t_issue) ==
  /\ \E offered \in Returned : m_prefetch_list' = Queued(offered)
  /\ m_prefetch_next' = t_issue + Interval
  /\ trained' = t_issue
  /\ latest' = t_issue

-----------------------------------------------------------------------------
(* A thread's access with what it trains here, if it is not answered above.*)
(* Prefetch follows, but for the first half of an atomic operation.        *)
Access(c) ==
  /\ \E t \in 0 .. MaxTime : clock' = [clock EXCEPT ![c] = t]
  /\ Moves(c, "idle", "accessed") \/ Moves(c, "idle", "idle")
  /\ \/ UNCHANGED <<resident, queue, history>>
     \/ \E a \in Addrs, prefetch_hit \in BOOLEAN :
          /\ prefetch_hit => a \in resident
          /\ resident' = resident \cup {a}
          /\ IF a \notin resident \/ (OnPrefetchHit /\ prefetch_hit)
               THEN \E t_issue \in 0 .. MaxTime : Trained(t_issue)
               ELSE UNCHANGED <<queue, history>>
  /\ UNCHANGED <<taken, start>>

(* Prefetch's part under the lock: the first line that is still missing.   *)
Take(c) ==
  /\ UNCHANGED <<resident, m_prefetch_next, clock, start, history>>
  /\ LET wanted == {i \in DOMAIN m_prefetch_list : m_prefetch_list[i] \notin resident}
     IN \/ /\ m_prefetch_next > clock[c]
           /\ Moves(c, "accessed", "idle")
           /\ UNCHANGED <<m_prefetch_list, taken>>
        \/ /\ m_prefetch_next <= clock[c]
           /\ wanted = {}
           /\ Moves(c, "accessed", "idle")
           /\ m_prefetch_list' = <<>>
           /\ UNCHANGED taken
        \/ /\ m_prefetch_next <= clock[c]
           /\ \E i \in wanted :
                /\ \A j \in wanted : i <= j
                /\ m_prefetch_list' = SubSeq(m_prefetch_list, i + 1, Len(m_prefetch_list))
                /\ taken' = [taken EXCEPT ![c] = m_prefetch_list[i]]
           /\ Moves(c, "accessed", "took")

(* Fault for the mutation runs: the prefetch starts when the access did.   *)
IssueNow(c) ==
  /\ Moves(c, "took", "issued")
  /\ start' = [start EXCEPT ![c] = clock[c]]
  /\ latest' = clock[c]
  /\ UNCHANGED <<resident, queue, clock, taken, trained>>

(* The call of doPrefetch: its start time is read without the lock.        *)
Issue(c) ==
  /\ m_prefetch_next <= MaxTime
  /\ Moves(c, "took", "issued")
  /\ start' = [start EXCEPT ![c] = m_prefetch_next]
  /\ latest' = m_prefetch_next
  /\ UNCHANGED <<resident, queue, clock, taken, trained>>

(* doPrefetch.  When the line is still missing, and the next level does not*)
(* have it either, this access trains the prefetcher like any other.       *)
Fetch(c) ==
  /\ Moves(c, "issued", "fetched")
  /\ \/ UNCHANGED <<queue, history>>
     \/ taken[c] \notin resident /\ Trained(start[c])
  /\ resident' = resident \cup {taken[c]}
  /\ UNCHANGED <<clock, taken, start>>

(* Fault: the next prefetch may start at once.                             *)
ReturnAtOnce(c) ==
  /\ Moves(c, "fetched", "idle")
  /\ taken' = [taken EXCEPT ![c] = NoAddr]
  /\ start' = [start EXCEPT ![c] = 0]
  /\ UNCHANGED <<resident, queue, clock, history>>

(* The atomic addition after doPrefetch.                                   *)
Return(c) ==
  /\ Moves(c, "fetched", "idle")
  /\ m_prefetch_next' = m_prefetch_next + Interval
  /\ taken' = [taken EXCEPT ![c] = NoAddr]
  /\ start' = [start EXCEPT ![c] = 0]
  /\ UNCHANGED <<resident, m_prefetch_list, clock, history>>

(* The cache loses a line for some other reason.                           *)
Evict(a) ==
  /\ a \in resident
  /\ resident' = resident \ {a}
  /\ UNCHANGED <<queue, clock, stage, taken, start, history>>

PrefetchNext ==
  \/ \E c \in Threads :
       Access(c) \/ Take(c) \/ Issue(c) \/ Fetch(c) \/ Return(c)
  \/ \E a \in Addrs : Evict(a)

PrefetchSpec == PrefetchInit /\ [][PrefetchNext]_prefetchVars

-----------------------------------------------------------------------------
(* "Keep at most PREFETCH_MAX_QUEUE_LENGTH entries in the prefetch queue": *)
(* trainPrefetcher compares the length before it appends, so it is one     *)
(* more, but never more than that however many addresses come.             *)
QueueBounded == Len(m_prefetch_list) <= MaxQueue + 1

Starts(c) == stage[c] = "took" /\ stage'[c] = "issued"

(* "Just talked to the next-level cache, wait a bit before we start to     *)
(* prefetch": a prefetch starts an interval or more after the last training*)
(* whichever thread trained, also after the line was taken from the queue. *)
WaitsAfterTraining ==
  [][\A c \in Threads : Starts(c) => start'[c] >= trained + Interval]_prefetchVars

(* "Time between prefetches": a prefetch that starts while no other is     *)
(* under way starts an interval or more after the one before it, unless a  *)
(* training since has set the time afresh.                                 *)
UnderWay(c) == stage[c] \in {"issued", "fetched"}

PrefetchesSpaced ==
  [][\A c \in Threads : Starts(c) /\ (\A d \in Threads : ~UnderWay(d)) =>
       start'[c] >= latest + Interval]_prefetchVars
=============================================================================
