--------------------------- MODULE NucaCache_proofs --------------------------
(***************************************************************************)
(* For any number of lines, values, messages and ways of either cache:     *)
(* first the cache in front of memory alone, where dropping a clean line   *)
(* loses nothing, then the whole memory side, which loses what the caches  *)
(* gave back in two ways only.                                             *)
(***************************************************************************)
EXTENDS NucaCache, TLAPS

Lines == [st : {"SHARED", "MODIFIED"}, data : Values, prefetched : BOOLEAN]

(* What the lemmas say of a cache and a memory s: their types, and that a  *)
(* line a is clean only with the data of memory.                           *)
Typed(s) ==
  /\ s \in [cache : [Addrs -> Lines \cup {Absent}], dram : [Addrs -> Values]]

Faithful(line, data) ==
  /\ line.st = "SHARED" => line.data = data
  /\ line.prefetched => line.st = "SHARED"

Sound(s) ==
  /\ Typed(s)
  /\ \A a \in Addrs : s.cache[a] \in Lines => Faithful(s.cache[a], s.dram[a])

LEMMA AbsentIsNoLine ==
  /\ Absent \notin Lines
  /\ \A line \in Lines : line # Absent
BY DEF Absent, Lines

(* insertLine: writing a victim back leaves the other lines' memory alone. *)
LEMMA InsertLineSound ==
  ASSUME NEW s, Sound(s), NEW a \in Addrs, s.cache[a] = Absent,
         NEW line \in Lines, Faithful(line, s.dram[a]),
         NEW victim \in Victims(s)
  PROVE  Sound(InsertLine(s, a, line, victim))
<1> DEFINE t == InsertLine(s, a, line, victim)
<1>1. victim = NoAddr \/ victim \in Addrs \ {a}
  BY DEF Victims, Cached
<1>2. t.cache \in [Addrs -> Lines \cup {Absent}]
  <2>1. \A b \in Addrs : t.cache[b] \in Lines \cup {Absent}
    BY DEF InsertLine, Sound, Typed
  <2> QED
    BY <2>1 DEF InsertLine
<1>3. /\ t.dram \in [Addrs -> Values]
      /\ \A b \in Addrs \ {victim} : t.dram[b] = s.dram[b]
      /\ t.dram[a] = s.dram[a]
  BY <1>1 DEF InsertLine, WrittenBack, Lines, Sound, Typed
<1>4. ASSUME NEW b \in Addrs, t.cache[b] \in Lines
      PROVE  Faithful(t.cache[b], t.dram[b])
  <2>1. CASE b = a
    <3>1. t.cache[b] = line
      BY <2>1 DEF InsertLine
    <3> QED
      BY <1>3, <2>1, <3>1
  <2>2. CASE b # a
    <3>1. b # victim /\ t.cache[b] = s.cache[b]
      BY <1>4, <2>2, AbsentIsNoLine DEF InsertLine
    <3> QED
      BY <1>3, <1>4, <3>1 DEF Sound
  <2> QED
    BY <2>1, <2>2
<1>5. t = [cache |-> t.cache, dram |-> t.dram]
  BY DEF InsertLine
<1> QED
  BY <1>2, <1>3, <1>4, <1>5 DEF Sound, Typed

(* A prefetched line comes from memory.                                    *)
LEMMA PrefetchSound ==
  ASSUME NEW s, Sound(s), NEW after \in Prefetches(s) \cup {s}
  PROVE  Sound(after)
<1>1. ASSUME NEW p \in Addrs \ Cached(s), NEW victim \in Victims(s),
             after = InsertLine(s, p, Line("SHARED", s.dram[p], TRUE), victim)
      PROVE  Sound(after)
  <2> DEFINE line == Line("SHARED", s.dram[p], TRUE)
  <2>1. line \in Lines /\ Faithful(line, s.dram[p])
    BY DEF Line, Lines, Faithful, Sound, Typed
  <2>2. s.cache[p] = Absent
    BY DEF Cached
  <2> QED
    BY <1>1, <2>1, <2>2, InsertLineSound
<1>2. after = s \/ \E p \in Addrs \ Cached(s), victim \in Victims(s) :
        after = InsertLine(s, p, Line("SHARED", s.dram[p], TRUE), victim)
  BY DEF Prefetches
<1> QED
  BY <1>1, <1>2

LEMMA CommitSound ==
  ASSUME NEW s, Sound(s), NEW trigger, Commit(s, trigger)
  PROVE  Sound(Now)'
<1>1. PICK after \in Prefetches(s) \cup {s} : cache' = after.cache /\ dram' = after.dram
  BY DEF Commit
<1>2. Sound(after)
  BY PrefetchSound
<1>3. after = Now'
  BY <1>1, <1>2 DEF Sound, Typed, Now
<1> QED
  BY <1>2, <1>3

-----------------------------------------------------------------------------
LEMMA InitSound == Init => Sound(Now)
<1> SUFFICES ASSUME Init PROVE Sound(Now)
    OBVIOUS
<1>1. PICK v \in Values : dram = [a \in Addrs |-> v]
  BY DEF Init
<1> QED
  BY <1>1, AbsentIsNoLine DEF Init, Sound, Typed, Now

LEMMA HitSound ==
  ASSUME Sound(Now), NEW a \in Addrs, NEW line \in Lines, Hit(a, line),
         Faithful(line, dram[a])
  PROVE  Sound(Now)'
<1> DEFINE s == [Now EXCEPT !.cache[a] = line]
<1>1. Commit(s, HitTriggers(a))
  BY DEF Hit
<1>2. Sound(s)
  BY DEF Sound, Typed, Now
<1> QED
  BY <1>1, <1>2, CommitSound

LEMMA MissSound ==
  ASSUME Sound(Now), NEW a \in Addrs, NEW line \in Lines, MissAndInsert(a, line),
         Faithful(line, dram[a])
  PROVE  Sound(Now)'
<1>1. PICK victim \in Victims(Now) : Commit(InsertLine(Now, a, line, victim), TRUE)
  BY DEF MissAndInsert
<1>2. Now.cache[a] = Absent /\ Now.dram[a] = dram[a]
  BY DEF MissAndInsert, Now
<1>3. Sound(InsertLine(Now, a, line, victim))
  BY <1>2, InsertLineSound
<1> QED
  BY <1>1, <1>3, CommitSound

LEMMA SoundStep == Sound(Now) /\ [Next]_vars => Sound(Now)'
<1> SUFFICES ASSUME Sound(Now), [Next]_vars PROVE Sound(Now)'
    OBVIOUS
<1>1. /\ cache \in [Addrs -> Lines \cup {Absent}]
      /\ dram \in [Addrs -> Values]
      /\ \A a \in Addrs : cache[a] \in Lines => Faithful(cache[a], dram[a])
  BY DEF Sound, Typed, Now
<1>2. ASSUME NEW a \in Addrs, GetDataFromDram(a) PROVE Sound(Now)'
  <2>1. CASE Hit(a, [cache[a] EXCEPT !.prefetched = FALSE])
    <3> DEFINE line == [cache[a] EXCEPT !.prefetched = FALSE]
    <3>1. cache[a] \in Lines
      BY <1>1, <2>1 DEF Hit
    <3>2. line \in Lines /\ Faithful(line, dram[a])
      BY <1>1, <3>1 DEF Lines, Faithful
    <3> QED
      BY <2>1, <3>2, HitSound
  <2>2. CASE MissAndInsert(a, Line("SHARED", dram[a], FALSE))
    <3>1. /\ Line("SHARED", dram[a], FALSE) \in Lines
          /\ Faithful(Line("SHARED", dram[a], FALSE), dram[a])
      BY <1>1 DEF Line, Lines, Faithful
    <3> QED
      BY <2>2, <3>1, MissSound
  <2> QED
    BY <1>2, <2>1, <2>2 DEF GetDataFromDram
<1>3. ASSUME NEW a \in Addrs, NEW v \in Values, PutDataToDram(a, v)
      PROVE  Sound(Now)'
  <2>1. /\ Line("MODIFIED", v, FALSE) \in Lines
        /\ Faithful(Line("MODIFIED", v, FALSE), dram[a])
    BY DEF Line, Lines, Faithful
  <2> QED
    BY <1>3, <2>1, HitSound, MissSound DEF PutDataToDram
<1>4. CASE UNCHANGED vars
  BY <1>4 DEF vars, Sound, Typed, Now
<1> QED
  BY <1>2, <1>3, <1>4 DEF Next

(* insertLine and doAccess: a line that is evicted without a writeback is  *)
(* in memory as it was in the cache.                                       *)
THEOREM CleanLinesAlwaysMatchMemory == Spec => []CleanLinesMatchMemory
<1>1. Spec => []Sound(Now)
  BY InitSound, SoundStep, PTL DEF Spec
<1>2. Sound(Now) => CleanLinesMatchMemory
  BY DEF Sound, Typed, Now, Cached, Faithful, CleanLinesMatchMemory
<1> QED
  BY <1>1, <1>2, PTL

-----------------------------------------------------------------------------
(* The slice of the NUCA cache above the DRAM cache, and the messages.     *)

Messages == [type : {"DRAM_READ_REQ"}, addr : Addrs]
              \cup [type : {"DRAM_WRITE_REQ"}, addr : Addrs, data : Values]
NucaLines == [st : {"MODIFIED", "INVALID"}, data : Values]

(* The lines of the slice and the messages are what they seem.             *)
NucaTyped ==
  /\ Sound(Now)
  /\ nuca \in [Addrs -> NucaLines \cup {Absent}]
  /\ toDram \in Seq(Messages)
  /\ awaiting \subseteq Addrs
  /\ replies \subseteq [addr : Addrs, data : Values]
  /\ written \in [Addrs -> Values]
  /\ unmarked \subseteq Addrs /\ garbled \subseteq Addrs

-----------------------------------------------------------------------------
(* The queue to memory.                                                    *)
LEMMA TailQueued ==
  ASSUME NEW q \in Seq(Messages), q # <<>>, NEW a
  PROVE  /\ Queued(q, a) <=> Queued(Tail(q), a) \/ IsWriteOf(Head(q), a)
         /\ \A v : NewestQueued(q, a, v) =>
              IF Queued(Tail(q), a) THEN NewestQueued(Tail(q), a, v)
                                    ELSE Head(q) = WriteReq(a, v)
<1>1. /\ Tail(q) \in Seq(Messages)
      /\ DOMAIN q = 1 .. Len(q) /\ DOMAIN Tail(q) = 1 .. Len(q) - 1
      /\ Len(q) \in Nat /\ Len(q) >= 1
      /\ \A i \in DOMAIN Tail(q) : Tail(q)[i] = q[i + 1]
      /\ Head(q) = q[1]
  OBVIOUS
<1>2. \A i \in DOMAIN q : i = 1 \/ (i - 1 \in DOMAIN Tail(q) /\ q[i] = Tail(q)[i - 1])
  BY <1>1
<1>3. \A i \in DOMAIN Tail(q) : i + 1 \in DOMAIN q /\ Tail(q)[i] = q[i + 1]
  BY <1>1
<1>4. Queued(q, a) <=> Queued(Tail(q), a) \/ IsWriteOf(Head(q), a)
  BY <1>1, <1>2, <1>3 DEF Queued
<1>5. ASSUME NEW v, NewestQueued(q, a, v)
      PROVE  IF Queued(Tail(q), a) THEN NewestQueued(Tail(q), a, v)
                                   ELSE Head(q) = WriteReq(a, v)
  <2>1. PICK i \in DOMAIN q : /\ q[i] = WriteReq(a, v)
                              /\ \A j \in DOMAIN q : j > i => ~IsWriteOf(q[j], a)
    BY <1>5 DEF NewestQueued
  <2>2. CASE i = 1
    <3>1. ~Queued(Tail(q), a)
      BY <1>1, <1>3, <2>1, <2>2 DEF Queued
    <3> QED
      BY <1>1, <2>1, <2>2, <3>1
  <2>3. CASE i # 1
    <3>1. i - 1 \in DOMAIN Tail(q) /\ Tail(q)[i - 1] = WriteReq(a, v)
      BY <1>2, <2>1, <2>3
    <3>2. IsWriteOf(WriteReq(a, v), a)
      BY DEF IsWriteOf, WriteReq
    <3>3. \A j \in DOMAIN Tail(q) : j > i - 1 => ~IsWriteOf(Tail(q)[j], a)
      BY <1>1, <1>3, <2>1
    <3> QED
      BY <3>1, <3>2, <3>3 DEF Queued, NewestQueued
  <2> QED
    BY <2>2, <2>3
<1> QED
  BY <1>4, <1>5

LEMMA AppendQueued ==
  ASSUME NEW q \in Seq(Messages), NEW m \in Messages, NEW a
  PROVE  /\ Queued(Append(q, m), a) <=> Queued(q, a) \/ IsWriteOf(m, a)
         /\ \A v : ~IsWriteOf(m, a) /\ NewestQueued(q, a, v) => NewestQueued(Append(q, m), a, v)
         /\ \A v : m = WriteReq(a, v) => NewestQueued(Append(q, m), a, v)
<1>1. /\ Append(q, m) \in Seq(Messages)
      /\ DOMAIN q = 1 .. Len(q) /\ DOMAIN Append(q, m) = 1 .. Len(q) + 1
      /\ Len(q) \in Nat
      /\ \A i \in DOMAIN q : i \in DOMAIN Append(q, m) /\ Append(q, m)[i] = q[i]
      /\ Append(q, m)[Len(q) + 1] = m
  OBVIOUS
<1>2. \A i \in DOMAIN Append(q, m) : i \in DOMAIN q \/ i = Len(q) + 1
  BY <1>1
<1>3. Queued(Append(q, m), a) <=> Queued(q, a) \/ IsWriteOf(m, a)
  BY <1>1, <1>2 DEF Queued
<1>4. ASSUME NEW v, ~IsWriteOf(m, a), NewestQueued(q, a, v)
      PROVE  NewestQueued(Append(q, m), a, v)
  <2>1. PICK i \in DOMAIN q : /\ q[i] = WriteReq(a, v)
                              /\ \A j \in DOMAIN q : j > i => ~IsWriteOf(q[j], a)
    BY <1>4 DEF NewestQueued
  <2>2. \A j \in DOMAIN Append(q, m) : j > i => ~IsWriteOf(Append(q, m)[j], a)
    BY <1>1, <1>2, <1>4, <2>1
  <2> QED
    BY <1>1, <2>1, <2>2 DEF NewestQueued
<1>5. ASSUME NEW v, m = WriteReq(a, v) PROVE NewestQueued(Append(q, m), a, v)
  <2>1. \A j \in DOMAIN Append(q, m) : ~(j > Len(q) + 1)
    BY <1>1
  <2>2. Len(q) + 1 \in DOMAIN Append(q, m)
    BY <1>1
  <2> QED
    BY <1>1, <1>5, <2>1, <2>2 DEF NewestQueued
<1> QED
  BY <1>3, <1>4, <1>5

-----------------------------------------------------------------------------
(* What the DRAM cache and the memory of s together hold of b, and whether *)
(* from s to t neither changes unless a modified line of b is given up.    *)
HoldsIn(s, b) == IF s.cache[b] = Absent THEN s.dram[b] ELSE s.cache[b].data
Dirty(s, b) == s.cache[b].st = "MODIFIED"
SameUnlessGivenUp(s, t, b) == (Dirty(s, b) => Dirty(t, b)) => HoldsIn(t, b) = HoldsIn(s, b)

LEMMA InsertHolds ==
  ASSUME NEW s, Sound(s), NEW a \in Addrs, s.cache[a] = Absent,
         NEW line \in Lines, NEW victim \in Victims(s),
         NEW t, t = InsertLine(s, a, line, victim)
  PROVE  /\ HoldsIn(t, a) = line.data /\ t.cache[a] = line
         /\ \A b \in Addrs \ {a} : SameUnlessGivenUp(s, t, b) /\ (Dirty(t, b) => Dirty(s, b))
<1>1. victim = NoAddr \/ victim \in Addrs \ {a}
  BY DEF Victims, Cached
<1>2. t.cache[a] = line /\ line # Absent
  BY AbsentIsNoLine DEF InsertLine
<1>3. ASSUME NEW b \in Addrs \ {a}
      PROVE  SameUnlessGivenUp(s, t, b) /\ (Dirty(t, b) => Dirty(s, b))
  <2>0. /\ s.dram \in [Addrs -> Values]
        /\ s.cache[b] = Absent \/ s.cache[b] \in Lines
    BY DEF Sound, Typed
  <2>1. CASE b = victim
    <3>1. t.cache[b] = Absent /\ ~Dirty(t, b)
      BY <2>1 DEF InsertLine, Dirty, Absent
    <3>2. ASSUME ~Dirty(s, b) PROVE HoldsIn(t, b) = HoldsIn(s, b)
      <4>1. t.dram[b] = s.dram[b]
        BY <2>0, <2>1, <3>2 DEF InsertLine, Dirty
      <4>2. s.cache[b] = Absent \/ s.cache[b].data = s.dram[b]
        BY <2>0, <3>2 DEF Sound, Faithful, Lines, Dirty
      <4> QED
        BY <3>1, <4>1, <4>2 DEF HoldsIn
    <3> QED
      BY <3>1, <3>2 DEF SameUnlessGivenUp
  <2>2. CASE b # victim
    <3>1. t.cache[b] = s.cache[b] /\ t.dram[b] = s.dram[b]
      BY <2>0, <2>2, <1>1 DEF InsertLine
    <3> QED
      BY <3>1 DEF SameUnlessGivenUp, HoldsIn, Dirty
  <2> QED
    BY <2>1, <2>2
<1> QED
  BY <1>2, <1>3 DEF HoldsIn

LEMMA PrefetchHolds ==
  ASSUME NEW s, Sound(s), NEW after \in Prefetches(s) \cup {s}, NEW b \in Addrs
  PROVE  SameUnlessGivenUp(s, after, b) /\ (Dirty(after, b) => Dirty(s, b))
<1>1. CASE after = s
  BY <1>1 DEF SameUnlessGivenUp
<1>2. ASSUME NEW p \in Addrs \ Cached(s), NEW victim \in Victims(s),
             after = InsertLine(s, p, Line("SHARED", s.dram[p], TRUE), victim)
      PROVE  SameUnlessGivenUp(s, after, b) /\ (Dirty(after, b) => Dirty(s, b))
  <2> DEFINE line == Line("SHARED", s.dram[p], TRUE)
  <2>1. line \in Lines /\ line.data = s.dram[p] /\ line.st = "SHARED"
    BY DEF Line, Lines, Sound, Typed
  <2>2. s.cache[p] = Absent
    BY DEF Cached
  <2>3. after = InsertLine(s, p, line, victim)
    BY <1>2
  <2> HIDE DEF line
  <2>4. /\ HoldsIn(after, p) = line.data /\ after.cache[p] = line
        /\ b # p => SameUnlessGivenUp(s, after, b) /\ (Dirty(after, b) => Dirty(s, b))
    BY <2>1, <2>2, <2>3, InsertHolds
  <2>5. b = p => HoldsIn(after, b) = HoldsIn(s, b) /\ ~Dirty(after, b)
    BY <2>1, <2>2, <2>4 DEF HoldsIn, Dirty
  <2> QED
    BY <2>4, <2>5 DEF SameUnlessGivenUp
<1> QED
  BY <1>1, <1>2 DEF Prefetches

(* One call of the DRAM cache that first turns Now into s.                 *)
LEMMA CommitHolds ==
  ASSUME NEW s, Sound(s), NEW trigger, Commit(s, trigger), NEW b \in Addrs
  PROVE  SameUnlessGivenUp(s, Now', b) /\ (Dirty(Now', b) => Dirty(s, b))
<1>1. PICK after \in Prefetches(s) \cup {s} : cache' = after.cache /\ dram' = after.dram
  BY DEF Commit
<1>2. Sound(after)
  BY PrefetchSound
<1>3. after = Now'
  BY <1>1, <1>2 DEF Sound, Typed, Now
<1> QED
  BY <1>3, PrefetchHolds

NotGivenUp(b) == cache[b].st = "MODIFIED" => cache'[b].st = "MODIFIED"

LEMMA GetHolds ==
  ASSUME Sound(Now), NEW a \in Addrs, GetDataFromDram(a), NEW b \in Addrs, NotGivenUp(b)
  PROVE  MemoryHolds(b)' = MemoryHolds(b)
<1>1. /\ cache \in [Addrs -> Lines \cup {Absent}]
      /\ dram \in [Addrs -> Values]
  BY DEF Sound, Typed, Now
<1>2. /\ MemoryHolds(b) = HoldsIn(Now, b) /\ MemoryHolds(b)' = HoldsIn(Now', b)
      /\ Dirty(Now, b) <=> cache[b].st = "MODIFIED"
      /\ Dirty(Now', b) <=> cache'[b].st = "MODIFIED"
  BY DEF MemoryHolds, HoldsIn, Now, Dirty
<1>3. CASE Hit(a, [cache[a] EXCEPT !.prefetched = FALSE])
  <2> DEFINE line == [cache[a] EXCEPT !.prefetched = FALSE]
             s == [Now EXCEPT !.cache[a] = line]
  <2>1. cache[a] \in Lines
    BY <1>1, <1>3 DEF Hit
  <2>2. line \in Lines /\ line.st = cache[a].st /\ line.data = cache[a].data
    BY <2>1 DEF Lines
  <2>3. Sound(s)
    BY <2>1, <2>2 DEF Sound, Typed, Now, Faithful, Lines
  <2>4. Commit(s, HitTriggers(a))
    BY <1>3 DEF Hit
  <2>5. /\ s.dram = dram /\ s.cache[b] = IF b = a THEN line ELSE cache[b]
    BY <1>1 DEF Now
  <2>6. HoldsIn(s, b) = HoldsIn(Now, b) /\ (Dirty(s, b) <=> Dirty(Now, b))
    <3> HIDE DEF line, s
    <3>1. line # Absent /\ cache[a] # Absent
      BY <2>1, <2>2, AbsentIsNoLine
    <3>2. Now.cache = cache /\ Now.dram = dram
      BY DEF Now
    <3> QED
      BY <2>2, <2>5, <3>1, <3>2 DEF HoldsIn, Dirty
  <2>7. SameUnlessGivenUp(s, Now', b)
    BY <2>3, <2>4, CommitHolds
  <2> QED
    BY <1>2, <2>6, <2>7 DEF SameUnlessGivenUp, NotGivenUp
<1>4. CASE MissAndInsert(a, Line("SHARED", dram[a], FALSE))
  <2> DEFINE line == Line("SHARED", dram[a], FALSE)
  <2>1. line \in Lines /\ Faithful(line, dram[a]) /\ line.data = dram[a] /\ line.st = "SHARED"
    BY <1>1 DEF Line, Lines, Faithful
  <2>2. PICK victim \in Victims(Now) : Commit(InsertLine(Now, a, line, victim), TRUE)
    BY <1>4 DEF MissAndInsert
  <2> DEFINE s == InsertLine(Now, a, line, victim)
  <2>3. Now.cache[a] = Absent /\ Now.dram[a] = dram[a]
    BY <1>4 DEF MissAndInsert, Now
  <2>4. Sound(s)
    BY <2>1, <2>3, InsertLineSound
  <2>5. SameUnlessGivenUp(s, Now', b) /\ (Dirty(Now', b) => Dirty(s, b))
    BY <2>2, <2>4, CommitHolds
  <2>6. SameUnlessGivenUp(Now, s, b) /\ (Dirty(s, b) => Dirty(Now, b))
    <3>1. s = InsertLine(Now, a, line, victim)
      OBVIOUS
    <3> HIDE DEF line, s
    <3>2. /\ HoldsIn(s, a) = line.data /\ s.cache[a] = line
          /\ b # a => SameUnlessGivenUp(Now, s, b) /\ (Dirty(s, b) => Dirty(Now, b))
      BY <2>1, <2>3, <3>1, InsertHolds
    <3>3. b = a => HoldsIn(s, b) = HoldsIn(Now, b) /\ ~Dirty(s, b)
      BY <2>1, <2>3, <3>2 DEF HoldsIn, Dirty
    <3> QED
      BY <3>2, <3>3 DEF SameUnlessGivenUp
  <2> QED
    BY <1>2, <2>5, <2>6 DEF SameUnlessGivenUp, NotGivenUp
<1> QED
  BY <1>3, <1>4 DEF GetDataFromDram

LEMMA PutHolds ==
  ASSUME Sound(Now), NEW a \in Addrs, NEW v \in Values, PutDataToDram(a, v), NEW b \in Addrs
  PROVE  /\ b # a /\ NotGivenUp(b) => MemoryHolds(b)' = MemoryHolds(b)
         /\ b = a /\ cache'[a].st = "MODIFIED" => MemoryHolds(b)' = v
<1> DEFINE line == Line("MODIFIED", v, FALSE)
<1>1. /\ cache \in [Addrs -> Lines \cup {Absent}]
      /\ dram \in [Addrs -> Values]
  BY DEF Sound, Typed, Now
<1>2. /\ MemoryHolds(b) = HoldsIn(Now, b) /\ MemoryHolds(b)' = HoldsIn(Now', b)
      /\ Dirty(Now, b) <=> cache[b].st = "MODIFIED"
      /\ Dirty(Now', b) <=> cache'[b].st = "MODIFIED"
  BY DEF MemoryHolds, HoldsIn, Now, Dirty
<1>3. line \in Lines /\ Faithful(line, dram[a]) /\ line.data = v /\ line.st = "MODIFIED"
  BY DEF Line, Lines, Faithful
<1>4. PICK s : /\ Sound(s) /\ \E trigger : Commit(s, trigger)
               /\ b = a => HoldsIn(s, b) = v /\ Dirty(s, b)
               /\ b # a => SameUnlessGivenUp(Now, s, b) /\ (Dirty(s, b) => Dirty(Now, b))
  <2>1. CASE Hit(a, line)
    <3> DEFINE s == [Now EXCEPT !.cache[a] = line]
    <3>1. Sound(s)
      BY <1>3 DEF Sound, Typed, Now
    <3>2. Commit(s, HitTriggers(a))
      BY <2>1 DEF Hit
    <3>3. s.dram = dram /\ s.cache[b] = IF b = a THEN line ELSE cache[b]
      BY <1>1 DEF Now
    <3>4. b = a => HoldsIn(s, b) = v /\ Dirty(s, b)
      BY <1>3, <3>3, AbsentIsNoLine DEF HoldsIn, Dirty
    <3>5. b # a => HoldsIn(s, b) = HoldsIn(Now, b) /\ (Dirty(s, b) <=> Dirty(Now, b))
      BY <3>3 DEF HoldsIn, Dirty, Now
    <3> QED
      BY <3>1, <3>2, <3>4, <3>5 DEF SameUnlessGivenUp
  <2>2. CASE MissAndInsert(a, line)
    <3>1. PICK victim \in Victims(Now) : Commit(InsertLine(Now, a, line, victim), TRUE)
      BY <2>2 DEF MissAndInsert
    <3> DEFINE s == InsertLine(Now, a, line, victim)
    <3>2. Now.cache[a] = Absent /\ Now.dram[a] = dram[a]
      BY <2>2 DEF MissAndInsert, Now
    <3>3. Sound(s)
      BY <1>3, <3>2, InsertLineSound
    <3>4. s = InsertLine(Now, a, line, victim) /\ Commit(s, TRUE)
      BY <3>1
    <3> HIDE DEF line, s
    <3>5. /\ HoldsIn(s, a) = line.data /\ s.cache[a] = line
          /\ b # a => SameUnlessGivenUp(Now, s, b) /\ (Dirty(s, b) => Dirty(Now, b))
      BY <1>3, <3>2, <3>4, InsertHolds
    <3>6. b = a => HoldsIn(s, b) = v /\ Dirty(s, b)
      BY <1>3, <3>5 DEF Dirty
    <3> QED
      BY <3>3, <3>4, <3>5, <3>6
  <2> QED
    BY <2>1, <2>2 DEF PutDataToDram
<1>5. SameUnlessGivenUp(s, Now', b) /\ (Dirty(Now', b) => Dirty(s, b))
  BY <1>4, CommitHolds
<1> QED
  BY <1>2, <1>4, <1>5 DEF SameUnlessGivenUp, NotGivenUp

-----------------------------------------------------------------------------
(* Reads on their way to memory.                                           *)
ReadQueued(q, a) == \E i \in DOMAIN q : q[i] = ReadReq(a)
ReadIsLast(q, a) ==
  \A i, j \in DOMAIN q :
    q[i] = ReadReq(a) /\ i < j => q[j] # ReadReq(a) /\ ~IsWriteOf(q[j], a)

LEMMA TailReads ==
  ASSUME NEW q \in Seq(Messages), q # <<>>, NEW a, ReadIsLast(q, a)
  PROVE  /\ ReadQueued(Tail(q), a) => ReadQueued(q, a)
         /\ ReadIsLast(Tail(q), a)
         /\ Head(q) = ReadReq(a) =>
              ReadQueued(q, a) /\ ~ReadQueued(Tail(q), a) /\ ~Queued(q, a)
<1>1. /\ DOMAIN q = 1 .. Len(q) /\ DOMAIN Tail(q) = 1 .. Len(q) - 1
      /\ Len(q) \in Nat /\ Len(q) >= 1
      /\ Head(q) = q[1]
      /\ \A i \in DOMAIN Tail(q) : Tail(q)[i] = q[i + 1]
  OBVIOUS
<1>2. \A i \in DOMAIN Tail(q) : i + 1 \in DOMAIN q /\ Tail(q)[i] = q[i + 1]
  BY <1>1
<1>3. ReadQueued(Tail(q), a) => ReadQueued(q, a)
  BY <1>2 DEF ReadQueued
<1>4. ReadIsLast(Tail(q), a)
  <2>1. \A i, j \in DOMAIN Tail(q) : i < j => i + 1 < j + 1
    BY <1>1
  <2> QED
    BY <1>2, <2>1 DEF ReadIsLast
<1>5. ASSUME Head(q) = ReadReq(a)
      PROVE  ReadQueued(q, a) /\ ~ReadQueued(Tail(q), a) /\ ~Queued(q, a)
  <2>1. 1 \in DOMAIN q /\ q[1] = ReadReq(a)
    BY <1>1, <1>5
  <2>2. \A j \in DOMAIN q : j # 1 => q[j] # ReadReq(a) /\ ~IsWriteOf(q[j], a)
    BY <1>1, <2>1 DEF ReadIsLast
  <2>3. ~IsWriteOf(ReadReq(a), a)
    BY DEF IsWriteOf, ReadReq
  <2>4. \A i \in DOMAIN Tail(q) : i + 1 # 1
    BY <1>1
  <2> QED
    BY <1>2, <2>1, <2>2, <2>3, <2>4 DEF ReadQueued, Queued
<1> QED
  BY <1>3, <1>4, <1>5

LEMMA AppendReads ==
  ASSUME NEW q \in Seq(Messages), NEW m \in Messages, NEW a
  PROVE  /\ ReadQueued(Append(q, m), a) <=> ReadQueued(q, a) \/ m = ReadReq(a)
         /\ ReadIsLast(q, a) /\ (ReadQueued(q, a) => m # ReadReq(a) /\ ~IsWriteOf(m, a))
              => ReadIsLast(Append(q, m), a)
<1>1. /\ DOMAIN q = 1 .. Len(q) /\ DOMAIN Append(q, m) = 1 .. Len(q) + 1
      /\ Len(q) \in Nat
      /\ \A i \in DOMAIN q : i \in DOMAIN Append(q, m) /\ Append(q, m)[i] = q[i]
      /\ Append(q, m)[Len(q) + 1] = m
  OBVIOUS
<1>2. \A i \in DOMAIN Append(q, m) : i \in DOMAIN q \/ i = Len(q) + 1
  BY <1>1
<1>3. ReadQueued(Append(q, m), a) <=> ReadQueued(q, a) \/ m = ReadReq(a)
  BY <1>1, <1>2 DEF ReadQueued
<1>4. ASSUME ReadIsLast(q, a), ReadQueued(q, a) => m # ReadReq(a) /\ ~IsWriteOf(m, a),
             NEW i \in DOMAIN Append(q, m), NEW j \in DOMAIN Append(q, m),
             Append(q, m)[i] = ReadReq(a), i < j
      PROVE  Append(q, m)[j] # ReadReq(a) /\ ~IsWriteOf(Append(q, m)[j], a)
  <2>1. i \in DOMAIN q /\ q[i] = ReadReq(a)
    BY <1>1, <1>2, <1>4
  <2>2. CASE j \in DOMAIN q
    BY <1>1, <1>4, <2>1, <2>2 DEF ReadIsLast
  <2>3. CASE j = Len(q) + 1
    BY <1>1, <1>4, <2>1, <2>3 DEF ReadQueued
  <2> QED
    BY <1>2, <2>2, <2>3
<1> QED
  BY <1>3, <1>4 DEF ReadIsLast

-----------------------------------------------------------------------------
(* While a read of a line is under way, the slice does not hold the line,  *)
(* and no write of it follows the read.                                    *)
Awaited(a) ==
  /\ a \in awaiting => a \notin InNuca
  /\ ReadQueued(toDram, a) => a \in awaiting /\ \A r \in replies : r.addr # a
  /\ ReadIsLast(toDram, a)
  /\ \A r \in replies : r.addr = a =>
       /\ a \in awaiting
       /\ ~Queued(toDram, a)
       /\ \A other \in replies : other.addr = a => other = r

(* Where the last write of a line is: marked in the slice, else newest on  *)
(* its way, else in memory and in every copy made of it.                   *)
Kept(a) ==
  /\ nuca[a].st = "MODIFIED" => nuca[a].data = written[a]
  /\ nuca[a].st # "MODIFIED" /\ Queued(toDram, a) =>
       a \notin InNuca /\ NewestQueued(toDram, a, written[a])
  /\ nuca[a].st # "MODIFIED" /\ ~Queued(toDram, a) /\ a \notin garbled =>
       /\ MemoryHolds(a) = written[a]
       /\ a \in InNuca => nuca[a].data = written[a]
       /\ \A r \in replies : r.addr = a => r.data = written[a]

NInv == NucaTyped /\ \A a \in Addrs : Awaited(a) /\ (a \notin unmarked => Kept(a))

LEMMA KeptSuffices == NInv => KeepsLastWrite
<1> SUFFICES ASSUME NInv, NEW a \in Addrs \ unmarked
             PROVE  \/ /\ Finds(a, written[a])
                       /\ \A r \in replies : r.addr = a => r.data = written[a]
                    \/ a \in garbled /\ nuca[a].st # "MODIFIED" /\ ~Queued(toDram, a)
    BY DEF KeepsLastWrite
<1>1. Awaited(a) /\ Kept(a)
  BY DEF NInv
<1>2. nuca[a].st = "MODIFIED" => a \in InNuca
  BY DEF InNuca, Absent
<1> QED
  BY <1>1, <1>2 DEF Awaited, Kept, Finds

LEMMA NucaInitial == NucaInit => NInv
<1> SUFFICES ASSUME NucaInit PROVE NInv
    OBVIOUS
<1>1. Sound(Now)
  BY InitSound DEF NucaInit
<1>2. dram \in [Addrs -> Values] /\ cache = [a \in Addrs |-> Absent]
  BY <1>1 DEF Sound, Typed, Now, NucaInit, Init
<1>3. toDram = <<>> /\ toDram \in Seq(Messages) /\ DOMAIN toDram = {}
  BY DEF NucaInit
<1>4. NucaTyped
  BY <1>1, <1>2, <1>3 DEF NucaInit, NucaTyped
<1>5. ASSUME NEW a \in Addrs PROVE Awaited(a) /\ Kept(a)
  <2>1. nuca[a] = Absent /\ a \notin InNuca /\ nuca[a].st # "MODIFIED"
    BY <1>5 DEF NucaInit, InNuca, Absent
  <2>2. ~Queued(toDram, a) /\ ~ReadQueued(toDram, a) /\ ReadIsLast(toDram, a)
    BY <1>3 DEF Queued, ReadQueued, ReadIsLast
  <2>3. MemoryHolds(a) = written[a] /\ replies = {}
    BY <1>2, <1>5 DEF NucaInit, MemoryHolds
  <2> QED
    BY <2>1, <2>2, <2>3 DEF Awaited, Kept
<1> QED
  BY <1>4, <1>5 DEF NInv

(* What a write of b into the slice does to another line, and to its own.  *)
QueueSame(a) ==
  /\ Queued(toDram', a) <=> Queued(toDram, a)
  /\ \A v : NewestQueued(toDram, a, v) => NewestQueued(toDram', a, v)
  /\ ReadQueued(toDram', a) <=> ReadQueued(toDram, a)
  /\ ReadIsLast(toDram, a) => ReadIsLast(toDram', a)

EvictedTo(a) ==
  /\ nuca'[a] = Absent
  /\ Queued(toDram', a) /\ NewestQueued(toDram', a, nuca[a].data)
  /\ ReadQueued(toDram', a) <=> ReadQueued(toDram, a)
  /\ ReadIsLast(toDram, a) /\ ~ReadQueued(toDram, a) => ReadIsLast(toDram', a)

LEMMA WriteEffect ==
  ASSUME NucaTyped, NEW b \in Addrs, NEW v \in Values, Write(b, v)
  PROVE  /\ nuca' \in [Addrs -> NucaLines \cup {Absent}]
         /\ toDram' \in Seq(Messages)
         /\ nuca'[b] = [st |-> IF b \in InNuca THEN "MODIFIED" ELSE "INVALID", data |-> v]
         /\ QueueSame(b)
         /\ \A a \in Addrs \ {b} :
              \/ QueueSame(a) /\ nuca'[a] = nuca[a]
              \/ QueueSame(a) /\ nuca'[a] = Absent /\ nuca[a].st # "MODIFIED"
              \/ EvictedTo(a) /\ nuca[a].st = "MODIFIED"
<1>1. nuca \in [Addrs -> NucaLines \cup {Absent}] /\ toDram \in Seq(Messages)
  BY DEF NucaTyped
<1>2. CASE NucaHit(b, v)
  <2>1. \A a : QueueSame(a)
    BY <1>2 DEF NucaHit, QueueSame
  <2> QED
    BY <1>1, <1>2, <2>1 DEF NucaHit, NucaLines
<1>3. CASE NucaInsert(b, v)
  <2>1. PICK victim \in InNuca \cup {NoAddr} :
          /\ nuca' = [a \in Addrs |-> IF a = b THEN [st |-> "INVALID", data |-> v]
                                       ELSE IF a = victim THEN Absent ELSE nuca[a]]
          /\ toDram' = IF victim # NoAddr /\ nuca[victim].st = "MODIFIED"
                         THEN Append(toDram, WriteReq(victim, nuca[victim].data))
                         ELSE toDram
    BY <1>3 DEF NucaInsert
  <2>2. b \notin InNuca
    BY <1>3 DEF NucaInsert
  <2>3. nuca' \in [Addrs -> NucaLines \cup {Absent}]
    BY <1>1, <2>1 DEF NucaLines
  <2>4. CASE victim # NoAddr /\ nuca[victim].st = "MODIFIED"
    <3> DEFINE m == WriteReq(victim, nuca[victim].data)
    <3>1. victim \in Addrs /\ victim # b
      BY <2>1, <2>2, <2>4 DEF InNuca
    <3>2. m \in Messages /\ toDram' = Append(toDram, m)
      <4>1. nuca[victim] \in NucaLines
        BY <1>1, <2>4, <3>1 DEF Absent
      <4> QED
        BY <2>1, <2>4, <3>1, <4>1 DEF WriteReq, Messages, NucaLines
    <3>3. \A a : a # victim => ~IsWriteOf(m, a)
      BY DEF IsWriteOf, WriteReq
    <3>4. IsWriteOf(m, victim) /\ \A a : m # ReadReq(a)
      BY DEF IsWriteOf, WriteReq, ReadReq
    <3>5. m = WriteReq(victim, nuca[victim].data)
      OBVIOUS
    <3> HIDE DEF m
    <3>6. \A a : a # victim => QueueSame(a)
      BY <1>1, <3>2, <3>3, <3>4, AppendQueued, AppendReads DEF QueueSame
    <3>7. EvictedTo(victim)
      BY <1>1, <2>1, <3>1, <3>2, <3>4, <3>5, AppendQueued, AppendReads DEF EvictedTo
    <3>8. toDram' \in Seq(Messages)
      BY <1>1, <3>2
    <3> QED
      BY <2>1, <2>2, <2>3, <2>4, <3>1, <3>6, <3>7, <3>8
  <2>5. CASE ~(victim # NoAddr /\ nuca[victim].st = "MODIFIED")
    <3>1. toDram' = toDram
      BY <2>1, <2>5
    <3>2. \A a : QueueSame(a)
      BY <3>1 DEF QueueSame
    <3>3. \A a \in Addrs : a = victim => nuca[a].st # "MODIFIED"
      BY <2>5, NucaAssumption
    <3> QED
      BY <1>1, <2>1, <2>2, <2>3, <3>1, <3>2, <3>3
  <2> QED
    BY <2>4, <2>5
<1> QED
  BY <1>2, <1>3 DEF Write

-----------------------------------------------------------------------------
(* The directory's steps.                                                  *)
LEMMA NowUnchanged ==
  ASSUME UNCHANGED <<cache, dram>>
  PROVE  /\ Sound(Now) => Sound(Now)'
         /\ \A a : MemoryHolds(a)' = MemoryHolds(a)
BY DEF Sound, Typed, Now, MemoryHolds

LEMMA ReadMissStep == ASSUME NInv, NEW b \in Addrs, ReadMiss(b) PROVE NInv'
<1>1. /\ ReadReq(b) \in Messages /\ toDram \in Seq(Messages)
      /\ toDram' = Append(toDram, ReadReq(b))
      /\ \A a : ~IsWriteOf(ReadReq(b), a)
      /\ \A a : a # b => ReadReq(a) # ReadReq(b)
  BY DEF ReadMiss, ReadReq, Messages, IsWriteOf, NInv, NucaTyped
<1>2. UNCHANGED <<cache, dram, nuca, replies, written, unmarked, garbled>> /\ InNuca' = InNuca
  BY DEF ReadMiss, memoryVars, InNuca
<1>3. NucaTyped'
  <2>1. toDram' \in Seq(Messages)
    BY <1>1
  <2> QED
    BY <1>2, <2>1, NowUnchanged DEF NInv, NucaTyped, ReadMiss
<1>4. ASSUME NEW a \in Addrs PROVE Awaited(a)' /\ (a \notin unmarked' => Kept(a)')
  <2>1. Awaited(a) /\ (a \notin unmarked => Kept(a))
    BY DEF NInv
  <2>2. /\ Queued(toDram', a) <=> Queued(toDram, a)
        /\ \A v : NewestQueued(toDram, a, v) => NewestQueued(toDram', a, v)
    BY <1>1, AppendQueued
  <2>3. /\ ReadQueued(toDram', a) <=> ReadQueued(toDram, a) \/ a = b
        /\ ReadIsLast(toDram, a) /\ ~(a = b /\ ReadQueued(toDram, a)) => ReadIsLast(toDram', a)
    BY <1>1, AppendReads
  <2>4. b \notin InNuca /\ b \notin awaiting /\ awaiting' = awaiting \cup {b}
    BY DEF ReadMiss
  <2>5. Awaited(a)'
    BY <1>2, <2>1, <2>2, <2>3, <2>4 DEF Awaited
  <2>6. a \notin unmarked' => Kept(a)'
    BY <1>2, <2>1, <2>2, NowUnchanged DEF Kept
  <2> QED
    BY <2>5, <2>6
<1> QED
  BY <1>3, <1>4 DEF NInv

(* A line other than the one written, whatever was written.                *)
LEMMA OtherLine ==
  ASSUME NInv, NEW b \in Addrs, NEW v \in Values, Write(b, v), NEW a \in Addrs \ {b},
         UNCHANGED <<cache, dram, garbled>>, written'[a] = written[a],
         a \in unmarked' <=> a \in unmarked,
         a \in awaiting' <=> a \in awaiting,
         \A r : r.addr = a => (r \in replies' <=> r \in replies)
  PROVE  Awaited(a)' /\ (a \notin unmarked' => Kept(a)')
<1>1. Awaited(a) /\ (a \notin unmarked => Kept(a))
  BY DEF NInv
<1>2. \/ QueueSame(a) /\ nuca'[a] = nuca[a]
      \/ QueueSame(a) /\ nuca'[a] = Absent /\ nuca[a].st # "MODIFIED"
      \/ EvictedTo(a) /\ nuca[a].st = "MODIFIED"
  BY WriteEffect DEF NInv
<1>3. MemoryHolds(a)' = MemoryHolds(a)
  BY NowUnchanged
<1>4. (a \in InNuca <=> nuca[a] # Absent) /\ (a \in InNuca' <=> nuca'[a] # Absent)
  BY DEF InNuca
<1>5. Absent.st # "MODIFIED" /\ (nuca[a].st = "MODIFIED" => a \in InNuca)
  BY <1>4 DEF Absent
<1>6. ASSUME QueueSame(a), a \in InNuca' => a \in InNuca,
             nuca'[a] = nuca[a] \/ (a \notin InNuca' /\ ~(nuca[a].st = "MODIFIED") /\ ~(nuca'[a].st = "MODIFIED"))
      PROVE  Awaited(a)' /\ (a \notin unmarked' => Kept(a)')
  <2>1. Awaited(a)'
    BY <1>1, <1>6 DEF Awaited, QueueSame
  <2>2. a \notin unmarked' => Kept(a)'
    BY <1>1, <1>3, <1>6 DEF Kept, QueueSame
  <2> QED
    BY <2>1, <2>2
<1>7. CASE EvictedTo(a) /\ nuca[a].st = "MODIFIED"
  <2>1. a \notin awaiting /\ ~ReadQueued(toDram, a) /\ \A r \in replies : r.addr # a
    BY <1>1, <1>5, <1>7 DEF Awaited
  <2>2. Awaited(a)'
    BY <1>1, <1>4, <1>7, <2>1 DEF Awaited, EvictedTo
  <2>3. a \notin unmarked' => Kept(a)'
    BY <1>1, <1>4, <1>5, <1>7 DEF Kept, EvictedTo
  <2> QED
    BY <2>2, <2>3
<1>8. CASE QueueSame(a) /\ nuca'[a] = nuca[a]
  BY <1>4, <1>6, <1>8
<1>9. CASE QueueSame(a) /\ nuca'[a] = Absent /\ nuca[a].st # "MODIFIED"
  BY <1>4, <1>5, <1>6, <1>9
<1> QED
  BY <1>2, <1>7, <1>8, <1>9

LEMMA WriteBackStep ==
  ASSUME NInv, NEW b \in Addrs, NEW v \in Values, WriteBack(b, v) PROVE NInv'
<1>1. /\ Write(b, v) /\ b \notin awaiting
      /\ UNCHANGED <<cache, dram, awaiting, replies, garbled>>
      /\ written' = [written EXCEPT ![b] = v]
      /\ unmarked' = IF b \in InNuca THEN unmarked \ {b} ELSE unmarked \cup {b}
  BY DEF WriteBack, memoryVars
<1>2. /\ nuca' \in [Addrs -> NucaLines \cup {Absent}] /\ toDram' \in Seq(Messages)
      /\ nuca'[b] = [st |-> IF b \in InNuca THEN "MODIFIED" ELSE "INVALID", data |-> v]
      /\ QueueSame(b)
  BY <1>1, WriteEffect DEF NInv
<1>3. NucaTyped'
  BY <1>1, <1>2, NowUnchanged DEF NInv, NucaTyped
<1>4. ASSUME NEW a \in Addrs \ {b} PROVE Awaited(a)' /\ (a \notin unmarked' => Kept(a)')
  <2>1. written'[a] = written[a] /\ (a \in unmarked' <=> a \in unmarked)
    BY <1>1 DEF NInv, NucaTyped
  <2> QED
    BY <1>1, <2>1, OtherLine
<1>5. Awaited(b)'
  BY <1>1, <1>2 DEF NInv, Awaited, QueueSame
<1>6. b \notin unmarked' => Kept(b)'
  <2>1. written'[b] = v
    BY <1>1 DEF NInv, NucaTyped
  <2>2. b \notin unmarked' => nuca'[b].st = "MODIFIED" /\ nuca'[b].data = v
    BY <1>1, <1>2
  <2> QED
    BY <2>1, <2>2 DEF Kept
<1> QED
  BY <1>3, <1>4, <1>5, <1>6 DEF NInv

LEMMA FillStep == ASSUME NInv, NEW r \in replies, Fill(r) PROVE NInv'
<1> DEFINE b == r.addr
           v == r.data
<1>1. /\ Write(b, v)
      /\ UNCHANGED <<cache, dram, written, unmarked, garbled>>
      /\ replies' = replies \ {r} /\ awaiting' = awaiting \ {b}
  BY DEF Fill, memoryVars
<1>2. b \in Addrs /\ v \in Values
  BY DEF NInv, NucaTyped
<1>3. /\ b \in awaiting /\ b \notin InNuca /\ ~Queued(toDram, b)
      /\ ~ReadQueued(toDram, b) /\ ReadIsLast(toDram, b)
      /\ \A other \in replies' : other.addr # b
  BY <1>1, <1>2 DEF NInv, Awaited
<1> HIDE DEF b, v
<1>4. /\ nuca' \in [Addrs -> NucaLines \cup {Absent}] /\ toDram' \in Seq(Messages)
      /\ nuca'[b] = [st |-> "INVALID", data |-> v]
      /\ QueueSame(b)
  BY <1>1, <1>2, <1>3, WriteEffect DEF NInv
<1>5. NucaTyped'
  BY <1>1, <1>4, NowUnchanged DEF NInv, NucaTyped
<1>6. ASSUME NEW a \in Addrs \ {b} PROVE Awaited(a)' /\ (a \notin unmarked' => Kept(a)')
  <2>1. \A other : other.addr = a => (other \in replies' <=> other \in replies)
    BY <1>1 DEF b
  <2> QED
    BY <1>1, <1>2, <2>1, OtherLine
<1>7. Awaited(b)'
  BY <1>1, <1>3, <1>4 DEF Awaited, QueueSame
<1>8. b \notin unmarked' => Kept(b)'
  <2>1. ASSUME b \notin unmarked, b \notin garbled
        PROVE  MemoryHolds(b)' = written[b] /\ v = written[b]
    <3>1. nuca[b].st # "MODIFIED"
      BY <1>2, <1>3 DEF InNuca, Absent
    <3> QED
      BY <1>1, <1>2, <1>3, <2>1, <3>1, NowUnchanged DEF NInv, Kept, b, v
  <2>2. nuca'[b].st # "MODIFIED" /\ nuca'[b].data = v /\ ~Queued(toDram', b)
    BY <1>3, <1>4 DEF QueueSame
  <2> QED
    BY <1>1, <1>3, <2>1, <2>2 DEF Kept
<1> QED
  BY <1>2, <1>5, <1>6, <1>7, <1>8 DEF NInv

-----------------------------------------------------------------------------
(* Memory's steps.                                                         *)
LEMMA HeadOfQueue ==
  ASSUME NInv, toDram # <<>>
  PROVE  /\ Head(toDram) \in Messages /\ Tail(toDram) \in Seq(Messages)
         /\ Head(toDram).type = "DRAM_READ_REQ" =>
              Head(toDram).addr \in Addrs /\ Head(toDram) = ReadReq(Head(toDram).addr)
         /\ Head(toDram).type = "DRAM_WRITE_REQ" =>
              /\ Head(toDram).addr \in Addrs /\ Head(toDram).data \in Values
              /\ Head(toDram) = WriteReq(Head(toDram).addr, Head(toDram).data)
<1>1. toDram \in Seq(Messages)
  BY DEF NInv, NucaTyped
<1>2. Head(toDram) \in Messages /\ Tail(toDram) \in Seq(Messages)
  BY <1>1
<1> QED
  BY <1>2 DEF Messages, ReadReq, WriteReq

LEMMA MemoryReadsStep == ASSUME NInv, MemoryReads PROVE NInv'
<1> DEFINE b == Head(toDram).addr
           r == [addr |-> b, data |-> MemoryHolds(b)]
<1>1. /\ toDram # <<>> /\ Head(toDram).type = "DRAM_READ_REQ"
      /\ GetDataFromDram(b)
      /\ replies' = replies \cup {r}
      /\ garbled' = garbled \cup GivenUp({})
      /\ toDram' = Tail(toDram)
      /\ UNCHANGED <<nuca, awaiting, written, unmarked>>
  BY DEF MemoryReads
<1>2. b \in Addrs /\ Head(toDram) = ReadReq(b) /\ toDram' \in Seq(Messages) /\ toDram \in Seq(Messages)
  BY <1>1, HeadOfQueue DEF NInv, NucaTyped
<1>3. /\ cache \in [Addrs -> Lines \cup {Absent}]
      /\ dram \in [Addrs -> Values]
  BY DEF NInv, NucaTyped, Sound, Typed, Now
<1>4. MemoryHolds(b) \in Values
  BY <1>2, <1>3 DEF MemoryHolds, Lines
<1>5. r.addr = b /\ r.data = MemoryHolds(b) /\ r \in [addr : Addrs, data : Values]
  BY <1>2, <1>4
<1> HIDE DEF b, r
<1>6. Sound(Now)'
  <2>1. Next
    BY <1>1, <1>2 DEF Next
  <2> QED
    BY <2>1, SoundStep DEF NInv, NucaTyped
<1>7. NucaTyped'
  BY <1>1, <1>2, <1>5, <1>6 DEF NInv, NucaTyped, GivenUp
<1>8. ASSUME NEW a \in Addrs PROVE Awaited(a)' /\ (a \notin unmarked' => Kept(a)')
  <2>1. Awaited(a) /\ (a \notin unmarked => Kept(a)) /\ ReadIsLast(toDram, a)
    BY DEF NInv, Awaited
  <2>2. /\ Queued(toDram', a) <=> Queued(toDram, a)
        /\ \A v : NewestQueued(toDram, a, v) => NewestQueued(toDram', a, v)
    <3>1. \A v : ~IsWriteOf(Head(toDram), a) /\ Head(toDram) # WriteReq(a, v)
      BY <1>2 DEF IsWriteOf, ReadReq, WriteReq
    <3> QED
      BY <1>1, <1>2, <3>1, TailQueued
  <2>3. /\ ReadQueued(toDram', a) => ReadQueued(toDram, a)
        /\ ReadIsLast(toDram', a)
        /\ a = b => ReadQueued(toDram, a) /\ ~ReadQueued(toDram', a) /\ ~Queued(toDram, a)
    BY <1>1, <1>2, <2>1, TailReads
  <2>4. /\ a \notin garbled' => a \notin garbled /\ MemoryHolds(a)' = MemoryHolds(a)
        /\ InNuca' = InNuca
    <3>1. a \notin garbled' => a \notin garbled /\ NotGivenUp(a)
      BY <1>1 DEF GivenUp, NotGivenUp
    <3> QED
      BY <1>1, <1>2, <3>1, GetHolds DEF NInv, NucaTyped, InNuca
  <2>5. Awaited(a)'
    BY <1>1, <1>5, <2>1, <2>2, <2>3, <2>4 DEF Awaited
  <2>6. a \notin unmarked' => Kept(a)'
    BY <1>1, <1>5, <2>1, <2>2, <2>3, <2>4 DEF Kept
  <2> QED
    BY <2>5, <2>6
<1> QED
  BY <1>7, <1>8 DEF NInv

LEMMA MemoryWritesStep == ASSUME NInv, MemoryWrites PROVE NInv'
<1> DEFINE b == Head(toDram).addr
           v == Head(toDram).data
<1>1. /\ toDram # <<>> /\ Head(toDram).type = "DRAM_WRITE_REQ"
      /\ PutDataToDram(b, v)
      /\ garbled' = (garbled \ {b}) \cup GivenUp({b})
      /\ toDram' = Tail(toDram)
      /\ UNCHANGED <<nuca, awaiting, replies, written, unmarked>>
  BY DEF MemoryWrites
<1>2. /\ b \in Addrs /\ v \in Values /\ Head(toDram) = WriteReq(b, v)
      /\ toDram' \in Seq(Messages) /\ toDram \in Seq(Messages)
  BY <1>1, HeadOfQueue DEF NInv, NucaTyped
<1> HIDE DEF b, v
<1>3. Sound(Now)'
  <2>1. Next
    BY <1>1, <1>2 DEF Next
  <2> QED
    BY <2>1, SoundStep DEF NInv, NucaTyped
<1>4. NucaTyped'
  BY <1>1, <1>2, <1>3 DEF NInv, NucaTyped, GivenUp
<1>5. ASSUME NEW a \in Addrs PROVE Awaited(a)' /\ (a \notin unmarked' => Kept(a)')
  <2>1. Awaited(a) /\ (a \notin unmarked => Kept(a)) /\ ReadIsLast(toDram, a)
    BY DEF NInv, Awaited
  <2>2. /\ IsWriteOf(Head(toDram), a) <=> a = b
        /\ \A w : Head(toDram) = WriteReq(a, w) => w = v
    BY <1>2 DEF IsWriteOf, WriteReq
  <2>3. /\ Queued(toDram, a) <=> Queued(toDram', a) \/ a = b
        /\ \A w : NewestQueued(toDram, a, w) =>
             IF Queued(toDram', a) THEN NewestQueued(toDram', a, w) ELSE w = v
    BY <1>1, <1>2, <2>2, TailQueued
  <2>4. (ReadQueued(toDram', a) => ReadQueued(toDram, a)) /\ ReadIsLast(toDram', a)
    BY <1>1, <1>2, <2>1, TailReads
  <2>5. InNuca' = InNuca
    BY <1>1 DEF InNuca
  <2>6. a \notin garbled' =>
          /\ a # b => a \notin garbled /\ MemoryHolds(a)' = MemoryHolds(a)
          /\ a = b => MemoryHolds(a)' = v
    <3>1. a \notin garbled' =>
            /\ a # b => a \notin garbled /\ NotGivenUp(a)
            /\ a = b => cache'[b].st = "MODIFIED"
      BY <1>1 DEF GivenUp, NotGivenUp
    <3> QED
      BY <1>1, <1>2, <3>1, PutHolds DEF NInv, NucaTyped
  <2>7. Awaited(a)'
    BY <1>1, <2>1, <2>3, <2>4, <2>5 DEF Awaited
  <2>8. a \notin unmarked' => Kept(a)'
    <3>1. CASE a = b
      <4>1. Queued(toDram, a) /\ \A r \in replies : r.addr # a
        BY <2>1, <2>3, <3>1 DEF Awaited
      <4> QED
        BY <1>1, <2>1, <2>3, <2>5, <2>6, <3>1, <4>1 DEF Kept
    <3>2. CASE a # b
      BY <1>1, <2>1, <2>3, <2>5, <2>6, <3>2 DEF Kept
    <3> QED
      BY <3>1, <3>2
  <2> QED
    BY <2>7, <2>8
<1> QED
  BY <1>4, <1>5 DEF NInv

LEMMA NucaStep == NInv /\ [NucaNext]_nucaVars => NInv'
<1> SUFFICES ASSUME NInv, [NucaNext]_nucaVars PROVE NInv'
    OBVIOUS
<1>1. CASE UNCHANGED nucaVars
  <2>1. UNCHANGED <<cache, dram, nuca, toDram, awaiting, replies, written, unmarked, garbled>>
    BY <1>1 DEF nucaVars, memoryVars
  <2> QED
    BY <2>1 DEF NInv, NucaTyped, Sound, Typed, Now, Awaited, Kept, InNuca, MemoryHolds
<1> QED
  BY <1>1, ReadMissStep, WriteBackStep, FillStep, MemoryReadsStep, MemoryWritesStep
     DEF NucaNext

(* NucaCache::write, insertLine and doAccess: what the caches give back is *)
(* lost only when its write missed the slice, or in the DRAM cache.        *)
THEOREM MemorySideKeepsLastWrite == NucaSpec => []KeepsLastWrite
<1>1. NucaSpec => []NInv
  BY NucaInitial, NucaStep, PTL DEF NucaSpec
<1> QED
  BY <1>1, KeptSuffices, PTL

(* Behind the slice as alone, clean lines of the DRAM cache may be dropped.*)
THEOREM MemorySideCleanLines == NucaSpec => []CleanLinesMatchMemory
<1>1. NucaSpec => []NInv
  BY NucaInitial, NucaStep, PTL DEF NucaSpec
<1>2. NInv => CleanLinesMatchMemory
  BY DEF NInv, NucaTyped, Sound, Typed, Now, Cached, Faithful, CleanLinesMatchMemory
<1> QED
  BY <1>1, <1>2, PTL
=============================================================================
