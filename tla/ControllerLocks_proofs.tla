------------------------ MODULE ControllerLocks_proofs ------------------------
(***************************************************************************)
(* What the locks of the cache controllers protect.  For any cores, sets,  *)
(* block size and accesses: an access is split into lines that cover its   *)
(* bytes, and only who holds a line of an atomic operation while it goes   *)
(* for another can be part of a circular wait for set locks.  For a cache  *)
(* of any threads: a prefetch keeps its distance from the last training    *)
(* although it reads m_prefetch_next after the lock was released, and the  *)
(* queue keeps its limit.  For a cache of one thread: prefetches keep their*)
(* distance from each other.                                               *)
(***************************************************************************)
EXTENDS SetLocks, PrefetchQueue, FiniteSetTheorems, WellFoundedInduction, TLAPS

Request == [address : Nat, size : Nat \ {0}, signal : {"NONE", "LOCK", "UNLOCK"}]

-----------------------------------------------------------------------------
(* Where an access begins and ends, as quotients and remainders.           *)
LEMMA Division ==
  ASSUME NEW n \in Nat
  PROVE  /\ n \div BlockSize \in Nat /\ n % BlockSize \in 0 .. BlockSize - 1
         /\ n = (n \div BlockSize) * BlockSize + (n % BlockSize)
<1>1. BlockSize \in Nat \ {0}
  BY SetLocksAssumption
<1> QED
  BY <1>1

LEMMA Blocks ==
  ASSUME NEW i \in Int, NEW j \in Int, i < j
  PROVE  i * BlockSize + BlockSize <= j * BlockSize
<1>1. BlockSize \in Nat \ {0}
  BY SetLocksAssumption
<1>2. (i + 1) * BlockSize <= j * BlockSize
  BY <1>1
<1> QED
  BY <1>1, <1>2

Ends(a, f, e, r, q) ==
  /\ f = FirstLine(a) /\ e = EndLine(a) /\ f \in Nat /\ e \in Nat /\ f <= e
  /\ r = a.address % BlockSize /\ q = (a.address + a.size) % BlockSize
  /\ r \in 0 .. BlockSize - 1 /\ q \in 0 .. BlockSize - 1
  /\ a.address = f * BlockSize + r /\ a.address + a.size = e * BlockSize + q
  /\ f = e => q > r
LEMMA AccessEnds ==
  ASSUME NEW a \in Request
  PROVE  Ends(a, FirstLine(a), EndLine(a), a.address % BlockSize, (a.address + a.size) % BlockSize)
<1> DEFINE m == a.address
           n == a.address + a.size
           f == FirstLine(a)
           e == EndLine(a)
           r == m % BlockSize
           q == n % BlockSize
<1>1. m \in Nat /\ n \in Nat /\ m < n
  BY DEF Request
<1>2. f = m \div BlockSize /\ e = n \div BlockSize
  BY DEF FirstLine, EndLine
<1> HIDE DEF m, n, f, e
<1>3. f \in Nat /\ r \in 0 .. BlockSize - 1 /\ m = f * BlockSize + r
  BY <1>1, <1>2, Division
<1>4. e \in Nat /\ q \in 0 .. BlockSize - 1 /\ n = e * BlockSize + q
  BY <1>1, <1>2, Division
<1>5. BlockSize \in Nat \ {0}
  BY SetLocksAssumption
<1> HIDE DEF r, q
<1>6. f <= e
  <2> SUFFICES ASSUME e < f PROVE FALSE
    BY <1>3, <1>4
  <2> DEFINE x == e * BlockSize
             y == f * BlockSize
  <2>1. x + BlockSize <= y
    BY <1>3, <1>4, Blocks
  <2>2. x \in Int /\ y \in Int
    BY <1>3, <1>4, <1>5
  <2> HIDE DEF x, y
  <2> QED
    BY <1>1, <1>3, <1>4, <1>5, <2>1, <2>2 DEF x, y
<1>7. f = e => q > r
  BY <1>1, <1>3, <1>4, <1>5
<1> QED
  BY <1>3, <1>4, <1>6, <1>7 DEF Ends, m, n, f, e, r, q

(* The lines of an access are an interval that begins with the first.      *)
LEMMA LinesAreConsecutive ==
  ASSUME NEW a \in Request
  PROVE  /\ Lines(a) \subseteq Nat /\ IsFiniteSet(Lines(a))
         /\ FirstLine(a) \in Lines(a) /\ \A l \in Lines(a) : FirstLine(a) <= l
         /\ \A l \in Lines(a) : \A k \in FirstLine(a) .. l : k \in Lines(a)
<1> DEFINE f == FirstLine(a)
           e == EndLine(a)
           r == a.address % BlockSize
           q == (a.address + a.size) % BlockSize
<1>1. Ends(a, f, e, r, q)
  BY AccessEnds
<1>2. \A l : Size(a, l) = IF l = e THEN q - (IF l = f THEN r ELSE 0)
                                   ELSE BlockSize - (IF l = f THEN r ELSE 0)
  BY DEF Size, Offset
<1>3. Lines(a) = {l \in f .. e : Size(a, l) # 0}
  BY DEF Lines
<1>4. BlockSize \in Nat \ {0}
  BY SetLocksAssumption
<1> HIDE DEF f, e, r, q
<1>5. /\ f \in Nat /\ e \in Nat /\ f <= e /\ (f = e => q > r)
      /\ r \in 0 .. BlockSize - 1 /\ q \in 0 .. BlockSize - 1
  BY <1>1 DEF Ends
<1>6. \A l \in f .. e : l # e => Size(a, l) # 0
  BY <1>2, <1>4, <1>5
<1>7. Size(a, f) # 0
  BY <1>2, <1>4, <1>5
<1>8. Lines(a) \subseteq f .. e
  BY <1>3
<1>9. IsFiniteSet(Lines(a))
  <2>1. IsFiniteSet(f .. e)
    BY <1>5, FS_Interval
  <2> QED
    BY <1>8, <2>1, FS_Subset
<1>10. \A l \in Lines(a) : \A k \in f .. l : k \in Lines(a)
  BY <1>3, <1>5, <1>6
<1> QED
  BY <1>3, <1>5, <1>7, <1>8, <1>9, <1>10 DEF f

(* No byte before the access or behind it is in one of its lines, and each *)
(* byte of the access is in the line it falls in.                          *)
LEMMA LinesCoverBytes ==
  ASSUME NEW a \in Request
  PROVE  UNION {BytesOf(a, l) : l \in Lines(a)} = a.address .. a.address + a.size - 1
<1> DEFINE f == FirstLine(a)
           e == EndLine(a)
           r == a.address % BlockSize
           q == (a.address + a.size) % BlockSize
           m == a.address
           n == a.address + a.size
           begin(l) == l * BlockSize
           offset(l) == IF l = f THEN r ELSE 0
           size(l) == IF l = e THEN q - offset(l) ELSE BlockSize - offset(l)
<1>1. Ends(a, f, e, r, q)
  BY AccessEnds
<1>2. /\ f \in Nat /\ e \in Nat /\ f <= e /\ (f = e => q > r)
      /\ r \in 0 .. BlockSize - 1 /\ q \in 0 .. BlockSize - 1
      /\ m = begin(f) + r /\ n = begin(e) + q
  BY <1>1 DEF Ends
<1>3. BlockSize \in Nat \ {0} /\ m \in Nat /\ n \in Nat
  BY SetLocksAssumption DEF Request
<1>4. \A l \in Nat : begin(l) \in Nat
  BY <1>3
<1>5. \A i, j \in Nat : i < j => begin(i) + BlockSize <= begin(j)
  BY Blocks
<1>6. a.address .. a.address + a.size - 1 = m .. n - 1
  BY DEF Request
<1>10. \A l : Offset(a, l) = offset(l)
  BY DEF Offset
<1>11. \A l : Size(a, l) = size(l)
  BY <1>10 DEF Size
<1> HIDE DEF offset, size, begin
<1>12. \A l : BytesOf(a, l) = begin(l) + offset(l) .. begin(l) + offset(l) + size(l) - 1
  BY <1>10, <1>11 DEF BytesOf, begin
<1>13. Lines(a) = {l \in f .. e : size(l) # 0}
  BY <1>11 DEF Lines
<1> HIDE DEF f, e, r, q, m, n
<1> USE DEF offset, size
<1>7. ASSUME NEW l \in Lines(a), NEW x \in BytesOf(a, l)
      PROVE  x \in m .. n - 1
  <2>1. l \in f .. e /\ l \in Nat /\ begin(l) \in Nat
    BY <1>2, <1>4, <1>13
  <2>2. x \in Int /\ begin(l) + offset(l) <= x /\ x < begin(l) + offset(l) + size(l)
    <3> DEFINE from == begin(l) + offset(l)
               width == size(l)
    <3>1. from \in Int /\ width \in Int
      BY <1>2, <1>3, <2>1
    <3>2. x \in from .. from + width - 1
      <4> HIDE DEF offset, size
      <4> QED
        BY <1>12
    <3> HIDE DEF from, width
    <3>3. x \in Int /\ from <= x /\ x < from + width
      BY <3>1, <3>2
    <3> QED
      BY <3>3 DEF from, width
  <2>3. m <= x
    <3>1. CASE l = f
      BY <1>2, <1>3, <2>2, <3>1
    <3>2. CASE l # f
      <4>1. begin(f) + BlockSize <= begin(l) /\ begin(f) \in Nat
        BY <1>2, <1>4, <1>5, <2>1, <3>2
      <4> QED
        BY <1>2, <1>3, <2>1, <2>2, <3>2, <4>1
    <3> QED
      BY <3>1, <3>2
  <2>4. x < n
    <3>1. CASE l = e
      BY <1>2, <1>3, <2>1, <2>2, <3>1
    <3>2. CASE l # e
      <4>1. begin(l) + BlockSize <= begin(e) /\ begin(e) \in Nat
        BY <1>2, <1>4, <1>5, <2>1, <3>2
      <4> QED
        BY <1>2, <1>3, <2>1, <2>2, <3>2, <4>1
    <3> QED
      BY <3>1, <3>2
  <2> QED
    BY <1>3, <2>2, <2>3, <2>4
<1>8. ASSUME NEW x \in m .. n - 1
      PROVE  \E l \in Lines(a) : x \in BytesOf(a, l)
  <2> DEFINE l == x \div BlockSize
             k == x % BlockSize
  <2>1. x \in Nat
    BY <1>3
  <2>2. l \in Nat /\ k \in 0 .. BlockSize - 1 /\ x = begin(l) + k /\ begin(l) \in Nat
    BY <1>4, <2>1, Division DEF begin
  <2> HIDE DEF l, k
  <2>3. begin(f) \in Nat /\ begin(e) \in Nat
    BY <1>2, <1>4
  <2>4. f <= l
    <3>1. l < f => begin(l) + BlockSize <= begin(f)
      BY <1>2, <1>5, <2>2
    <3> QED
      BY <1>2, <1>3, <2>2, <2>3, <3>1
  <2>5. l <= e
    <3>1. e < l => begin(e) + BlockSize <= begin(l)
      BY <1>2, <1>5, <2>2
    <3> QED
      BY <1>2, <1>3, <2>2, <2>3, <3>1
  <2>6. (l = f => r <= k) /\ (l = e => k < q)
    BY <1>2, <1>3, <2>2, <2>3
  <2>7. size(l) # 0
    BY <1>2, <1>3, <2>2, <2>6
  <2>8. x \in begin(l) + offset(l) .. begin(l) + offset(l) + size(l) - 1
    BY <1>2, <1>3, <2>2, <2>6
  <2> QED
    <3>1. l \in f .. e
      BY <1>2, <2>2, <2>4, <2>5
    <3> HIDE DEF offset, size
    <3> QED
      BY <1>12, <1>13, <2>7, <2>8, <3>1
<1>9. \A x : x \in UNION {BytesOf(a, l) : l \in Lines(a)} <=> x \in m .. n - 1
  BY <1>7, <1>8
<1> QED
  BY <1>6, <1>9

-----------------------------------------------------------------------------
(* Of an access by a core that does p and is at line n, the lines whose    *)
(* locks it keeps.  Without LOCK it is the one it works on; the first half *)
(* of an atomic operation takes them one after the other and the second    *)
(* half gives them back in the same order.                                 *)
States ==
  {"idle", "acquire", "access", "upgrade", "fill", "answer", "filled", "complete",
   "prefetch", "prefetching", "over"}
SecondHalf == {"access", "prefetch", "prefetching", "over"}

Kept(p, a, n) ==
  {l \in Lines(a) :
     \/ a.signal = "NONE" /\ l = n /\ p \in {"access", "complete"}
     \/ a.signal = "LOCK" /\ (l < n \/ (l = n /\ p \in {"access", "complete", "over"}))
     \/ a.signal = "UNLOCK" /\ (n < l \/ (l = n /\ p = "access"))}

Located(p, a, n) ==
  p # "idle" => /\ a \in Request /\ n \in Lines(a)
                /\ a.signal = "UNLOCK" => p \in SecondHalf
                /\ a.signal = "LOCK" => p \notin {"prefetch", "prefetching"}

(* What a core holds fits what it does: mine and sole are the sets it      *)
(* holds shared and exclusive.                                             *)
Owns(p, a, n, mine, sole) ==
  /\ Located(p, a, n)
  /\ mine # {} => p # "idle"
  /\ \A s \in mine : \E l \in Kept(p, a, n) : s = SetOf(l)
  /\ \A s \in sole : p \in {"fill", "filled"} /\ s = SetOf(n)

SharedBy(c) == {s \in SetIds : c \in shared[s]}
ExclusiveOf(c) == {s \in SetIds : exclusive[s] = c}
LocksTyped ==
  /\ pc \in [Cores -> States]
  /\ access \in [Cores -> Request \cup {None}]
  /\ line \in [Cores -> Nat]
  /\ ahead \in [Cores -> SetIds]
  /\ shared \in [SetIds -> SUBSET Cores]
  /\ exclusive \in [SetIds -> Cores \cup {None}]
LocksInv ==
  LocksTyped /\ \A c \in Cores : Owns(pc[c], access[c], line[c], SharedBy(c), ExclusiveOf(c))

-----------------------------------------------------------------------------
(* A core that waits and does not hold a line for a second one has none.   *)
LEMMA WaitingEmpty ==
  ASSUME LocksInv, NEW c \in Cores, NEW s \in SetIds, c \in Holders(s), WaitsFor(c) # {}
  PROVE  HoldsSeveralLines(c)
<1> DEFINE p == pc[c]
           a == access[c]
           n == line[c]
<1>1. /\ Owns(p, a, n, SharedBy(c), ExclusiveOf(c))
      /\ p \in {"acquire", "upgrade", "answer", "prefetching"}
  BY DEF LocksInv, WaitsFor
<1>2. c \in shared[s]
  <2>1. s \notin ExclusiveOf(c)
    BY <1>1 DEF Owns
  <2> QED
    BY <2>1 DEF Holders, ExclusiveOf
<1>3. s \in SharedBy(c)
  BY <1>2 DEF SharedBy
<1>4. PICK l \in Kept(p, a, n) : s = SetOf(l)
  BY <1>1, <1>3 DEF Owns
<1>5. a \in Request /\ n \in Lines(a)
  BY <1>1 DEF Owns, Located
<1>6. l \in Lines(a) /\ a.signal # "NONE" /\ l # n
  <2>1. Lines(a) \subseteq Nat
    BY <1>5, LinesAreConsecutive
  <2> QED
    BY <1>1, <1>4, <1>5, <2>1 DEF Kept
<1>7. Cardinality(Lines(a)) > 1
  <2> DEFINE S == Lines(a)
  <2>1. IsFiniteSet(S)
    BY <1>5, LinesAreConsecutive
  <2> HIDE DEF S
  <2>2. {l, n} \subseteq S /\ l # n
    BY <1>5, <1>6 DEF S
  <2>3. IsFiniteSet({l}) /\ Cardinality({l}) = 1
    BY FS_Singleton
  <2>4. Cardinality({l} \cup {n}) = 2
    <3> DEFINE T == {l}
    <3>1. n \notin T /\ IsFiniteSet(T) /\ Cardinality(T) = 1
      BY <2>2, <2>3
    <3> HIDE DEF T
    <3>2. Cardinality(T \cup {n}) = Cardinality(T) + 1
      BY <3>1, FS_AddElement
    <3> QED
      BY <3>1, <3>2 DEF T
  <2>5. {l} \cup {n} \in SUBSET S
    BY <2>2
  <2>6. Cardinality({l} \cup {n}) <= Cardinality(S) /\ Cardinality(S) \in Nat
    BY <2>1, <2>5, FS_Subset, FS_CardinalityType
  <2> QED
    BY <2>4, <2>6 DEF S
<1> QED
  BY <1>1, <1>6, <1>7 DEF HoldsSeveralLines

LEMMA NoCircle ==
  ASSUME LocksInv
  PROVE  NoCircularWait
<1>1. SUFFICES ASSUME NEW D \in SUBSET Cores, D # {}, \A c \in D : WaitsFor(c) \cap D # {}
               PROVE  \E c \in D : HoldsSeveralLines(c)
  BY DEF NoCircularWait
<1>2. PICK c \in D : TRUE
  BY <1>1
<1>3. PICK d \in D : d \in WaitsFor(c)
  BY <1>1
<1>4. \E s \in SetIds : d \in Holders(s)
  <2>1. /\ Located(pc[c], access[c], line[c]) /\ ahead[c] \in SetIds /\ line[c] \in Nat
        /\ pc[c] \in {"acquire", "upgrade", "answer", "prefetching"}
    BY <1>3 DEF LocksInv, LocksTyped, Owns, WaitsFor
  <2>2. SetOf(line[c]) \in SetIds
    BY <2>1, SetLocksAssumption DEF SetOf, SetIds
  <2>3. d \in Holders(SetOf(line[c])) \/ d \in Holders(ahead[c])
    BY <1>3, <2>1 DEF WaitsFor, Holders
  <2> QED
    BY <2>1, <2>2, <2>3
<1>5. WaitsFor(d) # {}
  BY <1>1
<1>6. HoldsSeveralLines(d)
  BY <1>4, <1>5, WaitingEmpty
<1> QED
  BY <1>6

-----------------------------------------------------------------------------
(* What taking and giving back a lock does to the sets of each core.       *)
SharedAs(c, mine) ==
  /\ shared' \in [SetIds -> SUBSET Cores] /\ SharedBy(c)' = mine
  /\ \A d \in Cores : d # c => SharedBy(d)' = SharedBy(d)
ExclusiveAs(c, sole) ==
  /\ exclusive' \in [SetIds -> Cores \cup {None}] /\ ExclusiveOf(c)' = sole
  /\ \A d \in Cores : d # c => ExclusiveOf(d)' \subseteq ExclusiveOf(d)

LEMMA SharedSame ==
  ASSUME LocksTyped, NEW c \in Cores, UNCHANGED shared
  PROVE  SharedAs(c, SharedBy(c))
BY DEF LocksTyped, SharedAs, SharedBy

LEMMA SharedJoined ==
  ASSUME LocksTyped, NEW c \in Cores, NEW s \in SetIds,
         shared' = [shared EXCEPT ![s] = @ \cup {c}]
  PROVE  SharedAs(c, SharedBy(c) \cup {s})
<1>1. \A t \in SetIds : shared'[t] = IF t = s THEN shared[t] \cup {c} ELSE shared[t]
  BY DEF LocksTyped
<1>2. shared' \in [SetIds -> SUBSET Cores]
  BY DEF LocksTyped
<1> QED
  BY <1>1, <1>2 DEF SharedAs, SharedBy

LEMMA SharedLeft ==
  ASSUME LocksTyped, NEW c \in Cores, NEW s \in SetIds,
         shared' = [shared EXCEPT ![s] = @ \ {c}]
  PROVE  SharedAs(c, SharedBy(c) \ {s})
<1>1. \A t \in SetIds : shared'[t] = IF t = s THEN shared[t] \ {c} ELSE shared[t]
  BY DEF LocksTyped
<1>2. shared' \in [SetIds -> SUBSET Cores]
  BY DEF LocksTyped
<1> QED
  BY <1>1, <1>2 DEF SharedAs, SharedBy

LEMMA ExclusiveSame ==
  ASSUME LocksTyped, NEW c \in Cores, UNCHANGED exclusive
  PROVE  ExclusiveAs(c, ExclusiveOf(c))
BY DEF LocksTyped, ExclusiveAs, ExclusiveOf

LEMMA ExclusiveTaken ==
  ASSUME LocksTyped, NEW c \in Cores, NEW s \in SetIds, exclusive[s] = None,
         exclusive' = [exclusive EXCEPT ![s] = c]
  PROVE  ExclusiveAs(c, ExclusiveOf(c) \cup {s})
<1>1. \A t \in SetIds : exclusive'[t] = IF t = s THEN c ELSE exclusive[t]
  BY DEF LocksTyped
<1>2. exclusive' \in [SetIds -> Cores \cup {None}]
  BY DEF LocksTyped
<1> QED
  BY <1>1, <1>2 DEF ExclusiveAs, ExclusiveOf

LEMMA ExclusiveFreed ==
  ASSUME LocksTyped, NEW c \in Cores, NEW s \in SetIds,
         exclusive' = [exclusive EXCEPT ![s] = None]
  PROVE  ExclusiveAs(c, ExclusiveOf(c) \ {s})
<1>1. \A t \in SetIds : exclusive'[t] = IF t = s THEN None ELSE exclusive[t]
  BY DEF LocksTyped
<1>2. exclusive' \in [SetIds -> Cores \cup {None}]
  BY DEF LocksTyped
<1>3. None \notin Cores
  BY SetLocksAssumption
<1> QED
  BY <1>1, <1>2, <1>3 DEF ExclusiveAs, ExclusiveOf

(* A step of core c, which leaves the others what they have.               *)
LEMMA StepOf ==
  ASSUME LocksInv, NEW c \in Cores, NEW p \in States, NEW a \in Request \cup {None},
         NEW n \in Nat, NEW mine, NEW sole,
         pc' = [pc EXCEPT ![c] = p], access' = [access EXCEPT ![c] = a],
         line' = [line EXCEPT ![c] = n], ahead' \in [Cores -> SetIds],
         SharedAs(c, mine), ExclusiveAs(c, sole), Owns(p, a, n, mine, sole)
  PROVE  LocksInv'
<1>1. LocksTyped
  BY DEF LocksInv
<1>2. /\ pc'[c] = p /\ access'[c] = a /\ line'[c] = n
      /\ \A d \in Cores : d # c => pc'[d] = pc[d] /\ access'[d] = access[d] /\ line'[d] = line[d]
  BY <1>1 DEF LocksTyped
<1>3. LocksTyped'
  BY <1>1 DEF LocksTyped, SharedAs, ExclusiveAs
<1>4. ASSUME NEW d \in Cores
      PROVE  Owns(pc'[d], access'[d], line'[d], SharedBy(d)', ExclusiveOf(d)')
  <2>1. CASE d = c
    BY <1>2, <2>1 DEF SharedAs, ExclusiveAs
  <2>2. CASE d # c
    <3>1. Owns(pc[d], access[d], line[d], SharedBy(d), ExclusiveOf(d))
      BY DEF LocksInv
    <3>2. SharedBy(d)' = SharedBy(d) /\ ExclusiveOf(d)' \subseteq ExclusiveOf(d)
      BY <2>2 DEF SharedAs, ExclusiveAs
    <3>3. Owns(pc[d], access[d], line[d], SharedBy(d)', ExclusiveOf(d)')
      BY <3>1, <3>2 DEF Owns
    <3> QED
      BY <1>2, <2>2, <3>3
  <2> QED
    BY <2>1, <2>2
<1> QED
  BY <1>3, <1>4 DEF LocksInv

LEMMA Actor ==
  ASSUME LocksInv, NEW c \in Cores
  PROVE  /\ LocksTyped /\ Owns(pc[c], access[c], line[c], SharedBy(c), ExclusiveOf(c))
         /\ line[c] \in Nat /\ SetOf(line[c]) \in SetIds
         /\ access[c] \in Request \cup {None}
         /\ pc[c] # "idle" => access[c] \in Request /\ line[c] \in Lines(access[c])
<1>1. LocksTyped /\ line[c] \in Nat
  BY DEF LocksInv, LocksTyped
<1>2. SetOf(line[c]) \in SetIds
  BY <1>1, SetLocksAssumption DEF SetOf, SetIds
<1> QED
  BY <1>1, <1>2 DEF LocksInv, LocksTyped, Owns, Located

(* What a core owns as it goes from one state to another.                  *)
LEMMA BeginOwns ==
  ASSUME NEW b, NEW n, NEW mine, NEW sole, Owns("idle", b, n, mine, sole),
         NEW a \in Request, a.signal # "UNLOCK"
  PROVE  Owns("acquire", a, FirstLine(a), mine, sole)
<1>1. mine = {} /\ sole = {}
  BY DEF Owns
<1>2. FirstLine(a) \in Lines(a)
  BY LinesAreConsecutive
<1> QED
  BY <1>1, <1>2 DEF Owns, Located

LEMMA NextLineOwns ==
  ASSUME NEW a, NEW n, NEW mine, NEW sole, Owns("over", a, n, mine, sole),
         ~(\A l \in Lines(a) : l <= n)
  PROVE  Owns(IF a.signal = "UNLOCK" THEN "access" ELSE "acquire", a, n + 1, mine, sole)
<1> DEFINE p == IF a.signal = "UNLOCK" THEN "access" ELSE "acquire"
<1>1. a \in Request /\ n \in Lines(a) /\ sole = {}
  BY DEF Owns, Located
<1>2. /\ Lines(a) \subseteq Nat /\ FirstLine(a) \in Lines(a) /\ FirstLine(a) <= n
      /\ \A l \in Lines(a) : \A k \in FirstLine(a) .. l : k \in Lines(a)
  BY <1>1, LinesAreConsecutive
<1>3. PICK l \in Lines(a) : ~(l <= n)
  OBVIOUS
<1>4. n + 1 \in FirstLine(a) .. l
  <2>1. n \in Nat /\ l \in Nat /\ FirstLine(a) \in Nat
    BY <1>1, <1>2
  <2> QED
    BY <1>2, <1>3, <2>1
<1>5. n + 1 \in Lines(a) /\ n \in Nat
  BY <1>1, <1>2, <1>4
<1>6. Located(p, a, n + 1) /\ p # "idle"
  BY <1>1, <1>5 DEF Located, SecondHalf
<1>7. Kept("over", a, n) \subseteq Kept(p, a, n + 1)
  BY <1>2, <1>5 DEF Kept
<1> QED
  BY <1>1, <1>6, <1>7 DEF Owns

LEMMA SecondHalfOwns ==
  ASSUME NEW a, NEW n, NEW mine, NEW sole, Owns("over", a, n, mine, sole),
         a.signal = "LOCK", NEW b, b = [a EXCEPT !.signal = "UNLOCK"]
  PROVE  Owns("access", b, FirstLine(a), mine, sole) /\ b \in Request
<1>1. a \in Request /\ n \in Lines(a) /\ sole = {}
  BY DEF Owns, Located
<1>2. b \in Request /\ b.signal = "UNLOCK" /\ b.address = a.address /\ b.size = a.size
  BY <1>1 DEF Request
<1>3. FirstLine(b) = FirstLine(a) /\ Lines(b) = Lines(a)
  BY <1>2 DEF Lines, Size, Offset, FirstLine, EndLine
<1>4. /\ Lines(a) \subseteq Nat /\ FirstLine(a) \in Lines(a)
      /\ \A l \in Lines(a) : FirstLine(a) <= l
  BY <1>1, LinesAreConsecutive
<1>5. Located("access", b, FirstLine(a))
  BY <1>2, <1>3, <1>4 DEF Located, SecondHalf
<1>6. Kept("over", a, n) \subseteq Kept("access", b, FirstLine(a))
  BY <1>2, <1>3, <1>4 DEF Kept
<1> QED
  BY <1>1, <1>2, <1>5, <1>6 DEF Owns

LEMMA EndOwns ==
  ASSUME NEW a, NEW n, NEW mine, NEW sole, Owns("over", a, n, mine, sole),
         a.signal # "LOCK", \A l \in Lines(a) : l <= n
  PROVE  Owns("idle", None, 0, mine, sole)
<1>1. a \in Request /\ n \in Lines(a) /\ sole = {} /\ Lines(a) \subseteq Nat
  BY LinesAreConsecutive DEF Owns, Located
<1>2. Kept("over", a, n) = {}
  BY <1>1 DEF Kept
<1> QED
  BY <1>1, <1>2 DEF Owns, Located

(* An access goes on with its line: it takes a lock, gives one back, or    *)
(* neither.                                                                *)
LEMMA LineOwns ==
  ASSUME NEW p, NEW a, NEW n, NEW mine, NEW sole, Owns(p, a, n, mine, sole), p # "idle",
         NEW q, q # "idle",
         a.signal = "UNLOCK" => q \in SecondHalf,
         a.signal = "LOCK" => q \notin {"prefetch", "prefetching"},
         NEW mine2, NEW sole2,
         \A s \in sole2 : q \in {"fill", "filled"} /\ s = SetOf(n),
         \A s \in mine2 : (s = SetOf(n) /\ n \in Kept(q, a, n))
                            \/ (s \in mine /\ (n \in Kept(p, a, n) /\ s = SetOf(n)
                                                 => n \in Kept(q, a, n)))
  PROVE  Owns(q, a, n, mine2, sole2)
<1>1. a \in Request /\ n \in Lines(a) /\ Lines(a) \subseteq Nat
  BY LinesAreConsecutive DEF Owns, Located
<1>2. Located(q, a, n)
  BY <1>1 DEF Owns, Located
<1>3. ASSUME NEW l \in Kept(p, a, n), l # n PROVE l \in Kept(q, a, n)
  BY <1>1, <1>3 DEF Kept
<1>4. ASSUME NEW s \in mine2 PROVE \E l \in Kept(q, a, n) : s = SetOf(l)
  <2>1. CASE s = SetOf(n) /\ n \in Kept(q, a, n)
    BY <2>1
  <2>2. CASE s \in mine /\ (n \in Kept(p, a, n) /\ s = SetOf(n) => n \in Kept(q, a, n))
    <3>1. PICK l \in Kept(p, a, n) : s = SetOf(l)
      BY <2>2 DEF Owns
    <3> QED
      BY <1>3, <2>2, <3>1
  <2> QED
    BY <2>1, <2>2
<1> QED
  BY <1>2, <1>4 DEF Owns

(* The same as a step of the whole.                                        *)
Fits(c, q, mine, sole) ==
  /\ access[c].signal = "UNLOCK" => q \in SecondHalf
  /\ access[c].signal = "LOCK" => q \notin {"prefetch", "prefetching"}
  /\ \A s \in sole : q \in {"fill", "filled"} /\ s = SetOf(line[c])
  /\ \A s \in mine :
       \/ s = SetOf(line[c]) /\ line[c] \in Kept(q, access[c], line[c])
       \/ /\ s \in SharedBy(c)
          /\ line[c] \in Kept(pc[c], access[c], line[c]) /\ s = SetOf(line[c])
               => line[c] \in Kept(q, access[c], line[c])

LEMMA LineStep ==
  ASSUME LocksInv, NEW c \in Cores, pc[c] # "idle",
         NEW q \in States, q # "idle", pc' = [pc EXCEPT ![c] = q],
         UNCHANGED <<access, line>>, ahead' \in [Cores -> SetIds],
         NEW mine, SharedAs(c, mine), NEW sole, ExclusiveAs(c, sole), Fits(c, q, mine, sole)
  PROVE  LocksInv'
<1> DEFINE a == access[c]
           n == line[c]
<1>1. /\ LocksTyped /\ Owns(pc[c], a, n, SharedBy(c), ExclusiveOf(c))
      /\ n \in Nat /\ a \in Request \cup {None}
  BY Actor
<1>2. access' = [access EXCEPT ![c] = a] /\ line' = [line EXCEPT ![c] = n]
  BY <1>1 DEF LocksTyped
<1>3. Owns(q, a, n, mine, sole)
  BY <1>1, LineOwns DEF Fits
<1> HIDE DEF a, n
<1> QED
  BY <1>1, <1>2, <1>3, StepOf

(* Whether the lock of the line a core is at is among those it keeps.      *)
LEMMA KeepsLine ==
  ASSUME NEW p, NEW a, NEW n \in Lines(a), a \in Request
  PROVE  /\ p \in {"acquire", "upgrade", "fill", "answer", "filled"} => n \notin Kept(p, a, n)
         /\ p \in {"prefetch", "prefetching"} /\ a.signal # "LOCK" => n \notin Kept(p, a, n)
         /\ p = "access" => n \in Kept(p, a, n)
         /\ p \in {"complete", "over"} /\ a.signal = "LOCK" => n \in Kept(p, a, n)
         /\ p = "complete" /\ a.signal # "UNLOCK" => n \in Kept(p, a, n)
         /\ p = "over" /\ a.signal # "LOCK" => n \notin Kept(p, a, n)
<1>1. n \in Nat
  BY LinesAreConsecutive
<1> QED
  BY <1>1 DEF Kept, Request


-----------------------------------------------------------------------------
LEMMA AccessStep ==
  ASSUME LocksInv, NEW c \in Cores,
         (\E a \in Accesses : Begin(c, a)) \/ NextLine(c) \/ EndLock(c) \/ End(c)
  PROVE  LocksInv'
<1> DEFINE b == access[c]
           n == line[c]
           mine == SharedBy(c)
           sole == ExclusiveOf(c)
<1>1. /\ LocksTyped /\ Owns(pc[c], b, n, mine, sole) /\ n \in Nat /\ b \in Request \cup {None}
      /\ pc[c] # "idle" => b \in Request /\ n \in Lines(b)
  BY Actor
<1>2. /\ SharedAs(c, mine) /\ ExclusiveAs(c, sole) /\ ahead' \in [Cores -> SetIds]
  <2>1. UNCHANGED <<ahead, shared, exclusive>>
    BY DEF Begin, NextLine, EndLock, End
  <2> QED
    BY <1>1, <2>1, SharedSame, ExclusiveSame DEF LocksTyped
<1> HIDE DEF mine, sole
<1>3. ASSUME NEW a \in Accesses, Begin(c, a) PROVE LocksInv'
  <2>1. a \in Request /\ a.signal # "UNLOCK"
    BY SetLocksAssumption DEF Request
  <2>2. FirstLine(a) \in Nat
    BY <2>1, LinesAreConsecutive
  <2>3. /\ pc[c] = "idle" /\ pc' = [pc EXCEPT ![c] = "acquire"]
        /\ access' = [access EXCEPT ![c] = a] /\ line' = [line EXCEPT ![c] = FirstLine(a)]
    BY <1>3 DEF Begin, Goes
  <2>4. Owns("acquire", a, FirstLine(a), mine, sole)
    BY <1>1, <2>1, <2>3, BeginOwns
  <2>5. "acquire" \in States
    BY DEF States
  <2> QED
    BY <1>2, <2>1, <2>2, <2>3, <2>4, <2>5, StepOf
<1>4. ASSUME NextLine(c) PROVE LocksInv'
  <2> DEFINE p == IF b.signal = "UNLOCK" THEN "access" ELSE "acquire"
  <2>1. /\ pc[c] = "over" /\ pc' = [pc EXCEPT ![c] = p] /\ ~(\A l \in Lines(b) : l <= n)
        /\ line' = [line EXCEPT ![c] = n + 1] /\ UNCHANGED access
    BY <1>4 DEF NextLine, Goes, IsLast
  <2>2. access' = [access EXCEPT ![c] = b]
    BY <1>1, <2>1 DEF LocksTyped
  <2>3. Owns(p, b, n + 1, mine, sole)
    BY <1>1, <2>1, NextLineOwns
  <2>4. p \in States /\ n + 1 \in Nat
    BY <1>1 DEF States
  <2> HIDE DEF p, b, n
  <2> QED
    BY <1>1, <1>2, <2>1, <2>2, <2>3, <2>4, StepOf
<1>5. ASSUME EndLock(c) PROVE LocksInv'
  <2> DEFINE a == [b EXCEPT !.signal = "UNLOCK"]
             first == FirstLine(b)
  <2>1. /\ pc[c] = "over" /\ pc' = [pc EXCEPT ![c] = "access"] /\ b.signal = "LOCK"
        /\ line' = [line EXCEPT ![c] = first]
        /\ access' = [access EXCEPT ![c].signal = "UNLOCK"]
    BY <1>5 DEF EndLock, Goes
  <2>2. access' = [access EXCEPT ![c] = a]
    BY <1>1, <2>1 DEF LocksTyped
  <2>3. Owns("access", a, first, mine, sole) /\ a \in Request
    BY <1>1, <2>1, SecondHalfOwns
  <2>4. first \in Nat
    BY <1>1, <2>1, LinesAreConsecutive
  <2>5. "access" \in States
    BY DEF States
  <2> HIDE DEF a, first
  <2> QED
    BY <1>2, <2>1, <2>2, <2>3, <2>4, <2>5, StepOf
<1>6. ASSUME End(c) PROVE LocksInv'
  <2>1. /\ pc[c] = "over" /\ pc' = [pc EXCEPT ![c] = "idle"] /\ b.signal # "LOCK"
        /\ \A l \in Lines(b) : l <= n
        /\ access' = [access EXCEPT ![c] = None] /\ line' = [line EXCEPT ![c] = 0]
    BY <1>6 DEF End, Goes, IsLast
  <2>2. Owns("idle", None, 0, mine, sole)
    BY <1>1, <2>1, EndOwns
  <2>3. "idle" \in States
    BY DEF States
  <2> QED
    BY <1>2, <2>1, <2>2, <2>3, StepOf
<1> QED
  BY <1>3, <1>4, <1>5, <1>6

LEMMA LockStep ==
  ASSUME LocksInv, NEW c \in Cores,
         \/ AcquireLock(c) \/ Miss(c) \/ Upgraded(c) \/ AskDirectory(c) \/ Answered(c)
         \/ Filled(c) \/ Complete(c)
  PROVE  LocksInv'
<1> DEFINE a == access[c]
           n == line[c]
           s == SetOf(n)
           mine == SharedBy(c)
           sole == ExclusiveOf(c)
<1>1. pc[c] # "idle"
  BY DEF AcquireLock, Miss, Upgraded, AskDirectory, Answered, Filled, Complete, Goes
<1>2. /\ LocksTyped /\ Owns(pc[c], a, n, mine, sole)
      /\ a \in Request /\ n \in Lines(a) /\ s \in SetIds
  BY <1>1, Actor
<1>3. UNCHANGED <<access, line>> /\ ahead' \in [Cores -> SetIds]
  BY <1>2 DEF AcquireLock, Miss, Upgraded, AskDirectory, Answered, Filled, Complete, LocksTyped
<1>4. /\ a.signal = "UNLOCK" => pc[c] \in SecondHalf
      /\ \A t \in sole : pc[c] \in {"fill", "filled"} /\ t = s
  BY <1>1, <1>2 DEF Owns, Located
<1>5. \A p : /\ p \in {"acquire", "upgrade", "fill", "answer", "filled"} => n \notin Kept(p, a, n)
             /\ p = "access" => n \in Kept(p, a, n)
             /\ p \in {"complete", "over"} /\ a.signal = "LOCK" => n \in Kept(p, a, n)
             /\ p = "complete" /\ a.signal # "UNLOCK" => n \in Kept(p, a, n)
  BY <1>2, KeepsLine
<1>6. ASSUME AcquireLock(c) PROVE LocksInv'
  <2> DEFINE q == "access"
  <2>1. pc' = [pc EXCEPT ![c] = q] /\ pc[c] = "acquire"
    BY <1>6 DEF AcquireLock, Goes
  <2>2. SharedAs(c, mine \cup {s}) /\ ExclusiveAs(c, sole)
    BY <1>2, <1>6, SharedJoined, ExclusiveSame DEF AcquireLock
  <2>3. q \in States /\ q \in SecondHalf /\ q \notin {"idle", "prefetch", "prefetching"}
    BY DEF States, SecondHalf
  <2>4. n \in Kept(q, a, n) /\ sole = {}
    BY <1>4, <1>5, <2>1
  <2> DEFINE mine2 == mine \cup {s}
             sole2 == sole
  <2>5. Fits(c, q, mine2, sole2)
    BY <1>1, <2>1, <2>2, <2>3, <2>4 DEF Fits
  <2> HIDE DEF q, mine2, sole2
  <2>6. SharedAs(c, mine2) /\ ExclusiveAs(c, sole2)
    BY <2>1, <2>2, <2>3, <2>4 DEF mine2, sole2
  <2> QED
    BY <1>1, <1>3, <2>1, <2>2, <2>3, <2>4, <2>5, <2>6, LineStep
<1>7. ASSUME Miss(c) PROVE LocksInv'
  <2> DEFINE q == "upgrade"
  <2>1. pc' = [pc EXCEPT ![c] = q] /\ pc[c] = "access" /\ a.signal # "UNLOCK"
    BY <1>7 DEF Miss, Goes
  <2>2. SharedAs(c, mine \ {s}) /\ ExclusiveAs(c, sole)
    BY <1>2, <1>7, SharedLeft, ExclusiveSame DEF Miss
  <2>3. q \in States /\ q \notin {"idle", "prefetch", "prefetching"}
    BY DEF States
  <2>4. sole = {}
    BY <1>4, <2>1
  <2> DEFINE mine2 == mine \ {s}
             sole2 == sole
  <2>5. Fits(c, q, mine2, sole2)
    BY <1>1, <2>1, <2>2, <2>3, <2>4 DEF Fits
  <2> HIDE DEF q, mine2, sole2
  <2>6. SharedAs(c, mine2) /\ ExclusiveAs(c, sole2)
    BY <2>1, <2>2, <2>3, <2>4 DEF mine2, sole2
  <2> QED
    BY <1>1, <1>3, <2>1, <2>2, <2>3, <2>4, <2>5, <2>6, LineStep
<1>8. ASSUME Upgraded(c) \/ Answered(c) PROVE LocksInv'
  <2> DEFINE q == IF pc[c] = "upgrade" THEN "fill" ELSE "filled"
  <2>1. /\ pc' = [pc EXCEPT ![c] = q] /\ pc[c] \in {"upgrade", "answer"} /\ UNCHANGED shared
        /\ exclusive[s] = None /\ exclusive' = [exclusive EXCEPT ![s] = c]
    BY <1>8 DEF Upgraded, Answered, Goes, Exclusive
  <2>2. SharedAs(c, mine) /\ ExclusiveAs(c, sole \cup {s})
    BY <1>2, <2>1, SharedSame, ExclusiveTaken
  <2>3. q \in States /\ q \in {"fill", "filled"} /\ q \notin {"idle", "prefetch", "prefetching"}
    BY DEF States
  <2>4. a.signal # "UNLOCK" /\ sole = {} /\ n \notin Kept(pc[c], a, n)
    BY <1>4, <1>5, <2>1 DEF SecondHalf
  <2> DEFINE mine2 == mine
             sole2 == sole \cup {s}
  <2>5. Fits(c, q, mine2, sole2)
    BY <1>1, <2>1, <2>2, <2>3, <2>4 DEF Fits
  <2> HIDE DEF q, mine2, sole2
  <2>6. SharedAs(c, mine2) /\ ExclusiveAs(c, sole2)
    BY <2>1, <2>2, <2>3, <2>4 DEF mine2, sole2
  <2> QED
    BY <1>1, <1>3, <2>1, <2>2, <2>3, <2>4, <2>5, <2>6, LineStep
<1>9. ASSUME AskDirectory(c) PROVE LocksInv'
  <2> DEFINE q == "answer"
  <2>1. /\ pc' = [pc EXCEPT ![c] = q] /\ pc[c] = "fill" /\ UNCHANGED shared
        /\ exclusive' = [exclusive EXCEPT ![s] = None]
    BY <1>9 DEF AskDirectory, Goes
  <2>2. SharedAs(c, mine) /\ ExclusiveAs(c, sole \ {s})
    BY <1>2, <2>1, SharedSame, ExclusiveFreed
  <2>3. q \in States /\ q \notin {"idle", "prefetch", "prefetching"}
    BY DEF States
  <2>4. a.signal # "UNLOCK" /\ sole \ {s} = {} /\ n \notin Kept(pc[c], a, n)
    BY <1>4, <1>5, <2>1 DEF SecondHalf
  <2> DEFINE mine2 == mine
             sole2 == sole \ {s}
  <2>5. Fits(c, q, mine2, sole2)
    BY <1>1, <2>1, <2>2, <2>3, <2>4 DEF Fits
  <2> HIDE DEF q, mine2, sole2
  <2>6. SharedAs(c, mine2) /\ ExclusiveAs(c, sole2)
    BY <2>1, <2>2, <2>3, <2>4 DEF mine2, sole2
  <2> QED
    BY <1>1, <1>3, <2>1, <2>2, <2>3, <2>4, <2>5, <2>6, LineStep
<1>10. ASSUME Filled(c) PROVE LocksInv'
  <2> DEFINE q == "complete"
  <2>1. /\ pc' = [pc EXCEPT ![c] = q] /\ pc[c] \in {"fill", "filled"}
        /\ shared' = [shared EXCEPT ![s] = @ \cup {c}]
        /\ exclusive' = [exclusive EXCEPT ![s] = None]
    BY <1>10 DEF Filled
  <2>2. SharedAs(c, mine \cup {s}) /\ ExclusiveAs(c, sole \ {s})
    BY <1>2, <2>1, SharedJoined, ExclusiveFreed
  <2>3. q \in States /\ q \notin {"idle", "prefetch", "prefetching"}
    BY DEF States
  <2>4. a.signal # "UNLOCK" /\ sole \ {s} = {} /\ n \in Kept(q, a, n)
    BY <1>4, <1>5, <2>1 DEF SecondHalf
  <2> DEFINE mine2 == mine \cup {s}
             sole2 == sole \ {s}
  <2>5. Fits(c, q, mine2, sole2)
    BY <1>1, <2>1, <2>2, <2>3, <2>4 DEF Fits
  <2> HIDE DEF q, mine2, sole2
  <2>6. SharedAs(c, mine2) /\ ExclusiveAs(c, sole2)
    BY <2>1, <2>2, <2>3, <2>4 DEF mine2, sole2
  <2> QED
    BY <1>1, <1>3, <2>1, <2>2, <2>3, <2>4, <2>5, <2>6, LineStep
<1>11. ASSUME Complete(c) PROVE LocksInv'
  <2>1. /\ pc[c] \in {"access", "complete"} /\ UNCHANGED exclusive
        /\ pc' = [pc EXCEPT ![c] = IF a.signal = "LOCK" THEN "over" ELSE "prefetch"]
        /\ shared' = IF a.signal = "LOCK" THEN shared ELSE [shared EXCEPT ![s] = @ \ {c}]
    BY <1>11 DEF Complete
  <2>2. ExclusiveAs(c, sole) /\ sole = {}
    BY <1>2, <1>4, <2>1, ExclusiveSame
  <2>3. CASE a.signal = "LOCK"
    <3> DEFINE q == "over"
    <3>1. pc' = [pc EXCEPT ![c] = q] /\ SharedAs(c, mine)
      BY <1>2, <2>1, <2>3, SharedSame
    <3>2. q \in States /\ q \notin {"idle", "prefetch", "prefetching"} /\ n \in Kept(q, a, n)
      BY <1>5, <2>3 DEF States
    <3> DEFINE mine2 == mine
               sole2 == sole
    <3>5. Fits(c, q, mine2, sole2)
      BY <1>1, <2>2, <2>3, <3>1, <3>2 DEF Fits
    <3> HIDE DEF q, mine2, sole2
    <3>6. SharedAs(c, mine2) /\ ExclusiveAs(c, sole2)
      BY <2>2, <2>3, <3>1, <3>2 DEF mine2, sole2
    <3> QED
      BY <1>1, <1>3, <2>2, <2>3, <3>1, <3>2, <3>5, <3>6, LineStep
  <2>4. CASE a.signal # "LOCK"
    <3> DEFINE q == "prefetch"
    <3>1. pc' = [pc EXCEPT ![c] = q] /\ SharedAs(c, mine \ {s})
      BY <1>2, <2>1, <2>4, SharedLeft
    <3>2. q \in States /\ q # "idle" /\ q \in SecondHalf
      BY DEF States, SecondHalf
    <3> DEFINE mine2 == mine \ {s}
               sole2 == sole
    <3>5. Fits(c, q, mine2, sole2)
      BY <1>1, <2>2, <2>4, <3>1, <3>2 DEF Fits
    <3> HIDE DEF q, mine2, sole2
    <3>6. SharedAs(c, mine2) /\ ExclusiveAs(c, sole2)
      BY <2>2, <2>4, <3>1, <3>2 DEF mine2, sole2
    <3> QED
      BY <1>1, <1>3, <2>2, <2>4, <3>1, <3>2, <3>5, <3>6, LineStep
  <2> QED
    BY <2>3, <2>4
<1> QED
  BY <1>6, <1>7, <1>8, <1>9, <1>10, <1>11

LEMMA PrefetchStep ==
  ASSUME LocksInv, NEW c \in Cores, PrefetchNothing(c) \/ Prefetch(c) \/ DoPrefetch(c)
  PROVE  LocksInv'
<1> DEFINE a == access[c]
           n == line[c]
           mine == SharedBy(c)
           sole == ExclusiveOf(c)
           q == IF DoPrefetch(c) \/ PrefetchNothing(c) THEN "over" ELSE "prefetching"
<1>1. pc[c] \in {"prefetch", "prefetching"} /\ pc' = [pc EXCEPT ![c] = q]
      /\ UNCHANGED <<access, line, shared, exclusive>>
  BY DEF PrefetchNothing, Prefetch, DoPrefetch, Goes
<1>2. /\ LocksTyped /\ Owns(pc[c], a, n, mine, sole) /\ a \in Request /\ n \in Lines(a)
  BY <1>1, Actor
<1>3. ahead' \in [Cores -> SetIds]
  <2>1. 0 \in SetIds
    BY SetLocksAssumption DEF SetIds
  <2> QED
    BY <1>2, <2>1 DEF PrefetchNothing, Prefetch, DoPrefetch, LocksTyped
<1>4. a.signal # "LOCK" /\ sole = {} /\ n \notin Kept(pc[c], a, n)
  <2>1. a.signal # "LOCK" /\ sole = {}
    BY <1>1, <1>2 DEF Owns, Located
  <2> QED
    BY <1>1, <1>2, <2>1, KeepsLine
<1>5. SharedAs(c, mine) /\ ExclusiveAs(c, sole)
  BY <1>1, <1>2, SharedSame, ExclusiveSame
<1>6. q \in States /\ q # "idle" /\ q \in SecondHalf
  BY DEF States, SecondHalf
<1>7. Fits(c, q, mine, sole)
  BY <1>1, <1>4, <1>6 DEF Fits
<1> HIDE DEF q, mine, sole
<1> QED
  BY <1>1, <1>3, <1>5, <1>6, <1>7, LineStep

LEMMA LocksAlways == Spec => []LocksInv
<1>1. Init => LocksInv
  <2> SUFFICES ASSUME Init PROVE LocksInv
    OBVIOUS
  <2>1. 0 \in SetIds
    BY SetLocksAssumption DEF SetIds
  <2>2. LocksTyped
    BY <2>1 DEF Init, LocksTyped, States
  <2>3. \A c \in Cores : SharedBy(c) = {} /\ ExclusiveOf(c) = {}
    BY SetLocksAssumption DEF Init, SharedBy, ExclusiveOf
  <2> QED
    BY <2>2, <2>3 DEF Init, LocksInv, Owns, Located
<1>2. LocksInv /\ [Next]_vars => LocksInv'
  <2>1. ASSUME LocksInv, UNCHANGED vars PROVE LocksInv'
    BY <2>1 DEF LocksInv, LocksTyped, SharedBy, ExclusiveOf, vars
  <2>2. ASSUME LocksInv, Next PROVE LocksInv'
    BY <2>2, AccessStep, LockStep, PrefetchStep DEF Next
  <2> QED
    BY <2>1, <2>2
<1> QED
  BY <1>1, <1>2, PTL DEF Spec

-----------------------------------------------------------------------------
(* initiateMemoryAccess splits every access into lines whose bytes are the *)
(* bytes of the access, whatever its address and size and the block size:  *)
(* also when it begins or ends in the middle of a line or at its edge.     *)
THEOREM SplitIsExact == Spec => []SplitExact
<1>1. LocksInv => SplitExact
  <2> SUFFICES ASSUME LocksInv, NEW c \in Cores, pc[c] # "idle"
               PROVE  UNION {BytesOf(access[c], l) : l \in Lines(access[c])}
                        = access[c].address .. access[c].address + access[c].size - 1
    BY DEF SplitExact
  <2>1. access[c] \in Request
    BY Actor
  <2> QED
    BY <2>1, LinesCoverBytes
<1> QED
  BY <1>1, LocksAlways, PTL

(* With any number of cores, sets and prefetches, cores wait for each      *)
(* other's set locks in a circle only if one of them makes an atomic       *)
(* access to several lines: giving the shared lock up before asking for    *)
(* the exclusive one (acquireStackLock) and not prefetching between the    *)
(* halves of an atomic operation are enough for all the others.            *)
THEOREM CirclesNeedSeveralLines == Spec => []NoCircularWait
<1>1. LocksInv => NoCircularWait
  BY NoCircle
<1> QED
  BY <1>1, LocksAlways, PTL

-----------------------------------------------------------------------------
(* When prefetches start, with any number of threads: the next one is an   *)
(* interval away from the last training.                                   *)
AfterTraining ==
  /\ start \in [Threads -> Int] /\ m_prefetch_next \in Int /\ trained \in Int
  /\ stage \in [Threads -> {"idle", "accessed", "took", "issued", "fetched"}]
  /\ m_prefetch_next >= trained + Interval

LEMMA TrainingStep ==
  ASSUME AfterTraining, [PrefetchNext]_prefetchVars
  PROVE  AfterTraining'
<1> USE PrefetchAssumption DEF AfterTraining
<1>0. ASSUME NEW t \in Int, Trained(t)
      PROVE  trained' \in Int /\ m_prefetch_next' \in Int
             /\ m_prefetch_next' >= trained' + Interval
  BY <1>0 DEF Trained
<1>1. ASSUME NEW c \in Threads, Access(c) PROVE AfterTraining'
  <2>1. \/ UNCHANGED <<queue, history>>
        \/ \E t \in 0 .. MaxTime : Trained(t)
    BY <1>1 DEF Access
  <2>2. start' = start /\ stage' \in [Threads -> {"idle", "accessed", "took", "issued", "fetched"}]
    BY <1>1 DEF Access, Moves
  <2>3. CASE UNCHANGED <<queue, history>>
    BY <2>2, <2>3 DEF queue, history
  <2>4. CASE \E t \in 0 .. MaxTime : Trained(t)
    BY <1>0, <2>2, <2>4
  <2> QED
    BY <2>1, <2>3, <2>4
<1>2. ASSUME NEW c \in Threads, Take(c) PROVE AfterTraining'
  BY <1>2 DEF Take, Moves, history
<1>3. ASSUME NEW c \in Threads, Issue(c) PROVE AfterTraining'
  BY <1>3 DEF Issue, Moves, queue
<1>4. ASSUME NEW c \in Threads, Fetch(c) PROVE AfterTraining'
  <2>1. UNCHANGED <<queue, history>> \/ Trained(start[c])
    BY <1>4 DEF Fetch
  <2>2. start' = start /\ stage' \in [Threads -> {"idle", "accessed", "took", "issued", "fetched"}]
    BY <1>4 DEF Fetch, Moves
  <2>3. CASE UNCHANGED <<queue, history>>
    BY <2>2, <2>3 DEF queue, history
  <2>4. CASE Trained(start[c])
    BY <1>0, <2>2, <2>4
  <2> QED
    BY <2>1, <2>3, <2>4
<1>5. ASSUME NEW c \in Threads, Return(c) PROVE AfterTraining'
  BY <1>5 DEF Return, Moves, history
<1>6. ASSUME NEW a \in Addrs, Evict(a) PROVE AfterTraining'
  BY <1>6 DEF Evict, queue, history
<1>7. CASE UNCHANGED prefetchVars
  BY <1>7 DEF prefetchVars, queue, history
<1> QED
  BY <1>1, <1>2, <1>3, <1>4, <1>5, <1>6, <1>7 DEF PrefetchNext

(* A prefetch that starts does so at m_prefetch_next.                      *)
LEMMA StartsThen ==
  ASSUME AfterTraining, [PrefetchNext]_prefetchVars, NEW c \in Threads, Starts(c)
  PROVE  start'[c] = m_prefetch_next
<1> USE DEF AfterTraining, Starts
<1>1. ASSUME NEW d \in Threads, Issue(d) PROVE start'[c] = m_prefetch_next
  <2>1. /\ stage[d] = "took" /\ stage' = [stage EXCEPT ![d] = "issued"]
        /\ start' = [start EXCEPT ![d] = m_prefetch_next]
    BY <1>1 DEF Issue, Moves
  <2>2. c = d
    BY <2>1
  <2> QED
    BY <2>1, <2>2
<1>2. ASSUME NEW d \in Threads, Access(d) \/ Take(d) \/ Fetch(d) \/ Return(d) PROVE FALSE
  BY <1>2 DEF Access, Take, Fetch, Return, Moves
<1>3. ASSUME NEW a \in Addrs, Evict(a) PROVE FALSE
  BY <1>3 DEF Evict
<1>4. CASE UNCHANGED prefetchVars
  BY <1>4 DEF prefetchVars
<1> QED
  BY <1>1, <1>2, <1>3, <1>4 DEF PrefetchNext

Waits == \A c \in Threads : Starts(c) => start'[c] >= trained + Interval

(* "Just talked to the next-level cache, wait a bit before we start to     *)
(* prefetch": however many threads share the cache and whatever times      *)
(* their accesses carry, a prefetch starts an interval or more after the   *)
(* last training, although Prefetch compares the time under the lock and   *)
(* uses it after: trainings only happen to the time it will read.          *)
THEOREM PrefetchesWait == PrefetchSpec => WaitsAfterTraining
<1>1. PrefetchInit => AfterTraining
  BY PrefetchAssumption DEF PrefetchInit, AfterTraining
<1>2. AfterTraining /\ [PrefetchNext]_prefetchVars => AfterTraining'
  BY TrainingStep
<1>3. AfterTraining /\ [PrefetchNext]_prefetchVars => [Waits]_prefetchVars
  BY StartsThen DEF AfterTraining, Waits
<1>4. PrefetchSpec => [][Waits]_prefetchVars
  BY <1>1, <1>2, <1>3, PTL DEF PrefetchSpec
<1> QED
  BY <1>4 DEF WaitsAfterTraining, Waits

-----------------------------------------------------------------------------
(* The prefetches of all threads: the next is no earlier than the last, or *)
(* the training since, and an interval away once none is under way.        *)
AtDistance ==
  /\ AfterTraining /\ latest \in Int
  /\ m_prefetch_next >= latest
  /\ (\A c \in Threads : ~UnderWay(c)) => m_prefetch_next >= latest + Interval

(* What a step does to the distance, whatever happens to the lines.        *)
LEMMA DistanceStep ==
  ASSUME AtDistance, [PrefetchNext]_prefetchVars
  PROVE  AtDistance'
<1>0. AfterTraining'
  BY TrainingStep DEF AtDistance
<1> USE PrefetchAssumption DEF AtDistance, AfterTraining
<1>t. ASSUME NEW t \in Int, Trained(t) PROVE AtDistance'
  BY <1>0, <1>t DEF Trained
<1>1. ASSUME NEW c \in Threads, Access(c) PROVE AtDistance'
  <2>1. stage[c] = "idle" /\ \E s \in {"idle", "accessed"} : stage' = [stage EXCEPT ![c] = s]
    BY <1>1 DEF Access, Moves
  <2>2. \A d \in Threads : UnderWay(d)' <=> UnderWay(d)
    BY <2>1 DEF UnderWay
  <2>3. UNCHANGED <<queue, history>> \/ \E t \in 0 .. MaxTime : Trained(t)
    BY <1>1 DEF Access
  <2>4. CASE UNCHANGED <<queue, history>>
    BY <1>0, <2>2, <2>4 DEF queue, history
  <2> QED
    BY <1>t, <2>3, <2>4
<1>2. ASSUME NEW c \in Threads, Take(c) PROVE AtDistance'
  <2>1. \A d \in Threads : UnderWay(d)' <=> UnderWay(d)
    BY <1>2 DEF Take, Moves, UnderWay
  <2> QED
    BY <1>0, <1>2, <2>1 DEF Take, history
<1>3. ASSUME NEW c \in Threads, Issue(c) PROVE AtDistance'
  <2>1. UnderWay(c)'
    BY <1>3 DEF Issue, Moves, UnderWay
  <2> QED
    BY <1>0, <1>3, <2>1 DEF Issue, queue
<1>4. ASSUME NEW c \in Threads, Fetch(c) PROVE AtDistance'
  <2>1. UnderWay(c)'
    BY <1>4 DEF Fetch, Moves, UnderWay
  <2>2. UNCHANGED <<queue, history>> \/ Trained(start[c])
    BY <1>4 DEF Fetch
  <2>3. CASE UNCHANGED <<queue, history>>
    BY <1>0, <2>1, <2>3 DEF queue, history
  <2> QED
    BY <1>t, <2>2, <2>3
<1>5. ASSUME NEW c \in Threads, Return(c) PROVE AtDistance'
  BY <1>0, <1>5 DEF Return, history
<1>6. ASSUME NEW a \in Addrs, Evict(a) PROVE AtDistance'
  BY <1>0, <1>6 DEF Evict, queue, history, UnderWay
<1>7. CASE UNCHANGED prefetchVars
  BY <1>0, <1>7 DEF prefetchVars, queue, history, UnderWay
<1> QED
  BY <1>1, <1>2, <1>3, <1>4, <1>5, <1>6, <1>7 DEF PrefetchNext

Spaced ==
  \A c \in Threads : Starts(c) /\ (\A d \in Threads : ~UnderWay(d)) =>
    start'[c] >= latest + Interval

(* "Time between prefetches": however many threads share the cache, a      *)
(* prefetch that starts while no other is under way starts an interval or  *)
(* more after the one before it, unless a training since has set the time  *)
(* afresh; for any interval, prefetcher and cache, and accesses at any     *)
(* times.                                                                  *)
THEOREM PrefetchesAreSpaced == PrefetchSpec => PrefetchesSpaced
<1>1. PrefetchInit => AtDistance
  BY PrefetchAssumption DEF PrefetchInit, AtDistance, AfterTraining
<1>2. AtDistance /\ [PrefetchNext]_prefetchVars => AtDistance'
  BY DistanceStep
<1>3. AtDistance /\ [PrefetchNext]_prefetchVars => [Spaced]_prefetchVars
  BY StartsThen DEF AtDistance, Spaced
<1>4. PrefetchSpec => [][Spaced]_prefetchVars
  BY <1>1, <1>2, <1>3, PTL DEF PrefetchSpec
<1> QED
  BY <1>4 DEF PrefetchesSpaced, Spaced

-----------------------------------------------------------------------------
(* The loop of trainPrefetcher.  A set of naturals that has 0 and with     *)
(* every number the next has them all.                                     *)
LEMMA Naturally ==
  ASSUME NEW T, 0 \in T, \A n \in Nat : n \in T => n + 1 \in T
  PROVE  \A n \in Nat : n \in T
<1> SUFFICES ASSUME Nat \ T # {} PROVE FALSE
    OBVIOUS
<1>1. \E n \in Nat \ T : \A k \in Nat \ T : ~ (<<k, n>> \in OpToRel(<, Nat))
  BY WFMin, NatLessThanWellFounded
<1>2. PICK n \in Nat \ T : \A k \in Nat \ T : ~ (k < n)
  BY <1>1 DEF OpToRel
<1>3. n - 1 \in Nat /\ n - 1 < n /\ n = (n - 1) + 1
  BY <1>2
<1> QED
  BY <1>2, <1>3

(* FoldLeft treats the places of a sequence from the last one back: what   *)
(* the loop has made of the first ones is what it goes on with.            *)
Turns(offered, list, sets) ==
  list = [s \in sets |->
            IF s = {} THEN <<>>
            ELSE Appended(list[s \ {Max(s)}], offered[Max(s)])]
Loop(offered) == CHOOSE list : Turns(offered, list, SUBSET DOMAIN offered)
Few(S, n) == {s \in SUBSET S : Cardinality(s) <= n}

LEMMA Largest ==
  ASSUME NEW m \in Nat, NEW s \in SUBSET (1 .. m), s # {}
  PROVE  Max(s) \in s
<1> DEFINE T == {m - x : x \in s}
<1>0. \A x \in s : x \in Nat /\ x <= m
  OBVIOUS
<1>1. T \subseteq Nat /\ T # {}
  <2>1. \A x \in s : m - x \in Nat
    BY <1>0
  <2> QED
    BY <2>1
<1>2. \E k \in T : \A j \in T : ~ (<<j, k>> \in OpToRel(<, Nat))
  BY <1>1, WFMin, NatLessThanWellFounded
<1>3. PICK k \in T : \A j \in T : ~ (j < k)
  BY <1>1, <1>2 DEF OpToRel
<1>4. PICK x \in s : k = m - x
  BY <1>3
<1>5. \A y \in s : x >= y
  <2> SUFFICES ASSUME NEW y \in s PROVE x >= y
      OBVIOUS
  <2>1. m - y \in T /\ m - y \in Nat
    OBVIOUS
  <2>2. ~ (m - y < m - x)
    BY <1>3, <1>4, <2>1
  <2> QED
    BY <1>0, <2>2
<1> QED
  BY <1>5 DEF Max

LEMMA PartsCounted ==
  ASSUME NEW m \in Nat, NEW s \in SUBSET (1 .. m)
  PROVE  IsFiniteSet(s) /\ Cardinality(s) \in Nat
<1>1. IsFiniteSet(1 .. m)
  BY FS_Interval
<1>2. IsFiniteSet(s)
  BY <1>1, FS_Subset
<1> QED
  BY <1>2, FS_CardinalityType

LEMMA Fewer ==
  ASSUME NEW m \in Nat, NEW n \in Nat, NEW s \in Few(1 .. m, n + 1), s # {}
  PROVE  Max(s) \in s /\ Max(s) \in 1 .. m /\ s \ {Max(s)} \in Few(1 .. m, n)
<1>1. s \in SUBSET (1 .. m) /\ Cardinality(s) <= n + 1
  BY DEF Few
<1>2. Max(s) \in s /\ Max(s) \in 1 .. m
  BY <1>1, Largest
<1>3. IsFiniteSet(s) /\ Cardinality(s) \in Nat
  BY <1>1, PartsCounted
<1>4. Cardinality(s \ {Max(s)}) = Cardinality(s) - 1
  BY <1>2, <1>3, FS_RemoveElement
<1>5. Cardinality(s \ {Max(s)}) <= n
  BY <1>1, <1>3, <1>4
<1> QED
  BY <1>1, <1>2, <1>5 DEF Few

LEMMA FewestAreEmpty == ASSUME NEW m \in Nat PROVE Few(1 .. m, 0) = {{}}
<1>1. \A s \in Few(1 .. m, 0) : s = {}
  <2> SUFFICES ASSUME NEW s \in SUBSET (1 .. m), Cardinality(s) <= 0 PROVE s = {}
      BY DEF Few
  <2>1. IsFiniteSet(s) /\ Cardinality(s) \in Nat
    BY PartsCounted
  <2> QED
    BY <2>1, FS_EmptySet
<1>2. {} \in Few(1 .. m, 0)
  BY FS_EmptySet DEF Few
<1> QED
  BY <1>1, <1>2

LEMMA AllAreFew ==
  ASSUME NEW m \in Nat PROVE \E n \in Nat : Few(1 .. m, n) = SUBSET (1 .. m)
<1>1. IsFiniteSet(1 .. m) /\ Cardinality(1 .. m) \in Nat
  BY FS_Interval, FS_CardinalityType
<1>2. \A s \in SUBSET (1 .. m) : Cardinality(s) <= Cardinality(1 .. m)
  BY <1>1, FS_Subset
<1> QED
  BY <1>1, <1>2 DEF Few

LEMMA LoopRuns ==
  ASSUME NEW offered \in Seq(Addrs)
  PROVE  Turns(offered, Loop(offered), SUBSET DOMAIN offered)
<1> DEFINE m == Len(offered)
           Runs(n) == \E list : Turns(offered, list, Few(1 .. m, n))
           T == {n \in Nat : Runs(n)}
<1>m. m \in Nat /\ DOMAIN offered = 1 .. m
  OBVIOUS
<1> HIDE DEF m
<1>1. Runs(0)
  <2> DEFINE list == [s \in {{}} |-> <<>>]
  <2>1. Turns(offered, list, {{}})
    BY DEF Turns
  <2> QED
    BY <1>m, <2>1, FewestAreEmpty
<1>2. ASSUME NEW n \in Nat, Runs(n) PROVE Runs(n + 1)
  <2>1. PICK list : Turns(offered, list, Few(1 .. m, n))
    BY <1>2
  <2> DEFINE more == [s \in Few(1 .. m, n + 1) |->
                        IF s = {} THEN <<>>
                        ELSE Appended(list[s \ {Max(s)}], offered[Max(s)])]
  <2>2. ASSUME NEW s \in Few(1 .. m, n)
        PROVE  s \in Few(1 .. m, n + 1) /\ more[s] = list[s]
    <3>1. s \in Few(1 .. m, n + 1)
      <4>1. IsFiniteSet(s) /\ Cardinality(s) \in Nat
        BY <1>m, PartsCounted DEF Few
      <4> QED
        BY <4>1 DEF Few
    <3> QED
      BY <2>1, <3>1 DEF Turns
  <2>3. \A s \in Few(1 .. m, n + 1) : s # {} => s \ {Max(s)} \in Few(1 .. m, n)
    BY <1>m, Fewer
  <2>4. Turns(offered, more, Few(1 .. m, n + 1))
    BY <2>2, <2>3 DEF Turns
  <2> QED
    BY <2>4
<1> HIDE DEF Runs
<1>3. \A n \in Nat : n \in T
  <2>1. 0 \in T /\ \A n \in Nat : n \in T => n + 1 \in T
    BY <1>1, <1>2
  <2> HIDE DEF T
  <2> QED
    BY <2>1, Naturally
<1>4. PICK n \in Nat : Few(1 .. m, n) = SUBSET (1 .. m)
  BY <1>m, AllAreFew
<1>5. \E list : Turns(offered, list, SUBSET DOMAIN offered)
  BY <1>m, <1>3, <1>4 DEF Runs
<1> QED
  BY <1>5 DEF Loop

(* A list the loop may leave.                                              *)
Limited(list) == list \in Seq(Addrs) /\ Len(list) <= MaxQueue + 1

LEMMA LoopKeepsLimit ==
  ASSUME NEW offered \in Seq(Addrs)
  PROVE  Limited(Queued(offered))
<1> DEFINE m == Len(offered)
           list == Loop(offered)
           T == {n \in Nat : \A s \in Few(1 .. m, n) : Limited(list[s])}
<1>m. m \in Nat /\ DOMAIN offered = 1 .. m
  OBVIOUS
<1>t. \A s \in SUBSET (1 .. m) :
        list[s] = IF s = {} THEN <<>> ELSE Appended(list[s \ {Max(s)}], offered[Max(s)])
  BY <1>m, LoopRuns DEF Turns
<1>o. \A x \in 1 .. m : offered[x] \in Addrs
  OBVIOUS
<1>q. Queued(offered) = list[1 .. m]
  BY <1>m DEF Queued, FoldLeft, MapThenFoldSet, Loop, Turns
<1> HIDE DEF m, list
<1>0. Limited(<<>>)
  BY PrefetchAssumption DEF Limited
<1>1. \A s \in Few(1 .. m, 0) : Limited(list[s])
  <2>1. {} \in SUBSET (1 .. m)
    OBVIOUS
  <2> QED
    BY <1>0, <1>m, <1>t, <2>1, FewestAreEmpty
<1>2. ASSUME NEW n \in Nat, \A s \in Few(1 .. m, n) : Limited(list[s]),
             NEW s \in Few(1 .. m, n + 1)
      PROVE  Limited(list[s])
  <2>0. s \in SUBSET (1 .. m)
    BY DEF Few
  <2>1. CASE s = {}
    BY <1>0, <1>t, <2>0, <2>1
  <2>2. CASE s # {}
    <3> DEFINE before == list[s \ {Max(s)}]
               a == offered[Max(s)]
    <3>1. Limited(before) /\ a \in Addrs
      BY <1>2, <1>m, <1>o, <2>2, Fewer
    <3>2. list[s] = Appended(before, a)
      BY <1>t, <2>0, <2>2
    <3> HIDE DEF before, a
    <3>3. Limited(Appended(before, a))
      <4>1. CASE Len(before) <= MaxQueue /\ a \notin resident
        <5>1. Append(before, a) \in Seq(Addrs) /\ Len(Append(before, a)) = Len(before) + 1
              /\ Len(before) \in Nat /\ MaxQueue \in Nat
          BY <3>1, PrefetchAssumption DEF Limited
        <5> QED
          BY <4>1, <5>1 DEF Limited, Appended
      <4>2. CASE ~ (Len(before) <= MaxQueue /\ a \notin resident)
        BY <3>1, <4>2 DEF Appended
      <4> QED
        BY <4>1, <4>2
    <3> QED
      BY <3>2, <3>3
  <2> QED
    BY <2>1, <2>2
<1>3. \A n \in Nat : n \in T
  <2>1. 0 \in T
    BY <1>1
  <2>2. \A n \in Nat : n \in T => n + 1 \in T
    BY <1>2
  <2> HIDE DEF T
  <2> QED
    BY <2>1, <2>2, Naturally
<1>4. Limited(list[1 .. m])
  BY <1>m, <1>3, AllAreFew
<1> QED
  BY <1>4, <1>q

(* trainPrefetcher's loop compares the length before it appends: however   *)
(* many addresses the prefetcher returns and whatever other threads do to  *)
(* the queue and the cache, it holds one more than the limit at most.      *)
THEOREM QueueIsBounded == PrefetchSpec => []QueueBounded
<1>1. PrefetchInit => Limited(m_prefetch_list)
  BY PrefetchAssumption DEF PrefetchInit, Limited
<1>2. Limited(m_prefetch_list) /\ [PrefetchNext]_prefetchVars => Limited(m_prefetch_list)'
  <2> SUFFICES ASSUME Limited(m_prefetch_list), [PrefetchNext]_prefetchVars
               PROVE  Limited(m_prefetch_list')
      BY DEF Limited
  <2>0. ASSUME NEW t, Trained(t) PROVE Limited(m_prefetch_list')
    <3>1. PICK offered \in Returned : m_prefetch_list' = Queued(offered)
      BY <2>0 DEF Trained
    <3>2. offered \in Seq(Addrs)
      BY PrefetchAssumption DEF Returned
    <3> QED
      BY <3>1, <3>2, LoopKeepsLimit
  <2>1. ASSUME NEW c \in Threads, Access(c) \/ Issue(c) \/ Fetch(c)
        PROVE  Limited(m_prefetch_list')
    BY <2>0, <2>1 DEF Access, Issue, Fetch, queue
  <2>2. ASSUME NEW c \in Threads, Take(c) PROVE Limited(m_prefetch_list')
    <3>1. \/ m_prefetch_list' \in {m_prefetch_list, <<>>}
          \/ \E i \in DOMAIN m_prefetch_list :
               m_prefetch_list' = SubSeq(m_prefetch_list, i + 1, Len(m_prefetch_list))
      BY <2>2 DEF Take
    <3>2. ASSUME NEW i \in DOMAIN m_prefetch_list
          PROVE  Limited(SubSeq(m_prefetch_list, i + 1, Len(m_prefetch_list)))
      BY PrefetchAssumption DEF Limited
    <3>3. Limited(<<>>)
      BY PrefetchAssumption DEF Limited
    <3> QED
      BY <3>1, <3>2, <3>3
  <2>3. ASSUME NEW c \in Threads, Return(c) PROVE Limited(m_prefetch_list')
    BY <2>3 DEF Return
  <2>4. ASSUME NEW a \in Addrs, Evict(a) PROVE Limited(m_prefetch_list')
    BY <2>4 DEF Evict, queue
  <2>5. CASE UNCHANGED prefetchVars
    BY <2>5 DEF prefetchVars, queue
  <2> QED
    BY <2>1, <2>2, <2>3, <2>4, <2>5 DEF PrefetchNext
<1>3. Limited(m_prefetch_list) => QueueBounded
  BY DEF Limited, QueueBounded
<1> QED
  BY <1>1, <1>2, <1>3, PTL DEF PrefetchSpec
=============================================================================
