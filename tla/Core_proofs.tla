------------------------------ MODULE Core_proofs ------------------------------
(***************************************************************************)
(* What a core sends into its memory system.  For TLBs of any size, any    *)
(* block and page size and any code: what the TLBs hold and forget, and    *)
(* that leaving out the fetch of the block read last leaves out nothing    *)
(* else.  For any number of cores and any sharing of last-level caches:    *)
(* with which addresses the predictors can be trained, and what is right   *)
(* about them with one core.                                               *)
(***************************************************************************)
EXTENDS InstructionFetch, EipPropagation, TLAPS

Levels == Tlbs \cup {NextLevel}

TlbTypeOK ==
  /\ DOMAIN entry = Levels
  /\ \A tlb \in Levels : entry[tlb] \in [WaysOf(tlb) -> Pages \cup {NoPage}]

LEMMA WaysAreThere ==
  ASSUME NEW tlb \in Levels
  PROVE  WaysOf(tlb) # {} /\ WaysOf(tlb) \subseteq Nat
<1>1. Associativity[tlb] \in Nat \ {0}
  BY TlbAssumption DEF Levels
<1> QED
  BY <1>1 DEF WaysOf

(* TLB::allocate: where the page and the victim go.                        *)
LEMMA AllocateEffect ==
  ASSUME TlbTypeOK, NEW tlb \in Tlbs, NEW page \in Pages, Allocate(tlb, page)
  PROVE  \E w \in Replaceable(tlb) :
           /\ w \in WaysOf(tlb)
           /\ entry'[tlb] = [entry[tlb] EXCEPT ![w] = page]
           /\ \A other \in Tlbs \ {tlb} : entry'[other] = entry[other]
           /\ DOMAIN entry' = Levels
           /\ \/ entry[tlb][w] = NoPage /\ entry'[NextLevel] = entry[NextLevel]
              \/ /\ entry[tlb][w] # NoPage
                 /\ \E v \in Replaceable(NextLevel) :
                      /\ v \in WaysOf(NextLevel)
                      /\ entry'[NextLevel] = [entry[NextLevel] EXCEPT ![v] = entry[tlb][w]]
<1>1. NextLevel \notin Tlbs /\ tlb \in Levels /\ NextLevel \in Levels
  BY TlbAssumption DEF Levels
<1>2. \A t : Replaceable(t) \subseteq WaysOf(t)
  BY DEF Replaceable
<1>3. PICK w \in Replaceable(tlb) :
        IF entry[tlb][w] = NoPage
          THEN entry' = [entry EXCEPT ![tlb][w] = page]
          ELSE \E v \in Replaceable(NextLevel) :
                 entry' = [entry EXCEPT ![tlb][w] = page,
                                        ![NextLevel][v] = entry[tlb][w]]
  BY DEF Allocate
<1>4. CASE entry[tlb][w] = NoPage
  <2>1. entry' = [entry EXCEPT ![tlb][w] = page]
    BY <1>3, <1>4
  <2>2. entry'[tlb] = [entry[tlb] EXCEPT ![w] = page]
    BY <1>1, <2>1 DEF TlbTypeOK
  <2>3. DOMAIN entry' = Levels /\ \A t \in Levels \ {tlb} : entry'[t] = entry[t]
    BY <1>1, <2>1 DEF TlbTypeOK
  <2> QED
    BY <1>1, <1>2, <1>4, <2>2, <2>3 DEF Levels
<1>5. CASE entry[tlb][w] # NoPage
  <2>1. PICK v \in Replaceable(NextLevel) :
          entry' = [entry EXCEPT ![tlb][w] = page, ![NextLevel][v] = entry[tlb][w]]
    BY <1>3, <1>5
  <2>2. entry'[tlb] = [entry[tlb] EXCEPT ![w] = page]
    BY <1>1, <2>1 DEF TlbTypeOK
  <2>3. entry'[NextLevel] = [entry[NextLevel] EXCEPT ![v] = entry[tlb][w]]
    BY <1>1, <2>1 DEF TlbTypeOK
  <2>4. DOMAIN entry' = Levels /\ \A t \in Levels \ {tlb, NextLevel} : entry'[t] = entry[t]
    BY <1>1, <2>1 DEF TlbTypeOK
  <2> QED
    BY <1>1, <1>2, <1>5, <2>2, <2>3, <2>4 DEF Levels
<1> QED
  BY <1>4, <1>5

TlbInv == TlbTypeOK /\ FirstLevelUnique

(* A page that is looked up is held afterwards, and no other first level   *)
(* changes.                                                                *)
LEMMA LookupEffect ==
  ASSUME TlbInv, NEW tlb \in Tlbs, NEW page \in Pages, Lookup(tlb, page)
  PROVE  /\ TlbInv'
         /\ page \in Held(tlb)'
         /\ \A other \in Tlbs \ {tlb} : entry'[other] = entry[other]
<1>1. NextLevel \notin Tlbs /\ tlb \in Levels /\ NextLevel \in Levels /\ page # NoPage
  BY TlbAssumption DEF Levels
<1>2. CASE page \in Held(tlb)
  <2>1. UNCHANGED entry
    BY <1>2 DEF Lookup
  <2> QED
    BY <1>2, <2>1 DEF TlbInv, TlbTypeOK, FirstLevelUnique, Held, WaysOf
<1>3. CASE page \notin Held(tlb)
  <2>1. Allocate(tlb, page)
    BY <1>3 DEF Lookup
  <2>2. PICK w \in Replaceable(tlb) :
           /\ w \in WaysOf(tlb)
           /\ entry'[tlb] = [entry[tlb] EXCEPT ![w] = page]
           /\ \A other \in Tlbs \ {tlb} : entry'[other] = entry[other]
           /\ DOMAIN entry' = Levels
           /\ \/ entry[tlb][w] = NoPage /\ entry'[NextLevel] = entry[NextLevel]
              \/ /\ entry[tlb][w] # NoPage
                 /\ \E v \in Replaceable(NextLevel) :
                      /\ v \in WaysOf(NextLevel)
                      /\ entry'[NextLevel] = [entry[NextLevel] EXCEPT ![v] = entry[tlb][w]]
    BY <2>1, AllocateEffect DEF TlbInv
  <2>3. \A t \in Levels : entry[t] \in [WaysOf(t) -> Pages \cup {NoPage}]
    BY DEF TlbInv, TlbTypeOK
  <2>4. entry'[tlb] \in [WaysOf(tlb) -> Pages \cup {NoPage}]
    BY <1>1, <2>2, <2>3
  <2>5. entry'[NextLevel] \in [WaysOf(NextLevel) -> Pages \cup {NoPage}]
    <3>1. entry[tlb][w] \in Pages \cup {NoPage}
      BY <1>1, <2>2, <2>3
    <3> QED
      BY <1>1, <2>2, <2>3, <3>1
  <2>6. TlbTypeOK'
    BY <1>1, <2>2, <2>3, <2>4, <2>5 DEF TlbTypeOK, Levels, WaysOf
  <2>7. page \in Held(tlb)'
    BY <1>1, <2>2, <2>3 DEF Held, WaysOf
  <2>8. ASSUME NEW t \in Tlbs, NEW v \in WaysOf(t), NEW u \in WaysOf(t),
               entry'[t][v] = entry'[t][u], v # u
        PROVE  entry'[t][v] = NoPage
    <3>1. CASE t # tlb
      BY <2>2, <2>8, <3>1 DEF TlbInv, FirstLevelUnique
    <3>2. CASE t = tlb
      <4>1. \A x \in WaysOf(tlb) : entry[tlb][x] # page
        BY <1>1, <1>3 DEF Held
      <4>2. \A x \in WaysOf(tlb) : entry'[tlb][x] = IF x = w THEN page ELSE entry[tlb][x]
        BY <1>1, <2>2, <2>3
      <4>3. v # w /\ u # w
        BY <2>8, <3>2, <4>1, <4>2
      <4> QED
        BY <2>8, <3>2, <4>2, <4>3 DEF TlbInv, FirstLevelUnique
    <3> QED
      BY <3>1, <3>2
  <2>9. FirstLevelUnique'
    BY <2>8 DEF FirstLevelUnique, WaysOf
  <2> QED
    BY <2>2, <2>6, <2>7, <2>9 DEF TlbInv
<1> QED
  BY <1>2, <1>3

(* What a lookup makes the core forget.                                    *)
Forgotten ==
  \A page \in Known \ Known' :
    /\ NoPage \notin {entry[NextLevel][w] : w \in WaysOf(NextLevel)}
    /\ \A tlb \in Tlbs : page \notin Held(tlb)

LEMMA LookupForgets ==
  ASSUME TlbInv, NEW tlb \in Tlbs, NEW page \in Pages, Lookup(tlb, page)
  PROVE  Forgotten
<1>1. NextLevel \notin Tlbs /\ tlb \in Levels /\ NextLevel \in Levels /\ page # NoPage
  BY TlbAssumption DEF Levels
<1>2. CASE page \in Held(tlb)
  <2>1. UNCHANGED entry
    BY <1>2 DEF Lookup
  <2>2. Known' = Known
    BY <2>1 DEF Known, Held, WaysOf
  <2> QED
    BY <2>2 DEF Forgotten
<1>3. CASE page \notin Held(tlb)
  <2>1. Allocate(tlb, page)
    BY <1>3 DEF Lookup
  <2>2. PICK w \in Replaceable(tlb) :
           /\ w \in WaysOf(tlb)
           /\ entry'[tlb] = [entry[tlb] EXCEPT ![w] = page]
           /\ \A other \in Tlbs \ {tlb} : entry'[other] = entry[other]
           /\ DOMAIN entry' = Levels
           /\ \/ entry[tlb][w] = NoPage /\ entry'[NextLevel] = entry[NextLevel]
              \/ /\ entry[tlb][w] # NoPage
                 /\ \E v \in Replaceable(NextLevel) :
                      /\ v \in WaysOf(NextLevel)
                      /\ entry'[NextLevel] = [entry[NextLevel] EXCEPT ![v] = entry[tlb][w]]
    BY <2>1, AllocateEffect DEF TlbInv
  <2>3. \A t \in Levels : entry[t] \in [WaysOf(t) -> Pages \cup {NoPage}]
    BY DEF TlbInv, TlbTypeOK
  <2>4. SUFFICES ASSUME NEW p \in Known, p \notin Known'
                 PROVE  /\ NoPage \notin {entry[NextLevel][x] : x \in WaysOf(NextLevel)}
                        /\ \A t \in Tlbs : p \notin Held(t)
    BY DEF Forgotten
  <2>5. p # NoPage
    BY DEF Known, Held
  <2>6. \A t \in Levels : \A x \in WaysOf(t) : entry'[t][x] # p
    BY <2>4, <2>5 DEF Known, Held, Levels, WaysOf
  <2>7. \A t \in Tlbs \ {tlb} : p \notin Held(t)
    BY <2>2, <2>6 DEF Held, Levels
  <2>8. \A x \in WaysOf(tlb) : x # w => entry[tlb][x] # p
    BY <1>1, <2>2, <2>3, <2>6
  <2>9. entry[tlb][w] # p
    <3>1. CASE entry[tlb][w] = NoPage
      BY <2>5, <3>1
    <3>2. CASE entry[tlb][w] # NoPage
      <4>1. PICK v \in WaysOf(NextLevel) :
              entry'[NextLevel] = [entry[NextLevel] EXCEPT ![v] = entry[tlb][w]]
        BY <2>2, <3>2
      <4>2. entry'[NextLevel][v] = entry[tlb][w]
        BY <1>1, <2>3, <4>1
      <4> QED
        BY <1>1, <2>6, <4>1, <4>2
    <3> QED
      BY <3>1, <3>2
  <2>10. p \notin Held(tlb)
    BY <2>8, <2>9 DEF Held
  <2>11. PICK y \in WaysOf(NextLevel) : entry[NextLevel][y] = p
    <3>1. PICK t \in Levels : p \in Held(t)
      BY DEF Known, Levels
    <3>2. t = NextLevel
      BY <2>7, <2>10, <3>1 DEF Levels
    <3> QED
      BY <3>1, <3>2 DEF Held
  <2>12. PICK v \in Replaceable(NextLevel) :
           /\ v \in WaysOf(NextLevel)
           /\ entry'[NextLevel] = [entry[NextLevel] EXCEPT ![v] = entry[tlb][w]]
    <3>1. entry'[NextLevel] # entry[NextLevel]
      BY <1>1, <2>6, <2>11
    <3> QED
      BY <2>2, <3>1
  <2>13. y = v
    BY <1>1, <2>3, <2>6, <2>11, <2>12
  <2>14. \A x \in WaysOf(NextLevel) : entry[NextLevel][x] # NoPage
    BY <2>5, <2>11, <2>12, <2>13 DEF Replaceable
  <2> QED
    BY <2>7, <2>10, <2>14
<1> QED
  BY <1>2, <1>3

-----------------------------------------------------------------------------
LEMMA DivisionBounds ==
  ASSUME NEW a \in Nat
  PROVE  /\ BlockOf(a) \in Nat
         /\ BlockOf(a) * BlockSize <= a
         /\ a < BlockOf(a) * BlockSize + BlockSize
<1>1. BlockSize \in Nat \ {0}
  BY FetchAssumption
<1> QED
  BY <1>1 DEF BlockOf

(* Up to one block further on, an address is in the same block or the next *)
LEMMA NextBlock ==
  ASSUME NEW a \in Nat, NEW n \in 0 .. BlockSize
  PROVE  BlockOf(a + n) \in {BlockOf(a), BlockOf(a) + 1}
<1> DEFINE q == BlockOf(a)
           r == BlockOf(a + n)
<1>1. BlockSize \in Nat \ {0} /\ a + n \in Nat
  BY FetchAssumption
<1>2. q \in Nat /\ q * BlockSize <= a /\ a < q * BlockSize + BlockSize
  BY DivisionBounds
<1>3. r \in Nat /\ r * BlockSize <= a + n /\ a + n < r * BlockSize + BlockSize
  BY <1>1, DivisionBounds
<1> HIDE DEF q, r
<1>4. q <= r
  <2>1. q * BlockSize < (r + 1) * BlockSize
    BY <1>1, <1>2, <1>3
  <2> QED
    BY <1>1, <1>2, <1>3, <2>1
<1>5. r <= q + 1
  <2>1. r * BlockSize < (q + 2) * BlockSize
    BY <1>1, <1>2, <1>3
  <2> QED
    BY <1>1, <1>2, <1>3, <2>1
<1> QED
  BY <1>2, <1>3, <1>4, <1>5 DEF q, r

-----------------------------------------------------------------------------
(* Of an instruction over two blocks the second one may not be read yet:   *)
(* then the next instruction begins in it, and will read it.               *)
Owed(b) == b = BlockOf(pc - 1) /\ b = BlockOf(pc) /\ b # m_icache_last_block

FetchInv ==
  /\ TlbInv
  /\ pc \in 0 .. CodeBytes
  /\ SkippedPageHeld
  /\ m_icache_last_block \in fetched \cup {before}
  /\ fetched \subseteq executed
  /\ \A b \in executed : b \in fetched \cup {before} \/ Owed(b)

LEMMA FetchInvInitially == FetchInit => FetchInv
<1> SUFFICES ASSUME FetchInit PROVE FetchInv
  OBVIOUS
<1>1. \A tlb \in Levels : entry[tlb] = [w \in WaysOf(tlb) |-> NoPage]
  BY DEF FetchInit, Init, Levels
<1>2. TlbTypeOK
  BY <1>1 DEF FetchInit, Init, TlbTypeOK, Levels
<1>3. FirstLevelUnique
  BY <1>1 DEF FirstLevelUnique, Levels
<1>4. pc \in 0 .. CodeBytes
  BY FetchAssumption DEF FetchInit
<1> QED
  BY <1>2, <1>3, <1>4 DEF FetchInit, FetchInv, TlbInv, SkippedPageHeld

(* What an instruction reads, and that it settles what was owed.           *)
LEMMA ExecuteKeepsFetchInv ==
  ASSUME FetchInv, NEW size \in 1 .. BlockSize, Execute(size)
  PROVE  FetchInv'
<1> DEFINE first == BlockOf(pc)
           last == BlockOf(pc + size - 1)
           block == BlockToRead(pc, size)
<1>1. /\ BlockSize \in Nat \ {0} /\ CodeBytes \in Nat \ {0} /\ ITlb \in Tlbs
      /\ pc \in Nat /\ size \in Nat \ {0} /\ pc + size - 1 \in Nat
      /\ pc < CodeBytes /\ pc + size - 1 < CodeBytes
  BY FetchAssumption DEF FetchInv, Execute
<1>2. first \in Nat /\ last \in {first, first + 1}
  <2>1. size - 1 \in 0 .. BlockSize /\ pc + size - 1 = pc + (size - 1)
    BY <1>1
  <2> QED
    BY <1>1, <2>1, DivisionBounds, NextBlock
<1>3. PageOf(first) \in Pages /\ PageOf(last) \in Pages
  BY <1>1, FetchAssumption DEF BlockOf, PageOf
<1>4. first # NoBlock /\ last # NoBlock
  BY <1>2, FetchAssumption
<1>5. BlockOf(pc + size) \in {first, first + 1} /\ BlockOf(pc + size) \in {last, last + 1}
  <2>1. pc + size = (pc + size - 1) + 1 /\ 1 \in 0 .. BlockSize /\ size \in 0 .. BlockSize
    BY <1>1
  <2> QED
    BY <1>1, <2>1, NextBlock
<1>6. /\ pc' = pc + size
      /\ executed' = executed \cup {first, last}
      /\ before' = before
      /\ pc' - 1 = pc + size - 1
  BY <1>1 DEF Execute
<1>7. pc' \in 0 .. CodeBytes
  BY <1>1, <1>6 DEF Execute
<1>8. \/ first # m_icache_last_block /\ block = first
      \/ first = m_icache_last_block /\ last = first /\ block = NoBlock
      \/ first = m_icache_last_block /\ last = first + 1 /\ block = last
  BY <1>2 DEF BlockToRead, LastByte
<1>9. block \in {NoBlock, first, last}
  BY <1>8
<1> HIDE DEF first, last, block
<1>10. \A b \in executed : b \in fetched \cup {before} \/ (b = first /\ first # m_icache_last_block)
  BY DEF FetchInv, Owed, first
<1>11. CASE block = NoBlock
  <2>1. UNCHANGED <<m_icache_last_block, entry, fetched>>
    BY <1>11 DEF Execute, ReadInstructionMemory, block
  <2>2. first = m_icache_last_block /\ last = first
    BY <1>4, <1>8, <1>11
  <2>3. TlbInv' /\ SkippedPageHeld'
    BY <2>1 DEF FetchInv, TlbInv, TlbTypeOK, FirstLevelUnique, SkippedPageHeld, Held, WaysOf, PageOf
  <2>4. \A b \in executed' : b \in fetched' \cup {before'}
    BY <1>6, <1>10, <2>1, <2>2 DEF FetchInv
  <2>5. fetched' \subseteq executed' /\ m_icache_last_block' \in fetched' \cup {before'}
    BY <1>6, <2>1 DEF FetchInv
  <2> QED
    BY <1>7, <2>3, <2>4, <2>5 DEF FetchInv
<1>12. CASE block # NoBlock
  <2>1. /\ m_icache_last_block' = block
        /\ Lookup(ITlb, PageOf(block))
        /\ fetched' = fetched \cup {block}
    BY <1>12 DEF Execute, ReadInstructionMemory, block
  <2>2. PageOf(block) \in Pages
    BY <1>3, <1>9, <1>12
  <2>3. TlbInv' /\ PageOf(block) \in Held(ITlb)'
    BY <1>1, <2>1, <2>2, LookupEffect DEF FetchInv
  <2>4. SkippedPageHeld'
    BY <2>1, <2>3 DEF SkippedPageHeld, PageOf
  <2>5. fetched' \subseteq executed' /\ m_icache_last_block' \in fetched' \cup {before'}
    BY <1>6, <1>9, <1>12, <2>1 DEF FetchInv
  <2>6. first \in fetched' \cup {before'}
    BY <1>6, <1>8, <1>12, <2>1 DEF FetchInv
  <2>7. \/ last \in fetched' \cup {before'}
        \/ last = BlockOf(pc' - 1) /\ last = BlockOf(pc') /\ last # m_icache_last_block'
    <3>1. CASE block = last
      BY <2>1, <3>1
    <3>2. CASE block # last
      <4>1. last # first => last = first + 1 /\ BlockOf(pc + size) = last
        BY <1>2, <1>5
      <4>2. CASE last = first
        BY <2>6, <4>2
      <4>3. CASE last # first
        <5>1. last = BlockOf(pc' - 1)
          BY <1>6 DEF last
        <5>2. last = BlockOf(pc') /\ last # m_icache_last_block'
          BY <1>6, <2>1, <3>2, <4>1, <4>3
        <5> QED
          BY <5>1, <5>2
      <4> QED
        BY <4>2, <4>3
    <3> QED
      BY <3>1, <3>2
  <2>8. \A b \in executed' : b \in fetched' \cup {before'} \/ Owed(b)'
    <3>1. \A b \in executed : b \in fetched' \cup {before'}
      BY <1>6, <1>10, <2>1, <2>6
    <3> QED
      BY <1>6, <2>6, <2>7, <3>1 DEF Owed, BlockOf
  <2> QED
    BY <1>7, <2>3, <2>4, <2>5, <2>8 DEF FetchInv
<1> QED
  BY <1>11, <1>12

(* A data access may move pages about, but not in the instruction TLB.     *)
LEMMA AccessKeepsFetchInv ==
  ASSUME FetchInv, NEW page \in Pages, AccessData(page)
  PROVE  FetchInv'
<1>1. DTlb \in Tlbs /\ ITlb \in Tlbs \ {DTlb} /\ Lookup(DTlb, page)
  BY FetchAssumption DEF AccessData
<1>2. TlbInv' /\ entry'[ITlb] = entry[ITlb]
  BY <1>1, LookupEffect DEF FetchInv
<1>3. UNCHANGED <<m_icache_last_block, pc, executed, fetched, before>>
  BY DEF AccessData
<1>4. SkippedPageHeld'
  BY <1>2, <1>3 DEF FetchInv, SkippedPageHeld, Held, WaysOf, PageOf
<1> QED
  BY <1>2, <1>3, <1>4 DEF FetchInv, Owed, BlockOf

LEMMA StepKeepsFetchInv == FetchInv /\ [FetchNext]_vars => FetchInv'
<1> SUFFICES ASSUME FetchInv, [FetchNext]_vars PROVE FetchInv'
  OBVIOUS
<1>1. ASSUME NEW size \in 1 .. BlockSize, Execute(size) PROVE FetchInv'
  BY <1>1, ExecuteKeepsFetchInv
<1>2. ASSUME NEW target \in 0 .. CodeBytes - 1, Jump(target) PROVE FetchInv'
  <2>1. CodeBytes \in Nat /\ pc' = target /\ pc' \in 0 .. CodeBytes
    BY <1>2, FetchAssumption DEF Jump
  <2>2. /\ UNCHANGED <<entry, m_icache_last_block>>
        /\ executed' = {} /\ fetched' = {} /\ before' = m_icache_last_block
    BY <1>2 DEF Jump
  <2> QED
    BY <2>1, <2>2 DEF FetchInv, TlbInv, TlbTypeOK, FirstLevelUnique, SkippedPageHeld, Held, WaysOf, PageOf
<1>3. ASSUME NEW page \in Pages, AccessData(page) PROVE FetchInv'
  BY <1>3, AccessKeepsFetchInv
<1>4. CASE UNCHANGED vars
  BY <1>4 DEF vars, FetchInv, TlbInv, TlbTypeOK, FirstLevelUnique, SkippedPageHeld, Held, WaysOf,
              PageOf, Owed, BlockOf
<1> QED
  BY <1>1, <1>2, <1>3, <1>4 DEF FetchNext

LEMMA FetchInvHolds == FetchSpec => []FetchInv
  BY FetchInvInitially, StepKeepsFetchInv, PTL DEF FetchSpec

(* No first-level TLB spends two of its ways on one page (TLB::lookup).    *)
THEOREM FirstLevelsHoldPagesOnce == FetchSpec => []FirstLevelUnique
<1>1. FetchInv => FirstLevelUnique
  BY DEF FetchInv, TlbInv
<1> QED
  BY <1>1, FetchInvHolds, PTL

(* Skipping the fetch from the block read last (readInstructionMemory)     *)
(* skips no miss of the instruction TLB.                                   *)
THEOREM SkippedFetchesHit == FetchSpec => []SkippedPageHeld
<1>1. FetchInv => SkippedPageHeld
  BY DEF FetchInv
<1> QED
  BY <1>1, FetchInvHolds, PTL

(* Along straight-line code no block goes unread, whatever the lengths of  *)
(* the instructions (readInstructionMemory).                               *)
THEOREM StraightLineCodeIsRead == FetchSpec => []StraightLineRead
<1>1. FetchInv => StraightLineRead
  BY DEF FetchInv, StraightLineRead, Owed
<1> QED
  BY <1>1, FetchInvHolds, PTL

(* The next level is a victim cache: only what it alone held, while full,  *)
(* is ever forgotten (TLB::lookup, TLB::allocate).                         *)
THEOREM OnlyVictimsAreForgotten == FetchSpec => ForgetsOnlyVictims
<1>1. FetchInv /\ [FetchNext]_vars => [Forgotten]_entry
  <2> SUFFICES ASSUME FetchInv, [FetchNext]_vars, entry' # entry PROVE Forgotten
    OBVIOUS
  <2>1. PICK tlb \in Tlbs, page \in Pages : Lookup(tlb, page)
    <3>1. ASSUME NEW size \in 1 .. BlockSize, Execute(size)
          PROVE  \E page \in Pages : Lookup(ITlb, page)
      <4>1. BlockToRead(pc, size) # NoBlock /\ Lookup(ITlb, PageOf(BlockToRead(pc, size)))
        BY <3>1 DEF Execute, ReadInstructionMemory
      <4>2. /\ pc \in Nat /\ pc + size - 1 \in Nat /\ size - 1 \in 0 .. BlockSize
            /\ pc < CodeBytes /\ pc + size - 1 < CodeBytes /\ pc + size - 1 = pc + (size - 1)
            /\ CodeBytes \in Nat
        BY <3>1, FetchAssumption DEF FetchInv, Execute
      <4>3. BlockToRead(pc, size) \in {BlockOf(pc), BlockOf(pc + size - 1)}
        <5>1. BlockOf(pc) \in Nat /\ BlockOf(pc + size - 1) \in {BlockOf(pc), BlockOf(pc) + 1}
          BY <4>2, DivisionBounds, NextBlock
        <5> QED
          BY <4>1, <5>1 DEF BlockToRead, LastByte
      <4>4. PageOf(BlockToRead(pc, size)) \in Pages
        BY <4>2, <4>3, FetchAssumption DEF BlockOf, PageOf
      <4> QED
        BY <4>1, <4>4
    <3>2. ASSUME NEW page \in Pages, AccessData(page)
          PROVE  Lookup(DTlb, page)
      BY <3>2 DEF AccessData
    <3>3. ASSUME NEW target \in 0 .. CodeBytes - 1, Jump(target) PROVE FALSE
      BY <3>3 DEF Jump
    <3> QED
      BY <3>1, <3>2, <3>3, FetchAssumption DEF FetchNext, vars
  <2> QED
    BY <2>1, LookupForgets DEF FetchInv
<1>2. FetchSpec => [][Forgotten]_entry
  BY <1>1, FetchInvHolds, PTL DEF FetchSpec
<1> QED
  BY <1>2, PTL DEF ForgetsOnlyVictims, Forgotten

-----------------------------------------------------------------------------
(* The instruction address of an access.                                   *)
EipTypeOK ==
  /\ global_eip \in Eips \cup {NoEip}
  /\ m_eip \in [Cores -> Eips \cup {NoEip}]
  /\ eip \in [Cores -> Eips \cup {NoEip}]
  /\ stage \in [Cores -> {"idle", "accessing", "missing"}]
  /\ filled \subseteq Masters

(* Only owners receive messages, so nobody else's controller ever hears of *)
(* an instruction.                                                         *)
SharersHearNothing == \A c \in Cores \ Masters : m_eip[c] = NoEip

EipInv == EipTypeOK /\ SharersHearNothing /\ SharersTrainZero

LEMMA EipInvInit == ASSUME EipAssumption PROVE EipInit => EipInv
BY DEF EipAssumption, EipInit, EipInv, EipTypeOK, SharersHearNothing, SharersTrainZero,
       Untrained

LEMMA EipInvStep ==
  ASSUME EipAssumption, EipInv, [EipNext]_eipVars
  PROVE  EipInv'
<1>1. \A c \in Cores : MasterOf[c] \in Masters /\ MasterOf[c] \in Cores
  BY DEF EipAssumption, Masters
<1> USE DEF EipAssumption, EipInv, EipTypeOK, SharersHearNothing, SharersTrainZero
<1>2. ASSUME NEW c \in Cores, NEW e \in Eips \cup {NoEip}, Issue(c, e) PROVE EipInv'
  BY <1>2 DEF Issue
<1>3. ASSUME NEW c \in Cores, HitAbove(c) PROVE EipInv'
  BY <1>3 DEF HitAbove
<1>4. ASSUME NEW c \in Cores, HitLastLevel(c) PROVE EipInv'
  BY <1>4 DEF HitLastLevel
<1>5. ASSUME NEW c \in Cores, MissLastLevel(c) PROVE EipInv'
  BY <1>5 DEF MissLastLevel
<1>6. ASSUME NEW c \in Cores, Reply(c) PROVE EipInv'
  BY <1>1, <1>6 DEF Reply
<1>7. ASSUME NEW m \in Masters, Snooped(m) PROVE EipInv'
  BY <1>1, <1>7 DEF Snooped
<1>8. CASE UNCHANGED eipVars
  BY <1>8 DEF eipVars
<1> QED
  BY <1>2, <1>3, <1>4, <1>5, <1>6, <1>7, <1>8 DEF EipNext

(* handleMsgFromNetwork copies global_eip into one controller of those     *)
(* that share a cache; accesses of the other cores that hit there train    *)
(* with what their own controller was constructed with.                    *)
THEOREM SharersAlwaysTrainZero ==
  ASSUME EipAssumption PROVE EipSpec => []SharersTrainZero
<1>1. EipInv /\ [EipNext]_eipVars => EipInv'
  BY EipInvStep
<1>2. EipSpec => []EipInv
  BY <1>1, EipInvInit, PTL DEF EipSpec
<1>3. EipInv => SharersTrainZero
  BY DEF EipInv
<1> QED
  BY <1>2, <1>3, PTL

-----------------------------------------------------------------------------
(* What a lone core left in global_eip stays there until it is answered.   *)
Pending ==
  EipTypeOK /\ \A c \in Cores : stage[c] # "idle" => global_eip = eip[c]

LEMMA PendingStep ==
  ASSUME EipAssumption, \A c, d \in Cores : c = d, Pending, [EipNext]_eipVars
  PROVE  Pending'
<1> USE DEF EipAssumption, Pending, EipTypeOK
<1>1. \A c \in Cores : MasterOf[c] \in Masters /\ MasterOf[c] \in Cores
  BY DEF Masters
<1>2. ASSUME NEW c \in Cores, NEW e \in Eips \cup {NoEip}, Issue(c, e) PROVE Pending'
  BY <1>2 DEF Issue
<1>3. ASSUME NEW c \in Cores, HitAbove(c) PROVE Pending'
  BY <1>3 DEF HitAbove
<1>4. ASSUME NEW c \in Cores, HitLastLevel(c) PROVE Pending'
  BY <1>4 DEF HitLastLevel
<1>5. ASSUME NEW c \in Cores, MissLastLevel(c) PROVE Pending'
  BY <1>5 DEF MissLastLevel
<1>6. ASSUME NEW c \in Cores, Reply(c) PROVE Pending'
  BY <1>1, <1>6 DEF Reply
<1>7. ASSUME NEW m \in Masters, Snooped(m) PROVE Pending'
  BY <1>1, <1>7 DEF Snooped
<1>8. CASE UNCHANGED eipVars
  BY <1>8 DEF eipVars
<1> QED
  BY <1>2, <1>3, <1>4, <1>5, <1>6, <1>7, <1>8 DEF EipNext

AnswersCarry ==
  \A c \in Cores : stage[c] = "missing" /\ stage'[c] # "missing" =>
    m_eip'[MasterOf[c]] = eip[c]

LEMMA AnswerStep ==
  ASSUME EipAssumption, Pending, [EipNext]_eipVars
  PROVE  AnswersCarry
<1> SUFFICES ASSUME NEW c \in Cores, stage[c] = "missing", stage'[c] # "missing"
             PROVE  m_eip'[MasterOf[c]] = eip[c]
    BY DEF AnswersCarry
<1> USE DEF EipAssumption, Pending, EipTypeOK
<1>1. ASSUME NEW d \in Cores, Reply(d) PROVE m_eip'[MasterOf[c]] = eip[c]
  <2>1. c = d
    BY <1>1 DEF Reply
  <2>2. MasterOf[c] \in Cores
    OBVIOUS
  <2> QED
    BY <1>1, <2>1, <2>2 DEF Reply
<1>2. ASSUME NEW d \in Cores,
             \/ \E e \in Eips \cup {NoEip} : Issue(d, e)
             \/ HitAbove(d) \/ HitLastLevel(d) \/ MissLastLevel(d)
      PROVE  FALSE
  BY <1>2 DEF Issue, HitAbove, HitLastLevel, MissLastLevel
<1>3. ASSUME NEW m \in Masters, Snooped(m) PROVE FALSE
  BY <1>3 DEF Snooped
<1>4. CASE UNCHANGED eipVars
  BY <1>4 DEF eipVars
<1> QED
  BY <1>1, <1>2, <1>3, <1>4 DEF EipNext

(* coreInitiateMemoryAccess and handleMsgFromNetwork: a single core's miss *)
(* is answered with the address of the instruction that missed.            *)
THEOREM LoneCoreRepliesCarryRequester ==
  ASSUME EipAssumption, \A c, d \in Cores : c = d
  PROVE  EipSpec => ReplyCarriesRequester
<1>1. EipInit => Pending
  BY DEF EipAssumption, EipInit, Pending, EipTypeOK
<1>2. Pending /\ [EipNext]_eipVars => Pending'
  BY PendingStep
<1>3. Pending /\ [EipNext]_eipVars => [AnswersCarry]_eipVars
  BY AnswerStep
<1>4. EipSpec => [][AnswersCarry]_eipVars
  BY <1>1, <1>2, <1>3, PTL DEF EipSpec
<1> QED
  BY <1>4 DEF ReplyCarriesRequester, AnswersCarry
=============================================================================
