------------------------- MODULE PeriodicHook_proofs -------------------------
(***************************************************************************)
(* For any number of cores and any configuration: HOOK_PERIODIC_INS is     *)
(* never called for a period that has not begun and, if cores report often *)
(* enough, never forgotten for one that has.                               *)
(***************************************************************************)
EXTENDS PeriodicHook, FiniteSetTheorems, WellFoundedInduction, TLAPS

(* A core in the hook holds the lock, and as long as the lock is held the  *)
(* count stays ahead of the threshold: others can only add to the count.   *)
LockProtectsHook ==
  /\ \A c \in Cores : pc[c] = "hook" => holder = c
  /\ holder # Nobody => Due

(* No core reported more than it executed.                                 *)
ReportsExecuted == \A c \in Cores : m_instructions_hpi_last[c] <= m_instructions[c]

IInv == TypeOK /\ HookNotEarly /\ LockProtectsHook /\ ReportsExecuted

LEMMA InitEstablishes == Init => IInv
BY HookAssumption
   DEF Init, IInv, TypeOK, HookNotEarly, LockProtectsHook, ReportsExecuted, Due

LEMMA TypeStep == TypeOK /\ [Next]_vars => TypeOK'
<1> SUFFICES ASSUME TypeOK, [Next]_vars PROVE TypeOK'
    OBVIOUS
<1> USE HookAssumption DEF TypeOK
<1>1. ASSUME NEW c \in Cores, NEW n \in Counts, CountInstructions(c, n)
      PROVE  TypeOK'
  <2>1. m_instructions[c] + n \in Nat
    OBVIOUS
  <2> QED
    BY <1>1, <2>1 DEF CountInstructions, Goes, globals
<1>2. ASSUME NEW c \in Cores, Add(c) PROVE TypeOK'
  <2>1. m_instructions_hpi_callback[c] + PerCore \in Nat
    OBVIOUS
  <2> QED
    BY <1>2, <2>1 DEF Add, Goes
<1>3. ASSUME NEW c \in Cores, QuickCheck(c) PROVE TypeOK'
  BY <1>3 DEF QuickCheck, Goes, counters, globals
<1>4. ASSUME NEW c \in Cores, LockAndCheck(c) PROVE TypeOK'
  BY <1>4 DEF LockAndCheck, Goes, counters, globals
<1>5. ASSUME NEW c \in Cores, HookReturns(c) PROVE TypeOK'
  BY <1>5 DEF HookReturns, Goes, counters
<1>6. CASE UNCHANGED vars
  BY <1>6 DEF vars, counters, globals
<1> QED
  BY <1>1, <1>2, <1>3, <1>4, <1>5, <1>6 DEF Next

LEMMA InvariantStep == IInv /\ [Next]_vars => IInv'
<1> SUFFICES ASSUME IInv, [Next]_vars PROVE IInv'
    OBVIOUS
<1>0. TypeOK'
  BY TypeStep DEF IInv
<1> USE HookAssumption
    DEF IInv, TypeOK, HookNotEarly, LockProtectsHook, ReportsExecuted, Due
<1>1. ASSUME NEW c \in Cores, NEW n \in Counts, CountInstructions(c, n)
      PROVE  IInv'
  BY <1>0, <1>1 DEF CountInstructions, Goes, globals
<1>2. ASSUME NEW c \in Cores, Add(c) PROVE IInv'
  <2>1. g_instructions_hpi_global <= g_instructions_hpi_global'
    BY <1>2 DEF Add
  <2>2. HookNotEarly' /\ LockProtectsHook'
    BY <1>2, <2>1 DEF Add, Goes
  <2>3. ReportsExecuted'
    BY <1>2 DEF Add
  <2> QED
    BY <1>0, <2>2, <2>3
<1>3. ASSUME NEW c \in Cores, QuickCheck(c) PROVE IInv'
  BY <1>0, <1>3 DEF QuickCheck, Goes, counters, globals
<1>4. ASSUME NEW c \in Cores, LockAndCheck(c) PROVE IInv'
  BY <1>0, <1>4 DEF LockAndCheck, Goes, counters, globals
<1>5. ASSUME NEW c \in Cores, HookReturns(c) PROVE IInv'
  <2>1. holder = c /\ Due
    BY <1>5 DEF HookReturns, Goes
  <2>2. HookNotEarly'
    BY <1>5, <2>1 DEF HookReturns
  <2>3. LockProtectsHook' /\ ReportsExecuted'
    BY <1>5, <2>1 DEF HookReturns, Goes, counters
  <2> QED
    BY <1>0, <2>2, <2>3
<1>6. CASE UNCHANGED vars
  BY <1>6 DEF vars, counters, globals
<1> QED
  BY <1>1, <1>2, <1>3, <1>4, <1>5, <1>6 DEF Next

(* hookPeriodicInsCall: however the cores' checks interleave, the threshold*)
(* stays less than one period ahead of the instructions counted.           *)
THEOREM HookIsNeverEarly == Spec => []HookNotEarly
<1>1. Spec => []IInv
  BY InitEstablishes, InvariantStep, PTL DEF Spec
<1>2. IInv => HookNotEarly
  BY DEF IInv
<1> QED
  BY <1>1, <1>2, PTL

-----------------------------------------------------------------------------
(* How much a core may have to report: what it counts between two reports  *)
(* fits in one period, as its report comes at the first call that passes   *)
(* its callback.                                                           *)
ReportsFit ==
  \A c \in Cores :
    /\ m_instructions_hpi_callback[c] <= m_instructions_hpi_last[c] + PerCore
    /\ pc[c] # "add" => m_instructions[c] <= m_instructions_hpi_last[c] + PerCore
    /\ pc[c] = "add" => /\ m_instructions[c] <= m_instructions_hpi_last[c] + Period
                        /\ m_instructions[c] > m_instructions_hpi_callback[c]

LEMMA ReportsFitStep == IInv /\ ReportsFit /\ [Next]_vars => ReportsFit'
<1> SUFFICES ASSUME IInv, ReportsFit, [Next]_vars PROVE ReportsFit'
    OBVIOUS
<1> USE HookAssumption DEF IInv, TypeOK, ReportsFit
<1>1. ASSUME NEW c \in Cores, NEW n \in Counts, CountInstructions(c, n)
      PROVE  ReportsFit'
  <2>1. n \in Nat /\ PerCore + n <= Period
    BY PacingAssumption
  <2>2. pc[c] = "idle" /\ m_instructions'[c] = m_instructions[c] + n
    BY <1>1 DEF CountInstructions, Goes
  <2> QED
    BY <1>1, <2>1, <2>2 DEF CountInstructions, Goes, globals
<1>2. ASSUME NEW c \in Cores, Add(c) PROVE ReportsFit'
  BY <1>2 DEF Add, Goes
<1>3. ASSUME NEW c \in Cores, QuickCheck(c) PROVE ReportsFit'
  BY <1>3 DEF QuickCheck, Goes, counters
<1>4. ASSUME NEW c \in Cores, LockAndCheck(c) PROVE ReportsFit'
  BY <1>4 DEF LockAndCheck, Goes, counters
<1>5. ASSUME NEW c \in Cores, HookReturns(c) PROVE ReportsFit'
  BY <1>5 DEF HookReturns, Goes, counters
<1>6. CASE UNCHANGED vars
  BY <1>6 DEF vars, counters
<1> QED
  BY <1>1, <1>2, <1>3, <1>4, <1>5, <1>6 DEF Next

(* Multiples of the period, and the cores underway before and after one    *)
(* joins or leaves.                                                        *)
LEMMA PeriodMultiples ==
  /\ \A k \in Nat : Period * k \in Nat
  /\ \A k \in Nat : Period * (k + 1) = Period * k + Period
BY HookAssumption, Z3

LEMMA UnderwayCounted ==
  ASSUME TypeOK
  PROVE  IsFiniteSet(Underway) /\ Cardinality(Underway) \in Nat
<1>1. Underway \in SUBSET Cores
  BY DEF Underway
<1> QED
  BY <1>1, HookAssumption, FS_Subset, FS_CardinalityType

(* A core that leaves when nothing is due, or when its period is done,     *)
(* leaves enough cores behind; one that joins brings at most a period.     *)
LEMMA NotForgottenStep ==
  IInv /\ ReportsFit /\ HookNotForgotten /\ [Next]_vars => HookNotForgotten'
<1> SUFFICES ASSUME IInv, ReportsFit, HookNotForgotten, [Next]_vars
             PROVE  HookNotForgotten'
    OBVIOUS
<1>0. TypeOK /\ TypeOK'
  BY TypeStep DEF IInv
<1> DEFINE ahead == g_instructions_hpi_global - g_instructions_hpi_global_callback
           k     == Cardinality(Underway)
<1>a. /\ IsFiniteSet(Underway) /\ k \in Nat
      /\ k' \in Nat
  <2>1. IsFiniteSet(Underway)' /\ k' \in Nat
    <3>1. Underway' \in SUBSET Cores
      BY <1>0 DEF Underway, TypeOK
    <3> QED
      BY <3>1, HookAssumption, FS_Subset, FS_CardinalityType
  <2> QED
    BY <1>0, <2>1, UnderwayCounted
<1>b. ahead \in Int /\ ahead' \in Int /\ ahead <= Period * k
  BY <1>0 DEF HookNotForgotten, TypeOK
<1>c. Period * k \in Nat /\ Period * k' \in Nat
  BY <1>a, PeriodMultiples
<1>g. SUFFICES ahead' <= Period * k'
  BY DEF HookNotForgotten
<1>1. ASSUME NEW c \in Cores, NEW n \in Counts, CountInstructions(c, n)
      PROVE  ahead' <= Period * k'
  <2>1. Underway' = Underway
    BY <1>0, <1>1 DEF Underway, CountInstructions, Goes, TypeOK
  <2>2. ahead' = ahead
    BY <1>1 DEF CountInstructions, globals
  <2> QED
    BY <1>b, <2>1, <2>2
<1>2. ASSUME NEW c \in Cores, Add(c) PROVE ahead' <= Period * k'
  <2>1. Underway' = Underway \cup {c} /\ c \notin Underway
    BY <1>0, <1>2 DEF Underway, Add, Goes, TypeOK
  <2>2. k' = k + 1
    BY <1>a, <2>1, FS_AddElement
  <2>3. m_instructions[c] - m_instructions_hpi_last[c] <= Period
    BY <1>0, <1>2, HookAssumption DEF ReportsFit, TypeOK, Add, Goes
  <2>4. ahead' <= ahead + Period
    BY <1>0, <1>2, <2>3, HookAssumption DEF Add, TypeOK
  <2>5. Period * k' = Period * k + Period
    BY <1>a, <2>2, PeriodMultiples
  <2> QED
    BY <1>b, <1>c, <2>4, <2>5, HookAssumption
<1>3. ASSUME NEW c \in Cores, QuickCheck(c) \/ LockAndCheck(c)
      PROVE  ahead' <= Period * k'
  <2>1. ahead' = ahead
    BY <1>3 DEF QuickCheck, LockAndCheck, globals
  <2>2. CASE Due
    <3>1. Underway' = Underway
      BY <1>0, <1>3, <2>2 DEF Underway, QuickCheck, LockAndCheck, Goes, TypeOK
    <3> QED
      BY <1>b, <2>1, <3>1
  <2>3. CASE ~Due
    <3>1. ahead <= 0
      BY <1>0, <2>3 DEF Due, TypeOK
    <3> HIDE DEF ahead
    <3> QED
      BY <1>b, <1>c, <2>1, <3>1
  <2> QED
    BY <2>2, <2>3
<1>4. ASSUME NEW c \in Cores, HookReturns(c) PROVE ahead' <= Period * k'
  <2>1. Underway' = Underway \ {c} /\ c \in Underway
    BY <1>0, <1>4 DEF Underway, HookReturns, Goes, TypeOK
  <2>2. k = k' + 1
    <3>1. Cardinality(Underway \ {c}) = k - 1
      BY <1>a, <2>1, FS_RemoveElement
    <3>2. k' = k - 1
      BY <2>1, <3>1
    <3> HIDE DEF k
    <3> QED
      BY <1>a, <3>2
  <2>3. Period * k = Period * k' + Period
    BY <1>a, <2>2, PeriodMultiples
  <2>4. ahead' = ahead - Period
    BY <1>0, <1>4, HookAssumption DEF HookReturns, TypeOK
  <2> QED
    BY <1>b, <1>c, <2>3, <2>4, HookAssumption
<1>5. CASE UNCHANGED vars
  <2>1. Underway' = Underway /\ ahead' = ahead
    BY <1>5 DEF Underway, vars, globals
  <2> QED
    BY <1>b, <2>1
<1> QED
  BY <1>1, <1>2, <1>3, <1>4, <1>5 DEF Next

(* hookPeriodicInsCheck: for every period the count is ahead of the        *)
(* threshold a core is on its way to the hook, for any number of cores,    *)
(* provided that what a core reports fits in one period.                   *)
THEOREM HookIsNotForgotten == Spec => []HookNotForgotten
<1>1. Init => ReportsFit /\ HookNotForgotten
  <2> SUFFICES ASSUME Init PROVE ReportsFit /\ HookNotForgotten
      OBVIOUS
  <2>1. ReportsFit
    BY HookAssumption DEF Init, ReportsFit
  <2>2. TypeOK
    BY InitEstablishes DEF IInv
  <2>3. Period * Cardinality(Underway) \in Nat
    BY <2>2, UnderwayCounted, PeriodMultiples
  <2> QED
    BY <2>1, <2>3 DEF Init, HookNotForgotten
<1> QED
  BY <1>1, InitEstablishes, InvariantStep, ReportsFitStep, NotForgottenStep, PTL DEF Spec

-----------------------------------------------------------------------------
(* The sum over the cores.  A set of naturals that has 0 and with every    *)
(* number the next has them all.                                           *)
LEMMA Naturally ==
  ASSUME NEW T, 0 \in T, \A n \in Nat : n \in T => n + 1 \in T
  PROVE  \A n \in Nat : n \in T
<1> SUFFICES ASSUME Nat \ T # {} PROVE FALSE
    OBVIOUS
<1>1. \E n \in Nat \ T : \A k \in Nat \ T : ~ (<<k, n>> \in OpToRel(<, Nat))
  BY WFMin, NatLessThanWellFounded
<1>2. PICK n \in Nat \ T : \A k \in Nat \ T : ~ (k < n)
  BY <1>1 DEF OpToRel
<1>3. n - 1 \in Nat /\ n - 1 < n /\ n = (n - 1) + 1
  BY <1>2
<1> QED
  BY <1>2, <1>3

(* MapThenSumSet takes one core after the other from the set.              *)
Pick(s) == CHOOSE c \in s : TRUE
Adds(f, sum, sets) ==
  sum = [s \in sets |-> IF s = {} THEN 0 ELSE f[Pick(s)] + sum[s \ {Pick(s)}]]
Sum(f) == CHOOSE sum : Adds(f, sum, SUBSET Cores)
AtMost(n) == {s \in SUBSET Cores : Cardinality(s) <= n}

LEMMA Picked ==
  ASSUME NEW n \in Nat, NEW s \in AtMost(n + 1), s # {}
  PROVE  Pick(s) \in s /\ Pick(s) \in Cores /\ s \ {Pick(s)} \in AtMost(n)
<1>1. Pick(s) \in s /\ s \in SUBSET Cores /\ Cardinality(s) <= n + 1
  BY DEF Pick, AtMost
<1>2. IsFiniteSet(s)
  BY <1>1, HookAssumption, FS_Subset
<1>3. Cardinality(s) \in Nat /\ Cardinality(s \ {Pick(s)}) = Cardinality(s) - 1
  BY <1>1, <1>2, FS_CardinalityType, FS_RemoveElement
<1> QED
  BY <1>1, <1>3 DEF AtMost

LEMMA FewestAreEmpty == AtMost(0) = {{}}
<1>1. \A s \in AtMost(0) : s = {}
  <2> SUFFICES ASSUME NEW s \in SUBSET Cores, Cardinality(s) <= 0 PROVE s = {}
      BY DEF AtMost
  <2>1. IsFiniteSet(s) /\ Cardinality(s) \in Nat
    BY HookAssumption, FS_Subset, FS_CardinalityType
  <2> QED
    BY <2>1, FS_EmptySet
<1>2. {} \in AtMost(0)
  BY FS_EmptySet DEF AtMost
<1> QED
  BY <1>1, <1>2

LEMMA AllAreAtMost == \E n \in Nat : AtMost(n) = SUBSET Cores
<1>1. Cardinality(Cores) \in Nat
  BY HookAssumption, FS_CardinalityType
<1>2. \A s \in SUBSET Cores : Cardinality(s) <= Cardinality(Cores)
  BY HookAssumption, FS_Subset
<1> QED
  BY <1>1, <1>2 DEF AtMost

LEMMA SumExists ==
  ASSUME NEW f
  PROVE  Adds(f, Sum(f), SUBSET Cores)
<1> DEFINE Has(n) == \E sum : Adds(f, sum, AtMost(n))
           T == {n \in Nat : Has(n)}
<1>1. Has(0)
  <2> DEFINE sum == [s \in {{}} |-> 0]
  <2>1. Adds(f, sum, {{}})
    BY DEF Adds
  <2> QED
    BY <2>1, FewestAreEmpty
<1>2. ASSUME NEW n \in Nat, Has(n) PROVE Has(n + 1)
  <2>1. PICK sum : Adds(f, sum, AtMost(n))
    BY <1>2
  <2> DEFINE more == [s \in AtMost(n + 1) |->
                        IF s = {} THEN 0 ELSE f[Pick(s)] + sum[s \ {Pick(s)}]]
  <2>2. \A s \in AtMost(n) : s \in AtMost(n + 1) /\ more[s] = sum[s]
    <3> SUFFICES ASSUME NEW s \in AtMost(n) PROVE s \in AtMost(n + 1) /\ more[s] = sum[s]
        OBVIOUS
    <3>1. s \in AtMost(n + 1)
      <4>1. IsFiniteSet(s) /\ Cardinality(s) \in Nat
        BY HookAssumption, FS_Subset, FS_CardinalityType DEF AtMost
      <4> QED
        BY <4>1 DEF AtMost
    <3> QED
      BY <2>1, <3>1 DEF Adds
  <2>3. \A s \in AtMost(n + 1) : s # {} => s \ {Pick(s)} \in AtMost(n)
    BY Picked
  <2>4. Adds(f, more, AtMost(n + 1))
    BY <2>2, <2>3 DEF Adds
  <2> QED
    BY <2>4
<1> HIDE DEF Has
<1>3. \A n \in Nat : n \in T
  <2>1. 0 \in T /\ \A n \in Nat : n \in T => n + 1 \in T
    BY <1>1, <1>2
  <2> HIDE DEF T
  <2> QED
    BY <2>1, Naturally
<1>4. PICK n \in Nat : AtMost(n) = SUBSET Cores
  BY AllAreAtMost
<1>5. \E sum : Adds(f, sum, SUBSET Cores)
  BY <1>3, <1>4 DEF Has
<1> QED
  BY <1>5 DEF Sum

(* The sum of nothing, and what one core more or less of it does.          *)
LEMMA SumStep ==
  ASSUME NEW f, NEW s \in SUBSET Cores
  PROVE  Sum(f)[s] = IF s = {} THEN 0 ELSE f[Pick(s)] + Sum(f)[s \ {Pick(s)}]
BY SumExists DEF Adds

LEMMA SumAdds ==
  ASSUME NEW f \in [Cores -> Int], NEW c \in Cores, NEW k \in Int
  PROVE  /\ Sum(f)[Cores] \in Int
         /\ Sum([f EXCEPT ![c] = f[c] + k])[Cores] = Sum(f)[Cores] + k
<1> DEFINE g == [f EXCEPT ![c] = f[c] + k]
           Good(s) == /\ Sum(f)[s] \in Int
                      /\ Sum(g)[s] = Sum(f)[s] + IF c \in s THEN k ELSE 0
           T == {n \in Nat : \A s \in AtMost(n) : Good(s)}
<1>1. Good({})
  <2>1. \A h : Sum(h)[{}] = 0
    BY SumStep
  <2>2. Sum(f)[{}] = 0 /\ Sum(g)[{}] = 0
    BY <2>1
  <2> HIDE DEF g
  <2> QED
    BY <2>2
<1>2. ASSUME NEW n \in Nat, \A s \in AtMost(n) : Good(s), NEW s \in AtMost(n + 1)
      PROVE  Good(s)
  <2>1. CASE s = {}
    BY <1>1, <2>1
  <2>2. CASE s # {}
    <3> DEFINE p == Pick(s)
               rest == s \ {p}
    <3>1. p \in s /\ p \in Cores /\ Good(rest) /\ s \in SUBSET Cores
      BY <1>2, <2>2, Picked DEF AtMost
    <3>2. Sum(f)[s] = f[p] + Sum(f)[rest] /\ Sum(g)[s] = g[p] + Sum(g)[rest]
      BY <2>2, <3>1, SumStep
    <3>3. f[p] \in Int /\ g[p] = IF p = c THEN f[p] + k ELSE f[p]
      BY <3>1
    <3>4. (c \in rest) <=> (c \in s /\ p # c)
      OBVIOUS
    <3> HIDE DEF g, p, rest
    <3> QED
      BY <3>1, <3>2, <3>3, <3>4
  <2> QED
    BY <2>1, <2>2
<1> HIDE DEF Good
<1>3. \A n \in Nat : n \in T
  <2>1. 0 \in T
    BY <1>1, FewestAreEmpty
  <2>2. \A n \in Nat : n \in T => n + 1 \in T
    BY <1>2
  <2> HIDE DEF T
  <2> QED
    BY <2>1, <2>2, Naturally
<1>4. Good(Cores)
  BY <1>3, AllAreAtMost
<1> QED
  BY <1>4 DEF Good

LEMMA SumOfNothing == Sum([c \in Cores |-> 0])[Cores] = 0
<1> DEFINE f == [c \in Cores |-> 0]
           T == {n \in Nat : \A s \in AtMost(n) : Sum(f)[s] = 0}
<1>1. 0 \in T
  BY SumStep, FewestAreEmpty
<1>2. ASSUME NEW n \in Nat, n \in T PROVE n + 1 \in T
  <2> SUFFICES ASSUME NEW s \in AtMost(n + 1) PROVE Sum(f)[s] = 0
      OBVIOUS
  <2>1. s \in SUBSET Cores
    BY DEF AtMost
  <2>2. s # {} => f[Pick(s)] = 0 /\ Sum(f)[s \ {Pick(s)}] = 0
    BY <1>2, Picked
  <2> HIDE DEF f
  <2>3. Sum(f)[s] = IF s = {} THEN 0 ELSE f[Pick(s)] + Sum(f)[s \ {Pick(s)}]
    BY <2>1, SumStep
  <2> QED
    BY <2>2, <2>3
<1>3. \A n \in Nat : n \in T
  <2> HIDE DEF T
  <2> QED
    BY <1>1, <1>2, Naturally
<1> QED
  BY <1>3, AllAreAtMost

LEMMA SumIsSum ==
  ASSUME NEW f
  PROVE  MapThenSumSet(LAMBDA c : f[c], Cores) = Sum(f)[Cores]
BY DEF MapThenSumSet, MapThenFoldSet, Sum, Adds, Pick

-----------------------------------------------------------------------------
(* The global count is the sum of what was reported, and somebody counts   *)
(* if there is something to report.                                        *)
Conserved ==
  /\ g_instructions_hpi_global = Sum(m_instructions_hpi_last)[Cores]
  /\ Counts = {} => m_instructions = m_instructions_hpi_last

LEMMA ConservedStep == IInv /\ Conserved /\ [Next]_vars => Conserved'
<1> SUFFICES ASSUME IInv, Conserved, [Next]_vars PROVE Conserved'
    OBVIOUS
<1> USE HookAssumption DEF IInv, TypeOK, Conserved
<1>1. ASSUME NEW c \in Cores, NEW n \in Counts, CountInstructions(c, n)
      PROVE  Conserved'
  BY <1>1 DEF CountInstructions, globals
<1>2. ASSUME NEW c \in Cores, Add(c) PROVE Conserved'
  <2> DEFINE f == m_instructions_hpi_last
             k == m_instructions[c] - f[c]
  <2>1. f \in [Cores -> Int] /\ k \in Int /\ f[c] + k = m_instructions[c]
    OBVIOUS
  <2> DEFINE g == [f EXCEPT ![c] = f[c] + k]
  <2>2. m_instructions_hpi_last' = g /\ m_instructions' = m_instructions
        /\ g_instructions_hpi_global' = g_instructions_hpi_global + k
    BY <1>2, <2>1 DEF Add
  <2>3. Counts = {} => m_instructions' = m_instructions_hpi_last'
    BY <2>1, <2>2
  <2>4. g_instructions_hpi_global = Sum(f)[Cores]
    OBVIOUS
  <2> HIDE DEF f, k
  <2>5. Sum(g)[Cores] = Sum(f)[Cores] + k
    BY <2>1, SumAdds
  <2> HIDE DEF g
  <2>6. g_instructions_hpi_global' = Sum(g)[Cores]
    BY <2>2, <2>4, <2>5
  <2> QED
    BY <2>2, <2>3, <2>6
<1>3. ASSUME NEW c \in Cores, QuickCheck(c) \/ LockAndCheck(c) \/ HookReturns(c)
      PROVE  Conserved'
  BY <1>3 DEF QuickCheck, LockAndCheck, HookReturns, counters, globals
<1>4. CASE UNCHANGED vars
  BY <1>4 DEF vars, counters, globals
<1> QED
  BY <1>1, <1>2, <1>3, <1>4 DEF Next

(* countInstructions and hookPeriodicInsCheck: however the cores' additions*)
(* interleave with the hook, every instruction of a report is in the global*)
(* count once, and no core has more than a period left to report.          *)
THEOREM EveryReportCountsOnce == Spec => []CountedOnce
<1>1. Init => ReportsFit /\ Conserved
  BY HookAssumption, SumOfNothing DEF Init, ReportsFit, Conserved
<1>2. IInv /\ ReportsFit /\ Conserved => CountedOnce
  <2> SUFFICES ASSUME IInv, ReportsFit, Conserved PROVE CountedOnce
      OBVIOUS
  <2>1. \A c \in Cores : m_instructions[c] - m_instructions_hpi_last[c] \in 0 .. Period
    <3> SUFFICES ASSUME NEW c \in Cores
                 PROVE  m_instructions[c] - m_instructions_hpi_last[c] \in 0 .. Period
        OBVIOUS
    <3>1. /\ m_instructions[c] \in Nat /\ m_instructions_hpi_last[c] \in Nat
          /\ m_instructions_hpi_last[c] <= m_instructions[c]
          /\ Period \in Nat /\ PerCore \in Nat
      BY HookAssumption DEF IInv, TypeOK, ReportsExecuted
    <3>2. CASE Counts = {}
      <4>1. m_instructions[c] = m_instructions_hpi_last[c]
        BY <3>2 DEF Conserved
      <4> QED
        BY <3>1, <4>1
    <3>3. CASE Counts # {}
      <4>1. PICK n \in Counts : n \in Nat
        BY <3>3, HookAssumption
      <4>2. PerCore + n <= Period
        BY PacingAssumption
      <4>3. PerCore <= Period
        BY <3>1, <4>1, <4>2
      <4> QED
        BY <3>1, <4>3 DEF ReportsFit
    <3> QED
      BY <3>2, <3>3
  <2> QED
    BY <2>1, SumIsSum DEF CountedOnce, Conserved
<1> QED
  BY <1>1, <1>2, InitEstablishes, InvariantStep, ReportsFitStep, ConservedStep, PTL DEF Spec
=============================================================================
