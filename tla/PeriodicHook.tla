---------------------------- MODULE PeriodicHook ----------------------------
(***************************************************************************)
(* Core::countInstructions and the HOOK_PERIODIC_INS hook (project 4).     *)
(* Every core adds the instructions it executed to a global count now and  *)
(* then, and calls the hook when that count has passed a global threshold: *)
(* an unlocked check first, then the definitive one under the lock of the  *)
(* thread manager.  A core's own counters are touched by its thread only.  *)
(***************************************************************************)
EXTENDS Integers, FiniteSets, FiniteSetsExt

CONSTANTS
  Cores,
  Counts,     \* how many instructions one call may count
  PerCore,    \* getHPIInstructionsPerCore
  Period,     \* getHPIInstructionsGlobal
  Limit,      \* bound of the model: instructions a core may execute
  Nobody

ASSUME HookAssumption ==
  /\ IsFiniteSet(Cores) /\ Nobody \notin Cores
  /\ Counts \subseteq Nat \ {0}
  /\ PerCore \in Nat \ {0} /\ Period \in Nat \ {0} /\ Limit \in Nat

(* A core reports often enough that what it adds fits in one period: what  *)
(* HookNotForgotten and CountedOnce need, and HookNotEarly does not.       *)
ASSUME PacingAssumption == \A n \in Counts : PerCore + n <= Period

VARIABLES
  m_instructions,
  m_instructions_hpi_callback,
  m_instructions_hpi_last,
  g_instructions_hpi_global,
  g_instructions_hpi_global_callback,
  pc,         \* where each core is in hookPeriodicInsCheck
  holder      \* of the thread manager's lock

counters == <<m_instructions, m_instructions_hpi_callback, m_instructions_hpi_last>>
globals == <<g_instructions_hpi_global, g_instructions_hpi_global_callback>>
vars == <<counters, globals, pc, holder>>

Init ==
  /\ m_instructions = [c \in Cores |-> 0]
  /\ m_instructions_hpi_callback = [c \in Cores |-> 0]
  /\ m_instructions_hpi_last = [c \in Cores |-> 0]
  /\ g_instructions_hpi_global = 0
  /\ g_instructions_hpi_global_callback = 0
  /\ pc = [c \in Cores |-> "idle"]
  /\ holder = Nobody

Goes(c, from, to) == pc[c] = from /\ pc' = [pc EXCEPT ![c] = to]

CountInstructions(c, n) ==
  /\ m_instructions[c] + n <= Limit
  /\ m_instructions' = [m_instructions EXCEPT ![c] = @ + n]
  /\ Goes(c, "idle", IF m_instructions'[c] > m_instructions_hpi_callback[c]
                       THEN "add" ELSE "idle")
  /\ UNCHANGED <<m_instructions_hpi_callback, m_instructions_hpi_last, globals, holder>>

(* Fault for the mutation runs: what was added is not remembered.          *)
AddAgain(c) ==
  /\ Goes(c, "add", "check")
  /\ g_instructions_hpi_global' =
       g_instructions_hpi_global + m_instructions[c] - m_instructions_hpi_last[c]
  /\ m_instructions_hpi_callback' = [m_instructions_hpi_callback EXCEPT ![c] = @ + PerCore]
  /\ UNCHANGED <<m_instructions, m_instructions_hpi_last,
                 g_instructions_hpi_global_callback, holder>>

(* The atomic addition; the rest is the core's own.                        *)
Add(c) ==
  /\ Goes(c, "add", "check")
  /\ g_instructions_hpi_global' =
       g_instructions_hpi_global + m_instructions[c] - m_instructions_hpi_last[c]
  /\ m_instructions_hpi_callback' = [m_instructions_hpi_callback EXCEPT ![c] = @ + PerCore]
  /\ m_instructions_hpi_last' = [m_instructions_hpi_last EXCEPT ![c] = m_instructions[c]]
  /\ UNCHANGED <<m_instructions, g_instructions_hpi_global_callback, holder>>

Due == g_instructions_hpi_global > g_instructions_hpi_global_callback

(* Fault: a core that finds the lock taken leaves the hook to its holder.  *)
QuickCheckYields(c) ==
  /\ Goes(c, "check", IF Due /\ holder = Nobody THEN "call" ELSE "idle")
  /\ UNCHANGED <<counters, globals, holder>>

(* "Quick, unlocked check"                                                 *)
QuickCheck(c) ==
  /\ Goes(c, "check", IF Due THEN "call" ELSE "idle")
  /\ UNCHANGED <<counters, globals, holder>>

(* Fault: the definitive check is left out.                                *)
LockUnchecked(c) ==
  /\ holder = Nobody
  /\ Goes(c, "call", "hook")
  /\ holder' = c
  /\ UNCHANGED <<counters, globals>>

(* The lock, and the "definitive, locked" check: without anything due the  *)
(* lock is released at once.                                               *)
LockAndCheck(c) ==
  /\ holder = Nobody
  /\ Goes(c, "call", IF Due THEN "hook" ELSE "idle")
  /\ holder' = IF Due THEN c ELSE Nobody
  /\ UNCHANGED <<counters, globals>>

(* The hook has run: one period is done with, whatever the count is by now.*)
HookReturns(c) ==
  /\ Goes(c, "hook", "idle")
  /\ g_instructions_hpi_global_callback' = g_instructions_hpi_global_callback + Period
  /\ holder' = Nobody
  /\ UNCHANGED <<counters, g_instructions_hpi_global>>

Next ==
  \E c \in Cores :
    \/ \E n \in Counts : CountInstructions(c, n)
    \/ Add(c) \/ QuickCheck(c) \/ LockAndCheck(c) \/ HookReturns(c)

Spec == Init /\ [][Next]_vars

-----------------------------------------------------------------------------
TypeOK ==
  /\ m_instructions \in [Cores -> Nat]
  /\ m_instructions_hpi_callback \in [Cores -> Nat]
  /\ m_instructions_hpi_last \in [Cores -> Nat]
  /\ g_instructions_hpi_global \in Int
  /\ g_instructions_hpi_global_callback \in Nat
  /\ pc \in [Cores -> {"idle", "add", "check", "call", "hook"}]
  /\ holder \in Cores \cup {Nobody}

(* The hook is never called for a period that has not begun: two cores that*)
(* both saw the count pass the threshold do not both call it.              *)
HookNotEarly ==
  g_instructions_hpi_global_callback < g_instructions_hpi_global + Period

(* No period is forgotten: for every period the count is ahead of the      *)
(* threshold there is a core on its way to the hook.  With no core on its  *)
(* way, every hook due has been called.                                    *)
Underway == {c \in Cores : pc[c] \in {"check", "call", "hook"}}
HookNotForgotten ==
  g_instructions_hpi_global - g_instructions_hpi_global_callback
    <= Period * Cardinality(Underway)

(* The global count is what the cores reported: every instruction of a     *)
(* report counts once, and what is left to report is less than a period.   *)
CountedOnce ==
  /\ g_instructions_hpi_global =
       MapThenSumSet(LAMBDA c : m_instructions_hpi_last[c], Cores)
  /\ \A c \in Cores : m_instructions[c] - m_instructions_hpi_last[c] \in 0 .. Period
=============================================================================
