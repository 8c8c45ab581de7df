--------------------------- MODULE InstructionFetch ---------------------------
(***************************************************************************)
(* A core of project 4 fetches instructions and accesses data through its  *)
(* TLBs.  readInstructionMemory remembers the block it read last: fetches  *)
(* from it go neither to the caches nor to the instruction TLB, and of an  *)
(* instruction over two blocks at most one is read.  A step is one call;   *)
(* m_mem_lock keeps the accesses of user thread and core thread apart.     *)
(***************************************************************************)
EXTENDS Tlb

CONSTANTS
  ITlb, DTlb,     \* m_itlb and m_dtlb
  CodeBytes,      \* bytes of code, from address 0
  BlockSize,      \* cache block size, in bytes
  BlocksPerPage,
  CodePage,       \* the page of the n-th page of code
  NoBlock         \* -1: nothing was read yet

ASSUME FetchAssumption ==
  /\ ITlb \in Tlbs /\ DTlb \in Tlbs /\ ITlb # DTlb
  /\ CodeBytes \in Nat \ {0} /\ BlockSize \in Nat \ {0} /\ BlocksPerPage \in Nat \ {0}
  /\ \A a \in 0 .. CodeBytes - 1 : CodePage[(a \div BlockSize) \div BlocksPerPage] \in Pages
  /\ NoBlock \notin Nat

VARIABLES
  m_icache_last_block,
  pc,        \* address of the next instruction
  executed,  \* history: the blocks of the instructions since the last jump
  fetched,   \* history: the blocks read since then
  before     \* history: the block remembered at the jump

vars == <<entry, m_icache_last_block, pc, executed, fetched, before>>

BlockOf(a) == a \div BlockSize
PageOf(block) == CodePage[block \div BlocksPerPage]

FetchInit ==
  /\ Init
  /\ m_icache_last_block = NoBlock
  /\ pc \in 0 .. CodeBytes - 1
  /\ executed = {} /\ fetched = {} /\ before = NoBlock

(* Fault for the mutation runs: the byte behind the instruction.           *)
LastByteBehind(a, size) == a + size

LastByte(a, size) == a + size - 1

(* The block readInstructionMemory reads, NoBlock when it reads none.      *)
BlockToRead(a, size) ==
  IF BlockOf(a) # m_icache_last_block THEN BlockOf(a)
  ELSE IF BlockOf(LastByte(a, size)) = BlockOf(a) THEN NoBlock
  ELSE BlockOf(a) + 1

ReadInstructionMemory(a, size) ==
  LET block == BlockToRead(a, size)
  IN IF block = NoBlock
       THEN UNCHANGED <<m_icache_last_block, entry, fetched>>
       ELSE /\ m_icache_last_block' = block
            /\ Lookup(ITlb, PageOf(block))
            /\ fetched' = fetched \cup {block}

(* The next instruction: never longer than a block, as an x86 instruction. *)
Execute(size) ==
  /\ pc + size <= CodeBytes
  /\ ReadInstructionMemory(pc, size)
  /\ pc' = pc + size
  /\ executed' = executed \cup {BlockOf(pc), BlockOf(pc + size - 1)}
  /\ UNCHANGED before

Jump(target) ==
  /\ pc' = target
  /\ executed' = {} /\ fetched' = {} /\ before' = m_icache_last_block
  /\ UNCHANGED <<entry, m_icache_last_block>>

AccessData(page) ==
  /\ Lookup(DTlb, page)
  /\ UNCHANGED <<m_icache_last_block, pc, executed, fetched, before>>

FetchNext ==
  \/ \E size \in 1 .. BlockSize : Execute(size)
  \/ \E target \in 0 .. CodeBytes - 1 : Jump(target)
  \/ \E page \in Pages : AccessData(page)

FetchSpec == FetchInit /\ [][FetchNext]_vars

-----------------------------------------------------------------------------
(* "Don't access the L1-I when accessing the same cache line as last time" *)
(* skips the instruction TLB too: the page it would look up is held there, *)
(* whatever data accesses did to the level behind, so no miss is left out. *)
SkippedPageHeld ==
  m_icache_last_block # NoBlock => PageOf(m_icache_last_block) \in Held(ITlb)

(* Along straight-line code every block is read although an instruction    *)
(* over two of them reads one: only the block the last instruction ends in *)
(* may still be owed, to the next instruction; and none is read of which   *)
(* nothing is executed.                                                    *)
StraightLineRead ==
  /\ executed \subseteq fetched \cup {before, BlockOf(pc - 1)}
  /\ fetched \subseteq executed
=============================================================================
