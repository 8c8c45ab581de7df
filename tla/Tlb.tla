--------------------------------- MODULE Tlb ---------------------------------
(***************************************************************************)
(* The TLBs of one core of project 4: first-level TLBs in front of one     *)
(* next-level TLB that takes their victims.  Each is one set of a Cache    *)
(* with "lru" replacement, which is not part of the repository: a full set *)
(* may evict any way here.  A step is one lookup: the core's memory lock   *)
(* keeps lookups apart.                                                    *)
(***************************************************************************)
EXTENDS Integers, FiniteSets

CONSTANTS
  Tlbs, NextLevel,   \* the first-level TLBs, and the one behind them
  Associativity,     \* of each
  Pages, NoPage

ASSUME TlbAssumption ==
  /\ NextLevel \notin Tlbs
  /\ Associativity \in [Tlbs \cup {NextLevel} -> Nat \ {0}]
  /\ NoPage \notin Pages

VARIABLE entry   \* the page of every way, NoPage while the way is invalid

WaysOf(tlb) == 1 .. Associativity[tlb]

Init == entry = [tlb \in Tlbs \cup {NextLevel} |-> [w \in WaysOf(tlb) |-> NoPage]]

Held(tlb) == {entry[tlb][w] : w \in WaysOf(tlb)} \ {NoPage}

(* The ways insertSingleLine may choose: the first invalid one, else any.  *)
Replaceable(tlb) ==
  LET free == {w \in WaysOf(tlb) : entry[tlb][w] = NoPage}
  IN IF free = {} THEN WaysOf(tlb) ELSE {w \in free : \A v \in free : w <= v}

(* Fault for the mutation runs: the victim is dropped.                     *)
AllocateAlone(tlb, page) ==
  \E w \in Replaceable(tlb) : entry' = [entry EXCEPT ![tlb][w] = page]

(* allocate: the victim goes to the next level, whatever that holds, and   *)
(* the next level's victim is gone.                                        *)
Allocate(tlb, page) ==
  \E w \in Replaceable(tlb) :
    IF entry[tlb][w] = NoPage
      THEN entry' = [entry EXCEPT ![tlb][w] = page]
      ELSE \E v \in Replaceable(NextLevel) :
             entry' = [entry EXCEPT ![tlb][w] = page,
                                    ![NextLevel][v] = entry[tlb][w]]

(* Fault: a hit allocates too.                                             *)
LookupAllocates(tlb, page) == Allocate(tlb, page)

(* Fault: nothing is allocated when the next level has the page.           *)
LookupBehind(tlb, page) ==
  IF page \in Held(tlb) \cup Held(NextLevel) THEN UNCHANGED entry ELSE Allocate(tlb, page)

(* lookup: a miss asks the next level, which only answers, and allocates   *)
(* the page whatever the answer was.                                       *)
Lookup(tlb, page) ==
  IF page \in Held(tlb) THEN UNCHANGED entry ELSE Allocate(tlb, page)

Next == \E tlb \in Tlbs, page \in Pages : Lookup(tlb, page)

Spec == Init /\ [][Next]_entry

-----------------------------------------------------------------------------
(* However long the lookups go on, a first-level TLB never spends two of   *)
(* its ways on one page: TLB::lookup allocates after a miss only.          *)
FirstLevelUnique ==
  \A tlb \in Tlbs : \A v, w \in WaysOf(tlb) :
    entry[tlb][v] = entry[tlb][w] /\ v # w => entry[tlb][v] = NoPage

(* "Use next level as a victim cache": a lookup makes the core forget no   *)
(* translation but one that only a full next level held; what a first      *)
(* level gives up is still found.                                          *)
Known == UNION {Held(tlb) : tlb \in Tlbs \cup {NextLevel}}
ForgetsOnlyVictims ==
  [][\A page \in Known \ Known' :
       /\ NoPage \notin {entry[NextLevel][w] : w \in WaysOf(NextLevel)}
       /\ \A tlb \in Tlbs : page \notin Held(tlb)]_entry
=============================================================================
