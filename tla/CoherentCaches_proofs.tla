------------------------ MODULE CoherentCaches_proofs ------------------------
(***************************************************************************)
(* For any number of cores, caches and lines: types, the waiters' lists    *)
(* and inclusion.                                                          *)
(***************************************************************************)
EXTENDS CoherentCaches, TLAPS

(* The record the operations transform, inclusion in it, and that from s to*)
(* t an operation kept inclusion unless it broke an assertion.             *)
IsCaches(s) ==
  /\ s = [l1 |-> s.l1, llc |-> s.llc, sent |-> s.sent, failed |-> s.failed]
  /\ s.l1 \in [L1s -> [Addrs -> Copy]]
  /\ s.llc \in [Llcs -> [Addrs -> Copy]]
  /\ s.sent \in Seq(ToDirectory)

IncludedAt(s, c, a) ==
  /\ s.l1[c][a].st # "INVALID" => s.llc[LlcOf[c]][a].st # "INVALID"
  /\ s.l1[c][a].st = "MODIFIED" => s.llc[LlcOf[c]][a].st = "MODIFIED"
Included(s) == \A c \in L1s, a \in Addrs : IncludedAt(s, c, a)

Kept(s, t) ==
  /\ IsCaches(t)
  /\ t.failed = {} => s.failed = {} /\ (Included(s) => Included(t))

LEMMA KeptTwice ==
  ASSUME NEW s, NEW t, NEW u, Kept(s, t), Kept(t, u)
  PROVE  Kept(s, u)
BY DEF Kept

LEMMA InvalidIsCopy == Invalid \in Copy /\ Invalid.st = "INVALID"
BY DEF Invalid, Copy, States

LEMMA CheckKeeps ==
  ASSUME NEW s, IsCaches(s), NEW ok, NEW what
  PROVE  /\ Kept(s, Check(s, ok, what))
         /\ Check(s, ok, what).l1 = s.l1 /\ Check(s, ok, what).llc = s.llc
         /\ Check(s, ok, what).sent = s.sent
         /\ Check(s, ok, what).failed = {} => ok
BY DEF Check, Kept, IsCaches, Included, IncludedAt

LEMMA SendKeeps ==
  ASSUME NEW s, IsCaches(s), NEW type \in Requests \cup Answers, NEW a \in Addrs,
         NEW new \in BOOLEAN, NEW t, t = Send(s, type, a, new)
  PROVE  /\ Kept(s, t)
         /\ t.l1 = s.l1 /\ t.llc = s.llc /\ t.failed = s.failed
<1>1. Msg(type, a, new) \in ToDirectory
  BY DEF Msg, ToDirectory, Message
<1>2. Append(s.sent, Msg(type, a, new)) \in Seq(ToDirectory)
  BY <1>1 DEF IsCaches
<1> QED
  BY <1>2 DEF Send, Kept, IsCaches, Included, IncludedAt

-----------------------------------------------------------------------------
(* Where the first-level copies are after a snoop.                         *)
LEMMA SnoopKeeps ==
  ASSUME NEW s, IsCaches(s), NEW l \in Llcs, NEW a \in Addrs, NEW skip,
         NEW n \in {"INVALID", "SHARED", "MODIFIED"},
         NEW t, t = Snoop(s, l, a, skip, n)
  PROVE  /\ IsCaches(t)
         /\ t.sent = s.sent /\ t.failed = s.failed
         /\ \A c \in L1s, b \in Addrs :
              t.l1[c][b].st = IF c \in L1sOf(l) \ skip /\ b = a
                                 /\ s.l1[c][b].st # "INVALID"
                              THEN n ELSE s.l1[c][b].st
         /\ \A k \in Llcs, b \in Addrs : t.llc[k][b].st = s.llc[k][b].st
<1> DEFINE holders == {c \in L1sOf(l) \ skip : s.l1[c][a].st # "INVALID"}
           dirty == {c \in holders : s.l1[c][a].st = "MODIFIED"}
           updated(copy) == IF n = "INVALID" THEN Invalid ELSE [copy EXCEPT !.st = n]
           first == [c \in L1s |-> IF c \in holders
                        THEN [s.l1[c] EXCEPT ![a] = updated(@)] ELSE s.l1[c]]
           new == IF dirty = {} THEN s.llc[l][a].new ELSE \E c \in dirty : s.l1[c][a].new
           last == [s.llc EXCEPT ![l][a].new = new]
<1>1. t = [s EXCEPT !.l1 = first, !.llc = last]
  BY DEF Snoop, IsCaches
<1>2. \A copy \in Copy : updated(copy) \in Copy /\ updated(copy).st = n
  BY InvalidIsCopy DEF Copy, States, Invalid
<1>3. new \in BOOLEAN
  <2>1. s.llc[l][a].new \in BOOLEAN
    BY DEF IsCaches, Copy
  <2>2. (\E c \in dirty : s.l1[c][a].new) \in BOOLEAN
    BY Zenon
  <2> HIDE DEF dirty
  <2> QED
    BY <2>1, <2>2
<1>4. /\ first \in [L1s -> [Addrs -> Copy]]
      /\ \A c \in L1s, b \in Addrs :
           first[c][b] = IF c \in holders /\ b = a THEN updated(s.l1[c][b])
                                                   ELSE s.l1[c][b]
  <2> HIDE DEF holders, updated
  <2> QED
    BY <1>2 DEF IsCaches
<1>5. /\ last \in [Llcs -> [Addrs -> Copy]]
      /\ \A k \in Llcs, b \in Addrs : last[k][b].st = s.llc[k][b].st
  <2>1. s.llc \in [Llcs -> [Addrs -> [st : States, new : BOOLEAN]]]
    BY DEF IsCaches, Copy
  <2> HIDE DEF new
  <2> QED
    BY <1>3, <2>1 DEF Copy
<1>6. /\ IsCaches(t) /\ t.sent = s.sent /\ t.failed = s.failed
      /\ t.l1 = first /\ t.llc = last
  <2> HIDE DEF first, last
  <2> QED
    BY <1>1, <1>4, <1>5 DEF IsCaches
<1>7. \A c \in L1s, b \in Addrs : s.l1[c][b] \in Copy
  BY DEF IsCaches
<1>8. ASSUME NEW c \in L1s, NEW b \in Addrs
      PROVE  t.l1[c][b].st = IF c \in L1sOf(l) \ skip /\ b = a
                                /\ s.l1[c][b].st # "INVALID"
                             THEN n ELSE s.l1[c][b].st
  <2> HIDE DEF first, updated
  <2> QED
    BY <1>2, <1>4, <1>6, <1>7
<1> HIDE DEF first, last, updated, holders, dirty, new
<1> QED
  BY <1>5, <1>6, <1>8

LEMMA SnoopCheckedKeeps ==
  ASSUME NEW s, IsCaches(s), NEW l \in Llcs, NEW a \in Addrs, NEW skip,
         NEW n \in {"INVALID", "SHARED", "MODIFIED"},
         NEW t, t = SnoopChecked(s, l, a, skip, n)
  PROVE  /\ IsCaches(t)
         /\ t.failed = {} => s.failed = {}
         /\ \A c \in L1s, b \in Addrs :
              t.l1[c][b].st = IF c \in L1sOf(l) \ skip /\ b = a
                                 /\ s.l1[c][b].st # "INVALID"
                              THEN n ELSE s.l1[c][b].st
         /\ \A k \in Llcs, b \in Addrs : t.llc[k][b].st = s.llc[k][b].st
         /\ n # "MODIFIED" => Kept(s, t)
<1> DEFINE snooped == Snoop(s, l, a, skip, n)
<1>1. /\ IsCaches(snooped)
      /\ snooped.failed = s.failed
      /\ \A c \in L1s, b \in Addrs :
           snooped.l1[c][b].st = IF c \in L1sOf(l) \ skip /\ b = a
                              /\ s.l1[c][b].st # "INVALID"
                           THEN n ELSE s.l1[c][b].st
      /\ \A k \in Llcs, b \in Addrs : snooped.llc[k][b].st = s.llc[k][b].st
  BY SnoopKeeps
<1>2. t = Check(snooped, WritebackAllowed(s, l, a, skip), "Got_writeback_for_non_MODIFIED_line")
  BY DEF SnoopChecked
<1> HIDE DEF snooped
<1>3. /\ Kept(snooped, t) /\ t.l1 = snooped.l1 /\ t.llc = snooped.llc
  BY <1>1, <1>2, CheckKeeps
<1>4. n # "MODIFIED" => (Included(s) => Included(t))
  <2> SUFFICES ASSUME n # "MODIFIED", Included(s), NEW c \in L1s, NEW b \in Addrs
               PROVE  IncludedAt(t, c, b)
    BY DEF Included
  <2>1. LlcOf[c] \in Llcs
    BY CoherentAssumption
  <2> QED
    BY <1>1, <1>3, <2>1 DEF Included, IncludedAt
<1> QED
  BY <1>1, <1>3, <1>4 DEF Kept

(* The same of the snooped caches by their name, with nothing left above.  *)
LEMMA InvalidatedKeeps ==
  ASSUME NEW s, IsCaches(s), NEW l \in Llcs, NEW a \in Addrs, NEW skip
  PROVE  /\ IsCaches(SnoopChecked(s, l, a, skip, "INVALID"))
         /\ Kept(s, SnoopChecked(s, l, a, skip, "INVALID"))
         /\ SnoopChecked(s, l, a, skip, "INVALID").failed = {} => s.failed = {}
         /\ \A c \in L1s, b \in Addrs :
              SnoopChecked(s, l, a, skip, "INVALID").l1[c][b].st =
                IF c \in L1sOf(l) \ skip /\ b = a /\ s.l1[c][b].st # "INVALID"
                THEN "INVALID" ELSE s.l1[c][b].st
         /\ \A k \in Llcs, b \in Addrs :
              SnoopChecked(s, l, a, skip, "INVALID").llc[k][b].st = s.llc[k][b].st
<1> DEFINE n == "INVALID"
           t == SnoopChecked(s, l, a, skip, n)
<1>1. n \in {"INVALID", "SHARED", "MODIFIED"} /\ n # "MODIFIED"
  OBVIOUS
<1>2. t = SnoopChecked(s, l, a, skip, n)
  OBVIOUS
<1> HIDE DEF n, t
<1>3. /\ IsCaches(t)
      /\ t.failed = {} => s.failed = {}
      /\ \A c \in L1s, b \in Addrs :
           t.l1[c][b].st = IF c \in L1sOf(l) \ skip /\ b = a
                              /\ s.l1[c][b].st # "INVALID"
                           THEN n ELSE s.l1[c][b].st
      /\ \A k \in Llcs, b \in Addrs : t.llc[k][b].st = s.llc[k][b].st
      /\ n # "MODIFIED" => Kept(s, t)
  BY <1>1, <1>2, SnoopCheckedKeeps
<1> QED
  BY <1>1, <1>3 DEF n, t

(* A last-level copy is replaced, or only changes its state.               *)
Put(s, l, a, copy) == [s EXCEPT !.llc[l][a] = copy]
SetState(s, l, a, state) == [s EXCEPT !.llc[l][a].st = state]

LEMMA PutKeeps ==
  ASSUME NEW s, IsCaches(s), NEW l \in Llcs, NEW a \in Addrs, NEW copy \in Copy,
         NEW t, t = Put(s, l, a, copy)
  PROVE  /\ IsCaches(t)
         /\ t.l1 = s.l1 /\ t.sent = s.sent /\ t.failed = s.failed
         /\ \A k \in Llcs, b \in Addrs :
              t.llc[k][b] = IF k = l /\ b = a THEN copy ELSE s.llc[k][b]
<1> DEFINE last == [s.llc EXCEPT ![l][a] = copy]
<1>1. t = [s EXCEPT !.llc = last]
  BY DEF IsCaches, Put
<1>2. /\ last \in [Llcs -> [Addrs -> Copy]]
      /\ \A k \in Llcs, b \in Addrs :
           last[k][b] = IF k = l /\ b = a THEN copy ELSE s.llc[k][b]
  BY DEF IsCaches
<1> HIDE DEF last
<1> QED
  BY <1>1, <1>2 DEF IsCaches

LEMMA SetStateKeeps ==
  ASSUME NEW s, IsCaches(s), NEW l \in Llcs, NEW a \in Addrs, NEW state \in States,
         NEW t, t = SetState(s, l, a, state)
  PROVE  /\ IsCaches(t)
         /\ t.l1 = s.l1 /\ t.sent = s.sent /\ t.failed = s.failed
         /\ \A k \in Llcs, b \in Addrs :
              t.llc[k][b].st = IF k = l /\ b = a THEN state ELSE s.llc[k][b].st
<1> DEFINE copy == [s.llc[l][a] EXCEPT !.st = state]
<1>1. t = Put(s, l, a, copy)
  BY DEF IsCaches, Put, SetState
<1>0. s.llc[l][a] \in Copy
  BY DEF IsCaches
<1>2. copy \in Copy /\ copy.st = state
  BY <1>0 DEF Copy
<1> HIDE DEF copy
<1>3. /\ IsCaches(t)
      /\ t.l1 = s.l1 /\ t.sent = s.sent /\ t.failed = s.failed
      /\ \A k \in Llcs, b \in Addrs :
           t.llc[k][b] = IF k = l /\ b = a THEN copy ELSE s.llc[k][b]
  BY <1>1, <1>2, PutKeeps
<1> QED
  BY <1>2, <1>3

-----------------------------------------------------------------------------
(* What only exchanges first-level copies, as seen in their states.        *)
PutL1(s, c, line) == [s EXCEPT !.l1[c] = line]

LEMMA PutL1Keeps ==
  ASSUME NEW s, IsCaches(s), NEW c \in L1s, NEW line \in [Addrs -> Copy],
         NEW t, t = PutL1(s, c, line)
  PROVE  /\ IsCaches(t)
         /\ t.llc = s.llc /\ t.sent = s.sent /\ t.failed = s.failed
         /\ \A d \in L1s : t.l1[d] = IF d = c THEN line ELSE s.l1[d]
<1> DEFINE first == [s.l1 EXCEPT ![c] = line]
<1>1. t = [s EXCEPT !.l1 = first]
  BY DEF IsCaches, PutL1
<1>2. /\ first \in [L1s -> [Addrs -> Copy]]
      /\ \A d \in L1s : first[d] = IF d = c THEN line ELSE s.l1[d]
  BY DEF IsCaches
<1> HIDE DEF first
<1> QED
  BY <1>1, <1>2 DEF IsCaches

(* A first-level cache takes over the state of the copy below.             *)
LEMMA InsertL1Keeps ==
  ASSUME NEW s, IsCaches(s), NEW c \in L1s, NEW a \in Addrs,
         NEW victim \in Addrs \cup {None},
         NEW t, t = InsertL1(s, c, a, s.llc[LlcOf[c]][a], victim)
  PROVE  Kept(s, t)
<1> DEFINE l == LlcOf[c]
           copy == s.llc[l][a]
           line == [b \in Addrs |-> IF b = a THEN copy
                                    ELSE IF b = victim THEN Invalid ELSE s.l1[c][b]]
           put == PutL1(s, c, line)
           written == [put.llc[l][victim] EXCEPT !.new = s.l1[c][victim].new]
           kept == Put(put, l, victim, written)
           ok == s.llc[l][victim].st = "MODIFIED"
<1>1. l \in Llcs
  BY CoherentAssumption
<1>2. line \in [Addrs -> Copy]
  BY <1>1, InvalidIsCopy DEF IsCaches
<1>3. /\ IsCaches(put)
      /\ put.llc = s.llc /\ put.sent = s.sent /\ put.failed = s.failed
      /\ \A d \in L1s : put.l1[d] = IF d = c THEN line ELSE s.l1[d]
  <2> HIDE DEF line
  <2> QED
    BY <1>2, PutL1Keeps
<1>4. Included(s) => Included(put)
  <2> SUFFICES ASSUME Included(s), NEW d \in L1s, NEW b \in Addrs
               PROVE  IncludedAt(put, d, b)
    BY DEF Included
  <2>1. IncludedAt(s, d, b)
    BY DEF Included
  <2>2. put.llc = s.llc
    BY <1>3
  <2>3. CASE d = c
    <3>1. put.l1[d][b] = IF b = a THEN copy
                         ELSE IF b = victim THEN Invalid ELSE s.l1[c][b]
      <4> HIDE DEF put
      <4> QED
        BY <1>3, <2>3
    <3> HIDE DEF put
    <3> QED
      BY <2>1, <2>2, <2>3, <3>1, InvalidIsCopy DEF IncludedAt
  <2>4. CASE d # c
    <3>1. put.l1[d] = s.l1[d]
      <4> HIDE DEF put
      <4> QED
        BY <1>3, <2>4
    <3> HIDE DEF put
    <3> QED
      BY <2>1, <2>2, <3>1 DEF IncludedAt
  <2> QED
    BY <2>3, <2>4
<1>5. Kept(s, put)
  <2> HIDE DEF put
  <2> QED
    BY <1>3, <1>4 DEF Kept
<1>6. CASE victim # None /\ s.l1[c][victim].st = "MODIFIED"
  <2>1. victim \in Addrs
    BY <1>6
  <2>2. t = Check(kept, ok, "Got_writeback_for_non_MODIFIED_line")
    BY <1>6, <1>3 DEF InsertL1, PutL1, Put, IsCaches
  <2> HIDE DEF put
  <2>3. s.l1[c][victim] \in Copy /\ put.llc[l][victim] \in Copy
    BY <1>1, <1>3, <2>1 DEF IsCaches
  <2>4. written \in Copy /\ written.st = s.llc[l][victim].st
    BY <1>3, <2>3 DEF Copy
  <2> HIDE DEF written
  <2>5. /\ IsCaches(kept)
        /\ kept.l1 = put.l1 /\ kept.failed = put.failed
        /\ \A k \in Llcs, b \in Addrs :
             kept.llc[k][b] = IF k = l /\ b = victim THEN written ELSE put.llc[k][b]
    BY <1>1, <1>3, <2>1, <2>4, PutKeeps
  <2> HIDE DEF kept, l
  <2>6. \A k \in Llcs, b \in Addrs : kept.llc[k][b].st = put.llc[k][b].st
    BY <1>3, <2>4, <2>5
  <2>7. Included(put) => Included(kept)
    BY <2>5, <2>6, CoherentAssumption DEF Included, IncludedAt
  <2>8. Kept(put, kept)
    BY <2>5, <2>7 DEF Kept
  <2>9. Kept(kept, t)
    BY <2>2, <2>5, CheckKeeps
  <2> QED
    BY <1>5, <2>8, <2>9, KeptTwice
<1>7. CASE ~(victim # None /\ s.l1[c][victim].st = "MODIFIED")
  <2>1. t = put
    BY <1>7 DEF InsertL1, PutL1, IsCaches
  <2> QED
    BY <1>5, <2>1
<1> QED
  BY <1>6, <1>7

(* The last level takes a line in: nothing above may hold it yet, and      *)
(* nothing above holds the victim afterwards.                              *)
LEMMA InsertLlcKeeps ==
  ASSUME NEW s, IsCaches(s), NEW l \in Llcs, NEW a \in Addrs,
         NEW copy \in Copy, copy.st # "INVALID", NEW victim \in Addrs \cup {None},
         NEW t, t = InsertLlc(s, l, a, copy, victim)
  PROVE  Kept(s, t)
<1> DEFINE ok == s.llc[l][a].st = "INVALID"
           checked == Check(s, ok, "we_already_have_this_line")
<1>1. /\ Kept(s, checked)
      /\ checked.l1 = s.l1 /\ checked.llc = s.llc
      /\ checked.failed = {} => s.llc[l][a].st = "INVALID"
  BY CheckKeeps DEF Check
<1>2. CASE victim = None
  <2>1. t = Put(checked, l, a, copy)
    BY <1>2 DEF InsertLlc, Put
  <2> HIDE DEF checked
  <2>2. /\ IsCaches(t)
        /\ t.l1 = checked.l1 /\ t.failed = checked.failed
        /\ \A k \in Llcs, b \in Addrs :
             t.llc[k][b] = IF k = l /\ b = a THEN copy ELSE checked.llc[k][b]
    BY <1>1, <2>1, PutKeeps DEF Kept
  <2>3. ASSUME t.failed = {}, Included(s) PROVE Included(t)
    BY <1>1, <2>2, <2>3, CoherentAssumption DEF Included, IncludedAt
  <2> QED
    BY <1>1, <2>2, <2>3 DEF Kept
<1>3. CASE victim # None
  <2> DEFINE back == Snoop(checked, l, victim, {}, "INVALID")
             old == back.llc[l][victim]
             left == Put(back, l, victim, Invalid)
             gone == Put(left, l, a, copy)
  <2>0. victim \in Addrs
    BY <1>3
  <2>1. t = IF old.st = "MODIFIED" THEN Send(gone, "FLUSH_REP", victim, old.new)
                                   ELSE Send(gone, "INV_REP", victim, FALSE)
    <3>1. gone = [back EXCEPT !.llc[l] = [@ EXCEPT ![victim] = Invalid, ![a] = copy]]
      <4>1. IsCaches(back)
        BY <1>1, <2>0, SnoopKeeps DEF Kept
      <4> HIDE DEF back
      <4> QED
        BY <4>1 DEF Put, IsCaches
    <3> HIDE DEF gone, left
    <3> QED
      BY <1>3, <3>1 DEF InsertLlc
  <2> HIDE DEF checked
  <2>2. /\ IsCaches(back) /\ back.failed = checked.failed
        /\ \A c \in L1s, b \in Addrs :
             back.l1[c][b].st = IF c \in L1sOf(l) \ {} /\ b = victim
                                   /\ checked.l1[c][b].st # "INVALID"
                                THEN "INVALID" ELSE checked.l1[c][b].st
        /\ \A k \in Llcs, b \in Addrs : back.llc[k][b].st = checked.llc[k][b].st
    BY <1>1, <2>0, SnoopKeeps DEF Kept
  <2> HIDE DEF back
  <2>3. /\ IsCaches(left) /\ left.failed = back.failed /\ left.l1 = back.l1
        /\ \A k \in Llcs, b \in Addrs :
             left.llc[k][b] = IF k = l /\ b = victim THEN Invalid ELSE back.llc[k][b]
    BY <2>0, <2>2, InvalidIsCopy, PutKeeps
  <2> HIDE DEF left
  <2>4. /\ IsCaches(gone) /\ gone.failed = left.failed /\ gone.l1 = left.l1
        /\ \A k \in Llcs, b \in Addrs :
             gone.llc[k][b] = IF k = l /\ b = a THEN copy ELSE left.llc[k][b]
    BY <2>3, PutKeeps
  <2> HIDE DEF gone
  <2>5. ASSUME gone.failed = {}, Included(s) PROVE Included(gone)
    <3> SUFFICES ASSUME NEW c \in L1s, NEW b \in Addrs PROVE IncludedAt(gone, c, b)
      BY DEF Included
    <3>1. IncludedAt(s, c, b) /\ LlcOf[c] \in Llcs
      BY <2>5, CoherentAssumption DEF Included
    <3>2. gone.l1[c][b].st = IF LlcOf[c] = l /\ b = victim /\ s.l1[c][b].st # "INVALID"
                             THEN "INVALID" ELSE s.l1[c][b].st
      BY <1>1, <2>2, <2>3, <2>4 DEF L1sOf
    <3>3. gone.llc[LlcOf[c]][b].st =
            IF LlcOf[c] = l /\ b = a THEN copy.st
            ELSE IF LlcOf[c] = l /\ b = victim THEN "INVALID" ELSE s.llc[LlcOf[c]][b].st
      BY <1>1, <2>2, <2>3, <2>4, <3>1, InvalidIsCopy
    <3>4. s.llc[l][a].st = "INVALID"
      BY <1>1, <2>2, <2>3, <2>4, <2>5
    <3> QED
      BY <3>1, <3>2, <3>3, <3>4 DEF IncludedAt
  <2>6. Kept(s, gone)
    BY <1>1, <2>2, <2>3, <2>4, <2>5 DEF Kept
  <2>7. old.new \in BOOLEAN
    BY <2>0, <2>2 DEF IsCaches, Copy
  <2> HIDE DEF old
  <2>8. Kept(gone, t)
    <3>1. "FLUSH_REP" \in Requests \cup Answers /\ "INV_REP" \in Requests \cup Answers
      BY DEF Answers
    <3>2. CASE old.st = "MODIFIED"
      BY <2>0, <2>1, <2>4, <2>7, <3>1, <3>2, SendKeeps
    <3>3. CASE old.st # "MODIFIED"
      BY <2>0, <2>1, <2>4, <3>1, <3>3, SendKeeps
    <3> QED
      BY <3>2, <3>3
  <2> QED
    BY <2>6, <2>8, KeptTwice
<1> QED
  BY <1>2, <1>3

LEMMA SatisfiedKeeps ==
  ASSUME NEW s, IsCaches(s), NEW c \in L1s, NEW a \in Addrs, NEW o,
         NEW t, t = Satisfied(s, c, a, o)
  PROVE  Kept(s, t)
<1> DEFINE l == LlcOf[c]
           exclusive == SnoopChecked(s, l, a, {c}, "INVALID")
           skip == IF o = "PREFETCH" THEN {} ELSE {c}
           shared == SnoopChecked(s, l, a, skip, "SHARED")
<1>1. l \in Llcs
  BY CoherentAssumption
<1>2. CASE o \notin Reads
  <2>1. t = SetState(exclusive, l, a, "MODIFIED")
    BY <1>2 DEF Satisfied, SetState
  <2>2. Kept(s, exclusive)
    BY <1>1, SnoopCheckedKeeps
  <2> HIDE DEF exclusive
  <2>3. "MODIFIED" \in States
    BY DEF States
  <2>4. /\ IsCaches(t) /\ t.l1 = exclusive.l1 /\ t.failed = exclusive.failed
        /\ \A k \in Llcs, b \in Addrs :
             t.llc[k][b].st = IF k = l /\ b = a THEN "MODIFIED"
                                                ELSE exclusive.llc[k][b].st
    BY <1>1, <2>1, <2>2, <2>3, SetStateKeeps DEF Kept
  <2> HIDE DEF l
  <2>5. Included(exclusive) => Included(t)
    BY <2>4, CoherentAssumption DEF Included, IncludedAt
  <2>6. Kept(exclusive, t)
    BY <2>4, <2>5 DEF Kept
  <2> QED
    BY <2>2, <2>6, KeptTwice
<1>3. CASE o \in Reads
  <2>1. t = shared \/ t = s
    BY <1>3 DEF Satisfied
  <2>2. Kept(s, shared)
    BY <1>1, SnoopCheckedKeeps
  <2>3. Kept(s, s)
    BY DEF Kept
  <2> QED
    BY <2>1, <2>2, <2>3
<1> QED
  BY <1>2, <1>3

LEMMA NowIsCaches ==
  ASSUME TypeOK
  PROVE  IsCaches(Now) /\ Now.failed = failed /\ Now.sent = <<>>
         /\ Now.l1 = l1 /\ Now.llc = llc /\ Kept(Now, Now)
BY DEF TypeOK, Now, IsCaches, Kept

LEMMA DroppedKeeps ==
  ASSUME TypeOK, NEW c \in L1s, at[c] \in Addrs
  PROVE  Kept(Now, Dropped(c)) /\ Dropped(c).llc = llc
<1> DEFINE line == [Now.l1[c] EXCEPT ![at[c]] = Invalid]
           put == PutL1(Now, c, line)
           ok == l1[c][at[c]].st # "MODIFIED"
<1>1. Dropped(c) = IF op[c] = "PREFETCH" THEN Now
                   ELSE Check(put, ok, "invalidateCacheBlock_of_MODIFIED")
  BY NowIsCaches DEF Dropped, PutL1, Now
<1>2. line \in [Addrs -> Copy]
  BY NowIsCaches, InvalidIsCopy DEF IsCaches
<1>3. \A b \in Addrs : line[b] = IF b = at[c] THEN Invalid ELSE Now.l1[c][b]
  BY NowIsCaches, InvalidIsCopy DEF IsCaches
<1> HIDE DEF line
<1>4. /\ IsCaches(put)
      /\ put.llc = Now.llc /\ put.failed = Now.failed
      /\ \A d \in L1s : put.l1[d] = IF d = c THEN line ELSE Now.l1[d]
  BY <1>2, NowIsCaches, PutL1Keeps
<1> HIDE DEF put
<1>5. Included(Now) => Included(put)
  BY <1>3, <1>4, InvalidIsCopy DEF Included, IncludedAt
<1>6. Kept(Now, put)
  BY <1>4, <1>5 DEF Kept
<1>7. CASE op[c] = "PREFETCH"
  BY <1>1, <1>7, NowIsCaches
<1>8. CASE op[c] # "PREFETCH"
  <2>1. Kept(put, Dropped(c)) /\ Dropped(c).llc = put.llc
    BY <1>1, <1>4, <1>8, CheckKeeps
  <2> QED
    BY <1>4, <1>6, <2>1, NowIsCaches, KeptTwice
<1> QED
  BY <1>7, <1>8

(* A write changes no copy's state.                                        *)
LEMMA WroteKeeps ==
  ASSUME NEW s, IsCaches(s), NEW c \in L1s, NEW a \in Addrs,
         NEW t, t = Wrote(s, c, a)
  PROVE  Kept(s, t)
<1> DEFINE first == [d \in L1s |-> [s.l1[d] EXCEPT ![a] =
                       IF d = c THEN [@ EXCEPT !.new = TRUE] ELSE [@ EXCEPT !.new = FALSE]]]
           last == [k \in Llcs |-> [s.llc[k] EXCEPT ![a].new = FALSE]]
           fresh(copy) == [copy EXCEPT !.new = TRUE]
           stale(copy) == [copy EXCEPT !.new = FALSE]
<1>0. \A copy \in Copy : /\ fresh(copy) \in Copy /\ fresh(copy).st = copy.st
                         /\ stale(copy) \in Copy /\ stale(copy).st = copy.st
  BY DEF Copy
<1>1. t = [s EXCEPT !.l1 = first, !.llc = last]
  BY DEF Wrote
<1>2. /\ first \in [L1s -> [Addrs -> Copy]]
      /\ \A d \in L1s, b \in Addrs : first[d][b].st = s.l1[d][b].st
  <2>1. first = [d \in L1s |-> [s.l1[d] EXCEPT ![a] =
                    IF d = c THEN fresh(@) ELSE stale(@)]]
    OBVIOUS
  <2> HIDE DEF fresh, stale, first, last
  <2> QED
    BY <1>0, <2>1 DEF IsCaches
<1>3. /\ last \in [Llcs -> [Addrs -> Copy]]
      /\ \A k \in Llcs, b \in Addrs : last[k][b].st = s.llc[k][b].st
  <2>1. last = [k \in Llcs |-> [s.llc[k] EXCEPT ![a] = stale(@)]]
    OBVIOUS
  <2> HIDE DEF fresh, stale, first, last
  <2> QED
    BY <1>0, <2>1 DEF IsCaches
<1> HIDE DEF first, last
<1>4. IsCaches(t) /\ t.l1 = first /\ t.llc = last /\ t.failed = s.failed
  BY <1>1, <1>2, <1>3 DEF IsCaches
<1> HIDE DEF fresh, stale
<1>5. ASSUME Included(s), NEW d \in L1s, NEW b \in Addrs PROVE IncludedAt(t, d, b)
  <2>1. IncludedAt(s, d, b) /\ LlcOf[d] \in Llcs
    BY <1>5, CoherentAssumption DEF Included
  <2> QED
    BY <1>2, <1>3, <1>4, <2>1 DEF IncludedAt
<1> QED
  BY <1>4, <1>5 DEF Kept, Included

-----------------------------------------------------------------------------
(* What a step leaves in the variables.                                    *)
LEMMA OutdatedTyped ==
  ASSUME NEW types, NEW channel \in Seq(Message(types)), NEW a
  PROVE  Outdated(channel, a) \in Seq(Message(types))
<1> DEFINE stale(m) == [m EXCEPT !.new = FALSE]
           marked == [i \in DOMAIN channel |-> IF channel[i].a = a THEN stale(channel[i])
                                                                   ELSE channel[i]]
<1>1. Outdated(channel, a) = marked
  BY DEF Outdated
<1>2. \A m \in Message(types) : stale(m) \in Message(types)
  BY DEF Message
<1>3. DOMAIN channel = 1 .. Len(channel) /\ Len(channel) \in Nat
  OBVIOUS
<1>4. \A i \in DOMAIN channel : channel[i] \in Message(types)
  OBVIOUS
<1> HIDE DEF stale
<1>5. marked \in [1 .. Len(channel) -> Message(types)]
  BY <1>2, <1>3, <1>4
<1> HIDE DEF marked
<1> QED
  BY <1>1, <1>3, <1>5

LEMMA CommitKeeps ==
  ASSUME TypeOK, NEW s, Kept(Now, s), NEW l \in Llcs, NEW written \in Addrs \cup {None},
         Commit(s, l, written)
  PROVE  /\ l1' \in [L1s -> [Addrs -> Copy]]
         /\ llc' \in [Llcs -> [Addrs -> Copy]]
         /\ toDir' \in [Llcs -> Seq(ToDirectory)]
         /\ memory' \in [Addrs -> BOOLEAN]
         /\ Inclusive /\ failed' = {} => Inclusive'
<1>1. IsCaches(s) /\ l1' = s.l1 /\ llc' = s.llc /\ failed' = s.failed
  BY DEF Kept, Commit
<1>2. /\ l1' \in [L1s -> [Addrs -> Copy]]
      /\ llc' \in [Llcs -> [Addrs -> Copy]]
      /\ s.sent \in Seq(ToDirectory)
  BY <1>1 DEF IsCaches
<1>3. toDir \in [Llcs -> Seq(ToDirectory)] /\ memory \in [Addrs -> BOOLEAN]
  BY DEF TypeOK
<1>4. \A k \in Llcs : Outdated(toDir[k], written) \in Seq(ToDirectory)
  BY <1>3, OutdatedTyped DEF ToDirectory
<1>5. toDir' \in [Llcs -> Seq(ToDirectory)] /\ memory' \in [Addrs -> BOOLEAN]
  <2>1. CASE written = None
    <3>1. toDir' = [toDir EXCEPT ![l] = @ \o s.sent] /\ memory' = memory
      BY <2>1 DEF Commit
    <3>2. toDir[l] \o s.sent \in Seq(ToDirectory)
      BY <1>2, <1>3
    <3> QED
      BY <1>3, <3>1, <3>2
  <2>2. CASE written # None
    <3>1. /\ toDir' = [k \in Llcs |-> Outdated(toDir[k], written)
                                        \o (IF k = l THEN s.sent ELSE <<>>)]
          /\ memory' = [memory EXCEPT ![written] = FALSE]
      BY <2>2 DEF Commit
    <3>2. \A k \in Llcs : Outdated(toDir[k], written) \o (IF k = l THEN s.sent ELSE <<>>)
                             \in Seq(ToDirectory)
      BY <1>2, <1>4
    <3> QED
      BY <1>3, <3>1, <3>2
  <2> QED
    BY <2>1, <2>2
<1>6. Inclusive /\ failed' = {} => Inclusive'
  <2> SUFFICES ASSUME Inclusive, failed' = {} PROVE Inclusive'
    OBVIOUS
  <2>1. Included(Now)
    BY DEF Inclusive, Included, IncludedAt, Now
  <2>2. Included(s)
    BY <1>1, <2>1 DEF Kept
  <2> QED
    BY <1>1, <2>2 DEF Inclusive, Included, IncludedAt
<1> QED
  BY <1>2, <1>5, <1>6

-----------------------------------------------------------------------------
(* What the threads, the waiters' lists and the network threads are besides*)
(* their types: nobody is served but a list with somebody on it.           *)
ThreadsTyped ==
  /\ pc \in [L1s -> {"idle", "upgrading", "waiting", "locked"}]
  /\ op \in [L1s -> Ops \cup Reads \cup {None}]
  /\ at \in [L1s -> Addrs \cup {None}]
  /\ \A c \in L1s : /\ pc[c] # "idle" => at[c] \in Addrs
                    /\ pc[c] \in {"upgrading", "waiting"} => op[c] # None

ListsTyped ==
  /\ waiters \in [Llcs -> [Addrs -> Seq(L1s)]]
  /\ net \in [Llcs -> {"idle", "serving", "resuming"}]
  /\ served \in [Llcs -> Addrs \cup {None}]
  /\ \A l \in Llcs : served[l] = None <=> net[l] = "idle"

DataTyped ==
  /\ l1 \in [L1s -> [Addrs -> Copy]]
  /\ llc \in [Llcs -> [Addrs -> Copy]]
  /\ toDir \in [Llcs -> Seq(ToDirectory)]
  /\ toLlc \in [Llcs -> Seq(FromDirectory)]
  /\ dir \in [Addrs -> [sharers : SUBSET Llcs, owner : Llcs \cup {None},
                        queue : Seq(Requests \X Llcs), asked : BOOLEAN]]
  /\ memory \in [Addrs -> BOOLEAN]

LEMMA TypeParts == TypeOK <=> ThreadsTyped /\ ListsTyped /\ DataTyped
BY DEF TypeOK, ThreadsTyped, ListsTyped, DataTyped

ServesSomebody == \A l \in Llcs : net[l] # "idle" => waiters[l][served[l]] # <<>>

CoherentInv ==
  /\ TypeOK
  /\ WaitersListed
  /\ failed = {} => Inclusive /\ ServesSomebody

-----------------------------------------------------------------------------
(* The waiters' lists under what the steps do to them and to the threads.  *)
LEMMA ListedKept ==
  ASSUME WaitersListed, waiters' = waiters,
         \A l \in Llcs, a \in Addrs : Woken(l, a)' = Woken(l, a),
         \A c \in L1s : pc[c] = "waiting" \/ pc'[c] = "waiting" =>
                          pc'[c] = pc[c] /\ at'[c] = at[c]
  PROVE  WaitersListed'
<1> SUFFICES ASSUME NEW c \in L1s, NEW l \in Llcs, NEW a \in Addrs
             PROVE  IF pc'[c] = "waiting" /\ LlcOf[c] = l /\ at'[c] = a
                      THEN \E i \in DOMAIN waiters'[l][a] : Entries(c, l, a)' = {i}
                      ELSE Entries(c, l, a)' = {}
  BY DEF WaitersListed
<1>1. Entries(c, l, a)' = Entries(c, l, a)
  BY DEF Entries
<1> HIDE DEF Entries
<1>2. IF pc[c] = "waiting" /\ LlcOf[c] = l /\ at[c] = a
        THEN \E i \in DOMAIN waiters[l][a] : Entries(c, l, a) = {i}
        ELSE Entries(c, l, a) = {}
  BY DEF WaitersListed
<1> QED
  BY <1>1, <1>2

(* A thread of l that did not wait puts itself on a list.                  *)
LEMMA ListedAppended ==
  ASSUME TypeOK, WaitersListed,
         NEW c \in L1s, NEW a \in Addrs, pc[c] # "waiting", at[c] = a,
         waiters' = [waiters EXCEPT ![LlcOf[c]][a] = Append(@, c)],
         \A k \in Llcs, b \in Addrs : Woken(k, b)' = Woken(k, b),
         \A k \in Llcs, b \in Addrs : Woken(k, b) # {} => waiters[k][b] # <<>>,
         pc' = [pc EXCEPT ![c] = "waiting"], at' = at
  PROVE  WaitersListed'
<1> SUFFICES ASSUME NEW d \in L1s, NEW k \in Llcs, NEW b \in Addrs
             PROVE  IF pc'[d] = "waiting" /\ LlcOf[d] = k /\ at'[d] = b
                      THEN \E i \in DOMAIN waiters'[k][b] : Entries(d, k, b)' = {i}
                      ELSE Entries(d, k, b)' = {}
  BY DEF WaitersListed
<1> DEFINE l == LlcOf[c]
           n == Len(waiters[l][a])
<1>0. l \in Llcs /\ pc \in [L1s -> {"idle", "upgrading", "waiting", "locked"}]
      /\ waiters \in [Llcs -> [Addrs -> Seq(L1s)]]
  BY CoherentAssumption DEF TypeOK
<1>1. IF pc[d] = "waiting" /\ LlcOf[d] = k /\ at[d] = b
        THEN \E i \in DOMAIN waiters[k][b] : Entries(d, k, b) = {i}
        ELSE Entries(d, k, b) = {}
  BY DEF WaitersListed
<1>2. CASE ~(k = l /\ b = a)
  <2>1. waiters'[k][b] = waiters[k][b]
    BY <1>0, <1>2
  <2>2. Entries(d, k, b)' = Entries(d, k, b)
    BY <2>1 DEF Entries
  <2>3. pc'[d] = "waiting" /\ LlcOf[d] = k /\ at'[d] = b
          <=> pc[d] = "waiting" /\ LlcOf[d] = k /\ at[d] = b
    BY <1>0, <1>2
  <2> QED
    BY <1>1, <2>1, <2>2, <2>3
<1>3. CASE k = l /\ b = a
  <2>1. waiters'[k][b] = Append(waiters[k][b], c)
    BY <1>0, <1>3
  <2>2. waiters[k][b] \in Seq(L1s) /\ n \in Nat /\ n = Len(waiters[k][b])
    BY <1>0, <1>3
  <2>3. /\ DOMAIN waiters[k][b] = 1 .. n /\ DOMAIN waiters'[k][b] = 1 .. n + 1
        /\ \A i \in 1 .. n : waiters'[k][b][i] = waiters[k][b][i]
        /\ waiters'[k][b][n + 1] = c
    <3> HIDE DEF n
    <3> QED
      BY <2>1, <2>2
  <2>4. n + 1 \notin Woken(k, b)
    <3>1. Woken(k, b) = {} \/ (Woken(k, b) = {1} /\ waiters[k][b] # <<>>)
      BY DEF Woken
    <3>2. waiters[k][b] # <<>> => n + 1 # 1
      BY <2>2
    <3> QED
      BY <3>1, <3>2
  <2> HIDE DEF n
  <2>5. Entries(d, k, b)' = Entries(d, k, b) \cup (IF d = c THEN {n + 1} ELSE {})
    BY <2>2, <2>3, <2>4 DEF Entries
  <2>6. CASE d = c
    <3>1. Entries(d, k, b) = {}
      BY <1>1, <2>6
    <3> QED
      BY <1>0, <1>3, <2>2, <2>3, <2>5, <2>6, <3>1
  <2>7. CASE d # c
    <3>1. Entries(d, k, b)' = Entries(d, k, b) /\ pc'[d] = pc[d]
      BY <1>0, <2>5, <2>7
    <3> QED
      BY <1>1, <2>2, <2>3, <3>1
  <2> QED
    BY <2>6, <2>7
<1> QED
  BY <1>2, <1>3

(* The first thread of the list served wakes up.                           *)
LEMMA FrontWaits ==
  ASSUME TypeOK, WaitersListed, ServesSomebody, NEW l \in Llcs, net[l] = "serving"
  PROVE  /\ served[l] \in Addrs /\ FrontWaiter(l) \in L1s
         /\ pc[FrontWaiter(l)] = "waiting" /\ at[FrontWaiter(l)] = served[l]
         /\ LlcOf[FrontWaiter(l)] = l
         /\ Entries(FrontWaiter(l), l, served[l]) = {1}
<1> DEFINE a == served[l]
           c == FrontWaiter(l)
<1>1. a \in Addrs /\ waiters[l][a] \in Seq(L1s) /\ waiters[l][a] # <<>>
  BY DEF TypeOK, ServesSomebody
<1>2. c = waiters[l][a][1] /\ 1 \in DOMAIN waiters[l][a] /\ c \in L1s
  BY <1>1 DEF FrontWaiter
<1>3. Woken(l, a) = {}
  BY DEF Woken
<1>4. 1 \in Entries(c, l, a)
  BY <1>2, <1>3 DEF Entries
<1> HIDE DEF a, c
<1>5. IF pc[c] = "waiting" /\ LlcOf[c] = l /\ at[c] = a
        THEN \E i \in DOMAIN waiters[l][a] : Entries(c, l, a) = {i}
        ELSE Entries(c, l, a) = {}
  BY <1>1, <1>2 DEF WaitersListed
<1>6. pc[c] = "waiting" /\ LlcOf[c] = l /\ at[c] = a /\ Entries(c, l, a) = {1}
  BY <1>4, <1>5
<1> QED
  BY <1>1, <1>2, <1>6 DEF a, c

LEMMA ListedWoken ==
  ASSUME TypeOK, WaitersListed, ServesSomebody, NEW l \in Llcs, net[l] = "serving",
         NEW there \in {"idle", "locked"},
         pc' = [pc EXCEPT ![FrontWaiter(l)] = there],
         \A d \in L1s : d # FrontWaiter(l) => at'[d] = at[d],
         net' = [net EXCEPT ![l] = "resuming"], UNCHANGED <<waiters, served>>
  PROVE  WaitersListed'
<1> DEFINE a == served[l]
           c == FrontWaiter(l)
<1>1. /\ a \in Addrs /\ c \in L1s /\ pc[c] = "waiting" /\ at[c] = a /\ LlcOf[c] = l
      /\ Entries(c, l, a) = {1}
  BY FrontWaits
<1>2. c = waiters[l][a][1]
  BY FrontWaits DEF FrontWaiter, TypeOK, ServesSomebody
<1> HIDE DEF a, c
<1> SUFFICES ASSUME NEW d \in L1s, NEW k \in Llcs, NEW b \in Addrs
             PROVE  IF pc'[d] = "waiting" /\ LlcOf[d] = k /\ at'[d] = b
                      THEN \E i \in DOMAIN waiters'[k][b] : Entries(d, k, b)' = {i}
                      ELSE Entries(d, k, b)' = {}
  BY DEF WaitersListed
<1>3. IF pc[d] = "waiting" /\ LlcOf[d] = k /\ at[d] = b
        THEN \E i \in DOMAIN waiters[k][b] : Entries(d, k, b) = {i}
        ELSE Entries(d, k, b) = {}
  BY DEF WaitersListed
<1>4. /\ net \in [Llcs -> {"idle", "serving", "resuming"}]
      /\ pc \in [L1s -> {"idle", "upgrading", "waiting", "locked"}]
  BY DEF TypeOK
<1>5. Woken(k, b)' = IF k = l /\ b = a THEN {1} ELSE Woken(k, b)
  BY <1>4 DEF Woken, a
<1>6. Entries(d, k, b)' = IF k = l /\ b = a THEN Entries(d, k, b) \ {1}
                                            ELSE Entries(d, k, b)
  <2>1. Woken(l, a) = {}
    BY DEF Woken
  <2> QED
    BY <1>5, <2>1 DEF Entries
<1>7. CASE d = c
  <2>1. pc'[d] # "waiting"
    BY <1>1, <1>4, <1>7 DEF c
  <2>2. Entries(d, k, b)' = {}
    BY <1>1, <1>3, <1>6, <1>7
  <2> QED
    BY <2>1, <2>2
<1>8. CASE d # c
  <2>1. pc'[d] = pc[d] /\ at'[d] = at[d]
    BY <1>4, <1>8 DEF c
  <2>2. 1 \notin Entries(d, l, a)
    BY <1>2, <1>8 DEF Entries
  <2>3. Entries(d, k, b)' = Entries(d, k, b)
    BY <1>6, <2>2
  <2> QED
    BY <1>3, <2>1, <2>3
<1> QED
  BY <1>7, <1>8

(* The entry of the thread woken is taken off.                             *)
LEMMA ListedTaken ==
  ASSUME TypeOK, WaitersListed, ServesSomebody, NEW l \in Llcs, net[l] = "resuming",
         NEW there \in {"idle", "serving"},
         waiters' = [waiters EXCEPT ![l][served[l]] = Tail(@)],
         net' = [net EXCEPT ![l] = there],
         \A k \in Llcs \ {l} : served'[k] = served[k],
         UNCHANGED threads
  PROVE  WaitersListed'
<1> DEFINE a == served[l]
           n == Len(waiters[l][a])
<1>1. /\ a \in Addrs /\ waiters[l][a] \in Seq(L1s) /\ waiters[l][a] # <<>>
      /\ waiters \in [Llcs -> [Addrs -> Seq(L1s)]]
      /\ net \in [Llcs -> {"idle", "serving", "resuming"}]
  BY DEF TypeOK, ServesSomebody
<1> SUFFICES ASSUME NEW d \in L1s, NEW k \in Llcs, NEW b \in Addrs
             PROVE  IF pc[d] = "waiting" /\ LlcOf[d] = k /\ at[d] = b
                      THEN \E i \in DOMAIN waiters'[k][b] : Entries(d, k, b)' = {i}
                      ELSE Entries(d, k, b)' = {}
  BY DEF WaitersListed, threads
<1>2. IF pc[d] = "waiting" /\ LlcOf[d] = k /\ at[d] = b
        THEN \E i \in DOMAIN waiters[k][b] : Entries(d, k, b) = {i}
        ELSE Entries(d, k, b) = {}
  BY DEF WaitersListed
<1>3. CASE ~(k = l /\ b = a)
  <2>1. waiters'[k][b] = waiters[k][b]
    BY <1>1, <1>3
  <2>2. Woken(k, b)' = Woken(k, b)
    BY <1>1, <1>3 DEF Woken
  <2>3. Entries(d, k, b)' = Entries(d, k, b)
    BY <2>1, <2>2 DEF Entries
  <2> QED
    BY <1>2, <2>1, <2>3
<1>4. CASE k = l /\ b = a
  <2>1. waiters'[k][b] = Tail(waiters[k][b])
    BY <1>1, <1>4
  <2>2. /\ n \in Nat \ {0} /\ DOMAIN waiters[k][b] = 1 .. n
        /\ DOMAIN waiters'[k][b] = 1 .. n - 1
        /\ \A i \in 1 .. n - 1 : waiters'[k][b][i] = waiters[k][b][i + 1]
    BY <1>1, <1>4, <2>1
  <2>3. Woken(k, b) = {1} /\ Woken(k, b)' = {}
    BY <1>1, <1>4 DEF Woken
  <2> HIDE DEF n
  <2>4. \A i \in 1 .. n - 1 : i \in Entries(d, k, b)' <=> i + 1 \in Entries(d, k, b)
    BY <2>2, <2>3 DEF Entries
  <2>5. Entries(d, k, b) \subseteq 2 .. n /\ Entries(d, k, b)' \subseteq 1 .. n - 1
    BY <2>2, <2>3 DEF Entries
  <2> HIDE DEF Entries
  <2>6. CASE Entries(d, k, b) = {}
    BY <1>2, <2>2, <2>4, <2>5, <2>6
  <2>7. CASE \E i \in DOMAIN waiters[k][b] : Entries(d, k, b) = {i}
    <3>1. PICK i \in DOMAIN waiters[k][b] : Entries(d, k, b) = {i}
      BY <2>7
    <3>2. i \in 2 .. n /\ i - 1 \in DOMAIN waiters'[k][b]
      BY <2>2, <2>5, <3>1
    <3>3. Entries(d, k, b)' = {i - 1}
      <4>1. i - 1 \in Entries(d, k, b)'
        BY <2>2, <2>4, <3>1, <3>2
      <4>2. ASSUME NEW j \in Entries(d, k, b)' PROVE j = i - 1
        BY <2>2, <2>4, <2>5, <3>1, <3>2
      <4> QED
        BY <4>1, <4>2
    <3> QED
      BY <1>2, <3>1, <3>2, <3>3
  <2> QED
    BY <1>2, <2>6, <2>7
<1> QED
  BY <1>3, <1>4

-----------------------------------------------------------------------------
(* The end of an operation, of the thread's own or in the lock handed over.*)
LEMMA ToLlcOutdated ==
  ASSUME TypeOK, NEW a
  PROVE  [k \in Llcs |-> Outdated(toLlc[k], a)] \in [Llcs -> Seq(FromDirectory)]
<1>1. \A k \in Llcs : toLlc[k] \in Seq(FromDirectory)
  BY DEF TypeOK
<1>2. \A k \in Llcs : Outdated(toLlc[k], a) \in Seq(FromDirectory)
  BY <1>1, OutdatedTyped DEF FromDirectory
<1> QED
  BY <1>2

LEMMA CompleteKeeps ==
  ASSUME TypeOK, NEW s, Kept(Now, s), NEW c \in L1s, NEW a \in Addrs, NEW o,
         Complete(s, c, a, o), UNCHANGED dir
  PROVE  /\ DataTyped' /\ ThreadsTyped'
         /\ Inclusive /\ failed' = {} => Inclusive'
         /\ \E there \in {"idle", "locked"} : pc' = [pc EXCEPT ![c] = there]
         /\ \A d \in L1s : d # c => at'[d] = at[d]
<1> DEFINE l == LlcOf[c]
<1>1. l \in Llcs
  BY CoherentAssumption
<1>2. CASE o = "PREFETCH" /\ Prefetched(s, c)
  <2>1. /\ Commit(s, l, None) /\ UNCHANGED <<toLlc, dir>>
        /\ pc' = [pc EXCEPT ![c] = "idle"] /\ op' = [op EXCEPT ![c] = None]
        /\ at' = [at EXCEPT ![c] = None]
    BY <1>2 DEF Prefetched, CommitQuiet
  <2>2. /\ l1' \in [L1s -> [Addrs -> Copy]]
        /\ llc' \in [Llcs -> [Addrs -> Copy]]
        /\ toDir' \in [Llcs -> Seq(ToDirectory)]
        /\ memory' \in [Addrs -> BOOLEAN]
        /\ Inclusive /\ failed' = {} => Inclusive'
    BY <1>1, <2>1, CommitKeeps
  <2>3. DataTyped'
    BY <2>1, <2>2 DEF DataTyped, TypeOK
  <2>4. ThreadsTyped'
    BY <2>1, CoherentAssumption DEF ThreadsTyped, TypeOK
  <2> QED
    BY <2>1, <2>2, <2>3, <2>4 DEF TypeOK
<1>3. CASE FillAndAccess(s, c, a, o)
  <2> DEFINE wrote == o = "WRITE"
             filled(victim) == InsertL1(s, c, a, s.llc[l][a], victim)
             done(victim) == IF wrote THEN Wrote(filled(victim), c, a) ELSE filled(victim)
             checked(victim) == Check(done(victim), Permissible(filled(victim).l1[c][a].st, o),
                                      "Expected_to_be_valid_in_L1")
             written == IF wrote THEN a ELSE None
  <2>1. PICK victim \in L1Victims(s, c) :
          /\ Commit(checked(victim), l, written)
          /\ toLlc' = IF wrote THEN [k \in Llcs |-> Outdated(toLlc[k], a)] ELSE toLlc
          /\ pc' = [pc EXCEPT ![c] = IF o = "ATOMIC" THEN "locked" ELSE "idle"]
          /\ op' = [op EXCEPT ![c] = None]
          /\ at' = [at EXCEPT ![c] = IF o = "ATOMIC" THEN a ELSE None]
    BY <1>3 DEF FillAndAccess
  <2>2. victim \in Addrs \cup {None}
    BY DEF L1Victims, Resident
  <2>3. Kept(s, filled(victim))
    <3>1. IsCaches(s)
      BY DEF Kept
    <3>2. filled(victim) = InsertL1(s, c, a, s.llc[LlcOf[c]][a], victim)
      OBVIOUS
    <3> HIDE DEF filled
    <3> QED
      BY <2>2, <3>1, <3>2, InsertL1Keeps
  <2> HIDE DEF filled
  <2>4. Kept(s, done(victim))
    <3>1. Kept(filled(victim), Wrote(filled(victim), c, a))
      BY <2>3, WroteKeeps DEF Kept
    <3> QED
      BY <2>3, <3>1, KeptTwice
  <2> HIDE DEF done
  <2>5. Kept(s, checked(victim))
    <3>1. IsCaches(done(victim))
      BY <2>4 DEF Kept
    <3>2. Kept(done(victim), checked(victim))
      BY <3>1, CheckKeeps
    <3> QED
      BY <2>4, <3>2, KeptTwice
  <2> HIDE DEF checked
  <2>6. Kept(Now, checked(victim))
    BY <2>5, KeptTwice
  <2>7. written \in Addrs \cup {None}
    OBVIOUS
  <2> HIDE DEF written
  <2>8. /\ l1' \in [L1s -> [Addrs -> Copy]]
        /\ llc' \in [Llcs -> [Addrs -> Copy]]
        /\ toDir' \in [Llcs -> Seq(ToDirectory)]
        /\ memory' \in [Addrs -> BOOLEAN]
        /\ Inclusive /\ failed' = {} => Inclusive'
    BY <1>1, <2>1, <2>6, <2>7, CommitKeeps
  <2>9. toLlc' \in [Llcs -> Seq(FromDirectory)]
    BY <2>1, ToLlcOutdated DEF TypeOK
  <2>10. DataTyped'
    BY <2>8, <2>9 DEF DataTyped, TypeOK
  <2>11. ThreadsTyped'
    <3>1. pc \in [L1s -> {"idle", "upgrading", "waiting", "locked"}]
          /\ op \in [L1s -> Ops \cup Reads \cup {None}]
          /\ at \in [L1s -> Addrs \cup {None}]
      BY DEF TypeOK
    <3>2. CASE o = "ATOMIC"
      BY <2>1, <3>1, <3>2, CoherentAssumption DEF ThreadsTyped, TypeOK
    <3>3. CASE o # "ATOMIC"
      BY <2>1, <3>1, <3>3, CoherentAssumption DEF ThreadsTyped, TypeOK
    <3> QED
      BY <3>2, <3>3
  <2> QED
    BY <2>1, <2>8, <2>10, <2>11 DEF TypeOK
<1> QED
  BY <1>2, <1>3 DEF Complete

(* A step that leaves the lists alone, and every thread that waits.        *)
LEMMA InvKept ==
  ASSUME CoherentInv, failed = {},
         ThreadsTyped', DataTyped',
         Inclusive /\ failed' = {} => Inclusive',
         UNCHANGED <<waiters, net, served>>,
         \A d \in L1s : pc[d] = "waiting" \/ pc'[d] = "waiting" =>
                          pc'[d] = pc[d] /\ at'[d] = at[d]
  PROVE  CoherentInv'
<1>1. WaitersListed'
  BY ListedKept DEF CoherentInv, Woken
<1>2. ListsTyped'
  BY DEF CoherentInv, TypeOK, ListsTyped
<1>3. TypeOK'
  BY <1>2 DEF TypeOK, ThreadsTyped, ListsTyped, DataTyped
<1>4. ServesSomebody'
  BY DEF CoherentInv, ServesSomebody
<1> QED
  BY <1>1, <1>3, <1>4 DEF CoherentInv

-----------------------------------------------------------------------------
(* User threads.                                                           *)
LEMMA WriteHitInv ==
  ASSUME CoherentInv, NEW c \in L1s, NEW a \in Addrs, WriteHit(c, a)
  PROVE  CoherentInv'
<1> DEFINE l == LlcOf[c]
           s == Wrote(Now, c, a)
<1>1. TypeOK /\ failed = {} /\ l \in Llcs
  BY CoherentAssumption DEF CoherentInv, WriteHit, Running
<1>2. /\ Commit(s, l, a) /\ UNCHANGED <<threads, waiters, net, served, dir>>
      /\ toLlc' = [k \in Llcs |-> Outdated(toLlc[k], a)]
  BY DEF WriteHit
<1>3. Kept(Now, s)
  BY <1>1, NowIsCaches, WroteKeeps
<1> HIDE DEF s
<1>4. /\ l1' \in [L1s -> [Addrs -> Copy]]
      /\ llc' \in [Llcs -> [Addrs -> Copy]]
      /\ toDir' \in [Llcs -> Seq(ToDirectory)]
      /\ memory' \in [Addrs -> BOOLEAN]
      /\ Inclusive /\ failed' = {} => Inclusive'
  BY <1>1, <1>2, <1>3, CommitKeeps
<1>5. toLlc' \in [Llcs -> Seq(FromDirectory)]
  BY <1>1, <1>2, ToLlcOutdated
<1>6. DataTyped' /\ ThreadsTyped'
  BY <1>1, <1>2, <1>4, <1>5 DEF DataTyped, ThreadsTyped, TypeOK, threads
<1> QED
  BY <1>1, <1>2, <1>4, <1>6, InvKept DEF threads

LEMMA AtomicHitInv ==
  ASSUME CoherentInv, NEW c \in L1s, NEW a \in Addrs, AtomicHit(c, a)
  PROVE  CoherentInv'
<1>1. /\ TypeOK /\ failed = {} /\ pc[c] = "idle"
      /\ pc' = [pc EXCEPT ![c] = "locked"] /\ at' = [at EXCEPT ![c] = a]
      /\ UNCHANGED <<caches, op, waiters, net, served, toDir, toLlc, dir, memory, failed>>
  BY DEF CoherentInv, AtomicHit, Running
<1>2. ThreadsTyped'
  BY <1>1 DEF ThreadsTyped, TypeOK
<1>3. DataTyped' /\ (Inclusive => Inclusive')
  BY <1>1 DEF DataTyped, TypeOK, Inclusive, caches
<1>4. \A d \in L1s : pc[d] = "waiting" \/ pc'[d] = "waiting" =>
                       pc'[d] = pc[d] /\ at'[d] = at[d]
  BY <1>1 DEF TypeOK
<1> QED
  BY <1>1, <1>2, <1>3, <1>4, InvKept

LEMMA AtomicUnlockInv ==
  ASSUME CoherentInv, NEW c \in L1s, AtomicUnlock(c)
  PROVE  CoherentInv'
<1> DEFINE l == LlcOf[c]
           a == at[c]
           wrote == Wrote(Now, c, a)
           s == Check(wrote, Permissible(l1[c][a].st, "WRITE"),
                      "Expected_to_find_address_in_L1_Cache")
<1>1. TypeOK /\ failed = {} /\ l \in Llcs /\ pc[c] = "locked" /\ a \in Addrs
  BY CoherentAssumption DEF CoherentInv, AtomicUnlock, Running, TypeOK
<1>2. /\ Commit(s, l, a) /\ UNCHANGED <<op, waiters, net, served, dir>>
      /\ toLlc' = [k \in Llcs |-> Outdated(toLlc[k], a)]
      /\ pc' = [pc EXCEPT ![c] = "idle"] /\ at' = [at EXCEPT ![c] = None]
  BY DEF AtomicUnlock
<1>3. Kept(Now, s)
  <2>1. Kept(Now, wrote)
    BY <1>1, NowIsCaches, WroteKeeps
  <2> HIDE DEF wrote
  <2>2. Kept(wrote, s)
    BY <2>1, CheckKeeps DEF Kept
  <2> QED
    BY <2>1, <2>2, KeptTwice
<1> HIDE DEF s
<1>4. /\ l1' \in [L1s -> [Addrs -> Copy]]
      /\ llc' \in [Llcs -> [Addrs -> Copy]]
      /\ toDir' \in [Llcs -> Seq(ToDirectory)]
      /\ memory' \in [Addrs -> BOOLEAN]
      /\ Inclusive /\ failed' = {} => Inclusive'
  BY <1>1, <1>2, <1>3, CommitKeeps
<1>5. toLlc' \in [Llcs -> Seq(FromDirectory)]
  BY <1>1, <1>2, ToLlcOutdated
<1>6. DataTyped'
  BY <1>1, <1>2, <1>4, <1>5 DEF DataTyped, TypeOK
<1>7. ThreadsTyped'
  BY <1>1, <1>2 DEF ThreadsTyped, TypeOK
<1>8. \A d \in L1s : pc[d] = "waiting" \/ pc'[d] = "waiting" =>
                       pc'[d] = pc[d] /\ at'[d] = at[d]
  BY <1>1, <1>2 DEF TypeOK
<1> QED
  BY <1>1, <1>2, <1>4, <1>6, <1>7, <1>8, InvKept

(* A miss and a prefetch begin.                                            *)
LEMMA BeginInv ==
  ASSUME CoherentInv, NEW c \in L1s, NEW o \in Ops \cup Reads, NEW a \in Addrs,
         failed = {}, pc[c] = "idle",
         pc' = [pc EXCEPT ![c] = "upgrading"],
         op' = [op EXCEPT ![c] = o], at' = [at EXCEPT ![c] = a],
         UNCHANGED <<caches, waiters, net, served, toDir, toLlc, dir, memory, failed>>
  PROVE  CoherentInv'
<1>1. TypeOK
  BY DEF CoherentInv
<1>2. o # None
  BY DEF Ops, Reads, None
<1>3. ThreadsTyped'
  BY <1>1, <1>2 DEF ThreadsTyped, TypeOK
<1>4. DataTyped' /\ (Inclusive => Inclusive')
  BY <1>1 DEF DataTyped, TypeOK, Inclusive, caches
<1>5. \A d \in L1s : pc[d] = "waiting" \/ pc'[d] = "waiting" =>
                       pc'[d] = pc[d] /\ at'[d] = at[d]
  BY <1>1 DEF TypeOK
<1> QED
  BY <1>3, <1>4, <1>5, InvKept

LEMMA MissHitsLlcInv ==
  ASSUME CoherentInv, NEW c \in L1s, MissHitsLlc(c)
  PROVE  CoherentInv'
<1> DEFINE a == at[c]
           s == Satisfied(Dropped(c), c, a, op[c])
<1>1. TypeOK /\ failed = {} /\ pc[c] = "upgrading" /\ a \in Addrs
  BY DEF CoherentInv, MissHitsLlc, Running, TypeOK
<1>2. Complete(s, c, a, op[c]) /\ UNCHANGED <<waiters, net, served, dir>>
  BY DEF MissHitsLlc
<1>3. Kept(Now, s)
  <2>1. Kept(Now, Dropped(c))
    BY <1>1, DroppedKeeps
  <2>2. Kept(Dropped(c), s)
    BY <1>1, <2>1, SatisfiedKeeps DEF Kept
  <2> QED
    BY <2>1, <2>2, KeptTwice
<1> HIDE DEF s
<1>4. /\ DataTyped' /\ ThreadsTyped'
      /\ Inclusive /\ failed' = {} => Inclusive'
      /\ \E there \in {"idle", "locked"} : pc' = [pc EXCEPT ![c] = there]
      /\ \A d \in L1s : d # c => at'[d] = at[d]
  BY <1>1, <1>2, <1>3, CompleteKeeps
<1>5. \A d \in L1s : pc[d] = "waiting" \/ pc'[d] = "waiting" =>
                       pc'[d] = pc[d] /\ at'[d] = at[d]
  BY <1>1, <1>4 DEF TypeOK
<1> QED
  BY <1>1, <1>2, <1>4, <1>5, InvKept

(* A SHARED line asks for its upgrade.                                     *)
AskedUpgrade(s, l, a) ==
  SetState(Send(s, "UPGRADE_REQ", a, FALSE), l, a, "SHARED_UPGRADING")

LEMMA AskedUpgradeKeeps ==
  ASSUME NEW s, IsCaches(s), NEW l \in Llcs, NEW a \in Addrs,
         s.llc[l][a].st = "SHARED"
  PROVE  Kept(s, AskedUpgrade(s, l, a))
<1> DEFINE type == "UPGRADE_REQ"
           no == FALSE
           sent == Send(s, type, a, no)
           t == SetState(sent, l, a, "SHARED_UPGRADING")
<1>0. type \in Requests \cup Answers /\ no \in BOOLEAN
  BY DEF Requests
<1>1. "SHARED_UPGRADING" \in States
  BY DEF States
<1> HIDE DEF type, no
<1>2. Kept(s, sent) /\ sent.llc = s.llc
  BY <1>0, SendKeeps
<1>3. IsCaches(sent)
  BY <1>2 DEF Kept
<1> HIDE DEF sent
<1>4. /\ IsCaches(t) /\ t.l1 = sent.l1 /\ t.failed = sent.failed
      /\ \A k \in Llcs, b \in Addrs :
           t.llc[k][b].st = IF k = l /\ b = a THEN "SHARED_UPGRADING"
                                              ELSE sent.llc[k][b].st
  BY <1>1, <1>3, SetStateKeeps
<1> HIDE DEF t
<1>5. ASSUME Included(sent), NEW d \in L1s, NEW b \in Addrs
      PROVE  IncludedAt(t, d, b)
  <2>1. LlcOf[d] \in Llcs /\ IncludedAt(sent, d, b)
    BY <1>5, CoherentAssumption DEF Included
  <2> QED
    BY <1>2, <1>4, <2>1 DEF IncludedAt
<1>6. Kept(sent, t)
  BY <1>4, <1>5 DEF Kept, Included
<1>7. Kept(s, t)
  BY <1>2, <1>6, KeptTwice
<1> QED
  BY <1>7 DEF AskedUpgrade, t, sent, type, no

(* What MissGoesToDirectory sends.                                         *)
LEMMA RequestedKeeps ==
  ASSUME NEW s, IsCaches(s), NEW l \in Llcs, NEW a \in Addrs, NEW ok, NEW t,
         \/ t = s
         \/ t = Send(s, "SH_REQ", a, FALSE)
         \/ s.llc[l][a].st = "SHARED" /\ t = AskedUpgrade(s, l, a)
         \/ t = Check(Send(s, "EX_REQ", a, FALSE), ok,
                      "ExReq_for_a_line_that_is_not_INVALID")
  PROVE  Kept(s, t)
<1> DEFINE ex == Send(s, "EX_REQ", a, FALSE)
<1>1. {"SH_REQ", "EX_REQ"} \subseteq Requests \cup Answers
  BY DEF Requests
<1>2. CASE t = s
  BY <1>2 DEF Kept
<1>3. CASE t = Send(s, "SH_REQ", a, FALSE)
  BY <1>1, <1>3, SendKeeps
<1>4. CASE s.llc[l][a].st = "SHARED" /\ t = AskedUpgrade(s, l, a)
  BY <1>4, AskedUpgradeKeeps
<1>5. CASE t = Check(ex, ok, "ExReq_for_a_line_that_is_not_INVALID")
  <2>1. Kept(s, ex)
    BY <1>1, SendKeeps
  <2>2. IsCaches(ex)
    BY <2>1 DEF Kept
  <2> HIDE DEF ex
  <2>3. Kept(ex, t)
    BY <1>5, <2>2, CheckKeeps
  <2> QED
    BY <2>1, <2>3, KeptTwice
<1> QED
  BY <1>2, <1>3, <1>4, <1>5

LEMMA MissGoesToDirectoryInv ==
  ASSUME CoherentInv, NEW c \in L1s, MissGoesToDirectory(c)
  PROVE  CoherentInv'
<1> DEFINE l == LlcOf[c]
           a == at[c]
           snooped == SnoopChecked(Dropped(c), l, a, {c}, "INVALID")
           shared == IF llc[l][a].st = "SHARED" THEN snooped ELSE Dropped(c)
           exclusive == op[c] \notin Reads
           waited == waiters[l][a] # <<>>
           ok == llc[l][a].st = "INVALID"
           upgrade == [Send(shared, "UPGRADE_REQ", a, FALSE)
                         EXCEPT !.llc[l][a].st = "SHARED_UPGRADING"]
           requested == IF waited THEN shared
                        ELSE IF ~exclusive THEN Send(shared, "SH_REQ", a, FALSE)
                        ELSE IF llc[l][a].st = "SHARED" THEN upgrade
                        ELSE Check(Send(shared, "EX_REQ", a, FALSE), ok,
                                   "ExReq_for_a_line_that_is_not_INVALID")
<1>1. /\ TypeOK /\ WaitersListed /\ failed = {} /\ ServesSomebody
      /\ pc[c] = "upgrading" /\ a \in Addrs /\ l \in Llcs /\ op[c] # None
  BY CoherentAssumption DEF CoherentInv, MissGoesToDirectory, Running, TypeOK
<1>2. /\ Commit(requested, l, None)
      /\ waiters' = [waiters EXCEPT ![l][a] = Append(@, c)]
      /\ pc' = [pc EXCEPT ![c] = "waiting"]
      /\ UNCHANGED <<op, at, net, served, toLlc, dir>>
  BY DEF MissGoesToDirectory, CommitQuiet
<1>3. Kept(Now, Dropped(c)) /\ Dropped(c).llc = llc
  BY <1>1, DroppedKeeps
<1>4. /\ Kept(Dropped(c), snooped)
      /\ \A b \in Addrs : snooped.llc[l][b].st = Dropped(c).llc[l][b].st
  <2>1. IsCaches(Dropped(c))
    BY <1>3 DEF Kept
  <2>2. l \in Llcs /\ a \in Addrs
    BY <1>1
  <2> HIDE DEF l, a
  <2> QED
    BY <2>1, <2>2, InvalidatedKeeps
<1>5. Kept(Now, snooped)
  BY <1>3, <1>4, KeptTwice
<1> HIDE DEF snooped
<1>6. Kept(Now, shared) /\ shared.llc[l][a].st = llc[l][a].st
  BY <1>1, <1>3, <1>4, <1>5
<1> HIDE DEF shared
<1>7. Kept(Now, requested)
  <2>1. \/ requested = shared
        \/ requested = Send(shared, "SH_REQ", a, FALSE)
        \/ llc[l][a].st = "SHARED" /\ requested = AskedUpgrade(shared, l, a)
        \/ requested = Check(Send(shared, "EX_REQ", a, FALSE), ok,
                             "ExReq_for_a_line_that_is_not_INVALID")
    <3>1. upgrade = AskedUpgrade(shared, l, a)
      BY DEF AskedUpgrade, SetState
    <3> HIDE DEF upgrade
    <3> QED
      BY <3>1
  <2>2. IsCaches(shared)
    BY <1>6 DEF Kept
  <2>4. llc[l][a].st = "SHARED" => shared.llc[l][a].st = "SHARED"
    BY <1>6
  <2> HIDE DEF requested, ok, l, a
  <2>3. Kept(shared, requested)
    BY <2>4, <1>1, <1>6, <2>1, <2>2, RequestedKeeps
  <2> QED
    BY <1>6, <2>3, KeptTwice
<1> HIDE DEF requested
<1>8. /\ l1' \in [L1s -> [Addrs -> Copy]]
      /\ llc' \in [Llcs -> [Addrs -> Copy]]
      /\ toDir' \in [Llcs -> Seq(ToDirectory)]
      /\ memory' \in [Addrs -> BOOLEAN]
      /\ Inclusive /\ failed' = {} => Inclusive'
  BY <1>1, <1>2, <1>7, CommitKeeps
<1>9. DataTyped'
  BY <1>1, <1>2, <1>8 DEF DataTyped, TypeOK
<1>10. ThreadsTyped'
  BY <1>1, <1>2 DEF ThreadsTyped, TypeOK
<1>11. waiters[l][a] \in Seq(L1s)
       /\ Append(waiters[l][a], c) \in Seq(L1s) /\ Append(waiters[l][a], c) # <<>>
  <2>1. waiters[l][a] \in Seq(L1s)
    BY <1>1 DEF TypeOK
  <2> HIDE DEF l, a
  <2> QED
    BY <2>1
<1>12. ListsTyped'
  BY <1>1, <1>2, <1>11 DEF ListsTyped, TypeOK
<1>13. ServesSomebody'
  BY <1>1, <1>2, <1>11 DEF ServesSomebody, TypeOK
<1>14. WaitersListed'
  <2>1. \A k \in Llcs, b \in Addrs : Woken(k, b)' = Woken(k, b)
    BY <1>2 DEF Woken
  <2>2. \A k \in Llcs, b \in Addrs : Woken(k, b) # {} => waiters[k][b] # <<>>
    BY <1>1 DEF Woken, ServesSomebody
  <2> QED
    BY <1>1, <1>2, <2>1, <2>2, ListedAppended
<1>15. TypeOK'
  BY <1>9, <1>10, <1>12 DEF TypeOK, ThreadsTyped, ListsTyped, DataTyped
<1> QED
  BY <1>1, <1>8, <1>13, <1>14, <1>15 DEF CoherentInv

-----------------------------------------------------------------------------
(* The network thread.                                                     *)
LEMMA ReceivedTyped ==
  ASSUME TypeOK, NEW l \in Llcs, NEW types, Received(l, types)
  PROVE  /\ failed = {} /\ net[l] = "idle"
         /\ Head(toLlc[l]).a \in Addrs /\ Head(toLlc[l]).new \in BOOLEAN
         /\ toLlc' \in [Llcs -> Seq(FromDirectory)]
<1>1. /\ toLlc \in [Llcs -> Seq(FromDirectory)] /\ toLlc[l] # <<>>
      /\ toLlc' = [toLlc EXCEPT ![l] = Tail(@)]
      /\ failed = {} /\ net[l] = "idle"
  BY DEF TypeOK, Received, Running
<1>2. Head(toLlc[l]) \in FromDirectory /\ Tail(toLlc[l]) \in Seq(FromDirectory)
  BY <1>1
<1>3. Head(toLlc[l]).a \in Addrs /\ Head(toLlc[l]).new \in BOOLEAN
  BY <1>2 DEF FromDirectory, Message
<1> QED
  BY <1>1, <1>2, <1>3

LEMMA AwaitedKeeps ==
  ASSUME TypeOK, NEW l, NEW a
  PROVE  /\ Kept(Now, Awaited(l, a)) /\ IsCaches(Awaited(l, a))
         /\ Awaited(l, a).llc = llc
         /\ Awaited(l, a).failed = {} => waiters[l][a] # <<>>
<1> DEFINE ok == waiters[l][a] # <<>>
           t == Check(Now, ok, "no_waiter_for_the_reply")
<1>1. t = Awaited(l, a)
  BY DEF Awaited
<1> HIDE DEF ok
<1>2. Kept(Now, t) /\ t.llc = Now.llc /\ (t.failed = {} => ok)
  BY NowIsCaches, CheckKeeps
<1> HIDE DEF t
<1> QED
  BY <1>1, <1>2, NowIsCaches DEF ok, Kept

(* A step that leaves the threads and the lists alone.                     *)
LEMMA NetworkKept ==
  ASSUME CoherentInv, failed = {}, NEW l \in Llcs, NEW s, Kept(Now, s),
         Commit(s, l, None), toLlc' \in [Llcs -> Seq(FromDirectory)],
         UNCHANGED <<threads, waiters, dir>>
  PROVE  /\ DataTyped' /\ ThreadsTyped' /\ failed' = s.failed
         /\ failed' = {} => Inclusive'
<1>1. TypeOK /\ Inclusive
  BY DEF CoherentInv
<1>2. /\ l1' \in [L1s -> [Addrs -> Copy]]
      /\ llc' \in [Llcs -> [Addrs -> Copy]]
      /\ toDir' \in [Llcs -> Seq(ToDirectory)]
      /\ memory' \in [Addrs -> BOOLEAN]
      /\ Inclusive /\ failed' = {} => Inclusive'
  BY <1>1, CommitKeeps
<1>3. DataTyped'
  BY <1>1, <1>2 DEF DataTyped, TypeOK
<1>4. ThreadsTyped'
  BY <1>1 DEF ThreadsTyped, TypeOK, threads
<1>5. failed' = s.failed
  BY DEF Commit
<1> QED
  BY <1>1, <1>2, <1>3, <1>4, <1>5

(* A reply: the network thread goes on to the waiters, who are there.      *)
LEMMA ReplyInv ==
  ASSUME CoherentInv, NEW l \in Llcs, NEW types, Received(l, types), NEW s,
         Kept(Now, s), s.failed = {} => waiters[l][Head(toLlc[l]).a] # <<>>,
         Commit(s, l, None), NowServing(l, Head(toLlc[l]).a)
  PROVE  CoherentInv'
<1> DEFINE a == Head(toLlc[l]).a
<1>1. TypeOK /\ WaitersListed
  BY DEF CoherentInv
<1>2. /\ failed = {} /\ net[l] = "idle" /\ a \in Addrs
      /\ toLlc' \in [Llcs -> Seq(FromDirectory)]
  BY <1>1, ReceivedTyped
<1>3. /\ net' = [net EXCEPT ![l] = "serving"] /\ served' = [served EXCEPT ![l] = a]
      /\ UNCHANGED <<threads, waiters, dir>>
      /\ s.failed = {} => waiters[l][a] # <<>>
  BY DEF NowServing
<1> HIDE DEF a
<1>4. /\ DataTyped' /\ ThreadsTyped' /\ failed' = s.failed
      /\ failed' = {} => Inclusive'
  BY <1>2, <1>3, NetworkKept
<1>5. ListsTyped'
  BY <1>1, <1>2, <1>3, CoherentAssumption DEF ListsTyped, TypeOK
<1>6. failed' = {} => ServesSomebody'
  BY <1>1, <1>2, <1>3, <1>4 DEF ServesSomebody, CoherentInv, TypeOK
<1>7. \A k \in Llcs, b \in Addrs : Woken(k, b)' = Woken(k, b)
  BY <1>1, <1>2, <1>3 DEF Woken, TypeOK
<1>8. WaitersListed'
  BY <1>1, <1>3, <1>7, ListedKept DEF threads
<1>9. TypeOK'
  BY <1>4, <1>5 DEF TypeOK, ThreadsTyped, ListsTyped, DataTyped
<1> QED
  BY <1>4, <1>6, <1>8, <1>9 DEF CoherentInv

LEMMA ReceiveDataInv ==
  ASSUME CoherentInv, NEW l \in Llcs, NEW type, NEW state \in {"EXCLUSIVE", "SHARED"},
         ReceiveData(l, type, state)
  PROVE  CoherentInv'
<1> DEFINE m == Head(toLlc[l])
           copy == [st |-> state, new |-> m.new]
<1>1. TypeOK
  BY DEF CoherentInv
<1>2. Received(l, {type}) /\ NowServing(l, m.a)
  BY DEF ReceiveData
<1>3. PICK victim \in LlcVictims(Now, l) :
        Commit(InsertLlc(Awaited(l, m.a), l, m.a, copy, victim), l, None)
  BY DEF ReceiveData, CommitQuiet
<1>4. victim \in Addrs \cup {None}
  BY DEF LlcVictims, Resident
<1>5. m.a \in Addrs /\ m.new \in BOOLEAN
  BY <1>1, <1>2, ReceivedTyped
<1>6. copy \in Copy /\ copy.st # "INVALID"
  BY <1>5 DEF Copy, States
<1> DEFINE awaited == Awaited(l, m.a)
           s == InsertLlc(awaited, l, m.a, copy, victim)
<1>7. /\ Kept(Now, awaited) /\ IsCaches(awaited)
      /\ awaited.failed = {} => waiters[l][m.a] # <<>>
  BY <1>1, AwaitedKeeps
<1> HIDE DEF copy, awaited
<1>8. Kept(awaited, s)
  BY <1>4, <1>5, <1>6, <1>7, InsertLlcKeeps
<1> HIDE DEF s
<1>9. Kept(Now, s)
  BY <1>7, <1>8, KeptTwice
<1>10. s.failed = {} => waiters[l][m.a] # <<>>
  BY <1>7, <1>8 DEF Kept
<1>11. Commit(s, l, None)
  BY <1>3 DEF s, awaited
<1> QED
  BY <1>2, <1>9, <1>10, <1>11, ReplyInv

(* The first-level caches below the upgraded line are upgraded with it.    *)
LEMMA UpgradedKeeps ==
  ASSUME NEW s, IsCaches(s), NEW l \in Llcs, NEW a \in Addrs
  PROVE  Kept(s, SetState(SnoopChecked(s, l, a, {}, "MODIFIED"), l, a, "MODIFIED"))
<1> DEFINE snooped == SnoopChecked(s, l, a, {}, "MODIFIED")
           t == SetState(snooped, l, a, "MODIFIED")
<1>1. /\ IsCaches(snooped)
      /\ snooped.failed = {} => s.failed = {}
      /\ \A c \in L1s, b \in Addrs :
           snooped.l1[c][b].st = IF c \in L1sOf(l) \ {} /\ b = a
                                    /\ s.l1[c][b].st # "INVALID"
                                 THEN "MODIFIED" ELSE s.l1[c][b].st
      /\ \A k \in Llcs, b \in Addrs : snooped.llc[k][b].st = s.llc[k][b].st
  BY SnoopCheckedKeeps
<1>2. "MODIFIED" \in States
  BY DEF States
<1> HIDE DEF snooped
<1>3. /\ IsCaches(t) /\ t.l1 = snooped.l1 /\ t.failed = snooped.failed
      /\ \A k \in Llcs, b \in Addrs :
           t.llc[k][b].st = IF k = l /\ b = a THEN "MODIFIED" ELSE snooped.llc[k][b].st
  BY <1>1, <1>2, SetStateKeeps
<1> HIDE DEF t
<1>4. ASSUME Included(s), NEW d \in L1s, NEW b \in Addrs
      PROVE  IncludedAt(t, d, b)
  <2>1. LlcOf[d] \in Llcs /\ IncludedAt(s, d, b) /\ (d \in L1sOf(l) <=> LlcOf[d] = l)
    BY <1>4, CoherentAssumption DEF Included, L1sOf
  <2> QED
    BY <1>1, <1>3, <2>1 DEF IncludedAt
<1>5. Kept(s, t)
  BY <1>1, <1>3, <1>4 DEF Kept, Included
<1> QED
  BY <1>5 DEF t, snooped

LEMMA ReceiveUpgradeRepInv ==
  ASSUME CoherentInv, NEW l \in Llcs, ReceiveUpgradeRep(l)
  PROVE  CoherentInv'
<1> DEFINE a == Head(toLlc[l]).a
           awaited == Awaited(l, a)
           upgraded == [SnoopChecked(awaited, l, a, {}, "MODIFIED")
                          EXCEPT !.llc[l][a].st = "MODIFIED"]
           sent == Check(awaited, Head(toLlc[l]).t = "UPGRADE_DATA_REP",
                         "now_INV_and_no_data_in_the_shmem_msg")
           lost == Check(sent, FALSE, "out_buf_passed_in_but_never_written_to")
           wrong == Check(awaited, FALSE, "upgrade_of_a_line_not_SHARED_UPGRADING")
           s == CASE llc[l][a].st = "SHARED_UPGRADING" -> upgraded
                  [] llc[l][a].st = "INVALID" -> lost
                  [] OTHER -> wrong
<1>1. TypeOK
  BY DEF CoherentInv
<1>2. Received(l, {"UPGRADE_REP", "UPGRADE_DATA_REP"}) /\ NowServing(l, a) /\ Commit(s, l, None)
  BY DEF ReceiveUpgradeRep, CommitQuiet
<1>3. a \in Addrs
  BY <1>1, <1>2, ReceivedTyped
<1>4. /\ Kept(Now, awaited) /\ IsCaches(awaited)
      /\ awaited.failed = {} => waiters[l][a] # <<>>
  BY <1>1, AwaitedKeeps
<1>5. upgraded = SetState(SnoopChecked(awaited, l, a, {}, "MODIFIED"), l, a, "MODIFIED")
  BY DEF SetState
<1> HIDE DEF awaited
<1>6. Kept(awaited, upgraded)
  <2>1. Kept(awaited, SetState(SnoopChecked(awaited, l, a, {}, "MODIFIED"), l, a, "MODIFIED"))
    BY <1>3, <1>4, UpgradedKeeps
  <2> HIDE DEF upgraded
  <2> QED
    BY <1>5, <2>1
<1> HIDE DEF upgraded
<1>7. Kept(awaited, lost) /\ Kept(awaited, wrong)
  <2>1. Kept(awaited, sent) /\ IsCaches(sent) /\ Kept(awaited, wrong)
    BY <1>4, CheckKeeps DEF Kept
  <2> HIDE DEF sent
  <2>2. Kept(sent, lost)
    BY <2>1, CheckKeeps
  <2> HIDE DEF lost, wrong
  <2> QED
    BY <1>4, <2>1, <2>2, KeptTwice
<1> HIDE DEF sent, lost, wrong
<1>8. Kept(awaited, s)
  BY <1>6, <1>7
<1> HIDE DEF s
<1>9. Kept(Now, s)
  BY <1>4, <1>8, KeptTwice
<1>10. s.failed = {} => waiters[l][a] # <<>>
  BY <1>4, <1>8 DEF Kept
<1> QED
  BY <1>2, <1>9, <1>10, ReplyInv

LEMMA ServeUpgradeInv ==
  ASSUME CoherentInv, NEW l \in Llcs, ServeUpgrade(l)
  PROVE  CoherentInv'
<1> DEFINE a == served[l]
           s == [Send(Now, "UPGRADE_REQ", a, FALSE)
                   EXCEPT !.llc[l][a].st = "SHARED_UPGRADING"]
<1>1. /\ TypeOK /\ WaitersListed /\ failed = {} /\ net[l] = "serving"
      /\ llc[l][a].st = "SHARED" /\ a \in Addrs
  BY DEF CoherentInv, ServeUpgrade, Running, NeedsUpgrade, TypeOK
<1>2. /\ Commit(s, l, None) /\ net' = [net EXCEPT ![l] = "idle"]
      /\ served' = [served EXCEPT ![l] = None]
      /\ UNCHANGED <<threads, waiters, toLlc, dir>>
  BY DEF ServeUpgrade, CommitQuiet
<1>3. s = AskedUpgrade(Now, l, a)
  BY DEF AskedUpgrade, SetState
<1> HIDE DEF s
<1>4. IsCaches(Now) /\ Now.llc = llc
  BY <1>1, NowIsCaches
<1> HIDE DEF a
<1>5. Kept(Now, s)
  BY <1>1, <1>3, <1>4, AskedUpgradeKeeps
<1>6. toLlc' \in [Llcs -> Seq(FromDirectory)]
  BY <1>1, <1>2 DEF TypeOK
<1>7. /\ DataTyped' /\ ThreadsTyped'
      /\ failed' = {} => Inclusive'
  BY <1>1, <1>2, <1>5, <1>6, NetworkKept
<1>8. ListsTyped'
  BY <1>1, <1>2, CoherentAssumption DEF ListsTyped, TypeOK
<1>9. ServesSomebody'
  BY <1>1, <1>2 DEF CoherentInv, ServesSomebody, TypeOK
<1>10. \A k \in Llcs, b \in Addrs : Woken(k, b)' = Woken(k, b)
  BY <1>1, <1>2 DEF Woken, TypeOK
<1>11. WaitersListed'
  BY <1>1, <1>2, <1>10, ListedKept DEF threads
<1>12. TypeOK'
  BY <1>7, <1>8 DEF TypeOK, ThreadsTyped, ListsTyped, DataTyped
<1> QED
  BY <1>7, <1>9, <1>11, <1>12 DEF CoherentInv

LEMMA ServeWaiterInv ==
  ASSUME CoherentInv, NEW l \in Llcs, ServeWaiter(l)
  PROVE  CoherentInv'
<1> DEFINE c == FrontWaiter(l)
           a == at[c]
           ok == LlcHit(Now, c, a, op[c])
           found == Check(Now, ok,
                          "Tried_to_read_in_next_level_cache_but_data_is_already_gone")
           s == Satisfied(found, c, a, op[c])
<1>1. /\ TypeOK /\ WaitersListed /\ failed = {} /\ ServesSomebody /\ net[l] = "serving"
  BY DEF CoherentInv, ServeWaiter, Running
<1>2. /\ Complete(s, c, a, op[c])
      /\ net' = [net EXCEPT ![l] = "resuming"] /\ UNCHANGED <<waiters, served, dir>>
  BY DEF ServeWaiter
<1>3. c \in L1s /\ a \in Addrs
  BY <1>1, FrontWaits
<1> HIDE DEF ok
<1>4. Kept(Now, found) /\ IsCaches(found)
  <2>1. Kept(Now, found)
    BY <1>1, NowIsCaches, CheckKeeps
  <2> QED
    BY <2>1 DEF Kept
<1> HIDE DEF found
<1>5. Kept(Now, s)
  <2>1. Kept(found, s)
    BY <1>3, <1>4, SatisfiedKeeps
  <2> QED
    BY <1>4, <2>1, KeptTwice
<1> HIDE DEF s
<1>6. /\ DataTyped' /\ ThreadsTyped'
      /\ Inclusive /\ failed' = {} => Inclusive'
      /\ \E there \in {"idle", "locked"} : pc' = [pc EXCEPT ![c] = there]
      /\ \A d \in L1s : d # c => at'[d] = at[d]
  BY <1>1, <1>2, <1>3, <1>5, CompleteKeeps
<1>7. PICK there \in {"idle", "locked"} : pc' = [pc EXCEPT ![c] = there]
  BY <1>6
<1>8. WaitersListed'
  BY <1>1, <1>2, <1>6, <1>7, ListedWoken
<1>9. ListsTyped'
  BY <1>1, <1>2 DEF ListsTyped, TypeOK
<1>10. ServesSomebody'
  BY <1>1, <1>2 DEF ServesSomebody, TypeOK
<1>11. TypeOK'
  BY <1>6, <1>9 DEF TypeOK, ThreadsTyped, ListsTyped, DataTyped
<1> QED
  BY <1>1, <1>6, <1>8, <1>10, <1>11 DEF CoherentInv

LEMMA ResumeServingInv ==
  ASSUME CoherentInv, NEW l \in Llcs, ResumeServing(l)
  PROVE  CoherentInv'
<1> DEFINE a == served[l]
           left == Tail(waiters[l][a])
           there == IF left = <<>> THEN "idle" ELSE "serving"
<1>1. /\ TypeOK /\ WaitersListed /\ failed = {} /\ ServesSomebody /\ Inclusive
      /\ net[l] = "resuming" /\ a \in Addrs
  BY DEF CoherentInv, ResumeServing, Running, TypeOK
<1>2. /\ waiters' = [waiters EXCEPT ![l][served[l]] = Tail(@)]
      /\ waiters' = [waiters EXCEPT ![l][a] = left]
      /\ net' = [net EXCEPT ![l] = there]
      /\ served' = [served EXCEPT ![l] = IF left = <<>> THEN None ELSE a]
      /\ UNCHANGED <<caches, threads, toDir, toLlc, dir, memory, failed>>
  BY DEF ResumeServing
<1>3. left \in Seq(L1s) /\ there \in {"idle", "serving"}
  BY <1>1 DEF ServesSomebody, TypeOK
<1>4. there = "idle" <=> left = <<>>
  OBVIOUS
<1> HIDE DEF a, left, there
<1>5. \A k \in Llcs \ {l} : served'[k] = served[k]
  BY <1>1, <1>2 DEF TypeOK
<1>6. WaitersListed'
  BY <1>1, <1>2, <1>3, <1>5, ListedTaken
<1>0. /\ waiters \in [Llcs -> [Addrs -> Seq(L1s)]]
      /\ net \in [Llcs -> {"idle", "serving", "resuming"}]
      /\ served \in [Llcs -> Addrs \cup {None}]
      /\ \A k \in Llcs : served[k] = None <=> net[k] = "idle"
  BY <1>1 DEF TypeOK
<1>7. /\ waiters' \in [Llcs -> [Addrs -> Seq(L1s)]]
      /\ \A k \in Llcs, b \in Addrs :
           waiters'[k][b] = IF k = l /\ b = a THEN left ELSE waiters[k][b]
  <2>1. waiters' = [waiters EXCEPT ![l][a] = left]
    BY <1>2
  <2> QED
    BY <1>0, <1>1, <1>3, <2>1
<1>8. /\ net' \in [Llcs -> {"idle", "serving", "resuming"}]
      /\ \A k \in Llcs : net'[k] = IF k = l THEN there ELSE net[k]
  <2>1. net' = [net EXCEPT ![l] = there]
    BY <1>2
  <2> QED
    BY <1>0, <1>3, <2>1
<1>9. /\ served' \in [Llcs -> Addrs \cup {None}]
      /\ served'[l] = IF left = <<>> THEN None ELSE a
  <2>1. served' = [served EXCEPT ![l] = IF left = <<>> THEN None ELSE a]
    BY <1>2
  <2> QED
    BY <1>0, <1>1, <2>1
<1>11. ListsTyped'
  <2>1. ASSUME NEW k \in Llcs PROVE served'[k] = None <=> net'[k] = "idle"
    <3>1. CASE k = l
      <4>1. served'[k] = None <=> left = <<>>
        BY <1>1, <1>9, <3>1, CoherentAssumption
      <4>2. net'[k] = there
        BY <1>8, <3>1
      <4> QED
        BY <1>4, <4>1, <4>2
    <3>2. CASE k # l
      <4>1. served'[k] = served[k] /\ net'[k] = net[k]
        BY <1>5, <1>8, <3>2
      <4> QED
        BY <1>0, <4>1
    <3> QED
      BY <3>1, <3>2
  <2> QED
    <3>1. /\ waiters' \in [Llcs -> [Addrs -> Seq(L1s)]]
          /\ net' \in [Llcs -> {"idle", "serving", "resuming"}]
          /\ served' \in [Llcs -> Addrs \cup {None}]
      BY <1>7, <1>8, <1>9
    <3> HIDE DEF a, left, there
    <3> QED
      BY <2>1, <3>1 DEF ListsTyped
<1>12. ThreadsTyped' /\ DataTyped' /\ Inclusive'
  BY <1>1, <1>2 DEF ThreadsTyped, DataTyped, TypeOK, Inclusive, caches, threads
<1>13. ServesSomebody'
  <2> SUFFICES ASSUME NEW k \in Llcs, net'[k] # "idle"
               PROVE  waiters'[k][served'[k]] # <<>>
    BY DEF ServesSomebody
  <2>1. CASE k = l
    <3>1. there # "idle"
      BY <1>8, <2>1
    <3>2. left # <<>> /\ served'[k] = a
      BY <1>4, <1>9, <2>1, <3>1
    <3>3. waiters'[k][a] = left
      BY <1>1, <1>7, <2>1
    <3> QED
      BY <3>2, <3>3
  <2>2. CASE k # l
    <3>1. net[k] # "idle"
      BY <1>8, <2>2
    <3>2. served[k] \in Addrs
      BY <1>0, <3>1
    <3>3. waiters[k][served[k]] # <<>>
      BY <1>1, <3>1 DEF ServesSomebody
    <3>4. served'[k] = served[k]
      BY <1>5, <2>2
    <3>5. waiters'[k][served[k]] = waiters[k][served[k]]
      BY <1>7, <2>2, <3>2
    <3> QED
      BY <3>3, <3>4, <3>5
  <2> QED
    BY <2>1, <2>2
<1>10. TypeOK'
  BY <1>11, <1>12 DEF TypeOK, ThreadsTyped, ListsTyped, DataTyped
<1> QED
  BY <1>6, <1>10, <1>12, <1>13 DEF CoherentInv

(* The directory's snoops: no waiter is involved.                          *)
LEMMA SnoopReceivedInv ==
  ASSUME CoherentInv, NEW l \in Llcs, NEW types, Received(l, types), NEW s,
         Kept(Now, s), Commit(s, l, None), UNCHANGED <<threads, waiters, net, served, dir>>
  PROVE  CoherentInv'
<1>1. TypeOK /\ failed = {} /\ toLlc' \in [Llcs -> Seq(FromDirectory)]
  BY ReceivedTyped DEF CoherentInv
<1>2. /\ DataTyped' /\ ThreadsTyped'
      /\ failed' = {} => Inclusive'
  BY <1>1, NetworkKept
<1> QED
  BY <1>1, <1>2, InvKept DEF threads

(* A line given up: snooped above, then put away and answered for.         *)
LEMMA GivenUpKeeps ==
  ASSUME NEW s, IsCaches(s), NEW l \in Llcs, NEW a \in Addrs,
         NEW snooped, IsCaches(snooped),
         snooped.failed = {} => s.failed = {},
         \A c \in L1s, b \in Addrs :
           snooped.l1[c][b].st = IF c \in L1sOf(l) \ {} /\ b = a
                                    /\ s.l1[c][b].st # "INVALID"
                                 THEN "INVALID" ELSE s.l1[c][b].st,
         \A k \in Llcs, b \in Addrs : snooped.llc[k][b].st = s.llc[k][b].st,
         NEW type \in Answers, NEW new \in BOOLEAN
  PROVE  Kept(s, Send(Put(snooped, l, a, Invalid), type, a, new))
<1> DEFINE put == Put(snooped, l, a, Invalid)
           sent == Send(put, type, a, new)
<1>1. /\ IsCaches(put) /\ put.l1 = snooped.l1 /\ put.failed = snooped.failed
      /\ \A k \in Llcs, b \in Addrs :
           put.llc[k][b] = IF k = l /\ b = a THEN Invalid ELSE snooped.llc[k][b]
  BY InvalidIsCopy, PutKeeps
<1> HIDE DEF put
<1>2. ASSUME Included(s), NEW d \in L1s, NEW b \in Addrs
      PROVE  IncludedAt(put, d, b)
  <2>1. LlcOf[d] \in Llcs /\ IncludedAt(s, d, b) /\ (d \in L1sOf(l) <=> LlcOf[d] = l)
    BY <1>2, CoherentAssumption DEF Included, L1sOf
  <2>2. CASE LlcOf[d] = l /\ b = a
    <3>1. put.l1[d][b].st = "INVALID"
      BY <1>1, <2>1, <2>2
    <3> QED
      BY <3>1 DEF IncludedAt
  <2>3. CASE ~(LlcOf[d] = l /\ b = a)
    <3>1. put.l1[d][b].st = s.l1[d][b].st
      BY <1>1, <2>1, <2>3
    <3>2. put.llc[LlcOf[d]][b].st = s.llc[LlcOf[d]][b].st
      BY <1>1, <2>1, <2>3
    <3> QED
      BY <2>1, <3>1, <3>2 DEF IncludedAt
  <2> QED
    BY <2>2, <2>3
<1>3. Kept(s, put)
  BY <1>1, <1>2 DEF Kept, Included
<1>4. Kept(put, sent)
  BY <1>1, SendKeeps
<1> HIDE DEF sent
<1>5. Kept(s, sent)
  BY <1>3, <1>4, KeptTwice
<1> QED
  BY <1>5 DEF sent, put

LEMMA ReceiveInvReqInv ==
  ASSUME CoherentInv, NEW l \in Llcs, ReceiveInvReq(l)
  PROVE  CoherentInv'
<1> DEFINE a == Head(toLlc[l]).a
           ok == llc[l][a].st # "MODIFIED"
           asked == SnoopChecked(Now, l, a, {}, "INVALID")
           snooped == Check(asked, ok, "MODIFIED_data_is_about_to_get_lost")
           put == [snooped EXCEPT !.llc[l][a] = Invalid]
           answer == Send(put, "INV_REP", a, FALSE)
           s == IF llc[l][a].st = "INVALID" THEN Now ELSE answer
<1>1. TypeOK
  BY DEF CoherentInv
<1>2. /\ Received(l, {"INV_REQ"}) /\ Commit(s, l, None)
      /\ UNCHANGED <<threads, waiters, net, served, dir>>
  BY DEF ReceiveInvReq, CommitQuiet
<1>3. a \in Addrs /\ IsCaches(Now) /\ Kept(Now, Now)
  BY <1>1, <1>2, ReceivedTyped, NowIsCaches
<1>4. put = Put(snooped, l, a, Invalid)
  BY DEF Put
<1> HIDE DEF put, ok
<1>5. /\ IsCaches(asked)
      /\ asked.failed = {} => Now.failed = {}
      /\ \A c \in L1s, b \in Addrs :
           asked.l1[c][b].st = IF c \in L1sOf(l) \ {} /\ b = a
                                    /\ Now.l1[c][b].st # "INVALID"
                                 THEN "INVALID" ELSE Now.l1[c][b].st
      /\ \A k \in Llcs, b \in Addrs : asked.llc[k][b].st = Now.llc[k][b].st
  <2>1. a \in Addrs /\ IsCaches(Now)
    BY <1>3
  <2> HIDE DEF a
  <2> QED
    BY <2>1, InvalidatedKeeps
<1> HIDE DEF asked
<1>6. /\ Kept(asked, snooped) /\ snooped.l1 = asked.l1 /\ snooped.llc = asked.llc
  BY <1>5, CheckKeeps
<1>7. IsCaches(snooped) /\ (snooped.failed = {} => Now.failed = {})
  BY <1>5, <1>6 DEF Kept
<1> HIDE DEF snooped
<1>10. /\ \A c \in L1s, b \in Addrs :
            snooped.l1[c][b].st = IF c \in L1sOf(l) \ {} /\ b = a
                                     /\ Now.l1[c][b].st # "INVALID"
                                  THEN "INVALID" ELSE Now.l1[c][b].st
       /\ \A k \in Llcs, b \in Addrs : snooped.llc[k][b].st = Now.llc[k][b].st
  BY <1>5, <1>6
<1>11. Kept(Now, Send(Put(snooped, l, a, Invalid), "INV_REP", a, FALSE))
  <2>1. "INV_REP" \in Answers /\ FALSE \in BOOLEAN
    BY DEF Answers
  <2> HIDE DEF a
  <2> QED
    BY <1>3, <1>7, <1>10, <2>1, GivenUpKeeps
<1>12. Kept(Now, s)
  BY <1>3, <1>4, <1>11
<1> HIDE DEF s
<1> QED
  BY <1>2, <1>12, SnoopReceivedInv

LEMMA ReceiveFlushReqInv ==
  ASSUME CoherentInv, NEW l \in Llcs, ReceiveFlushReq(l)
  PROVE  CoherentInv'
<1> DEFINE a == Head(toLlc[l]).a
           snooped == SnoopChecked(Now, l, a, {}, "INVALID")
           new == snooped.llc[l][a].new
           put == [snooped EXCEPT !.llc[l][a] = Invalid]
           answer == Send(put, "FLUSH_REP", a, new)
           s == IF llc[l][a].st = "INVALID" THEN Now ELSE answer
<1>1. TypeOK
  BY DEF CoherentInv
<1>2. /\ Received(l, {"FLUSH_REQ"}) /\ Commit(s, l, None)
      /\ UNCHANGED <<threads, waiters, net, served, dir>>
  BY DEF ReceiveFlushReq, CommitQuiet
<1>3. a \in Addrs /\ IsCaches(Now) /\ Kept(Now, Now)
  BY <1>1, <1>2, ReceivedTyped, NowIsCaches
<1>4. put = Put(snooped, l, a, Invalid)
  BY DEF Put
<1> HIDE DEF put
<1>5. /\ IsCaches(snooped)
      /\ snooped.failed = {} => Now.failed = {}
      /\ \A c \in L1s, b \in Addrs :
           snooped.l1[c][b].st = IF c \in L1sOf(l) \ {} /\ b = a
                                    /\ Now.l1[c][b].st # "INVALID"
                                 THEN "INVALID" ELSE Now.l1[c][b].st
      /\ \A k \in Llcs, b \in Addrs : snooped.llc[k][b].st = Now.llc[k][b].st
  <2>1. a \in Addrs /\ IsCaches(Now)
    BY <1>3
  <2> HIDE DEF a
  <2> QED
    BY <2>1, InvalidatedKeeps
<1> HIDE DEF snooped
<1>6. new \in BOOLEAN
  BY <1>3, <1>5 DEF IsCaches, Copy
<1> HIDE DEF new
<1>11. Kept(Now, Send(Put(snooped, l, a, Invalid), "FLUSH_REP", a, new))
  <2>1. "FLUSH_REP" \in Answers
    BY DEF Answers
  <2> HIDE DEF a
  <2> QED
    BY <1>3, <1>5, <1>6, <2>1, GivenUpKeeps
<1>12. Kept(Now, s)
  BY <1>3, <1>4, <1>11
<1> HIDE DEF s
<1> QED
  BY <1>2, <1>12, SnoopReceivedInv

LEMMA ReceiveWbReqInv ==
  ASSUME CoherentInv, NEW l \in Llcs, ReceiveWbReq(l)
  PROVE  CoherentInv'
<1> DEFINE a == Head(toLlc[l]).a
           snooped == SnoopChecked(Now, l, a, {}, "SHARED")
           new == snooped.llc[l][a].new
           set == [snooped EXCEPT !.llc[l][a].st = "SHARED"]
           answer == Send(set, "WB_REP", a, new)
           blind == Send(Now, "WB_REP", a, FALSE)
           s == CASE llc[l][a].st = "INVALID" -> Now
                  [] llc[l][a].st = "SHARED_UPGRADING" -> blind
                  [] OTHER -> answer
<1>1. TypeOK
  BY DEF CoherentInv
<1>2. /\ Received(l, {"WB_REQ"}) /\ Commit(s, l, None)
      /\ UNCHANGED <<threads, waiters, net, served, dir>>
  BY DEF ReceiveWbReq, CommitQuiet
<1>3. /\ a \in Addrs /\ IsCaches(Now) /\ Kept(Now, Now)
      /\ "WB_REP" \in Requests \cup Answers /\ "SHARED" \in States
  BY <1>1, <1>2, ReceivedTyped, NowIsCaches DEF Answers, States
<1>4. set = SetState(snooped, l, a, "SHARED")
  BY DEF SetState
<1> HIDE DEF set
<1>5. /\ IsCaches(snooped)
      /\ snooped.failed = {} => Now.failed = {}
      /\ \A c \in L1s, b \in Addrs :
           snooped.l1[c][b].st = IF c \in L1sOf(l) \ {} /\ b = a
                                    /\ Now.l1[c][b].st # "INVALID"
                                 THEN "SHARED" ELSE Now.l1[c][b].st
      /\ \A k \in Llcs, b \in Addrs : snooped.llc[k][b].st = Now.llc[k][b].st
  <2> DEFINE n == "SHARED"
  <2>1. a \in Addrs /\ IsCaches(Now) /\ n \in {"INVALID", "SHARED", "MODIFIED"}
    BY <1>3
  <2>2. snooped = SnoopChecked(Now, l, a, {}, n)
    OBVIOUS
  <2> HIDE DEF n, a, snooped
  <2>3. /\ IsCaches(snooped)
        /\ snooped.failed = {} => Now.failed = {}
        /\ \A c \in L1s, b \in Addrs :
             snooped.l1[c][b].st = IF c \in L1sOf(l) \ {} /\ b = a
                                      /\ Now.l1[c][b].st # "INVALID"
                                   THEN n ELSE Now.l1[c][b].st
        /\ \A k \in Llcs, b \in Addrs : snooped.llc[k][b].st = Now.llc[k][b].st
    BY <2>1, <2>2, SnoopCheckedKeeps
  <2> QED
    BY <2>3 DEF n
<1> HIDE DEF snooped
<1>6. new \in BOOLEAN
  BY <1>3, <1>5 DEF IsCaches, Copy
<1> HIDE DEF new, a
<1>7. /\ IsCaches(set) /\ set.l1 = snooped.l1 /\ set.failed = snooped.failed
      /\ \A k \in Llcs, b \in Addrs :
           set.llc[k][b].st = IF k = l /\ b = a THEN "SHARED" ELSE snooped.llc[k][b].st
  BY <1>3, <1>4, <1>5, SetStateKeeps
<1>8. ASSUME Included(Now), NEW d \in L1s, NEW b \in Addrs
      PROVE  IncludedAt(set, d, b)
  <2>1. LlcOf[d] \in Llcs /\ IncludedAt(Now, d, b) /\ (d \in L1sOf(l) <=> LlcOf[d] = l)
    BY <1>8, CoherentAssumption DEF Included, L1sOf
  <2> QED
    BY <1>5, <1>7, <2>1 DEF IncludedAt
<1>9. Kept(Now, set)
  BY <1>5, <1>7, <1>8 DEF Kept, Included
<1>10. Kept(Now, blind)
  BY <1>3, SendKeeps
<1>11. Kept(set, answer)
  BY <1>3, <1>6, <1>7, SendKeeps
<1> HIDE DEF blind, answer
<1>12. Kept(Now, answer)
  BY <1>9, <1>11, KeptTwice
<1>13. Kept(Now, s)
  BY <1>3, <1>10, <1>12
<1> HIDE DEF s
<1> QED
  BY <1>2, <1>13, SnoopReceivedInv DEF a

-----------------------------------------------------------------------------
(* The directory: only the messages, its own state and memory.             *)
LEMMA AppendTyped ==
  ASSUME NEW S, NEW q \in Seq(S), NEW m \in S
  PROVE  Append(q, m) \in Seq(S)
OBVIOUS

LEMMA DirReceiveInv ==
  ASSUME CoherentInv, NEW l \in Llcs, DirReceive(l)
  PROVE  CoherentInv'
<1> DEFINE m == Head(toDir[l])
           d == dir[m.a]
           gone == [d EXCEPT !.sharers = @ \ {l}, !.owner = IF @ = l THEN None ELSE @]
           asking == [d EXCEPT !.queue = Append(@, <<m.t, l>>)]
           clean == [d EXCEPT !.owner = None]
           Entry == [sharers : SUBSET Llcs, owner : Llcs \cup {None},
                     queue : Seq(Requests \X Llcs), asked : BOOLEAN]
           entry == CASE m.t \in Requests -> asking
                      [] m.t \in {"INV_REP", "FLUSH_REP"} -> gone
                      [] m.t = "WB_REP" -> clean
<1>1. /\ TypeOK /\ failed = {} /\ toDir[l] # <<>>
      /\ toDir' = [toDir EXCEPT ![l] = Tail(@)]
      /\ dir' = [dir EXCEPT ![m.a] = entry]
      /\ memory' = IF m.t \in {"FLUSH_REP", "WB_REP"}
                     THEN [memory EXCEPT ![m.a] = m.new] ELSE memory
      /\ UNCHANGED <<caches, threads, waiters, net, served, toLlc, failed>>
  BY DEF CoherentInv, DirReceive, Running
<1>2. m \in ToDirectory /\ toDir' \in [Llcs -> Seq(ToDirectory)]
  <2>1. toDir \in [Llcs -> Seq(ToDirectory)]
    BY <1>1 DEF TypeOK
  <2>2. toDir[l] \in Seq(ToDirectory) /\ toDir[l] # <<>>
    BY <1>1, <2>1
  <2>3. m \in ToDirectory /\ Tail(toDir[l]) \in Seq(ToDirectory)
    BY <2>2
  <2> QED
    BY <1>1, <2>1, <2>3
<1>3. m.a \in Addrs /\ m.new \in BOOLEAN /\ m.t \in Requests \cup Answers
  BY <1>2 DEF ToDirectory, Message
<1> HIDE DEF m
<1>4. d \in Entry
  BY <1>1, <1>3 DEF TypeOK
<1> HIDE DEF d
<1>5. asking \in Entry \/ m.t \notin Requests
  <2> SUFFICES ASSUME m.t \in Requests PROVE asking \in Entry
    OBVIOUS
  <2> DEFINE queue == Append(d.queue, <<m.t, l>>)
  <2>1. queue \in Seq(Requests \X Llcs)
    BY <1>4
  <2>2. asking = [d EXCEPT !.queue = queue]
    BY <1>4
  <2> HIDE DEF queue, asking
  <2> QED
    BY <1>4, <2>1, <2>2
<1>6. gone \in Entry /\ clean \in Entry
  BY <1>4
<1> HIDE DEF asking, gone, clean
<1>7. entry \in Entry
  BY <1>3, <1>5, <1>6 DEF Answers
<1> HIDE DEF entry
<1>8. dir' \in [Addrs -> Entry]
  BY <1>1, <1>7 DEF TypeOK
<1>9. memory' \in [Addrs -> BOOLEAN]
  BY <1>1, <1>3 DEF TypeOK
<1>10. DataTyped'
  BY <1>1, <1>2, <1>8, <1>9 DEF DataTyped, TypeOK, caches
<1>11. ThreadsTyped' /\ (Inclusive => Inclusive')
  BY <1>1 DEF ThreadsTyped, TypeOK, Inclusive, caches, threads
<1> QED
  BY <1>1, <1>10, <1>11, InvKept DEF threads

LEMMA DirSnoopInv ==
  ASSUME CoherentInv, NEW a \in Addrs, DirSnoop(a)
  PROVE  CoherentInv'
<1> DEFINE snoop(l) == IF Head(dir[a].queue)[1] = "SH_REQ" THEN "WB_REQ"
                       ELSE IF dir[a].owner = l THEN "FLUSH_REQ" ELSE "INV_REQ"
           yes == TRUE
           asked == [dir[a] EXCEPT !.asked = yes]
           Entry == [sharers : SUBSET Llcs, owner : Llcs \cup {None},
                     queue : Seq(Requests \X Llcs), asked : BOOLEAN]
<1>1. /\ TypeOK /\ failed = {}
      /\ toLlc' = [l \in Llcs |-> IF l \in Blockers(a)
                     THEN Append(toLlc[l], Msg(snoop(l), a, FALSE)) ELSE toLlc[l]]
      /\ dir' = [dir EXCEPT ![a] = asked]
      /\ UNCHANGED <<caches, threads, waiters, net, served, toDir, memory, failed>>
  BY DEF CoherentInv, DirSnoop, Running
<1>2. \A l \in Llcs : Msg(snoop(l), a, FALSE) \in FromDirectory
  BY DEF Msg, FromDirectory, Message, SnoopRequests
<1> HIDE DEF snoop
<1>3. toLlc' \in [Llcs -> Seq(FromDirectory)]
  <2>1. \A l \in Llcs : toLlc[l] \in Seq(FromDirectory)
    BY <1>1 DEF TypeOK
  <2>2. \A l \in Llcs : Append(toLlc[l], Msg(snoop(l), a, FALSE)) \in Seq(FromDirectory)
    BY <1>2, <2>1, AppendTyped, Zenon
  <2> QED
    BY <1>1, <2>1, <2>2
<1>4. asked \in Entry
  <2>1. yes \in BOOLEAN /\ dir[a] \in Entry
    BY <1>1 DEF TypeOK
  <2> HIDE DEF yes
  <2> QED
    BY <2>1
<1> HIDE DEF asked
<1>5. dir' \in [Addrs -> Entry]
  BY <1>1, <1>4 DEF TypeOK
<1>6. DataTyped'
  BY <1>1, <1>3, <1>5 DEF DataTyped, TypeOK, caches
<1>7. ThreadsTyped' /\ (Inclusive => Inclusive')
  BY <1>1 DEF ThreadsTyped, TypeOK, Inclusive, caches, threads
<1> QED
  BY <1>1, <1>6, <1>7, InvKept DEF threads

LEMMA DirAnswerInv ==
  ASSUME CoherentInv, NEW a \in Addrs, NEW lost \in LostUpgradeReplies, DirAnswer(a, lost)
  PROVE  CoherentInv'
<1> DEFINE r == Head(dir[a].queue)
           l == r[2]
           held == l \in dir[a].sharers
           reply == CASE r[1] = "SH_REQ" -> IF Mesi /\ dir[a].sharers = {} THEN "EX_REP"
                                                                          ELSE "SH_REP"
                      [] r[1] = "EX_REQ" -> "EX_REP"
                      [] r[1] = "UPGRADE_REQ" -> IF held THEN "UPGRADE_REP"
                                                         ELSE lost
           new == memory[a] /\ ~(held /\ reply = "UPGRADE_REP")
           m == Msg(reply, a, new)
           no == FALSE
           entry == [sharers |-> dir[a].sharers \cup {l},
                     owner |-> IF reply = "SH_REP" THEN None ELSE l,
                     queue |-> Tail(dir[a].queue), asked |-> no]
           Entry == [sharers : SUBSET Llcs, owner : Llcs \cup {None},
                     queue : Seq(Requests \X Llcs), asked : BOOLEAN]
<1>1. /\ TypeOK /\ failed = {} /\ dir[a].queue # <<>>
      /\ toLlc' = [toLlc EXCEPT ![l] = Append(@, m)]
      /\ dir' = [dir EXCEPT ![a] = entry]
      /\ UNCHANGED <<caches, threads, waiters, net, served, toDir, memory, failed>>
  BY DEF CoherentInv, DirAnswer, Running
<1>2. dir[a] \in Entry
  BY <1>1 DEF TypeOK
<1>3. r \in Requests \X Llcs /\ Tail(dir[a].queue) \in Seq(Requests \X Llcs)
  <2>1. dir[a].queue \in Seq(Requests \X Llcs) /\ dir[a].queue # <<>>
    BY <1>1, <1>2
  <2> HIDE DEF Requests
  <2> QED
    BY <2>1
<1> HIDE DEF r
<1>4. l \in Llcs /\ r[1] \in Requests
  BY <1>3
<1> HIDE DEF l, held
<1>5. reply \in Replies
  BY <1>4, CoherentAssumption DEF Requests, Replies
<1> HIDE DEF reply
<1>6. new \in BOOLEAN
  BY Zenon
<1> HIDE DEF new
<1>7. m \in FromDirectory
  BY <1>5, <1>6 DEF Msg, FromDirectory, Message
<1> HIDE DEF m
<1>8. toLlc' \in [Llcs -> Seq(FromDirectory)]
  <2>1. toLlc \in [Llcs -> Seq(FromDirectory)] /\ toLlc' = [toLlc EXCEPT ![l] = Append(@, m)]
    BY <1>1 DEF TypeOK
  <2> QED
    BY <1>4, <1>7, <2>1
<1>9. entry \in Entry
  <2>1. no \in BOOLEAN
    OBVIOUS
  <2> HIDE DEF no
  <2> QED
    BY <1>2, <1>3, <1>4, <2>1
<1> HIDE DEF entry
<1>10. dir' \in [Addrs -> Entry]
  BY <1>1, <1>9 DEF TypeOK
<1>11. DataTyped'
  BY <1>1, <1>8, <1>10 DEF DataTyped, TypeOK, caches
<1>12. ThreadsTyped' /\ (Inclusive => Inclusive')
  BY <1>1 DEF ThreadsTyped, TypeOK, Inclusive, caches, threads
<1> QED
  BY <1>1, <1>11, <1>12, InvKept DEF threads

-----------------------------------------------------------------------------
LEMMA CoherentInit == Init => CoherentInv
<1> SUFFICES ASSUME Init PROVE CoherentInv
  OBVIOUS
<1> DEFINE no == FALSE
           yes == TRUE
           entry == [sharers |-> {}, owner |-> None, queue |-> <<>>, asked |-> no]
<1>1. entry \in [sharers : SUBSET Llcs, owner : Llcs \cup {None},
                 queue : Seq(Requests \X Llcs), asked : BOOLEAN]
  <2>1. no \in BOOLEAN
    OBVIOUS
  <2> HIDE DEF no
  <2> QED
    BY <2>1
<1>2. dir = [a \in Addrs |-> entry] /\ memory = [a \in Addrs |-> yes] /\ yes \in BOOLEAN
  BY DEF Init
<1> HIDE DEF entry, yes
<1>3. /\ l1 = [c \in L1s |-> [a \in Addrs |-> Invalid]]
      /\ llc = [l \in Llcs |-> [a \in Addrs |-> Invalid]]
      /\ toDir = [l \in Llcs |-> <<>>] /\ toLlc = [l \in Llcs |-> <<>>]
  BY DEF Init
<1>4. DataTyped
  BY <1>1, <1>2, <1>3, InvalidIsCopy DEF DataTyped
<1>5. /\ pc = [c \in L1s |-> "idle"] /\ op = [c \in L1s |-> None]
      /\ at = [c \in L1s |-> None]
      /\ waiters = [l \in Llcs |-> [a \in Addrs |-> <<>>]]
      /\ net = [l \in Llcs |-> "idle"] /\ served = [l \in Llcs |-> None]
  BY DEF Init
<1>6. ThreadsTyped /\ ListsTyped
  BY <1>5, CoherentAssumption DEF ThreadsTyped, ListsTyped
<1>7. TypeOK
  BY <1>4, <1>6 DEF TypeOK, ThreadsTyped, ListsTyped, DataTyped
<1>8. WaitersListed
  BY <1>5 DEF WaitersListed, Entries
<1>9. Inclusive /\ ServesSomebody
  BY <1>3, <1>5, InvalidIsCopy, CoherentAssumption DEF Inclusive, ServesSomebody
<1> QED
  BY <1>7, <1>8, <1>9 DEF CoherentInv

LEMMA CoherentStep == CoherentInv /\ [Next]_vars => CoherentInv'
<1> SUFFICES ASSUME CoherentInv, [Next]_vars PROVE CoherentInv'
  OBVIOUS
<1>1. ASSUME NEW c \in L1s, UserStep(c)
      PROVE  CoherentInv'
  <2>1. ASSUME NEW a \in Addrs, NEW o \in Ops, Miss(c, o, a)
        PROVE  CoherentInv'
    BY <2>1, BeginInv DEF Miss, Running
  <2>2. ASSUME NEW a \in Addrs, DoPrefetch(c, a)
        PROVE  CoherentInv'
    <3>1. "PREFETCH" \in Ops \cup Reads
      BY DEF Reads
    <3> QED
      BY <2>2, <3>1, BeginInv DEF DoPrefetch, Running
  <2> QED
    BY <1>1, <2>1, <2>2, WriteHitInv, AtomicHitInv, AtomicUnlockInv, MissHitsLlcInv,
       MissGoesToDirectoryInv DEF UserStep
<1>2. ASSUME NEW l \in Llcs, NetworkStep(l)
      PROVE  CoherentInv'
  BY <1>2, ReceiveDataInv, ReceiveUpgradeRepInv, ServeUpgradeInv, ServeWaiterInv,
     ResumeServingInv, ReceiveInvReqInv, ReceiveFlushReqInv, ReceiveWbReqInv
     DEF NetworkStep, ReceiveExRep, ReceiveShRep
<1>3. CASE UNCHANGED vars
  <2>1. UNCHANGED <<l1, llc, pc, op, at, waiters, net, served, toDir, toLlc, dir, memory,
                    failed>>
    BY <1>3 DEF vars, caches, threads
  <2>2. TypeOK'
    BY <2>1 DEF CoherentInv, TypeOK
  <2>3. WaitersListed'
    BY <2>1, ListedKept DEF CoherentInv, Woken
  <2>4. failed' = {} => Inclusive' /\ ServesSomebody'
    BY <2>1 DEF CoherentInv, Inclusive, ServesSomebody
  <2> QED
    BY <2>2, <2>3, <2>4 DEF CoherentInv
<1> QED
  BY <1>1, <1>2, <1>3, DirReceiveInv, DirSnoopInv, DirAnswerInv DEF Next, DirReply

LEMMA CoherentAlways == Spec => []CoherentInv
BY CoherentInit, CoherentStep, PTL DEF Spec

(* Whatever the interleaving of user threads, network threads and messages,*)
(* every variable keeps its type: the addresses, waiting threads and       *)
(* messages the controllers look up are always there.                      *)
THEOREM CoherentTypeCorrect == Spec => []TypeOK
<1>1. CoherentInv => TypeOK
  BY DEF CoherentInv
<1> QED
  BY <1>1, CoherentAlways, PTL

(* A thread that waits for the directory is on the list of its line        *)
(* exactly once, and no list names a thread that does not wait for that    *)
(* line: no wake-up is lost and none is given twice.                       *)
THEOREM EveryWaiterListed == Spec => []WaitersListed
<1>1. CoherentInv => WaitersListed
  BY DEF CoherentInv
<1> QED
  BY <1>1, CoherentAlways, PTL

(* As long as none of the controller's own assertions has failed, whatever *)
(* the directory answers, a first-level copy has a copy below it and a     *)
(* modified one a modified one: the assertions of CacheCntlr are enough to *)
(* catch every loss of inclusion.                                          *)
THEOREM InclusiveUnlessAsserted == Spec => [](NoAssertionFails => Inclusive)
<1>1. CoherentInv => (NoAssertionFails => Inclusive)
  BY DEF CoherentInv, NoAssertionFails
<1> QED
  BY <1>1, CoherentAlways, PTL
=============================================================================
