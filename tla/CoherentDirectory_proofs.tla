----------------------- MODULE CoherentDirectory_proofs ----------------------
(***************************************************************************)
(* For any number of cores, caches and lines, whatever the directory       *)
(* answers to an upgrade that lost its copy: what the directory and the    *)
(* messages of a line say of its copies, that no assertion of the          *)
(* controller but the one about that answer fails and, as long as no line  *)
(* is written through one first-level cache and accessed through another   *)
(* one above the same last-level cache, that the value written last is     *)
(* what reads find and is never lost.                                      *)
(***************************************************************************)
EXTENDS CoherentCaches_proofs, SequenceTheorems, FiniteSetTheorems

(* A channel without its data: which message, of which line.  The entries  *)
(* of the directory's queue have the same shape: which request, of whom.   *)
Kinds(q) == [i \in DOMAIN q |-> <<q[i].t, q[i].a>>]

Is(m, T, x) == m[1] \in T /\ m[2] = x
Has(q, T, x) == \E i \in DOMAIN q : Is(q[i], T, x)
Once(q, T, x) == \A i, j \in DOMAIN q : Is(q[i], T, x) /\ Is(q[j], T, x) => i = j
Ahead(q, S, T, x) == \A i, j \in DOMAIN q : Is(q[i], S, x) /\ Is(q[j], T, x) => i < j

LEMMA KindsTyped ==
  ASSUME NEW types, NEW q \in Seq(Message(types))
  PROVE  /\ Kinds(q) \in Seq(types \X Addrs)
         /\ q # <<>> => /\ Kinds(q) # <<>>
                        /\ Head(Kinds(q)) = <<Head(q).t, Head(q).a>>
                        /\ Kinds(Tail(q)) = Tail(Kinds(q))
         /\ \A m \in Message(types) : Kinds(Append(q, m)) = Append(Kinds(q), <<m.t, m.a>>)
         /\ \A a : Kinds(Outdated(q, a)) = Kinds(q)
<1> DEFINE K(p) == [i \in DOMAIN p |-> <<p[i].t, p[i].a>>]
           S == types \X Addrs
<1>1. ASSUME NEW p \in Seq(Message(types))
      PROVE  /\ K(p) \in Seq(S) /\ Len(K(p)) = Len(p)
             /\ \A i \in 1..Len(p) : K(p)[i] = <<p[i].t, p[i].a>>
  <2>1. \A i \in 1..Len(p) : p[i] \in Message(types)
    OBVIOUS
  <2>2. \A i \in 1..Len(p) : p[i].t \in types /\ p[i].a \in Addrs
    BY <2>1 DEF Message
  <2> QED
    BY <2>2
<1> HIDE DEF S
<1>2. \A p : Kinds(p) = K(p)
  BY DEF Kinds
<1> HIDE DEF K
<1>3. ASSUME q # <<>>
      PROVE  /\ K(q) # <<>>
             /\ Head(K(q)) = <<Head(q).t, Head(q).a>>
             /\ K(Tail(q)) = Tail(K(q))
  <2> DEFINE u == Tail(q)
             v == Tail(K(q))
  <2>1. /\ u \in Seq(Message(types)) /\ Len(u) = Len(q) - 1
        /\ \A i \in 1..Len(u) : u[i] = q[i + 1]
        /\ Head(q) = q[1] /\ Len(q) \in Nat \ {0}
    BY <1>3
  <2>2. K(q) # <<>> /\ Head(K(q)) = <<Head(q).t, Head(q).a>>
    BY <1>1, <2>1
  <2>3. /\ v \in Seq(S) /\ Len(v) = Len(q) - 1
        /\ \A i \in 1..Len(v) : v[i] = K(q)[i + 1]
    BY <1>1, <2>1, <2>2
  <2> HIDE DEF u, v
  <2>4. /\ K(u) \in Seq(S) /\ Len(K(u)) = Len(u)
        /\ \A i \in 1..Len(u) : K(u)[i] = <<u[i].t, u[i].a>>
    BY <1>1, <2>1
  <2>5. ASSUME NEW i \in 1..Len(u) PROVE K(u)[i] = v[i]
    <3>1. i + 1 \in 1..Len(q) /\ i \in 1..Len(v)
      BY <2>1, <2>3
    <3>2. K(q)[i + 1] = <<q[i + 1].t, q[i + 1].a>>
      BY <1>1, <3>1
    <3> QED
      BY <2>1, <2>3, <2>4, <3>1, <3>2
  <2>6. K(u) = v
    BY <2>1, <2>3, <2>4, <2>5, SeqEqual
  <2> QED
    BY <2>2, <2>6 DEF u, v
<1>4. ASSUME NEW m \in Message(types)
      PROVE  K(Append(q, m)) = Append(K(q), <<m.t, m.a>>)
  <2> DEFINE u == Append(q, m)
             e == <<m.t, m.a>>
             v == Append(K(q), e)
  <2>1. /\ u \in Seq(Message(types)) /\ Len(u) = Len(q) + 1 /\ Len(q) \in Nat
        /\ \A i \in 1..Len(q) : u[i] = q[i]
        /\ u[Len(q) + 1] = m
    OBVIOUS
  <2>2. e \in S
    BY DEF S, Message
  <2> HIDE DEF e
  <2>3. /\ v \in Seq(S) /\ Len(v) = Len(q) + 1
        /\ \A i \in 1..Len(q) : v[i] = K(q)[i]
        /\ v[Len(q) + 1] = e
    BY <1>1, <2>2
  <2> HIDE DEF u, v
  <2>4. /\ K(u) \in Seq(S) /\ Len(K(u)) = Len(u)
        /\ \A i \in 1..Len(u) : K(u)[i] = <<u[i].t, u[i].a>>
    BY <1>1, <2>1
  <2>5. ASSUME NEW i \in 1..Len(u) PROVE K(u)[i] = v[i]
    <3>1. CASE i \in 1..Len(q)
      <4>1. K(q)[i] = <<q[i].t, q[i].a>>
        BY <1>1, <3>1
      <4> QED
        BY <2>1, <2>3, <2>4, <3>1, <4>1
    <3>2. CASE i = Len(q) + 1
      BY <2>1, <2>3, <2>4, <3>2 DEF e
    <3> QED
      BY <2>1, <3>1, <3>2
  <2>6. K(u) = v
    BY <2>1, <2>3, <2>4, <2>5, SeqEqual
  <2> QED
    BY <2>6 DEF u, v, e
<1>5. ASSUME NEW a PROVE K(Outdated(q, a)) = K(q)
  <2>1. DOMAIN Outdated(q, a) = DOMAIN q
    BY DEF Outdated
  <2>2. ASSUME NEW i \in DOMAIN q
        PROVE  Outdated(q, a)[i].t = q[i].t /\ Outdated(q, a)[i].a = q[i].a
    <3>0. q[i] \in Message(types)
      BY ElementOfSeq, LenProperties
    <3>1. q[i] \in [t : types, a : Addrs, new : BOOLEAN]
      BY <3>0 DEF Message
    <3>2. Outdated(q, a)[i] = IF q[i].a = a THEN [q[i] EXCEPT !.new = FALSE] ELSE q[i]
      BY DEF Outdated
    <3> QED
      BY <3>1, <3>2
  <2> QED
    BY <2>1, <2>2 DEF K
<1> QED
  BY <1>1, <1>2, <1>3, <1>4, <1>5 DEF S

-----------------------------------------------------------------------------
(* What is in a queue, how often and in which order, after an arrival and  *)
(* after the first message left.                                           *)
LEMMA Arrived ==
  ASSUME NEW S, NEW q \in Seq(S), NEW m \in S, NEW r, r = Append(q, m), NEW x
  PROVE  /\ \A T : Has(r, T, x) <=> Has(q, T, x) \/ Is(m, T, x)
         /\ \A T : Once(q, T, x) /\ (Is(m, T, x) => ~Has(q, T, x)) => Once(r, T, x)
         /\ \A T, U : Ahead(q, T, U, x) /\ (Is(m, T, x) => ~Has(q, U, x) /\ ~Is(m, U, x))
                        => Ahead(r, T, U, x)
<1>1. /\ Len(r) = Len(q) + 1 /\ DOMAIN r = 1..Len(r) /\ DOMAIN q = 1..Len(q)
      /\ Len(q) \in Nat
      /\ r[Len(r)] = m /\ \A i \in DOMAIN q : r[i] = q[i] /\ i \in DOMAIN r
  OBVIOUS
<1>2. \A i \in DOMAIN r : i \in DOMAIN q \/ i = Len(r)
  BY <1>1
<1>3. Len(r) \in DOMAIN r
  BY <1>1
<1>4. ASSUME NEW T PROVE Has(r, T, x) <=> Has(q, T, x) \/ Is(m, T, x)
  BY <1>1, <1>2, <1>3 DEF Has
<1>5. ASSUME NEW T, Once(q, T, x), Is(m, T, x) => ~Has(q, T, x) PROVE Once(r, T, x)
  BY <1>1, <1>2, <1>5 DEF Has, Once
<1>6. ASSUME NEW T, NEW U, Ahead(q, T, U, x),
             Is(m, T, x) => ~Has(q, U, x) /\ ~Is(m, U, x)
      PROVE  Ahead(r, T, U, x)
  BY <1>1, <1>2, <1>6 DEF Has, Ahead
<1> QED
  BY <1>4, <1>5, <1>6

LEMMA Departed ==
  ASSUME NEW S, NEW q \in Seq(S), q # <<>>, NEW r, r = Tail(q), NEW x
  PROVE  /\ \A T : Has(q, T, x) <=> Has(r, T, x) \/ Is(Head(q), T, x)
         /\ \A T : Once(q, T, x) => /\ Once(r, T, x)
                                    /\ Is(Head(q), T, x) => ~Has(r, T, x)
         /\ \A T, U : Ahead(q, T, U, x) => /\ Ahead(r, T, U, x)
                                           /\ Is(Head(q), U, x) => ~Has(q, T, x)
<1>1. /\ Len(r) = Len(q) - 1 /\ DOMAIN r = 1..Len(r) /\ DOMAIN q = 1..Len(q)
      /\ Len(q) \in Nat \ {0} /\ Len(r) \in Nat
      /\ Head(q) = q[1] /\ \A i \in DOMAIN r : r[i] = q[i + 1] /\ i + 1 \in DOMAIN q
  OBVIOUS
<1>2. \A i \in DOMAIN q : i = 1 \/ (i - 1 \in DOMAIN r /\ q[i] = r[i - 1])
  BY <1>1
<1>3. 1 \in DOMAIN q
  BY <1>1
<1>4. ASSUME NEW T PROVE Has(q, T, x) <=> Has(r, T, x) \/ Is(Head(q), T, x)
  BY <1>1, <1>2, <1>3 DEF Has
<1>5. ASSUME NEW T, Once(q, T, x)
      PROVE  Once(r, T, x) /\ (Is(Head(q), T, x) => ~Has(r, T, x))
  BY <1>1, <1>3, <1>5 DEF Has, Once
<1>6. ASSUME NEW T, NEW U, Ahead(q, T, U, x)
      PROVE  Ahead(r, T, U, x) /\ (Is(Head(q), U, x) => ~Has(q, T, x))
  BY <1>1, <1>3, <1>6 DEF Has, Ahead
<1> QED
  BY <1>4, <1>5, <1>6

-----------------------------------------------------------------------------
(* A snoop of line x is live if the cache will still have a copy, in state *)
(* st or on its way before the snoop, to answer it with.  Settled: no two  *)
(* are live, and none before a reply.                                      *)
Granting == {"EX_REP", "SH_REP", "UPGRADE_DATA_REP"}
Owning == {"EX_REP", "UPGRADE_REP", "UPGRADE_DATA_REP"}
GivingUp == {"INV_REP", "FLUSH_REP"}
Fetching == {"EX_REQ", "SH_REQ"}

Live(q, st, x, i) ==
  /\ Is(q[i], SnoopRequests, x)
  /\ st # "INVALID" \/ \E j \in DOMAIN q : j < i /\ Is(q[j], Granting, x)
LiveOf(q, st, T, x) == \E i \in DOMAIN q : q[i][1] \in T /\ Live(q, st, x, i)
Settled(q, st, x) ==
  \A i, j \in DOMAIN q :
    /\ Live(q, st, x, i) /\ Live(q, st, x, j) => i = j
    /\ Live(q, st, x, i) /\ Is(q[j], Replies, x) => j < i

LEMMA KindsApart ==
  /\ \A x, m : ~(Is(m, SnoopRequests, x) /\ Is(m, Replies, x))
  /\ \A x, m : Is(m, Granting, x) => Is(m, Replies, x)
BY DEF Is, SnoopRequests, Replies, Granting

LEMMA NoneLive ==
  ASSUME NEW q, NEW x, ~Has(q, Granting, x), NEW st, st = "INVALID"
  PROVE  Settled(q, st, x) /\ \A T : ~LiveOf(q, st, T, x)
BY DEF Has, Live, LiveOf, Settled

LEMMA LiveAlike ==
  ASSUME NEW q, NEW x, NEW st, NEW tt, st = "INVALID" <=> tt = "INVALID"
  PROVE  /\ Settled(q, st, x) => Settled(q, tt, x)
         /\ \A T : LiveOf(q, tt, T, x) => LiveOf(q, st, T, x)
<1>1. \A i : Live(q, st, x, i) <=> Live(q, tt, x, i)
  BY DEF Live
<1> QED
  BY <1>1 DEF LiveOf, Settled

LEMMA LiveArrived ==
  ASSUME NEW S, NEW q \in Seq(S), NEW m \in S, NEW r, r = Append(q, m), NEW x, NEW st
  PROVE  /\ \A T : LiveOf(r, st, T, x) => \/ LiveOf(q, st, T, x)
                                          \/ Is(m, SnoopRequests, x) /\ m[1] \in T
         /\ /\ Settled(q, st, x)
            /\ Is(m, Replies, x) \/ Is(m, SnoopRequests, x) => ~LiveOf(q, st, SnoopRequests, x)
            => Settled(r, st, x)
<1>1. /\ Len(r) = Len(q) + 1 /\ DOMAIN r = 1..Len(r) /\ DOMAIN q = 1..Len(q)
      /\ Len(q) \in Nat
      /\ r[Len(r)] = m /\ \A i \in DOMAIN q : r[i] = q[i] /\ i \in DOMAIN r
  OBVIOUS
<1>2. \A i \in DOMAIN r : i \in DOMAIN q \/ i = Len(r)
  BY <1>1
<1>3. ASSUME NEW i \in DOMAIN q PROVE Live(r, st, x, i) <=> Live(q, st, x, i)
  BY <1>1, <1>2 DEF Live
<1>4. Live(r, st, x, Len(r)) => Is(m, SnoopRequests, x)
  BY <1>1 DEF Live
<1>5. ASSUME NEW T, LiveOf(r, st, T, x)
      PROVE  LiveOf(q, st, T, x) \/ (Is(m, SnoopRequests, x) /\ m[1] \in T)
  BY <1>1, <1>2, <1>3, <1>4, <1>5 DEF LiveOf
<1>6. ASSUME Settled(q, st, x),
             Is(m, Replies, x) \/ Is(m, SnoopRequests, x) => ~LiveOf(q, st, SnoopRequests, x),
             NEW i \in DOMAIN r, NEW j \in DOMAIN r
      PROVE  /\ Live(r, st, x, i) /\ Live(r, st, x, j) => i = j
             /\ Live(r, st, x, i) /\ Is(r[j], Replies, x) => j < i
  <2>1. \A k \in DOMAIN q : Live(q, st, x, k) => LiveOf(q, st, SnoopRequests, x)
    BY DEF LiveOf, Live, Is
  <2>2. CASE i \in DOMAIN q /\ j \in DOMAIN q
    BY <1>1, <1>3, <1>6, <2>2 DEF Settled
  <2>3. CASE i \in DOMAIN q /\ j = Len(r)
    BY <1>1, <1>3, <1>4, <1>6, <2>1, <2>3
  <2>4. CASE i = Len(r) /\ j \in DOMAIN q
    BY <1>1, <1>3, <1>4, <1>6, <2>1, <2>4
  <2>5. CASE i = Len(r) /\ j = Len(r)
    BY <1>1, <1>4, <2>5, KindsApart
  <2> QED
    BY <1>2, <2>2, <2>3, <2>4, <2>5
<1> QED
  BY <1>5, <1>6 DEF Settled

LEMMA LiveDeparted ==
  ASSUME NEW S, NEW q \in Seq(S), q # <<>>, NEW r, r = Tail(q), NEW x, NEW st, NEW tt,
         IF Is(Head(q), Granting, x) THEN tt # "INVALID"
                                     ELSE st = "INVALID" <=> tt = "INVALID"
  PROVE  /\ \A T : LiveOf(r, tt, T, x) => LiveOf(q, st, T, x)
         /\ Settled(q, st, x) => Settled(r, tt, x)
         /\ st # "INVALID" /\ Is(Head(q), SnoopRequests, x) =>
              /\ \A T : Head(q)[1] \in T => LiveOf(q, st, T, x)
              /\ Settled(q, st, x) => /\ \A T : ~LiveOf(r, tt, T, x)
                                      /\ ~Has(q, Replies, x)
<1>1. /\ Len(r) = Len(q) - 1 /\ DOMAIN r = 1..Len(r) /\ DOMAIN q = 1..Len(q)
      /\ Len(q) \in Nat \ {0} /\ Len(r) \in Nat
      /\ Head(q) = q[1] /\ \A i \in DOMAIN r : r[i] = q[i + 1] /\ i + 1 \in DOMAIN q
  OBVIOUS
<1>3. 1 \in DOMAIN q
  BY <1>1
<1>2. ASSUME NEW i \in DOMAIN r, Live(r, tt, x, i) PROVE Live(q, st, x, i + 1)
  <2>1. Is(q[i + 1], SnoopRequests, x)
    BY <1>1, <1>2 DEF Live
  <2>2. CASE Is(Head(q), Granting, x)
    <3>1. 1 < i + 1 /\ Is(q[1], Granting, x)
      BY <1>1, <2>2
    <3> QED
      BY <1>3, <2>1, <3>1 DEF Live
  <2>3. CASE ~Is(Head(q), Granting, x) /\ st # "INVALID"
    BY <2>1, <2>3 DEF Live
  <2>4. CASE ~Is(Head(q), Granting, x) /\ st = "INVALID"
    <3>1. PICK j \in DOMAIN r : j < i /\ Is(r[j], Granting, x)
      BY <1>2, <2>4 DEF Live
    <3>2. j + 1 \in DOMAIN q /\ j + 1 < i + 1 /\ Is(q[j + 1], Granting, x)
      BY <1>1, <3>1
    <3> QED
      BY <2>1, <3>2 DEF Live
  <2> QED
    BY <2>2, <2>3, <2>4
<1>4. ASSUME NEW T, LiveOf(r, tt, T, x) PROVE LiveOf(q, st, T, x)
  <2>1. PICK i \in DOMAIN r : r[i][1] \in T /\ Live(r, tt, x, i)
    BY <1>4 DEF LiveOf
  <2> QED
    BY <1>1, <1>2, <2>1 DEF LiveOf
<1>5. ASSUME Settled(q, st, x), NEW i \in DOMAIN r, NEW j \in DOMAIN r
      PROVE  /\ Live(r, tt, x, i) /\ Live(r, tt, x, j) => i = j
             /\ Live(r, tt, x, i) /\ Is(r[j], Replies, x) => j < i
  <2>1. /\ Live(q, st, x, i + 1) /\ Live(q, st, x, j + 1) => i + 1 = j + 1
        /\ Live(q, st, x, i + 1) /\ Is(q[j + 1], Replies, x) => j + 1 < i + 1
    BY <1>1, <1>5 DEF Settled
  <2> QED
    BY <1>1, <1>2, <2>1
<1>6. ASSUME st # "INVALID", Is(Head(q), SnoopRequests, x)
      PROVE  /\ \A T : Head(q)[1] \in T => LiveOf(q, st, T, x)
             /\ Settled(q, st, x) => /\ \A T : ~LiveOf(r, tt, T, x)
                                     /\ ~Has(q, Replies, x)
  <2>1. Live(q, st, x, 1)
    BY <1>1, <1>6 DEF Live
  <2>2. \A T : Head(q)[1] \in T => LiveOf(q, st, T, x)
    BY <1>1, <1>3, <2>1 DEF LiveOf
  <2>3. ASSUME Settled(q, st, x), NEW T, LiveOf(r, tt, T, x) PROVE FALSE
    <3>1. PICK i \in DOMAIN r : Live(r, tt, x, i)
      BY <2>3 DEF LiveOf
    <3>2. Live(q, st, x, i + 1) /\ i + 1 \in DOMAIN q
      BY <1>1, <1>2, <3>1
    <3>3. i + 1 = 1
      BY <1>3, <2>1, <2>3, <3>2 DEF Settled
    <3> QED
      BY <1>1, <3>3
  <2>4. ASSUME Settled(q, st, x) PROVE ~Has(q, Replies, x)
    <3>1. \A j \in DOMAIN q : Is(q[j], Replies, x) => j < 1
      BY <1>3, <2>1, <2>4 DEF Settled
    <3> QED
      BY <1>1, <3>1 DEF Has
  <2> QED
    BY <2>2, <2>3, <2>4
<1> QED
  BY <1>4, <1>5, <1>6 DEF Settled

-----------------------------------------------------------------------------
(* The same said of the queues before and after.                           *)
Arrival(q, m, r, x) ==
  /\ \A T : Has(r, T, x) <=> Has(q, T, x) \/ Is(m, T, x)
  /\ \A T : Once(q, T, x) /\ (Is(m, T, x) => ~Has(q, T, x)) => Once(r, T, x)
  /\ \A T, U : Ahead(q, T, U, x) /\ (Is(m, T, x) => ~Has(q, U, x) /\ ~Is(m, U, x))
                 => Ahead(r, T, U, x)

LEMMA Arriving ==
  ASSUME NEW S, NEW q \in Seq(S), NEW m \in S, NEW x
  PROVE  Arrival(q, m, Append(q, m), x)
BY Arrived DEF Arrival

Departure(q, m, r, x) ==
  /\ \A T : Has(q, T, x) <=> Has(r, T, x) \/ Is(m, T, x)
  /\ \A T : Once(q, T, x) => Once(r, T, x) /\ (Is(m, T, x) => ~Has(r, T, x))
  /\ \A T, U : Ahead(q, T, U, x) => Ahead(r, T, U, x) /\ (Is(m, U, x) => ~Has(q, T, x))

LEMMA Departing ==
  ASSUME NEW S, NEW q \in Seq(S), q # <<>>, NEW x
  PROVE  Departure(q, Head(q), Tail(q), x)
BY Departed DEF Departure

SnoopLeft(q, m, r, x, st, tt) ==
  /\ \A T : LiveOf(r, tt, T, x) => LiveOf(q, st, T, x)
  /\ Settled(q, st, x) => Settled(r, tt, x)
  /\ st # "INVALID" /\ Is(m, SnoopRequests, x) =>
       /\ \A T : m[1] \in T => LiveOf(q, st, T, x)
       /\ Settled(q, st, x) => ~Has(q, Replies, x) /\ \A T : ~LiveOf(r, tt, T, x)

LEMMA SnoopLeaving ==
  ASSUME NEW S, NEW q \in Seq(S), q # <<>>, NEW x, NEW st, NEW tt,
         IF Is(Head(q), Granting, x) THEN tt # "INVALID"
                                     ELSE st = "INVALID" <=> tt = "INVALID"
  PROVE  SnoopLeft(q, Head(q), Tail(q), x, st, tt)
BY LiveDeparted DEF SnoopLeft

-----------------------------------------------------------------------------
(* What happens to other lines, or to other caches, changes nothing.       *)
SameFor(q, r, x) ==
  /\ \A T : Has(r, T, x) <=> Has(q, T, x)
  /\ \A T : Once(q, T, x) => Once(r, T, x)
  /\ \A T, U : Ahead(q, T, U, x) => Ahead(r, T, U, x)
  /\ \A st, tt : (st = "INVALID" <=> tt = "INVALID") =>
       /\ Settled(q, st, x) => Settled(r, tt, x)
       /\ \A T : LiveOf(r, tt, T, x) => LiveOf(q, st, T, x)

LEMMA SameUnchanged ==
  ASSUME NEW q, NEW x
  PROVE  SameFor(q, q, x)
BY LiveAlike DEF SameFor

LEMMA SameArrived ==
  ASSUME NEW S, NEW q \in Seq(S), NEW m \in S, NEW x, m[2] # x
  PROVE  SameFor(q, Append(q, m), x)
<1> DEFINE r == Append(q, m)
<1>1. \A T : ~Is(m, T, x)
  BY DEF Is
<1>2. /\ \A T : Has(r, T, x) <=> Has(q, T, x)
      /\ \A T : Once(q, T, x) => Once(r, T, x)
      /\ \A T, U : Ahead(q, T, U, x) => Ahead(r, T, U, x)
  BY <1>1, Arrived
<1>3. ASSUME NEW st, NEW tt, st = "INVALID" <=> tt = "INVALID"
      PROVE  /\ Settled(q, st, x) => Settled(r, tt, x)
             /\ \A T : LiveOf(r, tt, T, x) => LiveOf(q, st, T, x)
  <2>1. /\ \A T : LiveOf(r, st, T, x) => LiveOf(q, st, T, x)
        /\ Settled(q, st, x) => Settled(r, st, x)
    BY <1>1, LiveArrived
  <2>2. /\ Settled(r, st, x) => Settled(r, tt, x)
        /\ \A T : LiveOf(r, tt, T, x) => LiveOf(r, st, T, x)
    BY <1>3, LiveAlike
  <2> QED
    BY <2>1, <2>2
<1> QED
  BY <1>2, <1>3 DEF SameFor

LEMMA SameDeparted ==
  ASSUME NEW S, NEW q \in Seq(S), q # <<>>, NEW x, Head(q)[2] # x
  PROVE  SameFor(q, Tail(q), x)
<1> DEFINE r == Tail(q)
<1>1. \A T : ~Is(Head(q), T, x)
  BY DEF Is
<1>2. /\ \A T : Has(r, T, x) <=> Has(q, T, x)
      /\ \A T : Once(q, T, x) => Once(r, T, x)
      /\ \A T, U : Ahead(q, T, U, x) => Ahead(r, T, U, x)
  BY <1>1, Departed
<1>3. ASSUME NEW st, NEW tt, st = "INVALID" <=> tt = "INVALID"
      PROVE  /\ Settled(q, st, x) => Settled(r, tt, x)
             /\ \A T : LiveOf(r, tt, T, x) => LiveOf(q, st, T, x)
  BY <1>1, <1>3, LiveDeparted
<1> QED
  BY <1>2, <1>3 DEF SameFor

-----------------------------------------------------------------------------
(* A line as one last-level cache and the directory see it.                *)
View(l, a) ==
  [up |-> Kinds(toDir[l]), down |-> Kinds(toLlc[l]), st |-> llc[l][a].st,
   sharers |-> dir[a].sharers, owner |-> dir[a].owner, queue |-> dir[a].queue,
   asked |-> dir[a].asked, waiters |-> waiters[l][a], served |-> served[l]]

UpKinds == (Requests \cup Answers) \X Addrs
DownKinds == (Replies \cup SnoopRequests) \X Addrs
QueueKinds == Requests \X Llcs

IsView(v) ==
  /\ v.up \in Seq(UpKinds) /\ v.down \in Seq(DownKinds) /\ v.queue \in Seq(QueueKinds)
  /\ v.st \in States
  /\ v.sharers \in SUBSET Llcs /\ v.owner \in Llcs \cup {None}

Awaits(v, l) == v.queue # <<>> /\ Head(v.queue)[2] # l
Shares(v) == Head(v.queue)[1] = "SH_REQ"

(* The owner is the only sharer.                                           *)
Sharing(v) == v.owner # None => v.sharers = {v.owner}

(* A sharer has the copy, or the copy is on its way from the directory, or *)
(* the message giving it up is on its way to it; nobody else has any.      *)
Custody(v, l, a) ==
  /\ Once(v.up, GivingUp, a)
  /\ Has(v.down, Granting, a) => v.st = "INVALID" /\ ~Has(v.up, GivingUp, a)
  /\ Has(v.up, GivingUp, a) => v.st = "INVALID"
  /\ l \in v.sharers <=> \/ Has(v.down, Granting, a)
                         \/ v.st # "INVALID"
                         \/ Has(v.up, GivingUp, a)

(* Whoever may write, or may soon, is the owner.                           *)
Ownership(v, l, a) ==
  /\ v.st \in {"EXCLUSIVE", "MODIFIED"} => v.owner = l
  /\ Has(v.down, Owning, a) => v.owner = l

(* One request from the first waiter to the last: to the directory, in its *)
(* queue, answered, or being served.                                       *)
Transaction(v, l, a) ==
  LET t1 == Has(v.up, Requests, a)
      t2 == Has(v.queue, Requests, l)
      t3 == Has(v.down, Replies, a)
      t4 == v.served = a
  IN /\ Once(v.up, Requests, a) /\ Once(v.queue, Requests, l) /\ Once(v.down, Replies, a)
     /\ ~(t1 /\ t2) /\ ~(t1 /\ t3) /\ ~(t1 /\ t4)
     /\ ~(t2 /\ t3) /\ ~(t2 /\ t4) /\ ~(t3 /\ t4)
     /\ v.waiters # <<>> <=> t1 \/ t2 \/ t3 \/ t4

(* An upgrade finds its line as it was, or lost to the request before it.  *)
Upgrading(v, l, a) ==
  /\ v.st = "SHARED_UPGRADING" => v.waiters # <<>>
  /\ Has(v.down, {"UPGRADE_REP"}, a) => v.st = "SHARED_UPGRADING"
  /\ Has(v.up, {"UPGRADE_REQ"}, a) \/ Has(v.queue, {"UPGRADE_REQ"}, l) =>
       \/ v.st = "SHARED_UPGRADING"
       \/ v.st = "INVALID" /\ (l \in v.sharers => Awaits(v, l) /\ ~Shares(v))

(* A request for the data follows the message giving up the last copy.     *)
Fetched(v, l, a) ==
  /\ Ahead(v.up, GivingUp, Fetching, a)
  /\ Has(v.queue, Fetching, l) => l \notin v.sharers
  /\ Has(v.up, Fetching, a) => l \notin v.sharers \/ Has(v.up, GivingUp, a)

(* A live snoop is the only one, for the first request in the queue, and   *)
(* of the kind that request and the owner call for.                        *)
Snooped(v, l, a) ==
  /\ Settled(v.down, v.st, a)
  /\ LiveOf(v.down, v.st, SnoopRequests, a) => v.asked = TRUE /\ Awaits(v, l)
  /\ LiveOf(v.down, v.st, {"WB_REQ"}, a) => Shares(v) /\ v.owner = l
  /\ LiveOf(v.down, v.st, {"FLUSH_REQ"}, a) => ~Shares(v) /\ v.owner = l
  /\ LiveOf(v.down, v.st, {"INV_REQ"}, a) => ~Shares(v) /\ v.owner # l

(* A writeback on its way comes from the owner, who only has a shared copy *)
(* by now, and is what the first request waits for.                        *)
WroteBack(v, l, a) ==
  /\ Once(v.up, {"WB_REP"}, a)
  /\ Ahead(v.up, {"WB_REP"}, GivingUp, a)
  /\ Has(v.up, {"WB_REP"}, a) =>
       /\ v.asked = TRUE /\ v.queue # <<>> /\ Shares(v)
       /\ v.owner = l /\ v.st \notin {"EXCLUSIVE", "MODIFIED"}
       /\ ~Has(v.down, Replies, a)
       /\ ~LiveOf(v.down, v.st, SnoopRequests, a)

(* The owner may write, or the answer that lets it is on its way, or the   *)
(* message that makes it an owner no more.                                 *)
Entitled(v, l, a) ==
  v.owner = l => \/ v.st \in {"EXCLUSIVE", "MODIFIED"}
                 \/ Has(v.down, Owning, a)
                 \/ Has(v.up, Answers, a)

Line(v, l, a) ==
  /\ Sharing(v) /\ Custody(v, l, a) /\ Ownership(v, l, a) /\ Transaction(v, l, a)
  /\ Upgrading(v, l, a) /\ Fetched(v, l, a) /\ Snooped(v, l, a) /\ WroteBack(v, l, a)
  /\ Entitled(v, l, a)

(* Of the messages to a cache only snoops came or went.                    *)
RepliesKept(q, r, x) ==
  /\ \A T \in SUBSET Replies : Has(r, T, x) <=> Has(q, T, x)
  /\ Once(q, Replies, x) => Once(r, Replies, x)

LEMMA ReplyKinds ==
  {Replies, Granting, Owning, {"UPGRADE_REP"}} \subseteq SUBSET Replies
BY DEF Replies, Granting, Owning

LEMMA SnoopDeparted ==
  ASSUME NEW S, NEW q \in Seq(S), q # <<>>, NEW x, Is(Head(q), SnoopRequests, x)
  PROVE  RepliesKept(q, Tail(q), x)
<1>1. \A T \in SUBSET Replies : ~Is(Head(q), T, x)
  BY KindsApart DEF Is
<1> QED
  BY <1>1, Departed DEF RepliesKept

LEMMA SnoopArrived ==
  ASSUME NEW S, NEW q \in Seq(S), NEW m \in S, NEW x, Is(m, SnoopRequests, x)
  PROVE  RepliesKept(q, Append(q, m), x)
<1>1. \A T \in SUBSET Replies : ~Is(m, T, x)
  BY KindsApart DEF Is
<1>2. Replies \in SUBSET Replies
  OBVIOUS
<1> QED
  BY <1>1, <1>2, Arrived DEF RepliesKept

(* Nothing of this line happened here, but a silent upgrade or a snoop of  *)
(* a copy that is gone.                                                    *)
LEMMA LineQuiet ==
  ASSUME NEW v, NEW w, NEW l, NEW a, Line(v, l, a),
         SameFor(v.up, w.up, a), RepliesKept(v.down, w.down, a),
         Settled(v.down, v.st, a) => Settled(w.down, w.st, a),
         \A T : LiveOf(w.down, w.st, T, a) => LiveOf(v.down, v.st, T, a),
         w.st = v.st \/ (v.st = "EXCLUSIVE" /\ w.st = "MODIFIED"),
         w.sharers = v.sharers, w.owner = v.owner, w.queue = v.queue, w.asked = v.asked,
         w.waiters # <<>> <=> v.waiters # <<>>, w.served = a <=> v.served = a
  PROVE  Line(w, l, a)
<1>1. /\ \A T : Has(w.up, T, a) <=> Has(v.up, T, a)
      /\ \A T : Once(v.up, T, a) => Once(w.up, T, a)
      /\ \A T, U : Ahead(v.up, T, U, a) => Ahead(w.up, T, U, a)
  BY DEF SameFor
<1>2. /\ \A T \in {Replies, Granting, Owning, {"UPGRADE_REP"}} :
           Has(w.down, T, a) <=> Has(v.down, T, a)
      /\ Once(v.down, Replies, a) => Once(w.down, Replies, a)
  BY ReplyKinds DEF RepliesKept
<1>3. Sharing(w) /\ Custody(w, l, a) /\ Ownership(w, l, a)
  BY <1>1, <1>2 DEF Line, Sharing, Custody, Ownership
<1>4. Transaction(w, l, a)
  BY <1>1, <1>2 DEF Line, Transaction
<1>5. Upgrading(w, l, a) /\ Fetched(w, l, a)
  BY <1>1, <1>2 DEF Line, Upgrading, Fetched, Awaits, Shares
<1>6. Snooped(w, l, a) /\ WroteBack(w, l, a)
  BY <1>1, <1>2 DEF Line, Snooped, WroteBack, Awaits, Shares
<1>20. Entitled(w, l, a)
  BY <1>1, <1>2 DEF Line, Entitled
<1> QED
  BY <1>3, <1>4, <1>5, <1>6, <1>20 DEF Line

LEMMA LineKept ==
  ASSUME NEW v, NEW w, NEW l, NEW a, Line(v, l, a),
         SameFor(v.up, w.up, a), SameFor(v.down, w.down, a),
         w.st = v.st \/ (v.st = "EXCLUSIVE" /\ w.st = "MODIFIED"),
         w.sharers = v.sharers, w.owner = v.owner, w.queue = v.queue, w.asked = v.asked,
         w.waiters # <<>> <=> v.waiters # <<>>, w.served = a <=> v.served = a
  PROVE  Line(w, l, a)
<1>1. RepliesKept(v.down, w.down, a)
  BY DEF SameFor, RepliesKept
<1>2. /\ Settled(v.down, v.st, a) => Settled(w.down, w.st, a)
      /\ \A T : LiveOf(w.down, w.st, T, a) => LiveOf(v.down, v.st, T, a)
  BY DEF SameFor
<1> QED
  BY <1>1, <1>2, LineQuiet

-----------------------------------------------------------------------------
(* What the controller does to a line.                                     *)
LEMMA HasRequest ==
  ASSUME NEW q, NEW x, ~Has(q, Requests, x)
  PROVE  ~Has(q, {"UPGRADE_REQ"}, x) /\ ~Has(q, Fetching, x)
BY DEF Has, Is, Requests, Fetching

LEMMA HasReply ==
  ASSUME NEW q, NEW x, ~Has(q, Replies, x)
  PROVE  /\ ~Has(q, {"UPGRADE_REP"}, x) /\ ~Has(q, Granting, x)
         /\ ~Has(q, Owning, x)
BY DEF Has, Is, Replies, Granting, Owning

(* The first waiter asks, or the network thread asks again in its place.   *)
LEMMA LineRequested ==
  ASSUME NEW v, IsView(v), NEW w, NEW l, NEW a \in Addrs, Line(v, l, a),
         NEW t \in Requests,
         w.up = Append(v.up, <<t, a>>), w.down = v.down,
         w.sharers = v.sharers, w.owner = v.owner, w.queue = v.queue, w.asked = v.asked,
         v.waiters = <<>> \/ v.served = a, w.waiters # <<>>, w.served # a,
         \/ t \in Fetching /\ v.st = "INVALID" /\ w.st = v.st
         \/ t = "UPGRADE_REQ" /\ v.st = "SHARED" /\ w.st = "SHARED_UPGRADING"
  PROVE  Line(w, l, a)
<1> DEFINE m == <<t, a>>
<1>0. w.up = Append(v.up, m) /\ v.up \in Seq(UpKinds)
  BY DEF IsView
<1>1. m \in UpKinds
  BY DEF UpKinds
<1>2. /\ \A T : Is(m, T, a) <=> t \in T
      /\ \A T : t \in T => Is(m, T, a)
      /\ t \notin GivingUp /\ t # "WB_REP"
  BY DEF Is, Requests, GivingUp
<1> HIDE DEF m
<1>3. /\ \A T : Has(w.up, T, a) <=> Has(v.up, T, a) \/ t \in T
      /\ \A T : Once(v.up, T, a) /\ (t \in T => ~Has(v.up, T, a)) => Once(w.up, T, a)
      /\ \A T, U : Ahead(v.up, T, U, a) /\ t \notin T => Ahead(w.up, T, U, a)
  <2>1. Arrival(v.up, m, w.up, a)
    BY <1>0, <1>1, Arriving
  <2>2. \A T : Has(w.up, T, a) <=> Has(v.up, T, a) \/ t \in T
    BY <1>2, <2>1 DEF Arrival
  <2>3. \A T : Once(v.up, T, a) /\ (t \in T => ~Has(v.up, T, a)) => Once(w.up, T, a)
    BY <1>2, <2>1 DEF Arrival
  <2>4. \A T, U : Ahead(v.up, T, U, a) /\ t \notin T => Ahead(w.up, T, U, a)
    BY <1>2, <2>1 DEF Arrival
  <2> QED
    BY <2>2, <2>3, <2>4
<1>4. /\ ~Has(v.up, Requests, a) /\ ~Has(v.queue, Requests, l) /\ ~Has(v.down, Replies, a)
  BY DEF Line, Transaction
<1>5. /\ ~Has(v.up, {"UPGRADE_REQ"}, a) /\ ~Has(v.up, Fetching, a)
      /\ ~Has(v.queue, {"UPGRADE_REQ"}, l) /\ ~Has(v.queue, Fetching, l)
      /\ ~Has(v.down, {"UPGRADE_REP"}, a) /\ ~Has(v.down, Granting, a)
  BY <1>4, HasRequest, HasReply
<1>6. Sharing(w) /\ Custody(w, l, a) /\ Ownership(w, l, a)
  BY <1>2, <1>3 DEF Line, Sharing, Custody, Ownership
<1>7. Transaction(w, l, a)
  BY <1>3, <1>4 DEF Line, Transaction
<1>8. Upgrading(w, l, a)
  BY <1>3, <1>5 DEF Line, Upgrading, Fetching
<1>9. Fetched(w, l, a)
  BY <1>2, <1>3, <1>5 DEF Line, Fetched, Custody, Fetching
<1>10. /\ Settled(v.down, v.st, a) => Settled(w.down, w.st, a)
       /\ \A T : LiveOf(w.down, w.st, T, a) => LiveOf(v.down, v.st, T, a)
  BY LiveAlike
<1>11. Snooped(w, l, a) /\ WroteBack(w, l, a)
  BY <1>2, <1>3, <1>10 DEF Line, Snooped, WroteBack, Awaits, Shares
<1>20. Entitled(w, l, a)
  BY <1>3 DEF Line, Entitled
<1> QED
  BY <1>6, <1>7, <1>8, <1>9, <1>11, <1>20 DEF Line

(* EX_REP and SH_REP: the copy arrives where there is none.                *)
LEMMA LineGranted ==
  ASSUME NEW v, IsView(v), NEW w, NEW l, NEW a \in Addrs, Line(v, l, a),
         v.down # <<>>, w.down = Tail(v.down), Is(Head(v.down), Granting, a),
         Head(v.down)[1] # "UPGRADE_DATA_REP", SameFor(v.up, w.up, a),
         w.st = IF Head(v.down)[1] = "EX_REP" THEN "EXCLUSIVE" ELSE "SHARED",
         w.sharers = v.sharers, w.owner = v.owner, w.queue = v.queue, w.asked = v.asked,
         w.waiters = v.waiters, w.served = a
  PROVE  Line(w, l, a)
<1>0. v.down \in Seq(DownKinds)
  BY DEF IsView
<1>1. Departure(v.down, Head(v.down), w.down, a)
  BY <1>0, Departing
<1>2. /\ \A T : Has(w.up, T, a) <=> Has(v.up, T, a)
      /\ \A T : Once(v.up, T, a) => Once(w.up, T, a)
      /\ \A T, U : Ahead(v.up, T, U, a) => Ahead(w.up, T, U, a)
  BY DEF SameFor
<1>3. Has(v.down, Granting, a) /\ Has(v.down, Replies, a)
      /\ (Head(v.down)[1] = "EX_REP" => Has(v.down, Owning, a))
  BY <1>1, KindsApart DEF Is, Departure, Owning
<1>4. /\ v.st = "INVALID" /\ ~Has(v.up, GivingUp, a) /\ l \in v.sharers
      /\ Head(v.down)[1] = "EX_REP" => v.owner = l
      /\ ~Has(v.up, Requests, a) /\ ~Has(v.queue, Requests, l) /\ v.waiters # <<>>
  BY <1>3 DEF Line, Custody, Ownership, Transaction
<1>5. ~Has(w.down, Replies, a)
  BY <1>1, <1>3, KindsApart DEF Line, Transaction, Departure
<1>6. /\ ~Has(w.down, Granting, a) /\ ~Has(w.down, Owning, a)
      /\ ~Has(w.down, {"UPGRADE_REP"}, a)
      /\ ~Has(v.up, {"UPGRADE_REQ"}, a) /\ ~Has(v.up, Fetching, a)
      /\ ~Has(v.queue, {"UPGRADE_REQ"}, l) /\ ~Has(v.queue, Fetching, l)
  BY <1>4, <1>5, HasRequest, HasReply
<1>7. Sharing(w) /\ Custody(w, l, a) /\ Ownership(w, l, a)
  BY <1>2, <1>4, <1>6 DEF Line, Sharing, Custody, Ownership
<1>8. Transaction(w, l, a)
  BY <1>1, <1>2, <1>4, <1>5 DEF Line, Transaction, Departure
<1>9. Upgrading(w, l, a) /\ Fetched(w, l, a)
  BY <1>2, <1>4, <1>6 DEF Line, Upgrading, Fetched
<1>10. SnoopLeft(v.down, Head(v.down), w.down, a, v.st, w.st)
  BY <1>0, <1>4, SnoopLeaving
<1>11. Snooped(w, l, a) /\ WroteBack(w, l, a)
  BY <1>2, <1>3, <1>10 DEF Line, Snooped, WroteBack, Awaits, Shares, SnoopLeft
<1>20. Entitled(w, l, a)
  BY <1>1, <1>2, <1>4, <1>6 DEF Line, Entitled, Is, Granting, Owning, Departure
<1> QED
  BY <1>7, <1>8, <1>9, <1>11, <1>20 DEF Line

(* UPGRADE_REP: the copy is still there.                                   *)
LEMMA LineUpgraded ==
  ASSUME NEW v, IsView(v), NEW w, NEW l, NEW a \in Addrs, Line(v, l, a),
         v.down # <<>>, w.down = Tail(v.down), Is(Head(v.down), {"UPGRADE_REP"}, a),
         w.up = v.up, w.st = "MODIFIED",
         w.sharers = v.sharers, w.owner = v.owner, w.queue = v.queue, w.asked = v.asked,
         w.waiters = v.waiters, w.served = a
  PROVE  Line(w, l, a)
<1>0. v.down \in Seq(DownKinds)
  BY DEF IsView
<1>1. Departure(v.down, Head(v.down), w.down, a)
  BY <1>0, Departing
<1>2. /\ Has(v.down, {"UPGRADE_REP"}, a) /\ Is(Head(v.down), Replies, a)
      /\ Has(v.down, Replies, a) /\ Has(v.down, Owning, a)
      /\ ~Is(Head(v.down), Granting, a)
  BY <1>1 DEF Is, Replies, Granting, Owning, Departure
<1>3. /\ v.st = "SHARED_UPGRADING" /\ v.owner = l
      /\ ~Has(v.up, Requests, a) /\ ~Has(v.queue, Requests, l) /\ v.waiters # <<>>
  BY <1>2 DEF Line, Upgrading, Ownership, Transaction
<1>4. ~Has(w.down, Replies, a)
  BY <1>1, <1>2 DEF Line, Transaction, Departure
<1>5. /\ ~Has(w.down, Owning, a) /\ ~Has(w.down, {"UPGRADE_REP"}, a)
      /\ ~Has(v.up, {"UPGRADE_REQ"}, a) /\ ~Has(v.queue, {"UPGRADE_REQ"}, l)
  BY <1>3, <1>4, HasRequest, HasReply
<1>6. Has(w.down, Granting, a) <=> Has(v.down, Granting, a)
  BY <1>1, <1>2 DEF Departure
<1>7. Sharing(w) /\ Custody(w, l, a) /\ Ownership(w, l, a)
  BY <1>3, <1>5, <1>6 DEF Line, Sharing, Custody, Ownership
<1>8. Transaction(w, l, a)
  BY <1>1, <1>3, <1>4 DEF Line, Transaction, Departure
<1>9. Upgrading(w, l, a) /\ Fetched(w, l, a)
  BY <1>3, <1>5 DEF Line, Upgrading, Fetched
<1>10. SnoopLeft(v.down, Head(v.down), w.down, a, v.st, w.st)
  BY <1>0, <1>2, <1>3, SnoopLeaving
<1>11. Snooped(w, l, a) /\ WroteBack(w, l, a)
  BY <1>2, <1>10 DEF Line, Snooped, WroteBack, Awaits, Shares, SnoopLeft
<1>20. Entitled(w, l, a)
  BY DEF Entitled
<1> QED
  BY <1>7, <1>8, <1>9, <1>11, <1>20 DEF Line

(* The last waiter is served.                                              *)
LEMMA LineServed ==
  ASSUME NEW v, NEW w, NEW l, NEW a, Line(v, l, a),
         w.up = v.up, w.down = v.down, w.st = v.st,
         w.sharers = v.sharers, w.owner = v.owner, w.queue = v.queue, w.asked = v.asked,
         v.served = a, v.st # "SHARED_UPGRADING", w.waiters = <<>>, w.served # a
  PROVE  Line(w, l, a)
<1>1. Sharing(w) /\ Custody(w, l, a) /\ Ownership(w, l, a) /\ Transaction(w, l, a)
  BY DEF Line, Sharing, Custody, Ownership, Transaction
<1>2. Upgrading(w, l, a) /\ Fetched(w, l, a)
  BY DEF Line, Upgrading, Fetched, Awaits, Shares
<1>3. Snooped(w, l, a) /\ WroteBack(w, l, a)
  BY DEF Line, Snooped, WroteBack, Awaits, Shares
<1>20. Entitled(w, l, a)
  BY DEF Line, Entitled
<1> QED
  BY <1>1, <1>2, <1>3, <1>20 DEF Line

(* A copy is given up: evicted, or taken by a live snoop.                  *)
LEMMA LineGivenUp ==
  ASSUME NEW v, IsView(v), NEW w, NEW l, NEW a \in Addrs, Line(v, l, a),
         NEW t \in GivingUp, w.up = Append(v.up, <<t, a>>),
         RepliesKept(v.down, w.down, a),
         v.st # "INVALID", w.st = "INVALID",
         \/ v.st # "SHARED_UPGRADING"
         \/ ~Has(v.down, Replies, a) /\ Awaits(v, l) /\ ~Shares(v),
         w.sharers = v.sharers, w.owner = v.owner, w.queue = v.queue, w.asked = v.asked,
         w.waiters # <<>> <=> v.waiters # <<>>, w.served = a <=> v.served = a
  PROVE  Line(w, l, a)
<1> DEFINE m == <<t, a>>
<1>0. w.up = Append(v.up, m) /\ v.up \in Seq(UpKinds)
  BY DEF IsView
<1>1. m \in UpKinds
  BY DEF UpKinds, GivingUp, Answers
<1>2. /\ \A T : Is(m, T, a) <=> t \in T
      /\ t \notin Requests /\ t \notin Fetching /\ t # "WB_REP" /\ t # "UPGRADE_REQ"
  BY DEF Is, Requests, GivingUp, Fetching
<1> HIDE DEF m
<1>3. Arrival(v.up, m, w.up, a)
  BY <1>0, <1>1, Arriving
<1>4. /\ \A T : Has(w.up, T, a) <=> Has(v.up, T, a) \/ t \in T
      /\ \A T : Once(v.up, T, a) /\ (t \in T => ~Has(v.up, T, a)) => Once(w.up, T, a)
      /\ \A T, U : Ahead(v.up, T, U, a) /\ (t \in T => ~Has(v.up, U, a) /\ t \notin U)
                     => Ahead(w.up, T, U, a)
  BY <1>2, <1>3 DEF Arrival
<1>5. /\ \A T \in {Replies, Granting, Owning, {"UPGRADE_REP"}} :
           Has(w.down, T, a) <=> Has(v.down, T, a)
      /\ Once(v.down, Replies, a) => Once(w.down, Replies, a)
  BY ReplyKinds DEF RepliesKept
<1>6. /\ ~Has(v.up, GivingUp, a) /\ ~Has(v.down, Granting, a) /\ l \in v.sharers
      /\ ~Has(v.up, Fetching, a) /\ ~Has(v.queue, Fetching, l)
      /\ ~Has(v.down, {"UPGRADE_REP"}, a)
  BY HasReply DEF Line, Custody, Fetched, Upgrading
<1>7. Sharing(w) /\ Custody(w, l, a) /\ Ownership(w, l, a)
  BY <1>4, <1>5, <1>6 DEF Line, Sharing, Custody, Ownership
<1>8. Transaction(w, l, a)
  BY <1>2, <1>4, <1>5 DEF Line, Transaction
<1>9. Upgrading(w, l, a)
  BY <1>2, <1>4, <1>5, <1>6 DEF Line, Upgrading, Awaits, Shares
<1>10. Fetched(w, l, a)
  BY <1>2, <1>4, <1>6 DEF Line, Fetched
<1>11. Settled(w.down, w.st, a) /\ \A T : ~LiveOf(w.down, w.st, T, a)
  BY <1>5, <1>6, NoneLive
<1>12. Snooped(w, l, a)
  BY <1>11 DEF Snooped
<1>13. WroteBack(w, l, a)
  BY <1>2, <1>4, <1>5, <1>11 DEF Line, WroteBack, Shares
<1>20. Entitled(w, l, a)
  BY <1>4 DEF Entitled, GivingUp, Answers
<1> QED
  BY <1>7, <1>8, <1>9, <1>10, <1>12, <1>13, <1>20 DEF Line

(* What a snoop that finds a copy finds.                                   *)
LEMMA LineSnooped ==
  ASSUME NEW v, IsView(v), NEW l, NEW a, Line(v, l, a),
         v.down # <<>>, Is(Head(v.down), SnoopRequests, a), v.st # "INVALID"
  PROVE  /\ v.asked = TRUE /\ Awaits(v, l) /\ ~Has(v.down, Replies, a)
         /\ Head(v.down)[1] = "WB_REQ" => Shares(v) /\ v.owner = l
         /\ Head(v.down)[1] = "FLUSH_REQ" => ~Shares(v) /\ v.owner = l
         /\ Head(v.down)[1] = "INV_REQ" => ~Shares(v) /\ v.owner # l
         /\ \A w : w.down = Tail(v.down) /\ w.st # "INVALID" =>
              Settled(w.down, w.st, a) /\ \A T : ~LiveOf(w.down, w.st, T, a)
<1> DEFINE m == Head(v.down)
<1>0. v.down \in Seq(DownKinds)
  BY DEF IsView
<1>1. ~Is(m, Granting, a) /\ m[1] \in SnoopRequests
  BY DEF Is, Granting, SnoopRequests
<1>2. ASSUME NEW st, st # "INVALID" PROVE SnoopLeft(v.down, m, Tail(v.down), a, v.st, st)
  BY <1>0, <1>1, <1>2, SnoopLeaving
<1>3. Settled(v.down, v.st, a)
  BY DEF Line, Snooped
<1> HIDE DEF m
<1>4. /\ \A T : m[1] \in T => LiveOf(v.down, v.st, T, a)
      /\ ~Has(v.down, Replies, a)
  BY <1>2, <1>3 DEF SnoopLeft, m
<1>5. /\ v.asked = TRUE /\ Awaits(v, l)
      /\ m[1] = "WB_REQ" => Shares(v) /\ v.owner = l
      /\ m[1] = "FLUSH_REQ" => ~Shares(v) /\ v.owner = l
      /\ m[1] = "INV_REQ" => ~Shares(v) /\ v.owner # l
  BY <1>1, <1>4 DEF Line, Snooped
<1>6. ASSUME NEW w, w.down = Tail(v.down), w.st # "INVALID"
      PROVE  Settled(w.down, w.st, a) /\ \A T : ~LiveOf(w.down, w.st, T, a)
  BY <1>2, <1>3, <1>6 DEF SnoopLeft, m
<1> QED
  BY <1>4, <1>5, <1>6 DEF m

(* WB_REQ: the copy stays.                                                 *)
LEMMA LineWrittenBack ==
  ASSUME NEW v, IsView(v), NEW w, NEW l, NEW a \in Addrs, Line(v, l, a),
         v.down # <<>>, w.down = Tail(v.down), Head(v.down) = <<"WB_REQ", a>>,
         w.up = Append(v.up, <<"WB_REP", a>>), v.st # "INVALID",
         w.st = IF v.st = "SHARED_UPGRADING" THEN v.st ELSE "SHARED",
         w.sharers = v.sharers, w.owner = v.owner, w.queue = v.queue, w.asked = v.asked,
         w.waiters = v.waiters, w.served = v.served
  PROVE  Line(w, l, a)
<1> DEFINE m == <<"WB_REP", a>>
<1>0. /\ w.up = Append(v.up, m) /\ v.up \in Seq(UpKinds)
      /\ v.down \in Seq(DownKinds)
  BY DEF IsView
<1>1. m \in UpKinds /\ Is(Head(v.down), SnoopRequests, a) /\ Head(v.down)[1] = "WB_REQ"
  BY DEF UpKinds, Answers, Is, SnoopRequests
<1>2. \A T : Is(m, T, a) <=> "WB_REP" \in T
  BY DEF Is
<1> HIDE DEF m
<1>3. Arrival(v.up, m, w.up, a)
  BY <1>0, <1>1, Arriving
<1>4. /\ \A T : Has(w.up, T, a) <=> Has(v.up, T, a) \/ "WB_REP" \in T
      /\ \A T : Once(v.up, T, a) /\ ("WB_REP" \in T => ~Has(v.up, T, a)) => Once(w.up, T, a)
      /\ \A T, U : Ahead(v.up, T, U, a) /\ ("WB_REP" \in T => ~Has(v.up, U, a) /\ "WB_REP" \notin U)
                     => Ahead(w.up, T, U, a)
  BY <1>2, <1>3 DEF Arrival
<1>5. "WB_REP" \notin Requests \cup Fetching \cup GivingUp \cup {"UPGRADE_REQ"}
  BY DEF Requests, Fetching, GivingUp
<1>6. RepliesKept(v.down, w.down, a)
  BY <1>0, <1>1, SnoopDeparted
<1>7. /\ \A T \in {Replies, Granting, Owning, {"UPGRADE_REP"}} :
           Has(w.down, T, a) <=> Has(v.down, T, a)
      /\ Once(v.down, Replies, a) => Once(w.down, Replies, a)
  BY <1>6, ReplyKinds DEF RepliesKept
<1>8. /\ v.asked = TRUE /\ Awaits(v, l) /\ ~Has(v.down, Replies, a)
      /\ Shares(v) /\ v.owner = l
  BY <1>1, LineSnooped
<1>9. Settled(w.down, w.st, a) /\ \A T : ~LiveOf(w.down, w.st, T, a)
  <2>1. w.st # "INVALID"
    OBVIOUS
  <2> QED
    BY <1>1, <2>1, LineSnooped
<1>10. LiveOf(v.down, v.st, SnoopRequests, a)
  <2>1. SnoopLeft(v.down, Head(v.down), w.down, a, v.st, v.st)
    BY <1>0, <1>1, KindsApart, SnoopLeaving
  <2> QED
    BY <1>1, <2>1 DEF SnoopLeft, SnoopRequests
<1>11. ~Has(v.up, {"WB_REP"}, a) /\ ~Has(v.up, GivingUp, a)
  BY <1>10 DEF Line, WroteBack, Custody
<1>12. Sharing(w) /\ Custody(w, l, a) /\ Ownership(w, l, a)
  BY <1>4, <1>5, <1>7 DEF Line, Sharing, Custody, Ownership
<1>13. Transaction(w, l, a)
  BY <1>4, <1>5, <1>7 DEF Line, Transaction
<1>14. Upgrading(w, l, a) /\ Fetched(w, l, a)
  BY <1>4, <1>5, <1>7 DEF Line, Upgrading, Fetched, Awaits, Shares
<1>15. Snooped(w, l, a)
  BY <1>9 DEF Snooped
<1>16. WroteBack(w, l, a)
  <2>1. Once(w.up, {"WB_REP"}, a) /\ Ahead(w.up, {"WB_REP"}, GivingUp, a)
    BY <1>4, <1>5, <1>11 DEF Line, WroteBack
  <2> QED
    BY <1>7, <1>8, <1>9, <2>1 DEF WroteBack, Awaits, Shares
<1>20. Entitled(w, l, a)
  BY <1>4 DEF Entitled, Answers
<1> QED
  BY <1>12, <1>13, <1>14, <1>15, <1>16, <1>20 DEF Line

-----------------------------------------------------------------------------
(* What the directory does to a line, for the cache it hears from or       *)
(* answers and for the others.                                             *)
LEMMA LiveSnoop ==
  /\ \A q, st, T, x : LiveOf(q, st, T, x) => LiveOf(q, st, SnoopRequests, x)
  /\ \A q, st, x : LiveOf(q, st, SnoopRequests, x) =>
       /\ \/ LiveOf(q, st, {"WB_REQ"}, x)
          \/ LiveOf(q, st, {"FLUSH_REQ"}, x)
          \/ LiveOf(q, st, {"INV_REQ"}, x)
       /\ st # "INVALID" \/ Has(q, Granting, x)
BY DEF LiveOf, Live, Is, SnoopRequests, Has

LEMMA OwnReplies ==
  ASSUME NEW q, NEW x, Has(q, Owning, x)
  PROVE  Has(q, Granting, x) \/ Has(q, {"UPGRADE_REP"}, x)
BY DEF Has, Is, Granting, Owning

LEMMA HeadHas ==
  ASSUME NEW q \in Seq(QueueKinds), q # <<>>
  PROVE  /\ Head(q)[1] \in Requests /\ Head(q)[2] \in Llcs
         /\ \A T : Head(q)[1] \in T => Has(q, T, Head(q)[2])
<1>1. 1 \in DOMAIN q /\ q[1] = Head(q) /\ Head(q) \in QueueKinds
  OBVIOUS
<1> QED
  BY <1>1 DEF Has, Is, QueueKinds

LEMMA HeadStays ==
  ASSUME NEW S, NEW q \in Seq(S), NEW e \in S, q # <<>>
  PROVE  Append(q, e) # <<>> /\ Head(Append(q, e)) = Head(q)
OBVIOUS

(* A request is queued.                                                    *)
LEMMA LineQueued ==
  ASSUME NEW v, IsView(v), NEW w, NEW l \in Llcs, NEW a \in Addrs, Line(v, l, a),
         v.up # <<>>, w.up = Tail(v.up), NEW t \in Requests, Head(v.up) = <<t, a>>,
         w.queue = Append(v.queue, <<t, l>>),
         w.down = v.down, w.st = v.st, w.sharers = v.sharers, w.owner = v.owner,
         w.asked = v.asked, w.waiters = v.waiters, w.served = v.served
  PROVE  Line(w, l, a)
<1> DEFINE m == Head(v.up)
           e == <<t, l>>
<1>0. v.up \in Seq(UpKinds) /\ v.queue \in Seq(QueueKinds)
  BY DEF IsView
<1>1. /\ \A T : Is(m, T, a) <=> t \in T
      /\ \A T : Is(e, T, l) <=> t \in T
      /\ t \notin GivingUp /\ t # "WB_REP"
      /\ e \in QueueKinds
  BY DEF Is, Requests, GivingUp, QueueKinds
<1>2. w.queue = Append(v.queue, e)
  OBVIOUS
<1> HIDE DEF m, e
<1>3. Departure(v.up, m, w.up, a)
  BY <1>0, Departing DEF m
<1>4. Arrival(v.queue, e, w.queue, l)
  BY <1>0, <1>1, <1>2, Arriving
<1>5. v.queue # <<>> => w.queue # <<>> /\ Head(w.queue) = Head(v.queue)
  BY <1>0, <1>1, <1>2, HeadStays
<1>6. /\ \A T : Has(v.up, T, a) <=> Has(w.up, T, a) \/ t \in T
      /\ \A T : Once(v.up, T, a) => Once(w.up, T, a) /\ (t \in T => ~Has(w.up, T, a))
      /\ \A T, U : Ahead(v.up, T, U, a) => Ahead(w.up, T, U, a) /\ (t \in U => ~Has(v.up, T, a))
  BY <1>1, <1>3 DEF Departure
<1>7. /\ \A T : Has(w.queue, T, l) <=> Has(v.queue, T, l) \/ t \in T
      /\ \A T : Once(v.queue, T, l) /\ (t \in T => ~Has(v.queue, T, l)) => Once(w.queue, T, l)
  BY <1>1, <1>4 DEF Arrival
<1>8. /\ Has(v.up, Requests, a) /\ ~Has(w.up, Requests, a) /\ ~Has(v.queue, Requests, l)
  BY <1>6 DEF Line, Transaction
<1>9. /\ ~Has(w.up, {"UPGRADE_REQ"}, a) /\ ~Has(w.up, Fetching, a)
      /\ ~Has(v.queue, {"UPGRADE_REQ"}, l) /\ ~Has(v.queue, Fetching, l)
  BY <1>8, HasRequest
<1>10. Sharing(w) /\ Custody(w, l, a) /\ Ownership(w, l, a)
  BY <1>1, <1>6 DEF Line, Sharing, Custody, Ownership
<1>11. Transaction(w, l, a)
  BY <1>6, <1>7, <1>8 DEF Line, Transaction
<1>12. Upgrading(w, l, a)
  BY <1>5, <1>6, <1>7, <1>9 DEF Line, Upgrading, Awaits, Shares
<1>13. Fetched(w, l, a)
  BY <1>6, <1>7, <1>9 DEF Line, Fetched
<1>14. Snooped(w, l, a) /\ WroteBack(w, l, a)
  BY <1>1, <1>5, <1>6, LiveSnoop DEF Line, Snooped, WroteBack, Awaits, Shares
<1>20. Entitled(w, l, a)
  BY <1>6 DEF Line, Entitled, Requests, Answers
<1> QED
  BY <1>10, <1>11, <1>12, <1>13, <1>14, <1>20 DEF Line

LEMMA LineOtherQueued ==
  ASSUME NEW v, IsView(v), NEW w, NEW l \in Llcs, NEW a, Line(v, l, a),
         NEW k \in Llcs, k # l, NEW t \in Requests,
         w.queue = Append(v.queue, <<t, k>>),
         w.up = v.up, w.down = v.down, w.st = v.st, w.sharers = v.sharers,
         w.owner = v.owner, w.asked = v.asked, w.waiters = v.waiters, w.served = v.served
  PROVE  Line(w, l, a)
<1> DEFINE e == <<t, k>>
<1>0. v.queue \in Seq(QueueKinds)
  BY DEF IsView
<1>1. e \in QueueKinds /\ e[2] # l /\ w.queue = Append(v.queue, e)
  BY DEF QueueKinds
<1> HIDE DEF e
<1>2. SameFor(v.queue, w.queue, l)
  BY <1>0, <1>1, SameArrived
<1>3. /\ \A T : Has(w.queue, T, l) <=> Has(v.queue, T, l)
      /\ \A T : Once(v.queue, T, l) => Once(w.queue, T, l)
  BY <1>2 DEF SameFor
<1>4. v.queue # <<>> => w.queue # <<>> /\ Head(w.queue) = Head(v.queue)
  BY <1>0, <1>1, HeadStays
<1>5. Sharing(w) /\ Custody(w, l, a) /\ Ownership(w, l, a) /\ Transaction(w, l, a)
  BY <1>3 DEF Line, Sharing, Custody, Ownership, Transaction
<1>6. Upgrading(w, l, a) /\ Fetched(w, l, a)
  BY <1>3, <1>4 DEF Line, Upgrading, Fetched, Awaits, Shares
<1>7. Snooped(w, l, a) /\ WroteBack(w, l, a)
  BY <1>4, LiveSnoop DEF Line, Snooped, WroteBack, Awaits, Shares
<1>20. Entitled(w, l, a)
  BY DEF Line, Entitled
<1> QED
  BY <1>5, <1>6, <1>7, <1>20 DEF Line

(* A copy is given up.                                                     *)
LEMMA LineGone ==
  ASSUME NEW v, IsView(v), NEW w, NEW l \in Llcs, NEW a, Line(v, l, a),
         v.up # <<>>, w.up = Tail(v.up), NEW t \in GivingUp, Head(v.up) = <<t, a>>,
         w.sharers = v.sharers \ {l}, w.owner = IF v.owner = l THEN None ELSE v.owner,
         w.queue = v.queue, w.down = v.down, w.st = v.st,
         w.asked = v.asked, w.waiters = v.waiters, w.served = v.served
  PROVE  Line(w, l, a)
<1> DEFINE m == Head(v.up)
<1>0. v.up \in Seq(UpKinds)
  BY DEF IsView
<1>1. /\ \A T : Is(m, T, a) <=> t \in T
      /\ t \notin Requests /\ t \notin Fetching /\ t # "WB_REP" /\ t # "UPGRADE_REQ"
  BY DEF Is, Requests, GivingUp, Fetching
<1> HIDE DEF m
<1>2. Departure(v.up, m, w.up, a)
  BY <1>0, Departing DEF m
<1>3. /\ \A T : Has(v.up, T, a) <=> Has(w.up, T, a) \/ t \in T
      /\ \A T : Once(v.up, T, a) => Once(w.up, T, a) /\ (t \in T => ~Has(w.up, T, a))
      /\ \A T, U : Ahead(v.up, T, U, a) => Ahead(w.up, T, U, a) /\ (t \in U => ~Has(v.up, T, a))
  BY <1>1, <1>2 DEF Departure
<1>4. /\ Has(v.up, GivingUp, a) /\ ~Has(w.up, GivingUp, a) /\ v.st = "INVALID"
      /\ ~Has(v.down, Granting, a) /\ ~Has(v.down, {"UPGRADE_REP"}, a)
      /\ ~Has(w.up, {"WB_REP"}, a)
  BY <1>1, <1>3 DEF Line, Custody, Upgrading, WroteBack
<1>5. ~Has(v.down, Owning, a)
  BY <1>4, OwnReplies
<1>6. Sharing(w) /\ Custody(w, l, a) /\ Ownership(w, l, a)
  BY <1>3, <1>4, <1>5 DEF Line, Sharing, Custody, Ownership
<1>7. Transaction(w, l, a)
  BY <1>1, <1>3 DEF Line, Transaction
<1>8. Upgrading(w, l, a) /\ Fetched(w, l, a)
  BY <1>1, <1>3, <1>4 DEF Line, Upgrading, Fetched
<1>9. Settled(w.down, w.st, a) /\ \A T : ~LiveOf(w.down, w.st, T, a)
  BY <1>4, NoneLive
<1>10. Snooped(w, l, a) /\ WroteBack(w, l, a)
  BY <1>3, <1>4, <1>9 DEF Line, Snooped, WroteBack
<1>20. Entitled(w, l, a)
  BY CoherentAssumption DEF Entitled
<1> QED
  BY <1>6, <1>7, <1>8, <1>10, <1>20 DEF Line

LEMMA LineOtherGone ==
  ASSUME NEW v, NEW w, NEW l \in Llcs, NEW a, Line(v, l, a), NEW k \in Llcs, k # l,
         w.sharers = v.sharers \ {k}, w.owner = IF v.owner = k THEN None ELSE v.owner,
         w.up = v.up, w.down = v.down, w.st = v.st, w.queue = v.queue,
         w.asked = v.asked, w.waiters = v.waiters, w.served = v.served
  PROVE  Line(w, l, a)
<1>0. l # None
  BY CoherentAssumption
<1>1. Sharing(w) /\ Custody(w, l, a) /\ Ownership(w, l, a) /\ Transaction(w, l, a)
  BY DEF Line, Sharing, Custody, Ownership, Transaction
<1>2. Upgrading(w, l, a) /\ Fetched(w, l, a)
  BY DEF Line, Upgrading, Fetched, Awaits, Shares
<1>3. Snooped(w, l, a) /\ WroteBack(w, l, a)
  BY <1>0 DEF Line, Snooped, WroteBack, Awaits, Shares
<1>20. Entitled(w, l, a)
  BY <1>0 DEF Line, Entitled
<1> QED
  BY <1>1, <1>2, <1>3, <1>20 DEF Line

(* The owner's data was written back.                                      *)
LEMMA LineClean ==
  ASSUME NEW v, IsView(v), NEW w, NEW l \in Llcs, NEW a, Line(v, l, a),
         v.up # <<>>, w.up = Tail(v.up), Head(v.up) = <<"WB_REP", a>>, w.owner = None,
         w.sharers = v.sharers, w.queue = v.queue, w.down = v.down, w.st = v.st,
         w.asked = v.asked, w.waiters = v.waiters, w.served = v.served
  PROVE  Line(w, l, a) /\ v.owner = l
<1> DEFINE m == Head(v.up)
<1>0. v.up \in Seq(UpKinds)
  BY DEF IsView
<1>1. /\ \A T : Is(m, T, a) <=> "WB_REP" \in T
      /\ "WB_REP" \notin Requests \cup Fetching \cup GivingUp \cup {"UPGRADE_REQ"}
  BY DEF Is, Requests, GivingUp, Fetching
<1> HIDE DEF m
<1>2. Departure(v.up, m, w.up, a)
  BY <1>0, Departing DEF m
<1>3. /\ \A T : Has(v.up, T, a) <=> Has(w.up, T, a) \/ "WB_REP" \in T
      /\ \A T : Once(v.up, T, a) => Once(w.up, T, a) /\ ("WB_REP" \in T => ~Has(w.up, T, a))
      /\ \A T, U : Ahead(v.up, T, U, a) => Ahead(w.up, T, U, a)
  BY <1>1, <1>2 DEF Departure
<1>4. /\ ~Has(w.up, {"WB_REP"}, a) /\ v.st \notin {"EXCLUSIVE", "MODIFIED"}
      /\ ~Has(v.down, Replies, a) /\ ~LiveOf(v.down, v.st, SnoopRequests, a)
      /\ v.owner = l
  BY <1>3 DEF Line, WroteBack
<1>5. ~Has(v.down, Owning, a)
  BY <1>4, HasReply
<1>6. Sharing(w) /\ Custody(w, l, a) /\ Ownership(w, l, a) /\ Transaction(w, l, a)
  BY <1>1, <1>3, <1>4, <1>5 DEF Line, Sharing, Custody, Ownership, Transaction
<1>7. Upgrading(w, l, a) /\ Fetched(w, l, a)
  BY <1>1, <1>3 DEF Line, Upgrading, Fetched, Awaits, Shares
<1>8. Snooped(w, l, a) /\ WroteBack(w, l, a)
  BY <1>3, <1>4, LiveSnoop DEF Line, Snooped, WroteBack
<1>20. Entitled(w, l, a)
  BY CoherentAssumption DEF Entitled
<1> QED
  BY <1>4, <1>6, <1>7, <1>8, <1>20 DEF Line

LEMMA LineOtherClean ==
  ASSUME NEW v, NEW w, NEW l \in Llcs, NEW a, Line(v, l, a), NEW k \in Llcs, k # l,
         v.owner = k, w.owner = None,
         w.sharers = v.sharers, w.up = v.up, w.down = v.down, w.st = v.st,
         w.queue = v.queue, w.asked = v.asked, w.waiters = v.waiters, w.served = v.served
  PROVE  Line(w, l, a)
<1>0. l # None
  BY CoherentAssumption
<1>1. Sharing(w) /\ Custody(w, l, a) /\ Ownership(w, l, a) /\ Transaction(w, l, a)
  BY DEF Line, Sharing, Custody, Ownership, Transaction
<1>2. Upgrading(w, l, a) /\ Fetched(w, l, a)
  BY DEF Line, Upgrading, Fetched, Awaits, Shares
<1>3. Snooped(w, l, a) /\ WroteBack(w, l, a)
  BY <1>0 DEF Line, Snooped, WroteBack, Awaits, Shares
<1>20. Entitled(w, l, a)
  BY <1>0 DEF Entitled
<1> QED
  BY <1>1, <1>2, <1>3, <1>20 DEF Line

(* The snoops for the first request are sent.                              *)
SnoopFor(v, l) ==
  IF Shares(v) THEN "WB_REQ" ELSE IF v.owner = l THEN "FLUSH_REQ" ELSE "INV_REQ"
BlockersOf(v) ==
  IF Shares(v) THEN {v.owner} \ {None} ELSE v.sharers \ {Head(v.queue)[2]}

SnoopJoined(q, m, r, x, st) ==
  /\ \A T : LiveOf(r, st, T, x) => \/ LiveOf(q, st, T, x)
                                   \/ Is(m, SnoopRequests, x) /\ m[1] \in T
  /\ /\ Settled(q, st, x)
     /\ Is(m, Replies, x) \/ Is(m, SnoopRequests, x) => ~LiveOf(q, st, SnoopRequests, x)
     => Settled(r, st, x)

LEMMA SnoopJoining ==
  ASSUME NEW S, NEW q \in Seq(S), NEW m \in S, NEW x, NEW st
  PROVE  SnoopJoined(q, m, Append(q, m), x, st)
BY LiveArrived DEF SnoopJoined

LEMMA LineAsked ==
  ASSUME NEW v, IsView(v), NEW w, NEW l \in Llcs, NEW a \in Addrs, Line(v, l, a),
         v.queue # <<>>, v.asked = FALSE, w.asked = TRUE,
         Shares(v) => Head(v.queue)[2] \notin v.sharers,
         w.down = IF l \in BlockersOf(v) THEN Append(v.down, <<SnoopFor(v, l), a>>)
                                         ELSE v.down,
         w.up = v.up, w.st = v.st, w.sharers = v.sharers, w.owner = v.owner,
         w.queue = v.queue, w.waiters = v.waiters, w.served = v.served
  PROVE  Line(w, l, a)
<1> DEFINE t == SnoopFor(v, l)
           m == <<t, a>>
<1>0. v.down \in Seq(DownKinds)
  BY DEF IsView
<1>1. /\ t \in SnoopRequests /\ m \in DownKinds /\ Is(m, SnoopRequests, a)
      /\ \A T : Is(m, T, a) <=> t \in T
      /\ m[1] = t
  BY DEF Is, SnoopRequests, SnoopFor, DownKinds
<1>2. /\ t = "WB_REQ" => Shares(v)
      /\ t = "FLUSH_REQ" => ~Shares(v) /\ v.owner = l
      /\ t = "INV_REQ" => ~Shares(v) /\ v.owner # l
  BY DEF SnoopFor
<1>3. w.down = IF l \in BlockersOf(v) THEN Append(v.down, m) ELSE v.down
  OBVIOUS
<1> HIDE DEF m, t
<1>4. ~LiveOf(v.down, v.st, SnoopRequests, a) /\ ~Has(v.up, {"WB_REP"}, a)
  BY DEF Line, Snooped, WroteBack
<1>5. \A T : ~LiveOf(v.down, v.st, T, a)
  BY <1>4, LiveSnoop
<1>6. /\ RepliesKept(v.down, w.down, a)
      /\ Settled(w.down, w.st, a)
      /\ \A T : LiveOf(w.down, w.st, T, a) => l \in BlockersOf(v) /\ t \in T
  <2>1. CASE l \in BlockersOf(v)
    <3>1. SnoopJoined(v.down, m, w.down, a, v.st)
      BY <1>0, <1>1, <1>3, <2>1, SnoopJoining
    <3>2. RepliesKept(v.down, w.down, a)
      BY <1>0, <1>1, <1>3, <2>1, SnoopArrived
    <3> QED
      BY <1>1, <1>5, <2>1, <3>1, <3>2 DEF SnoopJoined, Line, Snooped
  <2>2. CASE l \notin BlockersOf(v)
    BY <1>3, <1>5, <2>2 DEF RepliesKept, Line, Snooped
  <2> QED
    BY <2>1, <2>2
<1>7. l \in BlockersOf(v) => Awaits(v, l) /\ (Shares(v) => v.owner = l)
  BY DEF BlockersOf, Awaits, Line, Sharing
<1>8. /\ \A T \in {Replies, Granting, Owning, {"UPGRADE_REP"}} :
           Has(w.down, T, a) <=> Has(v.down, T, a)
      /\ Once(v.down, Replies, a) => Once(w.down, Replies, a)
  BY <1>6, ReplyKinds DEF RepliesKept
<1>9. Sharing(w) /\ Custody(w, l, a) /\ Ownership(w, l, a)
  BY <1>8 DEF Line, Sharing, Custody, Ownership
<1>10. Transaction(w, l, a) /\ Upgrading(w, l, a) /\ Fetched(w, l, a)
  BY <1>8 DEF Line, Transaction, Upgrading, Fetched, Awaits, Shares
<1>11. (Awaits(w, l) <=> Awaits(v, l)) /\ (Shares(w) <=> Shares(v))
  BY DEF Awaits, Shares
<1>12. Snooped(w, l, a)
  BY <1>2, <1>6, <1>7, <1>11 DEF Snooped
<1>13. WroteBack(w, l, a)
  BY <1>4 DEF Line, WroteBack
<1>20. Entitled(w, l, a)
  BY <1>8 DEF Line, Entitled
<1> QED
  BY <1>9, <1>10, <1>12, <1>13, <1>20 DEF Line

(* The first request is answered: no copy is in its way, so no snoop is    *)
(* live and no writeback on its way any more.                              *)
LEMMA Unblocked ==
  ASSUME NEW v, IsView(v), NEW l \in Llcs, NEW a, Line(v, l, a),
         v.queue # <<>>, BlockersOf(v) = {}
  PROVE  /\ \A T : ~LiveOf(v.down, v.st, T, a)
         /\ ~Has(v.up, {"WB_REP"}, a)
         /\ Head(v.queue)[2] # l => v.owner # l
<1>0. l # None
  BY CoherentAssumption
<1>1. /\ Shares(v) => v.owner = None
      /\ ~Shares(v) => v.sharers \subseteq {Head(v.queue)[2]}
  BY DEF BlockersOf
<1>2. Head(v.queue)[2] # l => v.owner # l
  BY <1>0, <1>1 DEF Line, Sharing
<1>3. ~LiveOf(v.down, v.st, SnoopRequests, a)
  <2>1. SUFFICES ASSUME LiveOf(v.down, v.st, SnoopRequests, a) PROVE FALSE
    OBVIOUS
  <2>2. /\ Head(v.queue)[2] # l /\ v.owner # l
        /\ ~Shares(v)
    BY <1>0, <1>1, <1>2, <2>1, LiveSnoop DEF Line, Snooped, Awaits
  <2>3. l \in v.sharers
    BY <2>1, LiveSnoop DEF Line, Custody
  <2> QED
    BY <1>1, <2>2, <2>3
<1>4. ~Has(v.up, {"WB_REP"}, a)
  BY <1>0, <1>1 DEF Line, WroteBack
<1> QED
  BY <1>2, <1>3, <1>4, LiveSnoop

(* The reply DirAnswer chooses.                                            *)
Chosen(v, l, t) ==
  /\ Shares(v) => t \in {"EX_REP", "SH_REP"} /\ (t = "EX_REP" => v.sharers = {})
  /\ Head(v.queue)[1] = "EX_REQ" => t = "EX_REP"
  /\ Head(v.queue)[1] = "UPGRADE_REQ" =>
       IF l \in v.sharers THEN t = "UPGRADE_REP"
                         ELSE t \in {"EX_REP", "UPGRADE_DATA_REP"}

LEMMA LineReplied ==
  ASSUME NEW v, IsView(v), NEW w, NEW l \in Llcs, NEW a \in Addrs, Line(v, l, a),
         v.queue # <<>>, BlockersOf(v) = {}, Head(v.queue)[2] = l,
         NEW t \in Replies, w.down = Append(v.down, <<t, a>>),
         Chosen(v, l, t),
         w.sharers = v.sharers \cup {l}, w.owner = IF t = "SH_REP" THEN None ELSE l,
         w.queue = Tail(v.queue), w.asked = FALSE,
         w.up = v.up, w.st = v.st, w.waiters = v.waiters, w.served = v.served
  PROVE  Line(w, l, a)
<1> DEFINE m == <<t, a>>
           r == Head(v.queue)[1]
<1>0. v.down \in Seq(DownKinds)
  BY DEF IsView
<1>15. v.queue \in Seq(QueueKinds)
  BY DEF IsView
<1>1. /\ m \in DownKinds /\ ~Is(m, SnoopRequests, a)
      /\ \A T : Is(m, T, a) <=> t \in T
  BY DEF Is, SnoopRequests, Replies, DownKinds
<1>16. w.down = Append(v.down, m) /\ m \in DownKinds
  BY <1>1
<1>2. /\ r \in Requests /\ \A T : r \in T => Has(v.queue, T, l)
  BY <1>15, HeadHas
<1>3. Is(Head(v.queue), Requests, l)
  BY <1>2 DEF Is
<1> HIDE DEF m, r
<1>4. Arrival(v.down, m, w.down, a)
  <2> DEFINE q == v.down
  <2>1. Arrival(q, m, Append(q, m), a)
    <3>1. q \in Seq(DownKinds) /\ m \in DownKinds
      BY <1>0, <1>16
    <3> HIDE DEF q
    <3> QED
      BY <3>1, Arriving
  <2> QED
    BY <1>16, <2>1
<1>5. Departure(v.queue, Head(v.queue), w.queue, l)
  <2> DEFINE q == v.queue
  <2>1. q \in Seq(QueueKinds) /\ q # <<>> /\ w.queue = Tail(q)
    BY <1>15
  <2> HIDE DEF q
  <2>2. Departure(q, Head(q), w.queue, l)
    BY <2>1, Departing
  <2> QED
    BY <2>2 DEF q
<1>6. /\ Has(v.queue, Requests, l) /\ ~Has(w.queue, Requests, l)
      /\ ~Has(v.down, Replies, a) /\ ~Has(v.up, Requests, a)
  BY <1>2, <1>3, <1>5 DEF Line, Transaction, Departure
<1>7. /\ ~Has(v.down, Granting, a) /\ ~Has(v.down, {"UPGRADE_REP"}, a)
      /\ ~Has(v.down, Owning, a)
      /\ ~Has(w.queue, {"UPGRADE_REQ"}, l) /\ ~Has(w.queue, Fetching, l)
      /\ ~Has(v.up, {"UPGRADE_REQ"}, a) /\ ~Has(v.up, Fetching, a)
  BY <1>6, HasReply, HasRequest
<1>8. /\ \A T : Has(w.down, T, a) <=> Has(v.down, T, a) \/ t \in T
      /\ \A T : Once(v.down, T, a) /\ (t \in T => ~Has(v.down, T, a)) => Once(w.down, T, a)
  BY <1>1, <1>4 DEF Arrival
<1>9. /\ \A T : ~LiveOf(v.down, v.st, T, a)
      /\ ~Has(v.up, {"WB_REP"}, a)
  BY Unblocked
<1>10. Snooped(w, l, a) /\ WroteBack(w, l, a)
  <2>1. SnoopJoined(v.down, m, w.down, a, v.st)
    <3> DEFINE q == v.down
               rest == Append(q, m)
               st == v.st
    <3>1. q \in Seq(DownKinds) /\ m \in DownKinds
      BY <1>0, <1>16
    <3> HIDE DEF q, st
    <3>2. SnoopJoined(q, m, rest, a, st)
      BY <3>1, SnoopJoining
    <3> QED
      BY <1>16, <3>2 DEF q, st
  <2>2. Settled(w.down, w.st, a) /\ \A T : ~LiveOf(w.down, w.st, T, a)
    BY <1>1, <1>9, <2>1 DEF SnoopJoined, Line, Snooped
  <2> QED
    BY <1>9, <2>2 DEF Line, Snooped, WroteBack
<1>11. Transaction(w, l, a)
  BY <1>5, <1>6, <1>8 DEF Line, Transaction, Departure
<1>17. Entitled(w, l, a)
  BY <1>8, CoherentAssumption DEF Entitled, Replies, Owning
<1>12. /\ Shares(v) <=> r = "SH_REQ"
       /\ ~Shares(v) => v.sharers \subseteq {l}
  BY DEF BlockersOf, Shares, r
<1>13. CASE t \in Granting
  <2>1. t # "UPGRADE_REP"
    BY <1>13 DEF Granting
  <2>2. l \notin v.sharers
    <3>1. CASE r \in Fetching
      BY <1>2, <3>1 DEF Line, Fetched
    <3>2. CASE r = "UPGRADE_REQ"
      BY <2>1, <3>2 DEF Chosen, r
    <3> QED
      BY <1>2, <3>1, <3>2 DEF Requests, Fetching
  <2>3. v.st = "INVALID" /\ ~Has(v.up, GivingUp, a)
    BY <2>2 DEF Line, Custody
  <2>4. Sharing(w)
    <3>1. t # "SH_REP" => v.sharers = {}
      BY <1>2, <1>12, <1>13, <2>2 DEF Chosen, Granting
    <3> QED
      BY <3>1 DEF Sharing
  <2>5. Custody(w, l, a) /\ Ownership(w, l, a)
    BY <1>7, <1>8, <1>13, <2>1, <2>3 DEF Line, Custody, Ownership, Granting, Owning
  <2>6. Upgrading(w, l, a) /\ Fetched(w, l, a)
    BY <1>7, <1>8, <2>1, <2>3 DEF Line, Upgrading, Fetched
  <2> QED
    BY <1>10, <1>11, <1>17, <2>4, <2>5, <2>6 DEF Line
<1>14. CASE t = "UPGRADE_REP"
  <2>1. r = "UPGRADE_REQ" /\ l \in v.sharers
    BY <1>2, <1>12, <1>14 DEF Chosen, Requests, Granting, r
  <2>2. v.st = "SHARED_UPGRADING"
    BY <1>2, <2>1 DEF Line, Upgrading, Awaits
  <2>3. v.sharers = {l}
    BY <1>12, <2>1
  <2>4. t \notin Granting /\ t # "SH_REP"
    BY <1>14 DEF Granting
  <2>5. Sharing(w) /\ Custody(w, l, a) /\ Ownership(w, l, a)
    BY <1>8, <2>2, <2>3, <2>4 DEF Line, Sharing, Custody, Ownership, Owning
  <2>6. Upgrading(w, l, a) /\ Fetched(w, l, a)
    BY <1>7, <2>2 DEF Line, Upgrading, Fetched
  <2> QED
    BY <1>10, <1>11, <1>17, <2>5, <2>6 DEF Line
<1> QED
  BY <1>13, <1>14 DEF Replies, Granting

LEMMA LineOtherReplied ==
  ASSUME NEW v, IsView(v), NEW w, NEW l \in Llcs, NEW a, Line(v, l, a),
         v.queue # <<>>, BlockersOf(v) = {}, NEW k \in Llcs, k # l, Head(v.queue)[2] = k,
         w.sharers = v.sharers \cup {k}, w.owner \in {None, k}, Sharing(w),
         w.queue = Tail(v.queue), w.asked = FALSE,
         w.down = v.down, w.up = v.up, w.st = v.st,
         w.waiters = v.waiters, w.served = v.served
  PROVE  Line(w, l, a)
<1>0. v.queue \in Seq(QueueKinds)
  BY DEF IsView
<1>1. SameFor(v.queue, w.queue, l)
  BY <1>0, SameDeparted
<1>2. /\ \A T : Has(w.queue, T, l) <=> Has(v.queue, T, l)
      /\ \A T : Once(v.queue, T, l) => Once(w.queue, T, l)
  BY <1>1 DEF SameFor
<1>3. /\ \A T : ~LiveOf(v.down, v.st, T, a)
      /\ ~Has(v.up, {"WB_REP"}, a)
      /\ v.owner # l
  BY Unblocked
<1>4. Snooped(w, l, a) /\ WroteBack(w, l, a)
  BY <1>3 DEF Line, Snooped, WroteBack
<1>5. Custody(w, l, a) /\ Ownership(w, l, a) /\ Transaction(w, l, a)
  BY <1>2, <1>3 DEF Line, Custody, Ownership, Transaction
<1>6. Upgrading(w, l, a)
  <2>1. ~Shares(v) => l \notin v.sharers
    BY DEF BlockersOf
  <2> QED
    BY <1>2, <2>1 DEF Line, Upgrading
<1>7. Fetched(w, l, a)
  BY <1>2 DEF Line, Fetched
<1>20. Entitled(w, l, a)
  BY CoherentAssumption DEF Entitled
<1> QED
  BY <1>4, <1>5, <1>6, <1>7, <1>20 DEF Line

-----------------------------------------------------------------------------
(* What the operations on the caches do to the states of the copies: of    *)
(* those below nothing (Alike), of those above l at most a downgrade       *)
(* (Lowered); and that no assertion fails where inclusion holds.           *)
Alike(s, t) ==
  /\ IsCaches(t) /\ t.sent = s.sent
  /\ \A k \in Llcs, b \in Addrs : t.llc[k][b].st = s.llc[k][b].st

Lowered(s, t, l) ==
  \A d \in L1s, b \in Addrs :
    \/ t.l1[d][b].st = s.l1[d][b].st
    \/ LlcOf[d] = l /\ s.l1[d][b].st # "INVALID" /\ t.l1[d][b].st # "MODIFIED"

LEMMA AlikeTwice ==
  ASSUME NEW s, NEW t, NEW u, Alike(s, t), Alike(t, u)
  PROVE  Alike(s, u)
BY DEF Alike

LEMMA LoweredTwice ==
  ASSUME NEW s, NEW t, NEW u, NEW l, Lowered(s, t, l), Lowered(t, u, l)
  PROVE  Lowered(s, u, l)
BY DEF Lowered

LEMMA CheckAlike ==
  ASSUME NEW s, IsCaches(s), NEW ok, NEW what
  PROVE  /\ Alike(s, Check(s, ok, what))
         /\ Check(s, ok, what).l1 = s.l1 /\ Check(s, ok, what).llc = s.llc
         /\ ok => Check(s, ok, what) = s
<1>1. /\ Kept(s, Check(s, ok, what))
      /\ Check(s, ok, what).l1 = s.l1 /\ Check(s, ok, what).llc = s.llc
      /\ Check(s, ok, what).sent = s.sent
  BY CheckKeeps
<1>2. ok => Check(s, ok, what) = s
  BY DEF Check
<1> QED
  BY <1>1, <1>2 DEF Alike, Kept

LEMMA SnoopedAlike ==
  ASSUME NEW s, IsCaches(s), NEW l \in Llcs, NEW a \in Addrs, NEW skip,
         NEW n \in {"INVALID", "SHARED", "MODIFIED"}
  PROVE  /\ Alike(s, SnoopChecked(s, l, a, skip, n))
         /\ n # "MODIFIED" => Lowered(s, SnoopChecked(s, l, a, skip, n), l)
         /\ n # "MODIFIED" /\ Included(s) => Included(SnoopChecked(s, l, a, skip, n))
         /\ Included(s) => SnoopChecked(s, l, a, skip, n).failed = s.failed
         /\ \A c \in L1s, b \in Addrs :
              SnoopChecked(s, l, a, skip, n).l1[c][b].st =
                IF c \in L1sOf(l) \ skip /\ b = a /\ s.l1[c][b].st # "INVALID"
                THEN n ELSE s.l1[c][b].st
<1> DEFINE snooped == Snoop(s, l, a, skip, n)
           ok == WritebackAllowed(s, l, a, skip)
           t == Check(snooped, ok, "Got_writeback_for_non_MODIFIED_line")
<1>1. /\ IsCaches(snooped) /\ snooped.sent = s.sent
      /\ snooped.failed = s.failed
      /\ \A c \in L1s, b \in Addrs :
           snooped.l1[c][b].st = IF c \in L1sOf(l) \ skip /\ b = a
                              /\ s.l1[c][b].st # "INVALID"
                           THEN n ELSE s.l1[c][b].st
      /\ \A k \in Llcs, b \in Addrs : snooped.llc[k][b].st = s.llc[k][b].st
  BY SnoopKeeps
<1>2. t = SnoopChecked(s, l, a, skip, n)
  BY DEF SnoopChecked
<1>3. Included(s) => ok
  BY DEF Included, IncludedAt, WritebackAllowed, L1sOf
<1> HIDE DEF snooped, ok
<1>4. Alike(snooped, t) /\ t.l1 = snooped.l1 /\ (ok => t = snooped)
  BY <1>1, CheckAlike
<1> HIDE DEF t
<1>5. Alike(s, t)
  BY <1>1, <1>4 DEF Alike
<1>6. n # "MODIFIED" => Lowered(s, t, l)
  BY <1>1, <1>4 DEF Lowered, L1sOf
<1>7. \A c \in L1s, b \in Addrs :
        t.l1[c][b].st = IF c \in L1sOf(l) \ skip /\ b = a /\ s.l1[c][b].st # "INVALID"
                        THEN n ELSE s.l1[c][b].st
  BY <1>1, <1>4
<1>8. n # "MODIFIED" /\ Included(s) => Included(t)
  <2> SUFFICES ASSUME n # "MODIFIED", Included(s), NEW c \in L1s, NEW b \in Addrs
               PROVE  IncludedAt(t, c, b)
    BY DEF Included
  <2>1. LlcOf[c] \in Llcs /\ IncludedAt(s, c, b)
    BY CoherentAssumption DEF Included
  <2> QED
    BY <1>5, <1>7, <2>1 DEF IncludedAt, Alike
<1> QED
  BY <1>1, <1>2, <1>3, <1>4, <1>5, <1>6, <1>7, <1>8

LEMMA SendAlike ==
  ASSUME NEW s, IsCaches(s), NEW type \in Requests \cup Answers, NEW a \in Addrs,
         NEW new \in BOOLEAN
  PROVE  /\ IsCaches(Send(s, type, a, new))
         /\ Send(s, type, a, new).l1 = s.l1 /\ Send(s, type, a, new).llc = s.llc
         /\ Send(s, type, a, new).failed = s.failed
         /\ Send(s, type, a, new).sent = Append(s.sent, Msg(type, a, new))
         /\ Msg(type, a, new) \in ToDirectory
         /\ Msg(type, a, new).t = type /\ Msg(type, a, new).a = a
<1>1. /\ Msg(type, a, new) \in ToDirectory
      /\ Msg(type, a, new).t = type /\ Msg(type, a, new).a = a
  BY DEF Msg, ToDirectory, Message
<1>2. /\ Kept(s, Send(s, type, a, new))
      /\ Send(s, type, a, new).l1 = s.l1 /\ Send(s, type, a, new).llc = s.llc
      /\ Send(s, type, a, new).failed = s.failed
  BY SendKeeps
<1>3. Send(s, type, a, new).sent = Append(s.sent, Msg(type, a, new))
  BY DEF Send, IsCaches
<1> QED
  BY <1>1, <1>2, <1>3 DEF Kept

LEMMA DroppedAlike ==
  ASSUME TypeOK, NEW c \in L1s, at[c] \in Addrs
  PROVE  /\ Alike(Now, Dropped(c)) /\ Lowered(Now, Dropped(c), LlcOf[c])
         /\ Dropped(c).llc = llc
         /\ Included(Now) => Included(Dropped(c))
         /\ op[c] # "PREFETCH" => Dropped(c).l1[c][at[c]].st = "INVALID"
         /\ op[c] = "PREFETCH" \/ l1[c][at[c]].st # "MODIFIED" => Dropped(c).failed = failed
<1> DEFINE line == [Now.l1[c] EXCEPT ![at[c]] = Invalid]
           put == PutL1(Now, c, line)
           ok == l1[c][at[c]].st # "MODIFIED"
           t == Check(put, ok, "invalidateCacheBlock_of_MODIFIED")
<1>1. Dropped(c) = IF op[c] = "PREFETCH" THEN Now ELSE t
  BY NowIsCaches DEF Dropped, PutL1, Now
<1>2. line \in [Addrs -> Copy]
  BY NowIsCaches, InvalidIsCopy DEF IsCaches
<1>3. \A b \in Addrs : line[b] = IF b = at[c] THEN Invalid ELSE Now.l1[c][b]
  BY NowIsCaches, InvalidIsCopy DEF IsCaches
<1> HIDE DEF line
<1>4. /\ IsCaches(put) /\ put.sent = Now.sent
      /\ put.llc = Now.llc /\ put.failed = Now.failed
      /\ \A d \in L1s : put.l1[d] = IF d = c THEN line ELSE Now.l1[d]
  BY <1>2, NowIsCaches, PutL1Keeps
<1> HIDE DEF put, ok
<1>5. Alike(put, t) /\ t.l1 = put.l1 /\ t.llc = put.llc /\ (ok => t = put)
  BY <1>4, CheckAlike
<1> HIDE DEF t
<1>6. /\ \A d \in L1s, b \in Addrs :
           t.l1[d][b].st = IF d = c /\ b = at[c] THEN "INVALID" ELSE Now.l1[d][b].st
      /\ \A k \in Llcs, b \in Addrs : t.llc[k][b].st = Now.llc[k][b].st
  BY <1>3, <1>4, <1>5, InvalidIsCopy
<1>7. Alike(Now, t) /\ Lowered(Now, t, LlcOf[c]) /\ (Included(Now) => Included(t))
  <2>1. Alike(Now, t)
    BY <1>4, <1>5 DEF Alike
  <2>2. Lowered(Now, t, LlcOf[c])
    BY <1>6 DEF Lowered
  <2>3. Included(Now) => Included(t)
    BY <1>6, CoherentAssumption DEF Included, IncludedAt
  <2> QED
    BY <2>1, <2>2, <2>3
<1>8. Alike(Now, Now) /\ Lowered(Now, Now, LlcOf[c]) /\ Now.failed = failed /\ Now.llc = llc
  BY NowIsCaches DEF Alike, Lowered
<1>9. CASE op[c] = "PREFETCH"
  BY <1>1, <1>8, <1>9
<1>10. CASE op[c] # "PREFETCH"
  BY <1>1, <1>4, <1>5, <1>6, <1>7, <1>8, <1>10 DEF ok
<1> QED
  BY <1>9, <1>10

(* A hit in the last-level cache, from a state that allows it.             *)
LEMMA SatisfiedEffect ==
  ASSUME NEW s, IsCaches(s), NEW c \in L1s, NEW a \in Addrs, NEW o,
         NEW t, t = Satisfied(s, c, a, o)
  PROVE  /\ IsCaches(t) /\ t.sent = s.sent /\ Lowered(s, t, LlcOf[c])
         /\ Included(s) => Included(t) /\ t.failed = s.failed
         /\ \A k \in Llcs, b \in Addrs :
              t.llc[k][b].st = IF o \notin Reads /\ k = LlcOf[c] /\ b = a
                               THEN "MODIFIED" ELSE s.llc[k][b].st
         /\ o \notin Reads =>
              \A d \in L1s : d # c /\ LlcOf[d] = LlcOf[c] => t.l1[d][a].st = "INVALID"
<1> DEFINE l == LlcOf[c]
           exclusive == SnoopChecked(s, l, a, {c}, "INVALID")
           skip == IF o = "PREFETCH" THEN {} ELSE {c}
           shared == SnoopChecked(s, l, a, skip, "SHARED")
<1>1. l \in Llcs
  BY CoherentAssumption
<1> DEFINE n == "INVALID"
           h == "SHARED"
<1>0. /\ n \in {"INVALID", "SHARED", "MODIFIED"} /\ h \in {"INVALID", "SHARED", "MODIFIED"}
      /\ n = "INVALID" /\ n # "MODIFIED" /\ h # "MODIFIED"
      /\ exclusive = SnoopChecked(s, l, a, {c}, n)
      /\ shared = SnoopChecked(s, l, a, skip, h)
  OBVIOUS
<1>2. CASE o \notin Reads
  <2>1. t = SetState(exclusive, l, a, "MODIFIED")
    BY <1>2 DEF Satisfied, SetState
  <2> HIDE DEF exclusive, n, h
  <2>2. /\ Alike(s, exclusive) /\ Lowered(s, exclusive, l)
        /\ Included(s) => Included(exclusive) /\ exclusive.failed = s.failed
        /\ \A d \in L1s, b \in Addrs :
             exclusive.l1[d][b].st = IF d \in L1sOf(l) \ {c} /\ b = a
                                        /\ s.l1[d][b].st # "INVALID"
                                     THEN n ELSE s.l1[d][b].st
    BY <1>0, <1>1, SnoopedAlike
  <2>3. "MODIFIED" \in States
    BY DEF States
  <2>4. /\ IsCaches(t) /\ t.l1 = exclusive.l1 /\ t.sent = exclusive.sent
        /\ t.failed = exclusive.failed
        /\ \A k \in Llcs, b \in Addrs :
             t.llc[k][b].st = IF k = l /\ b = a THEN "MODIFIED"
                                                ELSE exclusive.llc[k][b].st
    BY <1>1, <2>1, <2>2, <2>3, SetStateKeeps DEF Alike
  <2> HIDE DEF l
  <2>5. Included(exclusive) => Included(t)
    BY <2>4, CoherentAssumption DEF Included, IncludedAt
  <2>6. ASSUME NEW d \in L1s, d # c, LlcOf[d] = l PROVE t.l1[d][a].st = "INVALID"
    <3>1. exclusive.l1[d][a].st = IF s.l1[d][a].st # "INVALID" THEN n ELSE s.l1[d][a].st
      BY <2>2, <2>6 DEF L1sOf
    <3> QED
      BY <1>0, <2>4, <3>1
  <2>7. Lowered(s, t, l)
    BY <2>2, <2>4 DEF Lowered
  <2> QED
    BY <1>2, <2>2, <2>4, <2>5, <2>6, <2>7 DEF Alike, l
<1>3. CASE o \in Reads
  <2>1. t = shared \/ t = s
    BY <1>3 DEF Satisfied
  <2> HIDE DEF shared, skip, n, h
  <2>2. /\ Alike(s, shared) /\ Lowered(s, shared, l)
        /\ Included(s) => Included(shared) /\ shared.failed = s.failed
    BY <1>0, <1>1, SnoopedAlike
  <2>3. Alike(s, s) /\ Lowered(s, s, l)
    BY DEF Alike, Lowered
  <2> QED
    BY <1>3, <2>1, <2>2, <2>3 DEF Alike
<1> QED
  BY <1>2, <1>3

LEMMA WroteAlike ==
  ASSUME NEW s, IsCaches(s), NEW c \in L1s, NEW a \in Addrs,
         NEW t, t = Wrote(s, c, a)
  PROVE  /\ Alike(s, t) /\ t.failed = s.failed
         /\ \A d \in L1s, b \in Addrs : t.l1[d][b].st = s.l1[d][b].st
<1> DEFINE first == [d \in L1s |-> [s.l1[d] EXCEPT ![a] =
                       IF d = c THEN [@ EXCEPT !.new = TRUE] ELSE [@ EXCEPT !.new = FALSE]]]
           last == [k \in Llcs |-> [s.llc[k] EXCEPT ![a].new = FALSE]]
           fresh(copy) == [copy EXCEPT !.new = TRUE]
           stale(copy) == [copy EXCEPT !.new = FALSE]
<1>0. \A copy \in Copy : /\ fresh(copy) \in Copy /\ fresh(copy).st = copy.st
                         /\ stale(copy) \in Copy /\ stale(copy).st = copy.st
  BY DEF Copy
<1>1. t = [s EXCEPT !.l1 = first, !.llc = last]
  BY DEF Wrote
<1>2. /\ first \in [L1s -> [Addrs -> Copy]]
      /\ \A d \in L1s, b \in Addrs : first[d][b].st = s.l1[d][b].st
  <2>1. first = [d \in L1s |-> [s.l1[d] EXCEPT ![a] =
                    IF d = c THEN fresh(@) ELSE stale(@)]]
    OBVIOUS
  <2> HIDE DEF fresh, stale, first, last
  <2> QED
    BY <1>0, <2>1 DEF IsCaches
<1>3. /\ last \in [Llcs -> [Addrs -> Copy]]
      /\ \A k \in Llcs, b \in Addrs : last[k][b].st = s.llc[k][b].st
  <2>1. last = [k \in Llcs |-> [s.llc[k] EXCEPT ![a] = stale(@)]]
    OBVIOUS
  <2> HIDE DEF fresh, stale, first, last
  <2> QED
    BY <1>0, <2>1 DEF IsCaches
<1> HIDE DEF first, last
<1>4. /\ IsCaches(t) /\ t.l1 = first /\ t.llc = last /\ t.sent = s.sent
      /\ t.failed = s.failed
  BY <1>1, <1>2, <1>3 DEF IsCaches
<1> HIDE DEF fresh, stale
<1> QED
  BY <1>2, <1>3, <1>4 DEF Alike

LEMMA InsertL1Alike ==
  ASSUME NEW s, IsCaches(s), NEW c \in L1s, NEW a \in Addrs,
         NEW victim \in Addrs \cup {None},
         NEW t, t = InsertL1(s, c, a, s.llc[LlcOf[c]][a], victim)
  PROVE  /\ Alike(s, t)
         /\ Included(s) => t.failed = s.failed
         /\ t.l1[c][a] = s.llc[LlcOf[c]][a]
         /\ \A d \in L1s : d # c => t.l1[d] = s.l1[d]
<1> DEFINE l == LlcOf[c]
           copy == s.llc[l][a]
           line == [b \in Addrs |-> IF b = a THEN copy
                                    ELSE IF b = victim THEN Invalid ELSE s.l1[c][b]]
           put == PutL1(s, c, line)
           written == [put.llc[l][victim] EXCEPT !.new = s.l1[c][victim].new]
           kept == Put(put, l, victim, written)
           ok == s.llc[l][victim].st = "MODIFIED"
<1>1. l \in Llcs
  BY CoherentAssumption
<1>2. line \in [Addrs -> Copy] /\ line[a] = copy
  BY <1>1, InvalidIsCopy DEF IsCaches
<1>3. /\ IsCaches(put)
      /\ put.llc = s.llc /\ put.sent = s.sent /\ put.failed = s.failed
      /\ \A d \in L1s : put.l1[d] = IF d = c THEN line ELSE s.l1[d]
  <2> HIDE DEF line
  <2> QED
    BY <1>2, PutL1Keeps
<1>4. /\ Alike(s, put) /\ put.failed = s.failed /\ put.l1[c][a] = copy
      /\ \A d \in L1s : d # c => put.l1[d] = s.l1[d]
  <2> HIDE DEF put
  <2> QED
    BY <1>2, <1>3 DEF Alike
<1>5. CASE victim # None /\ s.l1[c][victim].st = "MODIFIED"
  <2>0. victim \in Addrs
    BY <1>5
  <2>1. t = Check(kept, ok, "Got_writeback_for_non_MODIFIED_line")
    <3>1. [put EXCEPT !.llc[l][victim].new = s.l1[c][victim].new] = kept
      <4> HIDE DEF put
      <4> QED
        BY <1>3 DEF Put, IsCaches
    <3> QED
      BY <1>5, <3>1 DEF InsertL1, PutL1
  <2> HIDE DEF put
  <2>2. written \in Copy /\ written.st = put.llc[l][victim].st
    <3>1. put.llc[l][victim] \in Copy /\ s.l1[c][victim] \in Copy
      BY <1>1, <1>3, <2>0 DEF IsCaches
    <3> QED
      BY <3>1 DEF Copy
  <2> HIDE DEF written
  <2>3. /\ IsCaches(kept) /\ kept.l1 = put.l1 /\ kept.sent = put.sent
        /\ kept.failed = put.failed
        /\ \A k \in Llcs, b \in Addrs :
             kept.llc[k][b] = IF k = l /\ b = victim THEN written ELSE put.llc[k][b]
    BY <1>1, <1>3, <2>0, <2>2, PutKeeps
  <2> HIDE DEF kept
  <2>4. Alike(put, kept)
    BY <2>2, <2>3 DEF Alike
  <2>5. Included(s) => ok
    BY <1>5, <2>0 DEF Included, IncludedAt
  <2> HIDE DEF ok
  <2>6. Alike(kept, t) /\ t.l1 = kept.l1 /\ (ok => t = kept)
    BY <2>1, <2>3, CheckAlike
  <2>7. Alike(s, t)
    BY <1>4, <2>4, <2>6, AlikeTwice
  <2> QED
    BY <1>4, <2>3, <2>5, <2>6, <2>7
<1>6. CASE ~(victim # None /\ s.l1[c][victim].st = "MODIFIED")
  <2>1. t = put
    BY <1>6 DEF InsertL1, PutL1
  <2> HIDE DEF put
  <2> QED
    BY <1>4, <2>1
<1> QED
  BY <1>5, <1>6

(* A victim leaves with a message giving it up.                            *)
InsertsAt(s, t, l, a, copy, victim) ==
  /\ Lowered(s, t, l)
  /\ s.llc[l][a].st = "INVALID" => t.failed = s.failed
  /\ \A k \in Llcs, b \in Addrs :
       t.llc[k][b].st = IF k = l /\ b = a THEN copy.st
                        ELSE IF k = l /\ b = victim THEN "INVALID"
                        ELSE s.llc[k][b].st
  /\ victim = None => t.sent = s.sent
  /\ victim # None => \E m \in ToDirectory :
       m.t \in GivingUp /\ m.a = victim /\ t.sent = Append(s.sent, m)

LEMMA InsertLlcEffect ==
  ASSUME NEW s, IsCaches(s), NEW l \in Llcs, NEW a \in Addrs,
         NEW copy \in Copy, NEW victim \in Addrs \cup {None}, victim # a,
         NEW t, t = InsertLlc(s, l, a, copy, victim)
  PROVE  InsertsAt(s, t, l, a, copy, victim)
<1> USE DEF InsertsAt
<1> DEFINE ok == s.llc[l][a].st = "INVALID"
           checked == Check(s, ok, "we_already_have_this_line")
<1>1. Alike(s, checked) /\ checked.l1 = s.l1 /\ checked.llc = s.llc /\ (ok => checked = s)
  <2> HIDE DEF ok
  <2> QED
    BY CheckAlike
<1>0. checked = Check(s, s.llc[l][a].st = "INVALID", "we_already_have_this_line")
  OBVIOUS
<1> HIDE DEF checked
<1>2. CASE victim = None
  <2>1. t = Put(checked, l, a, copy)
    BY <1>0, <1>2 DEF InsertLlc, Put
  <2>2. /\ t.l1 = checked.l1 /\ t.failed = checked.failed /\ t.sent = checked.sent
        /\ \A k \in Llcs, b \in Addrs :
             t.llc[k][b] = IF k = l /\ b = a THEN copy ELSE checked.llc[k][b]
    BY <1>1, <2>1, PutKeeps DEF Alike
  <2>3. \A b \in Addrs : b # victim
    BY <1>2, CoherentAssumption
  <2> QED
    BY <1>1, <1>2, <2>2, <2>3 DEF Alike, Lowered
<1>3. CASE victim # None
  <2> DEFINE back == Snoop(checked, l, victim, {}, "INVALID")
             old == back.llc[l][victim]
             left == Put(back, l, victim, Invalid)
             gone == Put(left, l, a, copy)
  <2>0. victim \in Addrs
    BY <1>3
  <2>1. t = IF old.st = "MODIFIED" THEN Send(gone, "FLUSH_REP", victim, old.new)
                                   ELSE Send(gone, "INV_REP", victim, FALSE)
    <3>1. gone = [back EXCEPT !.llc[l] = [@ EXCEPT ![victim] = Invalid, ![a] = copy]]
      <4>1. IsCaches(back)
        BY <1>1, <2>0, SnoopKeeps DEF Alike
      <4> HIDE DEF back
      <4> QED
        BY <4>1 DEF Put, IsCaches
    <3> HIDE DEF gone, left
    <3> QED
      BY <1>0, <1>3, <3>1 DEF InsertLlc
  <2>2. /\ IsCaches(back) /\ back.failed = checked.failed /\ back.sent = checked.sent
        /\ \A c \in L1s, b \in Addrs :
             back.l1[c][b].st = IF c \in L1sOf(l) \ {} /\ b = victim
                                   /\ checked.l1[c][b].st # "INVALID"
                                THEN "INVALID" ELSE checked.l1[c][b].st
        /\ \A k \in Llcs, b \in Addrs : back.llc[k][b].st = checked.llc[k][b].st
    BY <1>1, <2>0, SnoopKeeps DEF Alike
  <2> HIDE DEF back
  <2>3. /\ IsCaches(left) /\ left.failed = back.failed /\ left.l1 = back.l1
        /\ left.sent = back.sent
        /\ \A k \in Llcs, b \in Addrs :
             left.llc[k][b] = IF k = l /\ b = victim THEN Invalid ELSE back.llc[k][b]
    BY <2>0, <2>2, InvalidIsCopy, PutKeeps
  <2> HIDE DEF left
  <2>4. /\ IsCaches(gone) /\ gone.failed = left.failed /\ gone.l1 = left.l1
        /\ gone.sent = left.sent
        /\ \A k \in Llcs, b \in Addrs :
             gone.llc[k][b] = IF k = l /\ b = a THEN copy ELSE left.llc[k][b]
    BY <2>3, PutKeeps
  <2> HIDE DEF gone
  <2>5. old.new \in BOOLEAN
    BY <2>0, <2>2 DEF IsCaches, Copy
  <2> HIDE DEF old
  <2>6. /\ t.l1 = gone.l1 /\ t.llc = gone.llc /\ t.failed = gone.failed
        /\ \E m \in ToDirectory :
             m.t \in GivingUp /\ m.a = victim /\ t.sent = Append(gone.sent, m)
    <3> DEFINE f == "FLUSH_REP"
               i == "INV_REP"
               no == FALSE
               new == old.new
    <3>1. /\ f \in Requests \cup Answers /\ i \in Requests \cup Answers
          /\ no \in BOOLEAN /\ new \in BOOLEAN
          /\ f \in GivingUp /\ i \in GivingUp
          /\ t = IF old.st = "MODIFIED" THEN Send(gone, f, victim, new)
                                        ELSE Send(gone, i, victim, no)
      BY <2>1, <2>5 DEF Answers, GivingUp
    <3> HIDE DEF f, i, no, new
    <3>4. IsCaches(gone)
      BY <2>4
    <3>2. CASE old.st = "MODIFIED"
      <4> DEFINE m == Msg(f, victim, new)
      <4>2. t = Send(gone, f, victim, new)
        BY <3>1, <3>2
      <4>3. f \in Requests \cup Answers /\ new \in BOOLEAN
        BY <3>1
      <4>1. /\ t.l1 = gone.l1 /\ t.llc = gone.llc /\ t.failed = gone.failed
            /\ t.sent = Append(gone.sent, m) /\ m \in ToDirectory
            /\ m.t = f /\ m.a = victim
        BY <2>0, <3>4, <4>2, <4>3, SendAlike
      <4> HIDE DEF m
      <4> QED
        BY <3>1, <4>1
    <3>3. CASE old.st # "MODIFIED"
      <4> DEFINE m == Msg(i, victim, no)
      <4>2. t = Send(gone, i, victim, no)
        BY <3>1, <3>3
      <4>3. i \in Requests \cup Answers /\ no \in BOOLEAN
        BY <3>1
      <4>1. /\ t.l1 = gone.l1 /\ t.llc = gone.llc /\ t.failed = gone.failed
            /\ t.sent = Append(gone.sent, m) /\ m \in ToDirectory
            /\ m.t = i /\ m.a = victim
        BY <2>0, <3>4, <4>2, <4>3, SendAlike
      <4> HIDE DEF m
      <4> QED
        BY <3>1, <4>1
    <3> QED
      BY <3>2, <3>3
  <2>7. \A k \in Llcs, b \in Addrs :
          t.llc[k][b].st = IF k = l /\ b = a THEN copy.st
                           ELSE IF k = l /\ b = victim THEN "INVALID"
                           ELSE s.llc[k][b].st
    BY <1>1, <2>2, <2>3, <2>4, <2>6, InvalidIsCopy
  <2>8. Lowered(s, t, l)
    BY <1>1, <2>2, <2>3, <2>4, <2>6 DEF Lowered, L1sOf
  <2> QED
    BY <1>1, <1>3, <2>2, <2>3, <2>4, <2>6, <2>7, <2>8 DEF Alike
<1> QED
  BY <1>2, <1>3

-----------------------------------------------------------------------------
(* What a step leaves in the channels, data apart.                         *)
LEMMA CommitKinds ==
  ASSUME TypeOK, NEW s, IsCaches(s), NEW l \in Llcs, NEW written \in Addrs \cup {None},
         Commit(s, l, written)
  PROVE  /\ l1' = s.l1 /\ llc' = s.llc /\ failed' = s.failed
         /\ s.sent = <<>> => \A k \in Llcs : Kinds(toDir'[k]) = Kinds(toDir[k])
         /\ \A m \in ToDirectory : s.sent = Append(<<>>, m) /\ written = None =>
              \A k \in Llcs : Kinds(toDir'[k]) =
                IF k = l THEN Append(Kinds(toDir[k]), <<m.t, m.a>>) ELSE Kinds(toDir[k])
<1>1. toDir \in [Llcs -> Seq(ToDirectory)] /\ \A k \in Llcs : toDir[k] \in Seq(ToDirectory)
  BY DEF TypeOK
<1>2. l1' = s.l1 /\ llc' = s.llc /\ failed' = s.failed
  BY DEF Commit
<1>3. ASSUME s.sent = <<>>, NEW k \in Llcs PROVE Kinds(toDir'[k]) = Kinds(toDir[k])
  <2>1. CASE written = None
    <3>1. toDir'[k] = IF k = l THEN toDir[l] \o <<>> ELSE toDir[k]
      BY <1>1, <1>3, <2>1 DEF Commit
    <3>2. toDir[l] \o <<>> = toDir[l]
      BY <1>1
    <3> QED
      BY <3>1, <3>2
  <2>2. CASE written # None
    <3>1. toDir'[k] = Outdated(toDir[k], written) \o <<>>
      BY <1>3, <2>2 DEF Commit
    <3>2. Outdated(toDir[k], written) \in Seq(ToDirectory)
      BY <1>1, OutdatedTyped DEF ToDirectory
    <3>3. toDir'[k] = Outdated(toDir[k], written)
      BY <3>1, <3>2
    <3> QED
      BY <1>1, <3>3, KindsTyped DEF ToDirectory
  <2> QED
    BY <2>1, <2>2
<1>4. ASSUME NEW m \in ToDirectory, s.sent = Append(<<>>, m), written = None, NEW k \in Llcs
      PROVE  Kinds(toDir'[k]) = IF k = l THEN Append(Kinds(toDir[k]), <<m.t, m.a>>)
                                         ELSE Kinds(toDir[k])
  <2>1. toDir'[k] = IF k = l THEN toDir[l] \o Append(<<>>, m) ELSE toDir[k]
    BY <1>1, <1>4 DEF Commit
  <2>2. toDir[l] \o Append(<<>>, m) = Append(toDir[l], m)
    BY <1>1
  <2>3. Kinds(Append(toDir[l], m)) = Append(Kinds(toDir[l]), <<m.t, m.a>>)
    BY <1>1, KindsTyped DEF ToDirectory
  <2> QED
    BY <2>1, <2>2, <2>3
<1> QED
  BY <1>2, <1>3, <1>4

LEMMA OutdatedKinds ==
  ASSUME TypeOK, NEW a,
         toLlc' = [k \in Llcs |-> Outdated(toLlc[k], a)] \/ toLlc' = toLlc
  PROVE  \A k \in Llcs : Kinds(toLlc'[k]) = Kinds(toLlc[k])
<1>1. \A k \in Llcs : toLlc[k] \in Seq(FromDirectory)
  BY DEF TypeOK
<1>2. \A k \in Llcs : Kinds(Outdated(toLlc[k], a)) = Kinds(toLlc[k])
  BY <1>1, KindsTyped DEF FromDirectory
<1>3. CASE toLlc' = [k \in Llcs |-> Outdated(toLlc[k], a)]
  <2>1. \A k \in Llcs : toLlc'[k] = Outdated(toLlc[k], a)
    BY <1>3
  <2> QED
    BY <1>2, <2>1
<1>4. CASE toLlc' = toLlc
  BY <1>4
<1> QED
  BY <1>3, <1>4

(* The end of an operation the caches permit.                              *)
Permitted(s, c, a, o) == o = "PREFETCH" \/ Permissible(s.llc[LlcOf[c]][a].st, o)

LEMMA CompleteEffect ==
  ASSUME TypeOK, NEW s, IsCaches(s), s.sent = <<>>, NEW c \in L1s, NEW a \in Addrs, NEW o,
         Complete(s, c, a, o)
  PROVE  /\ \A k \in Llcs : /\ Kinds(toDir'[k]) = Kinds(toDir[k])
                            /\ Kinds(toLlc'[k]) = Kinds(toLlc[k])
         /\ \A k \in Llcs, b \in Addrs : llc'[k][b].st = s.llc[k][b].st
         /\ \A d \in L1s, b \in Addrs : d # c => l1'[d][b].st = s.l1[d][b].st
         /\ Included(s) /\ Permitted(s, c, a, o) => failed' = s.failed
         /\ o = "ATOMIC" => l1'[c][a].st = s.llc[LlcOf[c]][a].st
         /\ pc' = [pc EXCEPT ![c] = IF o = "ATOMIC" THEN "locked" ELSE "idle"]
         /\ op' = [op EXCEPT ![c] = None]
         /\ at' = [at EXCEPT ![c] = IF o = "ATOMIC" THEN a ELSE None]
<1> DEFINE l == LlcOf[c]
<1>1. l \in Llcs
  BY CoherentAssumption
<1>2. CASE o = "PREFETCH" /\ Prefetched(s, c)
  <2>1. /\ Commit(s, l, None) /\ toLlc' = toLlc
        /\ pc' = [pc EXCEPT ![c] = "idle"] /\ op' = [op EXCEPT ![c] = None]
        /\ at' = [at EXCEPT ![c] = None]
    BY <1>2 DEF Prefetched, CommitQuiet
  <2>2. /\ l1' = s.l1 /\ llc' = s.llc /\ failed' = s.failed
        /\ \A k \in Llcs : Kinds(toDir'[k]) = Kinds(toDir[k])
    BY <1>1, <2>1, CommitKinds
  <2> QED
    BY <1>2, <2>1, <2>2
<1>3. CASE o # "PREFETCH" /\ FillAndAccess(s, c, a, o)
  <2> DEFINE wrote == o = "WRITE"
             filled(victim) == InsertL1(s, c, a, s.llc[l][a], victim)
             done(victim) == IF wrote THEN Wrote(filled(victim), c, a) ELSE filled(victim)
             ok(victim) == Permissible(filled(victim).l1[c][a].st, o)
             checked(victim) == Check(done(victim), ok(victim), "Expected_to_be_valid_in_L1")
             written == IF wrote THEN a ELSE None
  <2>1. PICK victim \in L1Victims(s, c) :
          /\ Commit(checked(victim), l, written)
          /\ toLlc' = IF wrote THEN [k \in Llcs |-> Outdated(toLlc[k], a)] ELSE toLlc
          /\ pc' = [pc EXCEPT ![c] = IF o = "ATOMIC" THEN "locked" ELSE "idle"]
          /\ op' = [op EXCEPT ![c] = None]
          /\ at' = [at EXCEPT ![c] = IF o = "ATOMIC" THEN a ELSE None]
    BY <1>3 DEF FillAndAccess
  <2>2. victim \in Addrs \cup {None}
    BY DEF L1Victims, Resident
  <2>3. /\ Alike(s, filled(victim))
        /\ Included(s) => filled(victim).failed = s.failed
        /\ filled(victim).l1[c][a] = s.llc[l][a]
        /\ \A d \in L1s : d # c => filled(victim).l1[d] = s.l1[d]
    BY <2>2, InsertL1Alike
  <2>4. Permitted(s, c, a, o) => ok(victim)
    BY <1>3, <2>3 DEF Permitted
  <2> HIDE DEF filled, ok
  <2>5. /\ Alike(filled(victim), done(victim))
        /\ done(victim).failed = filled(victim).failed
        /\ \A d \in L1s, b \in Addrs :
             done(victim).l1[d][b].st = filled(victim).l1[d][b].st
    <3>1. Alike(filled(victim), filled(victim))
      BY <2>3 DEF Alike
    <3> QED
      BY <2>3, <3>1, WroteAlike DEF Alike
  <2> HIDE DEF done
  <2>6. /\ Alike(done(victim), checked(victim))
        /\ checked(victim).l1 = done(victim).l1
        /\ ok(victim) => checked(victim) = done(victim)
    BY <2>5, CheckAlike DEF Alike
  <2> HIDE DEF checked
  <2>7. Alike(s, checked(victim))
    BY <2>3, <2>5, <2>6, AlikeTwice
  <2>8. /\ l1' = checked(victim).l1 /\ llc' = checked(victim).llc
        /\ failed' = checked(victim).failed
        /\ \A k \in Llcs : Kinds(toDir'[k]) = Kinds(toDir[k])
    <3>1. written \in Addrs \cup {None}
      OBVIOUS
    <3> HIDE DEF written
    <3> QED
      BY <1>1, <2>1, <2>7, <3>1, CommitKinds DEF Alike
  <2>9. \A k \in Llcs : Kinds(toLlc'[k]) = Kinds(toLlc[k])
    BY <2>1, OutdatedKinds
  <2> QED
    BY <2>1, <2>3, <2>4, <2>5, <2>6, <2>7, <2>8, <2>9 DEF Alike
<1> QED
  BY <1>2, <1>3 DEF Complete

-----------------------------------------------------------------------------
(* The invariant of the directory, and of the network threads: they serve a*)
(* line that is there.                                                     *)
ServedHere ==
  \A l \in Llcs : net[l] # "idle" =>
    llc[l][served[l]].st \in {"SHARED", "EXCLUSIVE", "MODIFIED"}

DirectoryInv ==
  /\ \A l \in Llcs, a \in Addrs : Line(View(l, a), l, a)
  /\ ServedHere

LEMMA ViewTyped ==
  ASSUME TypeOK, NEW l \in Llcs, NEW a \in Addrs
  PROVE  IsView(View(l, a))
<1> DEFINE v == View(l, a)
<1>1. /\ v.up = Kinds(toDir[l]) /\ v.down = Kinds(toLlc[l]) /\ v.queue = dir[a].queue
      /\ v.st = llc[l][a].st /\ v.sharers = dir[a].sharers /\ v.owner = dir[a].owner
  BY DEF View
<1> HIDE DEF v
<1>2. /\ toDir[l] \in Seq(ToDirectory) /\ toLlc[l] \in Seq(FromDirectory)
      /\ llc[l][a] \in Copy
      /\ dir[a] \in [sharers : SUBSET Llcs, owner : Llcs \cup {None},
                     queue : Seq(Requests \X Llcs), asked : BOOLEAN]
  BY DEF TypeOK
<1>6. toDir[l] \in Seq(Message(Requests \cup Answers))
  BY <1>2 DEF ToDirectory
<1>7. toLlc[l] \in Seq(Message(Replies \cup SnoopRequests))
  BY <1>2 DEF FromDirectory
<1>8. v.up \in Seq(UpKinds)
  BY <1>1, <1>6, KindsTyped DEF UpKinds
<1>9. v.down \in Seq(DownKinds)
  BY <1>1, <1>7, KindsTyped DEF DownKinds
<1>3. v.up \in Seq(UpKinds) /\ v.down \in Seq(DownKinds)
  BY <1>8, <1>9
<1>4. v.st \in States
  BY <1>1, <1>2 DEF Copy
<1>5. /\ v.queue \in Seq(QueueKinds) /\ v.sharers \in SUBSET Llcs
      /\ v.owner \in Llcs \cup {None}
  BY <1>1, <1>2 DEF QueueKinds
<1> QED
  BY <1>3, <1>4, <1>5 DEF IsView, v

(* The line after the step.                                                *)
After(l, a) ==
  [up |-> Kinds(toDir'[l]), down |-> Kinds(toLlc'[l]), st |-> llc'[l][a].st,
   sharers |-> dir'[a].sharers, owner |-> dir'[a].owner, queue |-> dir'[a].queue,
   asked |-> dir'[a].asked, waiters |-> waiters'[l][a], served |-> served'[l]]

LEMMA DirectoryAfter ==
  ASSUME \A l \in Llcs, a \in Addrs : Line(After(l, a), l, a), ServedHere'
  PROVE  DirectoryInv'
<1>1. ASSUME NEW l \in Llcs, NEW a \in Addrs PROVE Line(View(l, a), l, a)'
  <2>1. View(l, a)' = After(l, a)
    BY DEF View, After
  <2> QED
    BY <2>1
<1> QED
  BY <1>1 DEF DirectoryInv

(* A step that does not touch line b of cache k.                           *)
Untouched(k, b) ==
  /\ SameFor(Kinds(toDir[k]), Kinds(toDir'[k]), b)
  /\ SameFor(Kinds(toLlc[k]), Kinds(toLlc'[k]), b)
  /\ \/ llc'[k][b].st = llc[k][b].st
     \/ llc[k][b].st = "EXCLUSIVE" /\ llc'[k][b].st = "MODIFIED"
  /\ dir'[b] = dir[b]
  /\ waiters'[k][b] # <<>> <=> waiters[k][b] # <<>>
  /\ served'[k] = b <=> served[k] = b

LEMMA CellKept ==
  ASSUME NEW k \in Llcs, NEW b \in Addrs, Line(View(k, b), k, b), Untouched(k, b)
  PROVE  Line(After(k, b), k, b)
<1> DEFINE v == View(k, b)
           w == After(k, b)
<1>1. /\ v.up = Kinds(toDir[k]) /\ w.up = Kinds(toDir'[k])
      /\ v.down = Kinds(toLlc[k]) /\ w.down = Kinds(toLlc'[k])
      /\ v.st = llc[k][b].st /\ w.st = llc'[k][b].st
      /\ v.waiters = waiters[k][b] /\ w.waiters = waiters'[k][b]
      /\ v.served = served[k] /\ w.served = served'[k]
      /\ w.sharers = v.sharers /\ w.owner = v.owner
      /\ w.queue = v.queue /\ w.asked = v.asked
  BY DEF View, After, Untouched
<1>2. Line(v, k, b)
  OBVIOUS
<1> HIDE DEF v, w
<1>4. SameFor(v.up, w.up, b) /\ SameFor(v.down, w.down, b)
  BY <1>1 DEF Untouched
<1>5. w.st = v.st \/ (v.st = "EXCLUSIVE" /\ w.st = "MODIFIED")
  BY <1>1 DEF Untouched
<1>6. w.waiters # <<>> <=> v.waiters # <<>>
  BY <1>1 DEF Untouched
<1>7. w.served = b <=> v.served = b
  BY <1>1 DEF Untouched
<1>3. Line(w, k, b)
  BY <1>1, <1>2, <1>4, <1>5, <1>6, <1>7, LineKept
<1> QED
  BY <1>3 DEF w

-----------------------------------------------------------------------------
(* What the assertions look at: an atomic operation keeps its line, the    *)
(* network thread serving or not; an upgrade is asked for a writer, who is *)
(* the first to be served; only an upgrade gives a thread that was about to*)
(* drop its copy a modified one, and then its line is being served.        *)
LockedHeld ==
  \A c \in L1s : pc[c] = "locked" =>
    l1[c][at[c]].st = "MODIFIED" /\ net[LlcOf[c]] # "serving"

UpgradedFirst(c) ==
  LET l == LlcOf[c]
  IN /\ net[l] = "serving" /\ served[l] = at[c]
     /\ op[FrontWaiter(l)] \notin Reads /\ llc[l][at[c]].st = "MODIFIED"
MissDropsClean ==
  \A c \in L1s :
    /\ pc[c] = "upgrading" /\ op[c] # "PREFETCH" /\ l1[c][at[c]].st = "MODIFIED"
    => UpgradedFirst(c)

UpgradeUnderway(v, l, a) ==
  \/ Has(v.up, {"UPGRADE_REQ"}, a)
  \/ Has(v.queue, {"UPGRADE_REQ"}, l)
  \/ Has(v.down, {"UPGRADE_REP"}, a)
UpgradeWrites ==
  \A l \in Llcs, a \in Addrs :
    UpgradeUnderway(View(l, a), l, a) => op[Head(waiters[l][a])] \notin Reads

ControllerInv == failed = {} /\ LockedHeld /\ MissDropsClean /\ UpgradeWrites

(* The thread an upgrade is asked for waits for it.                        *)
LEMMA UpgradeAwaited ==
  ASSUME CoherentInv, DirectoryInv, NEW l \in Llcs, NEW a \in Addrs,
         UpgradeUnderway(View(l, a), l, a)
  PROVE  /\ served[l] # a /\ waiters[l][a] # <<>>
         /\ Head(waiters[l][a]) \in L1s
         /\ pc[Head(waiters[l][a])] = "waiting" /\ at[Head(waiters[l][a])] = a
         /\ LlcOf[Head(waiters[l][a])] = l
<1> DEFINE v == View(l, a)
<1>1. /\ Line(v, l, a) /\ v.waiters = waiters[l][a] /\ v.served = served[l]
      /\ UpgradeUnderway(v, l, a)
  BY DEF DirectoryInv, View
<1> HIDE DEF v
<1>2. \/ Has(v.up, Requests, a) \/ Has(v.queue, Requests, l) \/ Has(v.down, Replies, a)
  BY <1>1, HasRequest, HasReply DEF UpgradeUnderway
<1>3. served[l] # a /\ waiters[l][a] # <<>>
  BY <1>1, <1>2 DEF Line, Transaction
<1> DEFINE c == Head(waiters[l][a])
<1>4. waiters[l][a] \in Seq(L1s) /\ WaitersListed
  BY DEF CoherentInv, TypeOK
<1>5. c \in L1s /\ 1 \in DOMAIN waiters[l][a] /\ waiters[l][a][1] = c
  BY <1>3, <1>4
<1> HIDE DEF c
<1>6. 1 \in Entries(c, l, a)
  BY <1>3, <1>5 DEF Entries, Woken
<1>7. pc[c] = "waiting" /\ at[c] = a /\ LlcOf[c] = l
  BY <1>4, <1>5, <1>6 DEF WaitersListed
<1> QED
  BY <1>3, <1>5, <1>7 DEF c

(* A step of cache l holds for the caches above others what held.          *)
Elsewhere(l) ==
  /\ \A d \in L1s : LlcOf[d] # l =>
       /\ pc'[d] = pc[d] /\ op'[d] = op[d] /\ at'[d] = at[d]
       /\ \A b \in Addrs : l1'[d][b].st = l1[d][b].st
  /\ \A k \in Llcs : k # l =>
       /\ net'[k] = net[k] /\ served'[k] = served[k] /\ waiters'[k] = waiters[k]
       /\ \A b \in Addrs : llc'[k][b].st = llc[k][b].st

LEMMA ElsewhereHeld ==
  ASSUME CoherentInv, LockedHeld, MissDropsClean, failed = {}, NEW l \in Llcs, Elsewhere(l),
         \A d \in L1s : LlcOf[d] = l /\ pc'[d] = "locked" =>
           l1'[d][at'[d]].st = "MODIFIED" /\ net'[l] # "serving",
         \A d \in L1s :
           /\ LlcOf[d] = l /\ pc'[d] = "upgrading" /\ op'[d] # "PREFETCH"
           /\ l1'[d][at'[d]].st = "MODIFIED"
           => UpgradedFirst(d)'
  PROVE  LockedHeld' /\ MissDropsClean'
<1>1. /\ \A d \in L1s : LlcOf[d] \in Llcs /\ (pc[d] # "idle" => at[d] \in Addrs)
      /\ TypeOK /\ WaitersListed /\ ServesSomebody
  BY CoherentAssumption DEF CoherentInv, TypeOK
<1>2. ASSUME NEW d \in L1s, pc'[d] = "locked"
      PROVE  l1'[d][at'[d]].st = "MODIFIED" /\ net'[LlcOf[d]] # "serving"
  <2>1. CASE LlcOf[d] = l
    BY <1>2, <2>1
  <2>2. CASE LlcOf[d] # l
    BY <1>1, <1>2, <2>2 DEF Elsewhere, LockedHeld
  <2> QED
    BY <2>1, <2>2
<1>3. ASSUME NEW d \in L1s, pc'[d] = "upgrading", op'[d] # "PREFETCH",
             l1'[d][at'[d]].st = "MODIFIED"
      PROVE  UpgradedFirst(d)'
  <2>1. CASE LlcOf[d] = l
    BY <1>3, <2>1
  <2>2. CASE LlcOf[d] # l
    <3> DEFINE k == LlcOf[d]
    <3>1. k \in Llcs /\ k # l /\ at[d] \in Addrs /\ at'[d] = at[d]
      BY <1>1, <1>3, <2>2 DEF Elsewhere
    <3>2. UpgradedFirst(d)
      BY <1>1, <1>3, <2>2 DEF Elsewhere, MissDropsClean
    <3>3. FrontWaiter(k) \in L1s /\ LlcOf[FrontWaiter(k)] = k
      BY <1>1, <3>1, <3>2, FrontWaits DEF UpgradedFirst
    <3>4. FrontWaiter(k)' = FrontWaiter(k)
      BY <3>1 DEF Elsewhere, FrontWaiter
    <3>5. op'[FrontWaiter(k)] = op[FrontWaiter(k)]
      BY <3>1, <3>3 DEF Elsewhere
    <3> QED
      BY <3>1, <3>2, <3>4, <3>5 DEF Elsewhere, UpgradedFirst
  <2> QED
    BY <2>1, <2>2
<1> QED
  BY <1>2, <1>3 DEF LockedHeld, MissDropsClean

(* A step that leaves the lines as they were, but for those it is about;   *)
(* whoever waits to be served keeps its operation and its place.           *)
Followed(k, b) ==
  \/ Untouched(k, b)
  \/ /\ Line(After(k, b), k, b)
     /\ UpgradeUnderway(After(k, b), k, b) =>
          UpgradeUnderway(View(k, b), k, b) \/ op'[Head(waiters'[k][b])] \notin Reads

WaitersKept ==
  /\ \A c \in L1s : pc[c] = "waiting" /\ served[LlcOf[c]] # at[c] => op'[c] = op[c]
  /\ \A l \in Llcs, a \in Addrs : waiters[l][a] # <<>> /\ served[l] # a =>
       Head(waiters'[l][a]) = Head(waiters[l][a])

LEMMA LinesFollowed ==
  ASSUME CoherentInv, DirectoryInv, UpgradeWrites, WaitersKept, ServedHere',
         \A k \in Llcs, b \in Addrs : Followed(k, b)
  PROVE  DirectoryInv' /\ UpgradeWrites'
<1>1. ASSUME NEW k \in Llcs, NEW b \in Addrs
      PROVE  /\ Line(After(k, b), k, b)
             /\ UpgradeUnderway(After(k, b), k, b) => op'[Head(waiters'[k][b])] \notin Reads
  <2>1. Line(View(k, b), k, b) /\ Followed(k, b)
    BY DEF DirectoryInv
  <2>2. Line(After(k, b), k, b)
    BY <2>1, CellKept DEF Followed
  <2>3. ASSUME UpgradeUnderway(After(k, b), k, b)
        PROVE  \/ UpgradeUnderway(View(k, b), k, b)
               \/ op'[Head(waiters'[k][b])] \notin Reads
    <3>1. CASE Untouched(k, b)
      <4> DEFINE v == View(k, b)
                 w == After(k, b)
      <4>1. /\ v.up = Kinds(toDir[k]) /\ w.up = Kinds(toDir'[k])
            /\ v.down = Kinds(toLlc[k]) /\ w.down = Kinds(toLlc'[k])
            /\ dir'[b] = dir[b] => w.queue = v.queue
        BY DEF View, After
      <4>2. UpgradeUnderway(w, k, b)
        BY <2>3
      <4> HIDE DEF v, w
      <4>3. SameFor(v.up, w.up, b) /\ SameFor(v.down, w.down, b) /\ w.queue = v.queue
        BY <3>1, <4>1 DEF Untouched
      <4>4. UpgradeUnderway(v, k, b)
        BY <4>2, <4>3 DEF UpgradeUnderway, SameFor
      <4> QED
        BY <4>4 DEF v
    <3> QED
      BY <2>1, <2>3, <3>1 DEF Followed
  <2>4. ASSUME UpgradeUnderway(View(k, b), k, b)
        PROVE  op'[Head(waiters'[k][b])] \notin Reads
    <3> DEFINE c == Head(waiters[k][b])
    <3>1. /\ served[k] # b /\ waiters[k][b] # <<>> /\ c \in L1s
          /\ pc[c] = "waiting" /\ at[c] = b /\ LlcOf[c] = k
      BY <2>4, UpgradeAwaited
    <3>2. op[c] \notin Reads
      BY <2>4 DEF UpgradeWrites
    <3>3. Head(waiters'[k][b]) = c
      BY <3>1 DEF WaitersKept
    <3> HIDE DEF c
    <3>4. op'[c] = op[c]
      BY <3>1 DEF WaitersKept
    <3> QED
      BY <3>2, <3>3, <3>4
  <2> QED
    BY <2>2, <2>3, <2>4
<1>2. DirectoryInv'
  BY <1>1, DirectoryAfter
<1>3. ASSUME NEW k \in Llcs, NEW b \in Addrs, UpgradeUnderway(View(k, b), k, b)'
      PROVE  (op[Head(waiters[k][b])] \notin Reads)'
  <2>1. View(k, b)' = After(k, b)
    BY DEF View, After
  <2>2. UpgradeUnderway(After(k, b), k, b)
    BY <1>3, <2>1
  <2> QED
    BY <1>1, <2>2
<1>4. UpgradeWrites'
  BY <1>3 DEF UpgradeWrites
<1> QED
  BY <1>2, <1>4

(* A step that sends and receives nothing.                                 *)
LEMMA QuietFollowed ==
  ASSUME \A k \in Llcs : /\ Kinds(toDir'[k]) = Kinds(toDir[k])
                         /\ Kinds(toLlc'[k]) = Kinds(toLlc[k]),
         \A k \in Llcs, b \in Addrs :
           \/ llc'[k][b].st = llc[k][b].st
           \/ llc[k][b].st = "EXCLUSIVE" /\ llc'[k][b].st = "MODIFIED",
         UNCHANGED <<dir, waiters, served>>
  PROVE  \A k \in Llcs, b \in Addrs : Followed(k, b)
<1>1. ASSUME NEW k \in Llcs, NEW b \in Addrs PROVE Followed(k, b)
  <2>1. /\ SameFor(Kinds(toDir[k]), Kinds(toDir'[k]), b)
        /\ SameFor(Kinds(toLlc[k]), Kinds(toLlc'[k]), b)
    BY SameUnchanged
  <2> QED
    BY <2>1 DEF Followed, Untouched
<1> QED
  BY <1>1

LEMMA ServedTyped ==
  ASSUME TypeOK
  PROVE  \A k \in Llcs : net[k] # "idle" => served[k] \in Addrs
BY DEF TypeOK

LEMMA QuietStep ==
  ASSUME CoherentInv, DirectoryInv, UpgradeWrites, WaitersKept,
         \A k \in Llcs : /\ Kinds(toDir'[k]) = Kinds(toDir[k])
                         /\ Kinds(toLlc'[k]) = Kinds(toLlc[k])
                         /\ net'[k] # "idle" => net[k] # "idle",
         \A k \in Llcs, b \in Addrs :
           \/ llc'[k][b].st = llc[k][b].st
           \/ llc[k][b].st = "EXCLUSIVE" /\ llc'[k][b].st = "MODIFIED",
         UNCHANGED <<dir, waiters, served>>
  PROVE  DirectoryInv' /\ UpgradeWrites'
<1>1. \A k \in Llcs, b \in Addrs : Followed(k, b)
  BY QuietFollowed
<1>2. ServedHere'
  BY ServedTyped DEF CoherentInv, DirectoryInv, ServedHere
<1> QED
  BY <1>1, <1>2, LinesFollowed

(* User threads that do not hold the set lock exclusive.                   *)
LEMMA WriteEffect ==
  ASSUME TypeOK, NEW c \in L1s, NEW a \in Addrs, NEW ok, NEW what,
         Commit(Check(Wrote(Now, c, a), ok, what), LlcOf[c], a),
         toLlc' = [k \in Llcs |-> Outdated(toLlc[k], a)]
  PROVE  /\ \A k \in Llcs : /\ Kinds(toDir'[k]) = Kinds(toDir[k])
                            /\ Kinds(toLlc'[k]) = Kinds(toLlc[k])
         /\ \A k \in Llcs, b \in Addrs : llc'[k][b].st = llc[k][b].st
         /\ \A d \in L1s, b \in Addrs : l1'[d][b].st = l1[d][b].st
         /\ ok => failed' = failed
<1> DEFINE s == Wrote(Now, c, a)
           t == Check(s, ok, what)
<1>1. /\ Alike(Now, s) /\ Now.sent = <<>> /\ Now.llc = llc /\ s.failed = failed
      /\ \A d \in L1s, b \in Addrs : s.l1[d][b].st = l1[d][b].st
  BY NowIsCaches, WroteAlike
<1> HIDE DEF s
<1>2. Alike(s, t) /\ t.l1 = s.l1 /\ (ok => t = s)
  BY <1>1, CheckAlike DEF Alike
<1>3. Alike(Now, t) /\ Commit(t, LlcOf[c], a)
  BY <1>1, <1>2, AlikeTwice DEF s
<1> HIDE DEF t
<1>4. /\ l1' = t.l1 /\ llc' = t.llc /\ failed' = t.failed
      /\ \A k \in Llcs : Kinds(toDir'[k]) = Kinds(toDir[k])
  BY <1>1, <1>3, CommitKinds, CoherentAssumption DEF Alike
<1>5. \A k \in Llcs : Kinds(toLlc'[k]) = Kinds(toLlc[k])
  BY OutdatedKinds
<1> QED
  BY <1>1, <1>2, <1>3, <1>4, <1>5 DEF Alike

LEMMA OutsideStep ==
  ASSUME CoherentInv, DirectoryInv, ControllerInv, failed' = {},
         \A k \in Llcs : /\ Kinds(toDir'[k]) = Kinds(toDir[k])
                         /\ Kinds(toLlc'[k]) = Kinds(toLlc[k]),
         \A k \in Llcs, b \in Addrs : llc'[k][b].st = llc[k][b].st,
         \A d \in L1s, b \in Addrs : l1'[d][b].st = l1[d][b].st,
         UNCHANGED <<dir, waiters, net, served>>,
         NEW c \in L1s, pc[c] # "waiting",
         \A d \in L1s \ {c} : pc'[d] = pc[d] /\ op'[d] = op[d] /\ at'[d] = at[d],
         pc'[c] = "locked" => /\ at'[c] \in Addrs /\ l1[c][at'[c]].st = "MODIFIED"
                              /\ net[LlcOf[c]] # "serving",
         pc'[c] = "upgrading" /\ op'[c] # "PREFETCH" =>
           at'[c] \in Addrs /\ l1[c][at'[c]].st # "MODIFIED"
  PROVE  DirectoryInv' /\ ControllerInv'
<1>1. TypeOK /\ WaitersListed /\ ServesSomebody /\ UpgradeWrites
  BY DEF CoherentInv, ControllerInv
<1>2. WaitersKept
  BY DEF WaitersKept
<1>3. DirectoryInv' /\ UpgradeWrites'
  BY <1>1, <1>2, QuietStep
<1>4. \A d \in L1s : pc[d] # "idle" => at[d] \in Addrs
  BY <1>1 DEF TypeOK
<1>5. LockedHeld'
  BY <1>4 DEF ControllerInv, LockedHeld
<1>6. ASSUME NEW d \in L1s, pc'[d] = "upgrading", op'[d] # "PREFETCH",
             l1'[d][at'[d]].st = "MODIFIED"
      PROVE  UpgradedFirst(d)'
  <2> DEFINE l == LlcOf[d]
  <2>1. d # c
    BY <1>6
  <2>2. UpgradedFirst(d) /\ at'[d] = at[d] /\ at[d] \in Addrs /\ l \in Llcs
    BY <1>4, <1>6, <2>1, CoherentAssumption DEF ControllerInv, MissDropsClean
  <2>3. pc[FrontWaiter(l)] = "waiting" /\ FrontWaiter(l) \in L1s
    BY <1>1, <2>2, FrontWaits DEF UpgradedFirst
  <2>4. op'[FrontWaiter(l)] = op[FrontWaiter(l)] /\ FrontWaiter(l)' = FrontWaiter(l)
    BY <2>3 DEF FrontWaiter
  <2> QED
    BY <2>2, <2>4 DEF UpgradedFirst
<1>7. MissDropsClean'
  BY <1>6 DEF MissDropsClean
<1> QED
  BY <1>3, <1>5, <1>7 DEF ControllerInv

LEMMA UserOutside ==
  ASSUME CoherentInv, DirectoryInv, ControllerInv, NEW c \in L1s, NEW a \in Addrs,
         \/ WriteHit(c, a) \/ AtomicHit(c, a) \/ AtomicUnlock(c)
         \/ \E o \in Ops : Miss(c, o, a)
         \/ DoPrefetch(c, a)
  PROVE  DirectoryInv' /\ ControllerInv'
<1>0. TypeOK /\ failed = {} /\ LockedHeld
  BY DEF CoherentInv, ControllerInv
<1>1. CASE WriteHit(c, a)
  <2>1. Wrote(Now, c, a) = Check(Wrote(Now, c, a), TRUE, None)
    BY DEF Check
  <2>2. /\ \A k \in Llcs : /\ Kinds(toDir'[k]) = Kinds(toDir[k])
                           /\ Kinds(toLlc'[k]) = Kinds(toLlc[k])
        /\ \A k \in Llcs, b \in Addrs : llc'[k][b].st = llc[k][b].st
        /\ \A d \in L1s, b \in Addrs : l1'[d][b].st = l1[d][b].st
        /\ failed' = failed
    BY <1>0, <1>1, <2>1, WriteEffect DEF WriteHit
  <2>3. /\ UNCHANGED <<dir, waiters, net, served, pc, op, at>> /\ pc[c] = "idle"
    BY <1>1 DEF WriteHit, threads
  <2> QED
    BY <1>0, <2>2, <2>3, OutsideStep
<1>2. CASE AtomicUnlock(c)
  <2> DEFINE x == at[c]
             ok == Permissible(l1[c][x].st, "WRITE")
  <2>1. x \in Addrs /\ ok
    BY <1>0, <1>2 DEF AtomicUnlock, TypeOK, LockedHeld, Permissible, Reads
  <2>2. /\ Commit(Check(Wrote(Now, c, x), ok, "Expected_to_find_address_in_L1_Cache"),
                  LlcOf[c], x)
        /\ toLlc' = [k \in Llcs |-> Outdated(toLlc[k], x)]
    BY <1>2 DEF AtomicUnlock
  <2>3. /\ UNCHANGED <<dir, waiters, net, served, op>> /\ pc[c] = "locked"
        /\ pc' = [pc EXCEPT ![c] = "idle"] /\ at' = [at EXCEPT ![c] = None]
    BY <1>2 DEF AtomicUnlock
  <2> HIDE DEF ok, x
  <2>4. /\ \A k \in Llcs : /\ Kinds(toDir'[k]) = Kinds(toDir[k])
                           /\ Kinds(toLlc'[k]) = Kinds(toLlc[k])
        /\ \A k \in Llcs, b \in Addrs : llc'[k][b].st = llc[k][b].st
        /\ \A d \in L1s, b \in Addrs : l1'[d][b].st = l1[d][b].st
        /\ failed' = failed
    BY <1>0, <2>1, <2>2, WriteEffect
  <2>5. /\ pc'[c] = "idle"
        /\ \A d \in L1s \ {c} : pc'[d] = pc[d] /\ op'[d] = op[d] /\ at'[d] = at[d]
    BY <1>0, <2>3 DEF TypeOK
  <2> QED
    BY <1>0, <2>3, <2>4, <2>5, OutsideStep
<1>3. CASE AtomicHit(c, a)
  <2>1. /\ UNCHANGED <<l1, llc, op, waiters, net, served, toDir, toLlc, dir, failed>>
        /\ pc[c] = "idle" /\ pc' = [pc EXCEPT ![c] = "locked"]
        /\ at' = [at EXCEPT ![c] = a]
        /\ net[LlcOf[c]] # "serving" /\ l1[c][a].st = "MODIFIED"
    BY <1>3 DEF AtomicHit, caches, SharedFree, Permissible, Reads
  <2>2. /\ pc'[c] = "locked" /\ at'[c] = a
        /\ \A d \in L1s \ {c} : pc'[d] = pc[d] /\ op'[d] = op[d] /\ at'[d] = at[d]
    BY <1>0, <2>1 DEF TypeOK
  <2> QED
    BY <1>0, <2>1, <2>2, OutsideStep
<1>4. CASE (\E o \in Ops : Miss(c, o, a)) \/ DoPrefetch(c, a)
  <2>1. PICK o : \/ Miss(c, o, a) /\ o \in Ops
                 \/ DoPrefetch(c, a) /\ o = "PREFETCH"
    BY <1>4
  <2>2. /\ UNCHANGED <<l1, llc, waiters, net, served, toDir, toLlc, dir, failed>>
        /\ pc[c] = "idle" /\ pc' = [pc EXCEPT ![c] = "upgrading"]
        /\ op' = [op EXCEPT ![c] = o] /\ at' = [at EXCEPT ![c] = a]
    BY <2>1 DEF Miss, DoPrefetch, caches
  <2>3. o = "PREFETCH" \/ l1[c][a].st # "MODIFIED"
    BY <2>1 DEF Miss, Permissible, Reads
  <2>4. /\ pc'[c] = "upgrading" /\ at'[c] = a /\ op'[c] = o
        /\ \A d \in L1s \ {c} : pc'[d] = pc[d] /\ op'[d] = op[d] /\ at'[d] = at[d]
    BY <1>0, <2>2 DEF TypeOK
  <2> QED
    BY <1>0, <2>2, <2>3, <2>4, OutsideStep
<1> QED
  BY <1>1, <1>2, <1>3, <1>4

(* An operation the last-level cache can satisfy is completed, by the      *)
(* thread itself or in the lock handed over to it.                         *)
LEMMA CompletedEffect ==
  ASSUME TypeOK, failed = {}, NEW c \in L1s, NEW a \in Addrs, NEW o,
         LlcHit(Now, c, a, o), NEW s, Alike(Now, s), Lowered(Now, s, LlcOf[c]),
         Included(s), s.failed = {},
         Complete(Satisfied(s, c, a, o), c, a, o)
  PROVE  /\ \A k \in Llcs : /\ Kinds(toDir'[k]) = Kinds(toDir[k])
                            /\ Kinds(toLlc'[k]) = Kinds(toLlc[k])
         /\ \A k \in Llcs, b \in Addrs :
              llc'[k][b].st = IF o \notin Reads /\ k = LlcOf[c] /\ b = a
                              THEN "MODIFIED" ELSE llc[k][b].st
         /\ o \notin Reads => llc[LlcOf[c]][a].st \in {"EXCLUSIVE", "MODIFIED"}
         /\ \A d \in L1s, b \in Addrs : d # c =>
              \/ l1'[d][b].st = l1[d][b].st
              \/ LlcOf[d] = LlcOf[c] /\ l1'[d][b].st # "MODIFIED"
         /\ o \notin Reads => \A d \in L1s :
              d # c /\ LlcOf[d] = LlcOf[c] => l1'[d][a].st = "INVALID"
         /\ o = "ATOMIC" => l1'[c][a].st = "MODIFIED"
         /\ failed' = {}
         /\ pc' = [pc EXCEPT ![c] = IF o = "ATOMIC" THEN "locked" ELSE "idle"]
         /\ op' = [op EXCEPT ![c] = None]
         /\ at' = [at EXCEPT ![c] = IF o = "ATOMIC" THEN a ELSE None]
<1> DEFINE l == LlcOf[c]
           t == Satisfied(s, c, a, o)
<1>1. /\ l \in Llcs /\ Now.sent = <<>> /\ Now.llc = llc /\ Now.l1 = l1
  BY CoherentAssumption DEF Now
<1>2. /\ IsCaches(s) /\ s.sent = <<>>
      /\ \A k \in Llcs, b \in Addrs : s.llc[k][b].st = llc[k][b].st
      /\ \A d \in L1s, b \in Addrs :
           \/ s.l1[d][b].st = l1[d][b].st
           \/ LlcOf[d] = l /\ s.l1[d][b].st # "MODIFIED"
  BY <1>1 DEF Alike, Lowered
<1>3. /\ IsCaches(t) /\ t.sent = <<>> /\ Lowered(s, t, l)
      /\ Included(t) /\ t.failed = {}
      /\ \A k \in Llcs, b \in Addrs :
           t.llc[k][b].st = IF o \notin Reads /\ k = l /\ b = a
                            THEN "MODIFIED" ELSE llc[k][b].st
      /\ o \notin Reads =>
           \A d \in L1s : d # c /\ LlcOf[d] = l => t.l1[d][a].st = "INVALID"
  BY <1>2, SatisfiedEffect
<1>4. \A d \in L1s, b \in Addrs :
        \/ t.l1[d][b].st = l1[d][b].st
        \/ LlcOf[d] = l /\ t.l1[d][b].st # "MODIFIED"
  BY <1>2, <1>3 DEF Lowered
<1>5. o \notin Reads => llc[l][a].st \in {"EXCLUSIVE", "MODIFIED"}
  BY <1>1 DEF LlcHit, Permissible
<1>6. Permitted(t, c, a, o)
  BY <1>1, <1>3 DEF LlcHit, Permissible, Permitted
<1>7. "ATOMIC" \notin Reads
  BY DEF Reads
<1>8. Complete(t, c, a, o)
  OBVIOUS
<1> HIDE DEF t
<1>9. /\ \A k \in Llcs : /\ Kinds(toDir'[k]) = Kinds(toDir[k])
                         /\ Kinds(toLlc'[k]) = Kinds(toLlc[k])
      /\ \A k \in Llcs, b \in Addrs : llc'[k][b].st = t.llc[k][b].st
      /\ \A d \in L1s, b \in Addrs : d # c => l1'[d][b].st = t.l1[d][b].st
      /\ failed' = {}
      /\ o = "ATOMIC" => l1'[c][a].st = t.llc[l][a].st
      /\ pc' = [pc EXCEPT ![c] = IF o = "ATOMIC" THEN "locked" ELSE "idle"]
      /\ op' = [op EXCEPT ![c] = None]
      /\ at' = [at EXCEPT ![c] = IF o = "ATOMIC" THEN a ELSE None]
  BY <1>3, <1>6, <1>8, CompleteEffect
<1> QED
  BY <1>1, <1>3, <1>4, <1>5, <1>7, <1>9

LEMMA MissHitsLlcSafe ==
  ASSUME CoherentInv, DirectoryInv, ControllerInv, NEW c \in L1s, MissHitsLlc(c)
  PROVE  DirectoryInv' /\ ControllerInv'
<1> DEFINE l == LlcOf[c]
           a == at[c]
           o == op[c]
<1>1. /\ TypeOK /\ failed = {} /\ Inclusive /\ LockedHeld /\ MissDropsClean /\ UpgradeWrites
  BY DEF CoherentInv, ControllerInv
<1>2. /\ pc[c] = "upgrading" /\ a \in Addrs /\ l \in Llcs
      /\ net[l] # "serving" /\ \A d \in L1s : LlcOf[d] = l => pc[d] # "locked"
      /\ LlcHit(Now, c, a, o) /\ Complete(Satisfied(Dropped(c), c, a, o), c, a, o)
      /\ UNCHANGED <<waiters, net, served, dir>>
  BY <1>1, CoherentAssumption DEF MissHitsLlc, ExclusiveFree, L1sOf, TypeOK
<1>3. /\ Alike(Now, Dropped(c)) /\ Lowered(Now, Dropped(c), l)
      /\ Included(Dropped(c)) /\ Dropped(c).failed = {}
  <2>1. Included(Now)
    BY <1>1 DEF Inclusive, Included, IncludedAt, Now
  <2>2. o = "PREFETCH" \/ l1[c][a].st # "MODIFIED"
    BY <1>1, <1>2 DEF MissDropsClean, UpgradedFirst
  <2> QED
    BY <1>1, <1>2, <2>1, <2>2, DroppedAlike
<1> HIDE DEF l, a, o
<1>4. /\ \A k \in Llcs : /\ Kinds(toDir'[k]) = Kinds(toDir[k])
                         /\ Kinds(toLlc'[k]) = Kinds(toLlc[k])
      /\ \A k \in Llcs, b \in Addrs :
           llc'[k][b].st = IF o \notin Reads /\ k = l /\ b = a
                           THEN "MODIFIED" ELSE llc[k][b].st
      /\ o \notin Reads => llc[l][a].st \in {"EXCLUSIVE", "MODIFIED"}
      /\ \A d \in L1s, b \in Addrs : d # c =>
           \/ l1'[d][b].st = l1[d][b].st
           \/ LlcOf[d] = l /\ l1'[d][b].st # "MODIFIED"
      /\ o = "ATOMIC" => l1'[c][a].st = "MODIFIED"
      /\ failed' = {}
      /\ pc' = [pc EXCEPT ![c] = IF o = "ATOMIC" THEN "locked" ELSE "idle"]
      /\ op' = [op EXCEPT ![c] = None]
      /\ at' = [at EXCEPT ![c] = IF o = "ATOMIC" THEN a ELSE None]
  BY <1>1, <1>2, <1>3, CompletedEffect DEF l
<1>5. /\ \A d \in L1s : d # c => pc'[d] = pc[d] /\ op'[d] = op[d] /\ at'[d] = at[d]
      /\ pc'[c] # "upgrading" /\ (pc'[c] = "locked" => o = "ATOMIC" /\ at'[c] = a)
  BY <1>1, <1>4 DEF TypeOK
<1>6. WaitersKept
  BY <1>2, <1>5 DEF WaitersKept
<1>7. DirectoryInv' /\ UpgradeWrites'
  <2>1. \A k \in Llcs, b \in Addrs :
          \/ llc'[k][b].st = llc[k][b].st
          \/ llc[k][b].st = "EXCLUSIVE" /\ llc'[k][b].st = "MODIFIED"
    BY <1>4
  <2> QED
    BY <1>1, <1>2, <1>4, <1>6, <2>1, QuietStep
<1>8. LlcOf[c] = l
  BY DEF l
<1>9. Elsewhere(l)
  BY <1>2, <1>4, <1>5, <1>8 DEF Elsewhere
<1>10. ASSUME NEW d \in L1s, LlcOf[d] = l, pc'[d] = "locked"
       PROVE  l1'[d][at'[d]].st = "MODIFIED" /\ net'[l] # "serving"
  BY <1>2, <1>4, <1>5, <1>10
<1>11. ASSUME NEW d \in L1s, LlcOf[d] = l, pc'[d] = "upgrading", op'[d] # "PREFETCH",
              l1'[d][at'[d]].st = "MODIFIED"
       PROVE  FALSE
  <2>1. d # c /\ at'[d] = at[d] /\ at[d] \in Addrs /\ pc[d] = "upgrading" /\ op[d] = op'[d]
    BY <1>1, <1>5, <1>11 DEF TypeOK
  <2>2. l1[d][at[d]].st = "MODIFIED"
    BY <1>4, <1>11, <2>1
  <2> QED
    BY <1>1, <1>2, <1>11, <2>1, <2>2 DEF MissDropsClean, UpgradedFirst
<1>12. LockedHeld' /\ MissDropsClean'
  BY <1>1, <1>2, <1>9, <1>10, <1>11, ElsewhereHeld
<1> QED
  BY <1>4, <1>7, <1>12 DEF ControllerInv

LEMMA ServeWaiterSafe ==
  ASSUME CoherentInv, DirectoryInv, ControllerInv, NEW l \in Llcs, ServeWaiter(l)
  PROVE  DirectoryInv' /\ ControllerInv'
<1> DEFINE c == FrontWaiter(l)
           a == at[c]
           o == op[c]
           ok == LlcHit(Now, c, a, o)
           found == Check(Now, ok,
                          "Tried_to_read_in_next_level_cache_but_data_is_already_gone")
<1>1. /\ TypeOK /\ WaitersListed /\ ServesSomebody /\ failed = {} /\ Inclusive
      /\ LockedHeld /\ MissDropsClean /\ UpgradeWrites /\ ServedHere
  BY DEF CoherentInv, ControllerInv, DirectoryInv
<1>2. /\ net[l] = "serving" /\ ~NeedsUpgrade(l)
      /\ Complete(Satisfied(found, c, a, o), c, a, o)
      /\ net' = [net EXCEPT ![l] = "resuming"] /\ UNCHANGED <<waiters, served, dir>>
  BY DEF ServeWaiter
<1>3. c \in L1s /\ a \in Addrs /\ a = served[l] /\ LlcOf[c] = l /\ pc[c] = "waiting"
  BY <1>1, <1>2, FrontWaits
<1>4. ok
  <2>1. llc[l][a].st \in {"SHARED", "EXCLUSIVE", "MODIFIED"}
    BY <1>1, <1>2, <1>3 DEF ServedHere
  <2>2. o \in Reads \/ llc[l][a].st # "SHARED"
    BY <1>2, <1>3 DEF NeedsUpgrade
  <2> QED
    BY <1>3, <2>1, <2>2 DEF LlcHit, Permissible, Now
<1>5. found = Now
  BY <1>4 DEF Check
<1>6. /\ Alike(Now, Now) /\ Lowered(Now, Now, LlcOf[c]) /\ Included(Now)
      /\ Now.failed = {}
  BY <1>1, NowIsCaches DEF Alike, Lowered, Inclusive, Included, IncludedAt
<1>7. LlcHit(Now, c, a, o) /\ Complete(Satisfied(Now, c, a, o), c, a, o)
  BY <1>2, <1>4, <1>5
<1>8. c = FrontWaiter(l) /\ o = op[c] /\ a = at[c]
  OBVIOUS
<1> HIDE DEF found, ok, a, o, c
<1>9. /\ \A k \in Llcs : /\ Kinds(toDir'[k]) = Kinds(toDir[k])
                         /\ Kinds(toLlc'[k]) = Kinds(toLlc[k])
      /\ \A k \in Llcs, b \in Addrs :
           llc'[k][b].st = IF o \notin Reads /\ k = l /\ b = a
                           THEN "MODIFIED" ELSE llc[k][b].st
      /\ o \notin Reads => llc[l][a].st \in {"EXCLUSIVE", "MODIFIED"}
      /\ \A d \in L1s, b \in Addrs : d # c =>
           \/ l1'[d][b].st = l1[d][b].st
           \/ LlcOf[d] = l /\ l1'[d][b].st # "MODIFIED"
      /\ o \notin Reads => \A d \in L1s :
           d # c /\ LlcOf[d] = l => l1'[d][a].st = "INVALID"
      /\ o = "ATOMIC" => l1'[c][a].st = "MODIFIED"
      /\ failed' = {}
      /\ pc' = [pc EXCEPT ![c] = IF o = "ATOMIC" THEN "locked" ELSE "idle"]
      /\ op' = [op EXCEPT ![c] = None]
      /\ at' = [at EXCEPT ![c] = IF o = "ATOMIC" THEN a ELSE None]
  BY <1>1, <1>3, <1>6, <1>7, CompletedEffect
<1>10. /\ \A d \in L1s : d # c => pc'[d] = pc[d] /\ op'[d] = op[d] /\ at'[d] = at[d]
       /\ pc'[c] # "upgrading" /\ (pc'[c] = "locked" => o = "ATOMIC" /\ at'[c] = a)
  BY <1>1, <1>3, <1>9 DEF TypeOK
<1>11. WaitersKept
  BY <1>2, <1>3, <1>8, <1>10 DEF WaitersKept
<1>12. net'[l] = "resuming" /\ \A k \in Llcs : k # l => net'[k] = net[k]
  BY <1>1, <1>2 DEF TypeOK
<1>13. DirectoryInv' /\ UpgradeWrites'
  <2>1. \A k \in Llcs, b \in Addrs :
          \/ llc'[k][b].st = llc[k][b].st
          \/ llc[k][b].st = "EXCLUSIVE" /\ llc'[k][b].st = "MODIFIED"
    BY <1>9
  <2>2. \A k \in Llcs : net'[k] # "idle" => net[k] # "idle"
    BY <1>2, <1>12
  <2> QED
    BY <1>1, <1>2, <1>9, <1>11, <2>1, <2>2, QuietStep
<1>14. Elsewhere(l)
  BY <1>2, <1>3, <1>9, <1>10, <1>12 DEF Elsewhere
<1>15. ASSUME NEW d \in L1s, LlcOf[d] = l, pc'[d] = "locked"
       PROVE  l1'[d][at'[d]].st = "MODIFIED" /\ net'[l] # "serving"
  BY <1>1, <1>2, <1>9, <1>10, <1>12, <1>15 DEF LockedHeld
<1>16. ASSUME NEW d \in L1s, LlcOf[d] = l, pc'[d] = "upgrading", op'[d] # "PREFETCH",
              l1'[d][at'[d]].st = "MODIFIED"
       PROVE  FALSE
  <2>1. d # c /\ at'[d] = at[d] /\ at[d] \in Addrs /\ pc[d] = "upgrading" /\ op[d] = op'[d]
    BY <1>1, <1>10, <1>16 DEF TypeOK
  <2>2. l1[d][at[d]].st = "MODIFIED"
    BY <1>9, <1>16, <2>1
  <2>3. at[d] = a /\ o \notin Reads
    BY <1>1, <1>3, <1>8, <1>16, <2>1, <2>2 DEF MissDropsClean, UpgradedFirst
  <2> QED
    BY <1>9, <1>16, <2>1, <2>3
<1>17. LockedHeld' /\ MissDropsClean'
  BY <1>1, <1>14, <1>15, <1>16, ElsewhereHeld
<1> QED
  BY <1>9, <1>13, <1>17 DEF ControllerInv

(* The network thread goes on to the next waiter.                          *)
LEMMA Fields ==
  ASSUME NEW l, NEW a
  PROVE  /\ View(l, a).up = Kinds(toDir[l]) /\ After(l, a).up = Kinds(toDir'[l])
         /\ View(l, a).down = Kinds(toLlc[l]) /\ After(l, a).down = Kinds(toLlc'[l])
         /\ View(l, a).st = llc[l][a].st /\ After(l, a).st = llc'[l][a].st
         /\ View(l, a).sharers = dir[a].sharers /\ After(l, a).sharers = dir'[a].sharers
         /\ View(l, a).owner = dir[a].owner /\ After(l, a).owner = dir'[a].owner
         /\ View(l, a).queue = dir[a].queue /\ After(l, a).queue = dir'[a].queue
         /\ View(l, a).asked = dir[a].asked /\ After(l, a).asked = dir'[a].asked
         /\ View(l, a).waiters = waiters[l][a] /\ After(l, a).waiters = waiters'[l][a]
         /\ View(l, a).served = served[l] /\ After(l, a).served = served'[l]
BY DEF View, After

LEMMA ResumeServingSafe ==
  ASSUME CoherentInv, DirectoryInv, ControllerInv, NEW l \in Llcs, ResumeServing(l)
  PROVE  DirectoryInv' /\ ControllerInv'
<1> DEFINE a == served[l]
           left == Tail(waiters[l][a])
           v == View(l, a)
           w == After(l, a)
<1>1. /\ TypeOK /\ ServesSomebody /\ failed = {} /\ UpgradeWrites
      /\ LockedHeld /\ MissDropsClean /\ ServedHere
  BY DEF CoherentInv, ControllerInv, DirectoryInv
<1>2. /\ net[l] = "resuming" /\ \A d \in L1s : LlcOf[d] = l => pc[d] # "locked"
      /\ waiters' = [waiters EXCEPT ![l][a] = left]
      /\ net' = [net EXCEPT ![l] = IF left = <<>> THEN "idle" ELSE "serving"]
      /\ served' = [served EXCEPT ![l] = IF left = <<>> THEN None ELSE @]
      /\ UNCHANGED <<l1, llc, pc, op, at, toDir, toLlc, dir, failed>>
  BY DEF ResumeServing, ExclusiveFree, L1sOf, caches, threads
<1>3. a \in Addrs /\ waiters[l][a] # <<>>
  BY <1>1, <1>2 DEF TypeOK, ServesSomebody
<1>4. /\ waiters'[l][a] = left /\ net'[l] = IF left = <<>> THEN "idle" ELSE "serving"
      /\ served'[l] = IF left = <<>> THEN None ELSE a
      /\ \A b \in Addrs : b # a => waiters'[l][b] = waiters[l][b]
      /\ \A k \in Llcs : k # l => /\ waiters'[k] = waiters[k] /\ net'[k] = net[k]
                                  /\ served'[k] = served[k]
      /\ None \notin Addrs
  BY <1>1, <1>2, <1>3, CoherentAssumption DEF TypeOK
<1> HIDE DEF left
<1>5. ASSUME NEW k \in Llcs, NEW b \in Addrs, k # l \/ b # a \/ left # <<>>
      PROVE  Followed(k, b)
  <2>1. waiters'[k][b] # <<>> <=> waiters[k][b] # <<>>
    BY <1>3, <1>4, <1>5
  <2>2. served'[k] = b <=> served[k] = b
    BY <1>4, <1>5
  <2>3. /\ SameFor(Kinds(toDir[k]), Kinds(toDir'[k]), b)
        /\ SameFor(Kinds(toLlc[k]), Kinds(toLlc'[k]), b)
    BY <1>2, SameUnchanged
  <2> QED
    BY <1>2, <2>1, <2>2, <2>3 DEF Followed, Untouched
<1>6. ASSUME left = <<>> PROVE Followed(l, a)
  <2>0. Line(v, l, a) /\ v = View(l, a) /\ w = After(l, a)
    BY <1>3 DEF DirectoryInv
  <2>1. /\ w.up = v.up /\ w.down = v.down /\ w.st = v.st /\ w.sharers = v.sharers
        /\ w.owner = v.owner /\ w.queue = v.queue /\ w.asked = v.asked
        /\ v.served = a /\ w.waiters = left /\ w.served = None /\ v.st = llc[l][a].st
    BY <1>2, <1>4, <1>6, Fields
  <2> HIDE DEF v, w
  <2>2. v.st # "SHARED_UPGRADING"
    BY <1>1, <1>2, <2>1 DEF ServedHere
  <2>3. w.waiters = <<>> /\ w.served # a
    BY <1>3, <1>4, <1>6, <2>1
  <2>4. Line(w, l, a)
    BY <2>0, <2>1, <2>2, <2>3, LineServed
  <2>5. UpgradeUnderway(w, l, a) => UpgradeUnderway(v, l, a)
    BY <2>1 DEF UpgradeUnderway
  <2> QED
    BY <2>0, <2>4, <2>5 DEF Followed
<1>7. \A k \in Llcs, b \in Addrs : Followed(k, b)
  BY <1>5, <1>6
<1>8. WaitersKept
  <2>1. ASSUME NEW k \in Llcs, NEW b \in Addrs, served[k] # b
        PROVE  waiters'[k][b] = waiters[k][b]
    BY <1>4, <2>1
  <2> QED
    BY <1>2, <2>1 DEF WaitersKept
<1>9. ServedHere'
  <2>1. ASSUME NEW k \in Llcs, net'[k] # "idle"
        PROVE  net[k] # "idle" /\ served'[k] = served[k]
    BY <1>2, <1>4, <2>1
  <2> QED
    BY <1>1, <1>2, <2>1 DEF ServedHere
<1>10. DirectoryInv' /\ UpgradeWrites'
  BY <1>1, <1>7, <1>8, <1>9, LinesFollowed
<1>11. Elsewhere(l)
  BY <1>2, <1>4 DEF Elsewhere
<1>12. LockedHeld' /\ MissDropsClean'
  <2>1. ASSUME NEW d \in L1s, LlcOf[d] = l, pc'[d] = "upgrading", op'[d] # "PREFETCH",
               l1'[d][at'[d]].st = "MODIFIED"
        PROVE  FALSE
    BY <1>1, <1>2, <2>1 DEF MissDropsClean, UpgradedFirst
  <2> QED
    BY <1>1, <1>2, <1>11, <2>1, ElsewhereHeld
<1> QED
  BY <1>1, <1>2, <1>10, <1>12 DEF ControllerInv

(* A request to the directory.                                             *)
Asks(s, r, l, a, t) ==
  /\ IsCaches(r) /\ r.l1 = s.l1 /\ r.failed = s.failed
  /\ \E m \in ToDirectory : m.t = t /\ m.a = a /\ r.sent = Append(s.sent, m)
  /\ \A k \in Llcs, b \in Addrs :
       r.llc[k][b].st = IF k = l /\ b = a /\ t = "UPGRADE_REQ" THEN "SHARED_UPGRADING"
                                                               ELSE s.llc[k][b].st

LEMMA SendAsks ==
  ASSUME NEW s, IsCaches(s), NEW l \in Llcs, NEW a \in Addrs, NEW t \in Fetching
  PROVE  Asks(s, Send(s, t, a, FALSE), l, a, t)
<1> DEFINE no == FALSE
           r == Send(s, t, a, no)
           m == Msg(t, a, no)
<1>0. no \in BOOLEAN /\ t \in Requests \cup Answers /\ t # "UPGRADE_REQ"
  BY DEF Requests, Fetching
<1> HIDE DEF no
<1>1. /\ IsCaches(r) /\ r.l1 = s.l1 /\ r.llc = s.llc /\ r.failed = s.failed
      /\ r.sent = Append(s.sent, m) /\ m \in ToDirectory /\ m.t = t /\ m.a = a
  BY <1>0, SendAlike
<1> HIDE DEF r, m
<1>2. Asks(s, r, l, a, t)
  BY <1>0, <1>1 DEF Asks
<1> QED
  BY <1>2 DEF r, no

LEMMA UpgradeAsks ==
  ASSUME NEW s, IsCaches(s), NEW l \in Llcs, NEW a \in Addrs
  PROVE  Asks(s, AskedUpgrade(s, l, a), l, a, "UPGRADE_REQ")
<1> DEFINE t == "UPGRADE_REQ"
           no == FALSE
           sent == Send(s, t, a, no)
           m == Msg(t, a, no)
           n == "SHARED_UPGRADING"
           r == SetState(sent, l, a, n)
<1>0. t \in Requests \cup Answers /\ no \in BOOLEAN /\ n \in States
  BY DEF Requests, States
<1> HIDE DEF t, no, n
<1>1. /\ IsCaches(sent) /\ sent.l1 = s.l1 /\ sent.llc = s.llc /\ sent.failed = s.failed
      /\ sent.sent = Append(s.sent, m) /\ m \in ToDirectory /\ m.t = t /\ m.a = a
  BY <1>0, SendAlike
<1> HIDE DEF sent, m
<1>2. /\ IsCaches(r) /\ r.l1 = sent.l1 /\ r.failed = sent.failed /\ r.sent = sent.sent
      /\ \A k \in Llcs, b \in Addrs :
           r.llc[k][b].st = IF k = l /\ b = a THEN n ELSE sent.llc[k][b].st
  BY <1>0, <1>1, SetStateKeeps
<1>3. r = AskedUpgrade(s, l, a)
  BY DEF AskedUpgrade, sent, t, no, n
<1> HIDE DEF r
<1>4. Asks(s, r, l, a, t)
  BY <1>1, <1>2 DEF Asks, n, t
<1> QED
  BY <1>3, <1>4 DEF t

LEMMA SentKinds ==
  ASSUME TypeOK, NEW s, s.sent = <<>>, NEW r, NEW l \in Llcs, NEW a \in Addrs,
         NEW t, Asks(s, r, l, a, t), Commit(r, l, None)
  PROVE  /\ t \in Requests \cup Answers
         /\ l1' = s.l1 /\ failed' = s.failed
         /\ \A k \in Llcs : Kinds(toDir'[k]) =
              IF k = l THEN Append(Kinds(toDir[k]), <<t, a>>) ELSE Kinds(toDir[k])
         /\ \A k \in Llcs, b \in Addrs :
              llc'[k][b].st = IF k = l /\ b = a /\ t = "UPGRADE_REQ"
                              THEN "SHARED_UPGRADING" ELSE s.llc[k][b].st
<1>1. PICK m \in ToDirectory : m.t = t /\ m.a = a /\ r.sent = Append(<<>>, m)
  BY DEF Asks
<1>2. IsCaches(r) /\ None \in Addrs \cup {None} /\ t \in Requests \cup Answers
  BY <1>1 DEF Asks, ToDirectory, Message
<1>3. /\ l1' = r.l1 /\ llc' = r.llc /\ failed' = r.failed
      /\ \A k \in Llcs : Kinds(toDir'[k]) =
           IF k = l THEN Append(Kinds(toDir[k]), <<m.t, m.a>>) ELSE Kinds(toDir[k])
  <2> DEFINE n == None
  <2>1. n \in Addrs \cup {None} /\ Commit(r, l, n) /\ n = None
    OBVIOUS
  <2> HIDE DEF n
  <2> QED
    BY <1>1, <1>2, <2>1, CommitKinds
<1> QED
  BY <1>1, <1>2, <1>3 DEF Asks

LEMMA OthersSent ==
  ASSUME TypeOK, NEW l \in Llcs, NEW a \in Addrs, NEW t \in Requests \cup Answers,
         \A k \in Llcs : Kinds(toDir'[k]) =
           IF k = l THEN Append(Kinds(toDir[k]), <<t, a>>) ELSE Kinds(toDir[k])
  PROVE  \A k \in Llcs, b \in Addrs : k # l \/ b # a =>
           SameFor(Kinds(toDir[k]), Kinds(toDir'[k]), b)
<1>1. ASSUME NEW k \in Llcs, NEW b \in Addrs, k # l \/ b # a
      PROVE  SameFor(Kinds(toDir[k]), Kinds(toDir'[k]), b)
  <2> DEFINE q == Kinds(toDir[k])
             m == <<t, a>>
  <2>1. CASE k # l
    BY <2>1, SameUnchanged
  <2>2. CASE k = l /\ b # a
    <3>1. q \in Seq(UpKinds)
      BY ViewTyped, Fields DEF IsView
    <3>2. m \in UpKinds /\ m[2] # b /\ Kinds(toDir'[k]) = Append(q, m)
      BY <2>2 DEF UpKinds
    <3> HIDE DEF q, m
    <3> QED
      BY <3>1, <3>2, SameArrived DEF q
  <2> QED
    BY <1>1, <2>1, <2>2
<1> QED
  BY <1>1

LEMMA RequestFollowed ==
  ASSUME TypeOK, DirectoryInv, NEW l \in Llcs, NEW a \in Addrs, NEW t \in Requests,
         \A k \in Llcs : Kinds(toDir'[k]) =
           IF k = l THEN Append(Kinds(toDir[k]), <<t, a>>) ELSE Kinds(toDir[k]),
         \A k \in Llcs, b \in Addrs :
           llc'[k][b].st = IF k = l /\ b = a /\ t = "UPGRADE_REQ"
                           THEN "SHARED_UPGRADING" ELSE llc[k][b].st,
         \/ t \in Fetching /\ llc[l][a].st = "INVALID"
         \/ t = "UPGRADE_REQ" /\ llc[l][a].st = "SHARED",
         t = "UPGRADE_REQ" => op'[Head(waiters'[l][a])] \notin Reads,
         waiters[l][a] = <<>> \/ served[l] = a, waiters'[l][a] # <<>>, served'[l] # a,
         \A k \in Llcs, b \in Addrs : k # l \/ b # a =>
           /\ waiters'[k][b] # <<>> <=> waiters[k][b] # <<>>
           /\ served'[k] = b <=> served[k] = b,
         UNCHANGED <<toLlc, dir>>
  PROVE  \A k \in Llcs, b \in Addrs : Followed(k, b)
<1>1. \A k \in Llcs, b \in Addrs : k # l \/ b # a =>
        SameFor(Kinds(toDir[k]), Kinds(toDir'[k]), b)
  BY OthersSent
<1>2. ASSUME NEW k \in Llcs, NEW b \in Addrs, k # l \/ b # a PROVE Followed(k, b)
  <2>1. SameFor(Kinds(toLlc[k]), Kinds(toLlc'[k]), b)
    BY SameUnchanged
  <2>2. SameFor(Kinds(toDir[k]), Kinds(toDir'[k]), b)
    BY <1>1, <1>2
  <2>3. llc'[k][b].st = llc[k][b].st
    BY <1>2
  <2>4. /\ waiters'[k][b] # <<>> <=> waiters[k][b] # <<>>
        /\ served'[k] = b <=> served[k] = b
    BY <1>2
  <2> QED
    BY <2>1, <2>2, <2>3, <2>4 DEF Followed, Untouched
<1>3. Followed(l, a)
  <2> DEFINE v == View(l, a)
             w == After(l, a)
             m == <<t, a>>
  <2>1. Line(v, l, a) /\ IsView(v) /\ v = View(l, a) /\ w = After(l, a)
    BY ViewTyped DEF DirectoryInv
  <2>10. /\ Kinds(toDir'[l]) = Append(Kinds(toDir[l]), m)
         /\ toLlc' = toLlc /\ dir' = dir
    OBVIOUS
  <2>11. m = <<t, a>>
    OBVIOUS
  <2> HIDE DEF m
  <2>2. /\ w.up = Append(v.up, m) /\ w.down = v.down /\ w.sharers = v.sharers
        /\ w.owner = v.owner /\ w.queue = v.queue /\ w.asked = v.asked
        /\ v.waiters = <<>> \/ v.served = a
        /\ w.waiters = waiters'[l][a] /\ w.served # a
        /\ v.st = llc[l][a].st /\ w.st = llc'[l][a].st
    BY <2>10, Fields
  <2> HIDE DEF v, w
  <2>3. /\ \/ t \in Fetching /\ v.st = "INVALID" /\ w.st = v.st
           \/ t = "UPGRADE_REQ" /\ v.st = "SHARED" /\ w.st = "SHARED_UPGRADING"
    BY <2>2 DEF Fetching
  <2>4. w.waiters # <<>>
    BY <2>2
  <2>12. w.up = Append(v.up, <<t, a>>)
    BY <2>2, <2>11
  <2>5. Line(w, l, a)
    <3>1. /\ w.down = v.down /\ w.sharers = v.sharers /\ w.owner = v.owner
          /\ w.queue = v.queue /\ w.asked = v.asked
          /\ v.waiters = <<>> \/ v.served = a
          /\ w.waiters # <<>> /\ w.served # a
      BY <2>2, <2>4
    <3>2. IsView(v) /\ Line(v, l, a) /\ a \in Addrs /\ t \in Requests
      BY <2>1
    <3> QED
      BY <2>3, <2>12, <3>1, <3>2, LineRequested
  <2>6. v.up \in Seq(UpKinds) /\ m \in UpKinds
    BY <2>1 DEF IsView, UpKinds, m
  <2>7. Arrival(v.up, m, w.up, a)
    BY <2>2, <2>6, Arriving
  <2>8. Has(w.up, {"UPGRADE_REQ"}, a) => Has(v.up, {"UPGRADE_REQ"}, a) \/ t = "UPGRADE_REQ"
    BY <2>7 DEF Arrival, Is, m
  <2>9. UpgradeUnderway(w, l, a) =>
          UpgradeUnderway(v, l, a) \/ op'[Head(waiters'[l][a])] \notin Reads
    BY <2>2, <2>8 DEF UpgradeUnderway
  <2> QED
    BY <2>1, <2>5, <2>9 DEF Followed
<1> QED
  BY <1>2, <1>3

LEMMA ServeUpgradeSafe ==
  ASSUME CoherentInv, DirectoryInv, ControllerInv, NEW l \in Llcs, ServeUpgrade(l)
  PROVE  DirectoryInv' /\ ControllerInv'
<1> DEFINE a == served[l]
           t == "UPGRADE_REQ"
           r == AskedUpgrade(Now, l, a)
<1>1. /\ TypeOK /\ WaitersListed /\ ServesSomebody /\ failed = {} /\ UpgradeWrites
      /\ LockedHeld /\ MissDropsClean /\ ServedHere
  BY DEF CoherentInv, ControllerInv, DirectoryInv
<1>2. /\ net[l] = "serving" /\ op[FrontWaiter(l)] \notin Reads /\ llc[l][a].st = "SHARED"
      /\ net' = [net EXCEPT ![l] = "idle"] /\ served' = [served EXCEPT ![l] = None]
      /\ UNCHANGED <<pc, op, at, waiters, toLlc, dir>>
  BY DEF ServeUpgrade, NeedsUpgrade, threads
<1>3. Commit(r, l, None)
  BY DEF ServeUpgrade, CommitQuiet, AskedUpgrade, SetState
<1>4. /\ a \in Addrs /\ waiters[l][a] # <<>> /\ None \notin Addrs
      /\ IsCaches(Now) /\ Now.llc = llc /\ Now.l1 = l1 /\ Now.sent = <<>>
      /\ Now.failed = failed
  BY <1>1, <1>2, NowIsCaches, CoherentAssumption DEF TypeOK, ServesSomebody
<1>5. Asks(Now, r, l, a, t)
  BY <1>4, UpgradeAsks
<1>6. FrontWaiter(l) = Head(waiters'[l][a]) /\ t \in Requests /\ t = "UPGRADE_REQ"
  BY <1>2 DEF FrontWaiter, Requests
<1> HIDE DEF r, t
<1>7. /\ l1' = l1 /\ failed' = failed
      /\ \A k \in Llcs : Kinds(toDir'[k]) =
           IF k = l THEN Append(Kinds(toDir[k]), <<t, a>>) ELSE Kinds(toDir[k])
      /\ \A k \in Llcs, b \in Addrs :
           llc'[k][b].st = IF k = l /\ b = a /\ t = "UPGRADE_REQ"
                           THEN "SHARED_UPGRADING" ELSE llc[k][b].st
  BY <1>1, <1>3, <1>4, <1>5, SentKinds
<1>8. /\ net'[l] = "idle" /\ served'[l] = None
      /\ \A k \in Llcs : k # l => net'[k] = net[k] /\ served'[k] = served[k]
  BY <1>1, <1>2 DEF TypeOK
<1>9. \A k \in Llcs, b \in Addrs : k # l \/ b # a =>
        /\ waiters'[k][b] # <<>> <=> waiters[k][b] # <<>>
        /\ served'[k] = b <=> served[k] = b
  BY <1>2, <1>4, <1>8
<1>10. \A k \in Llcs, b \in Addrs : Followed(k, b)
  <2>1. served'[l] # a /\ op'[Head(waiters'[l][a])] \notin Reads /\ waiters'[l][a] # <<>>
    BY <1>2, <1>4, <1>6, <1>8
  <2>2. served[l] = a /\ dir' = dir /\ toLlc' = toLlc
    BY <1>2
  <2> HIDE DEF a
  <2> QED
    BY <1>1, <1>2, <1>4, <1>6, <1>7, <1>9, <2>1, <2>2, RequestFollowed
<1>11. WaitersKept
  BY <1>2 DEF WaitersKept
<1>12. ServedHere'
  <2>1. ASSUME NEW k \in Llcs, net'[k] # "idle"
        PROVE  llc'[k][served'[k]].st \in {"SHARED", "EXCLUSIVE", "MODIFIED"}
    <3>1. k # l /\ net[k] # "idle" /\ served'[k] = served[k] /\ served[k] \in Addrs
      BY <1>1, <1>8, <2>1 DEF TypeOK
    <3> QED
      BY <1>1, <1>7, <3>1 DEF ServedHere
  <2> QED
    BY <2>1 DEF ServedHere
<1>13. DirectoryInv' /\ UpgradeWrites'
  BY <1>1, <1>10, <1>11, <1>12, LinesFollowed
<1>14. Elsewhere(l)
  BY <1>2, <1>7, <1>8 DEF Elsewhere
<1>15. LockedHeld' /\ MissDropsClean'
  <2>1. ASSUME NEW d \in L1s, LlcOf[d] = l, pc'[d] = "upgrading", op'[d] # "PREFETCH",
               l1'[d][at'[d]].st = "MODIFIED"
        PROVE  FALSE
    BY <1>1, <1>2, <1>7, <2>1 DEF MissDropsClean, UpgradedFirst
  <2>2. ASSUME NEW d \in L1s, LlcOf[d] = l, pc'[d] = "locked" PROVE FALSE
    BY <1>1, <1>2, <2>2 DEF LockedHeld
  <2> QED
    BY <1>1, <1>14, <2>1, <2>2, ElsewhereHeld
<1> QED
  BY <1>1, <1>7, <1>13, <1>15 DEF ControllerInv

(* What a miss leaves of its copy, and of its siblings', and asks for.     *)
Requested(c, l, a) ==
  /\ failed' = {}
  /\ \A d \in L1s, b \in Addrs :
       \/ l1'[d][b].st = l1[d][b].st
       \/ LlcOf[d] = l /\ l1'[d][b].st # "MODIFIED"
  /\ waiters[l][a] # <<>> =>
       /\ \A k \in Llcs : Kinds(toDir'[k]) = Kinds(toDir[k])
       /\ \A k \in Llcs, b \in Addrs : llc'[k][b].st = llc[k][b].st
  /\ waiters[l][a] = <<>> => \E t \in Requests :
       /\ \A k \in Llcs : Kinds(toDir'[k]) =
            IF k = l THEN Append(Kinds(toDir[k]), <<t, a>>) ELSE Kinds(toDir[k])
       /\ \A k \in Llcs, b \in Addrs :
            llc'[k][b].st = IF k = l /\ b = a /\ t = "UPGRADE_REQ"
                            THEN "SHARED_UPGRADING" ELSE llc[k][b].st
       /\ \/ t \in Fetching /\ llc[l][a].st = "INVALID"
          \/ t = "UPGRADE_REQ" /\ llc[l][a].st = "SHARED"
       /\ t = "UPGRADE_REQ" => op[c] \notin Reads

LEMMA MissRequests ==
  ASSUME CoherentInv, DirectoryInv, ControllerInv, NEW c \in L1s,
         NEW l \in Llcs, NEW a \in Addrs, l = LlcOf[c], a = at[c], MissGoesToDirectory(c)
  PROVE  Requested(c, l, a)
<1> DEFINE snooped == SnoopChecked(Dropped(c), l, a, {c}, "INVALID")
           shared == IF llc[l][a].st = "SHARED" THEN snooped ELSE Dropped(c)
           exclusive == op[c] \notin Reads
           waited == waiters[l][a] # <<>>
           ok == llc[l][a].st = "INVALID"
           upgrade == [Send(shared, "UPGRADE_REQ", a, FALSE)
                         EXCEPT !.llc[l][a].st = "SHARED_UPGRADING"]
           fetch == Send(shared, "EX_REQ", a, FALSE)
           requested == IF waited THEN shared
                        ELSE IF ~exclusive THEN Send(shared, "SH_REQ", a, FALSE)
                        ELSE IF llc[l][a].st = "SHARED" THEN upgrade
                        ELSE Check(fetch, ok, "ExReq_for_a_line_that_is_not_INVALID")
<1>1. /\ TypeOK /\ Inclusive /\ failed = {} /\ MissDropsClean /\ LockedHeld
  BY DEF CoherentInv, ControllerInv
<1>2. /\ pc[c] = "upgrading" /\ net[l] # "serving" /\ ~LlcHit(Now, c, a, op[c])
      /\ Commit(requested, l, None)
  BY DEF MissGoesToDirectory, ExclusiveFree, CommitQuiet
<1>3. /\ Alike(Now, Dropped(c)) /\ Lowered(Now, Dropped(c), l) /\ Dropped(c).llc = llc
      /\ Included(Dropped(c)) /\ Dropped(c).failed = {}
  <2>1. Included(Now)
    BY <1>1 DEF Inclusive, Included, IncludedAt, Now
  <2>2. op[c] = "PREFETCH" \/ l1[c][a].st # "MODIFIED"
    BY <1>1, <1>2 DEF MissDropsClean, UpgradedFirst
  <2> QED
    BY <1>1, <2>1, <2>2, DroppedAlike
<1>4. /\ Alike(Dropped(c), snooped) /\ Lowered(Dropped(c), snooped, l)
      /\ snooped.failed = Dropped(c).failed
  <2> DEFINE n == "INVALID"
             skip == {c}
  <2>1. n \in {"INVALID", "SHARED", "MODIFIED"} /\ n # "MODIFIED" /\ IsCaches(Dropped(c))
    BY <1>3 DEF Alike
  <2>2. snooped = SnoopChecked(Dropped(c), l, a, skip, n)
    OBVIOUS
  <2> HIDE DEF n, skip, snooped
  <2> QED
    BY <1>3, <2>1, <2>2, SnoopedAlike
<1> HIDE DEF snooped
<1>5. Alike(Now, shared) /\ Lowered(Now, shared, l) /\ shared.failed = {}
  BY <1>3, <1>4, AlikeTwice, LoweredTwice
<1> HIDE DEF shared
<1>6. /\ IsCaches(shared) /\ shared.sent = <<>>
      /\ \A k \in Llcs, b \in Addrs : shared.llc[k][b].st = llc[k][b].st
      /\ \A d \in L1s, b \in Addrs :
           \/ shared.l1[d][b].st = l1[d][b].st
           \/ LlcOf[d] = l /\ shared.l1[d][b].st # "MODIFIED"
  BY <1>5 DEF Alike, Lowered, Now
<1>7. CASE waited
  <2>1. Commit(shared, l, None)
    BY <1>2, <1>7
  <2>2. /\ l1' = shared.l1 /\ llc' = shared.llc /\ failed' = shared.failed
        /\ \A k \in Llcs : Kinds(toDir'[k]) = Kinds(toDir[k])
    BY <1>1, <1>6, <2>1, CommitKinds
  <2> QED
    BY <1>5, <1>6, <1>7, <2>2 DEF Requested
<1>8. CASE ~waited
  <2>1. llc[l][a].st # "SHARED_UPGRADING"
    BY <1>8, Fields DEF DirectoryInv, Line, Upgrading
  <2>2. llc[l][a].st = "INVALID" \/ (llc[l][a].st = "SHARED" /\ exclusive)
    <3>1. llc[l][a] \in Copy /\ Now.llc = llc
      BY <1>1 DEF TypeOK, Now
    <3>2. llc[l][a].st \in States
      BY <3>1 DEF Copy
    <3> QED
      BY <1>2, <2>1, <3>1, <3>2 DEF LlcHit, Permissible, States
  <2>3. \E t \in Requests :
          /\ Asks(shared, requested, l, a, t)
          /\ \/ t \in Fetching /\ llc[l][a].st = "INVALID"
             \/ t = "UPGRADE_REQ" /\ llc[l][a].st = "SHARED"
          /\ t = "UPGRADE_REQ" => op[c] \notin Reads
    <3>1. CASE ~exclusive
      <4> DEFINE t == "SH_REQ"
      <4>1. requested = Send(shared, t, a, FALSE)
        BY <1>8, <3>1
      <4>2. t \in Fetching /\ t \in Requests /\ t # "UPGRADE_REQ"
        BY DEF Fetching, Requests
      <4> HIDE DEF t, requested
      <4>3. Asks(shared, requested, l, a, t)
        BY <1>6, <4>1, <4>2, SendAsks
      <4> QED
        BY <2>2, <3>1, <4>2, <4>3
    <3>2. CASE exclusive /\ llc[l][a].st = "SHARED"
      <4> DEFINE t == "UPGRADE_REQ"
      <4>1. requested = AskedUpgrade(shared, l, a)
        BY <1>8, <3>2 DEF AskedUpgrade, SetState
      <4>2. t \in Requests /\ t = "UPGRADE_REQ"
        BY DEF Requests
      <4> HIDE DEF t, requested
      <4>3. Asks(shared, requested, l, a, t)
        BY <1>6, <4>1, <4>2, UpgradeAsks
      <4> QED
        BY <3>2, <4>2, <4>3
    <3>3. CASE exclusive /\ llc[l][a].st # "SHARED"
      <4> DEFINE t == "EX_REQ"
      <4>1. requested = Send(shared, t, a, FALSE)
        BY <1>8, <2>2, <3>3 DEF Check
      <4>2. t \in Fetching /\ t \in Requests /\ t # "UPGRADE_REQ"
        BY DEF Fetching, Requests
      <4> HIDE DEF t, requested
      <4>3. Asks(shared, requested, l, a, t)
        BY <1>6, <4>1, <4>2, SendAsks
      <4> QED
        BY <2>2, <3>3, <4>2, <4>3
    <3> QED
      BY <3>1, <3>2, <3>3
  <2> HIDE DEF requested
  <2>4. PICK t \in Requests :
          /\ Asks(shared, requested, l, a, t)
          /\ \/ t \in Fetching /\ llc[l][a].st = "INVALID"
             \/ t = "UPGRADE_REQ" /\ llc[l][a].st = "SHARED"
          /\ t = "UPGRADE_REQ" => op[c] \notin Reads
    BY <2>3
  <2>5. /\ l1' = shared.l1 /\ failed' = shared.failed
        /\ \A k \in Llcs : Kinds(toDir'[k]) =
             IF k = l THEN Append(Kinds(toDir[k]), <<t, a>>) ELSE Kinds(toDir[k])
        /\ \A k \in Llcs, b \in Addrs :
             llc'[k][b].st = IF k = l /\ b = a /\ t = "UPGRADE_REQ"
                             THEN "SHARED_UPGRADING" ELSE shared.llc[k][b].st
    BY <1>1, <1>2, <1>6, <2>4, SentKinds
  <2> QED
    BY <1>5, <1>6, <1>8, <2>4, <2>5 DEF Requested
<1> QED
  BY <1>7, <1>8

LEMMA MissGoesToDirectorySafe ==
  ASSUME CoherentInv, DirectoryInv, ControllerInv, NEW c \in L1s, MissGoesToDirectory(c)
  PROVE  DirectoryInv' /\ ControllerInv'
<1> DEFINE l == LlcOf[c]
           a == at[c]
<1>1. /\ TypeOK /\ failed = {} /\ MissDropsClean /\ LockedHeld /\ UpgradeWrites /\ ServedHere
      /\ ServesSomebody
  BY DEF CoherentInv, ControllerInv, DirectoryInv
<1>2. /\ pc[c] = "upgrading" /\ a \in Addrs /\ l \in Llcs
      /\ net[l] # "serving" /\ \A d \in L1s : LlcOf[d] = l => pc[d] # "locked"
      /\ waiters' = [waiters EXCEPT ![l][a] = Append(@, c)]
      /\ pc' = [pc EXCEPT ![c] = "waiting"]
      /\ UNCHANGED <<op, at, net, served, toLlc, dir>>
  BY <1>1, CoherentAssumption DEF MissGoesToDirectory, ExclusiveFree, L1sOf, TypeOK
<1>3. l = LlcOf[c] /\ a = at[c]
  OBVIOUS
<1> HIDE DEF l, a
<1>15. Requested(c, l, a)
  BY <1>2, <1>3, MissRequests
<1>4. /\ failed' = {}
      /\ \A d \in L1s, b \in Addrs :
           \/ l1'[d][b].st = l1[d][b].st
           \/ LlcOf[d] = l /\ l1'[d][b].st # "MODIFIED"
      /\ waiters[l][a] # <<>> =>
           /\ \A k \in Llcs : Kinds(toDir'[k]) = Kinds(toDir[k])
           /\ \A k \in Llcs, b \in Addrs : llc'[k][b].st = llc[k][b].st
      /\ \A k \in Llcs, b \in Addrs : k # l \/ b # a => llc'[k][b].st = llc[k][b].st
  BY <1>15 DEF Requested
<1>5. /\ waiters'[l][a] = Append(waiters[l][a], c)
      /\ \A k \in Llcs, b \in Addrs : k # l \/ b # a => waiters'[k][b] = waiters[k][b]
      /\ \A k \in Llcs : k # l => waiters'[k] = waiters[k]
      /\ waiters[l][a] \in Seq(L1s)
  BY <1>1, <1>2 DEF TypeOK
<1>6. /\ waiters'[l][a] # <<>>
      /\ Head(waiters'[l][a]) = IF waiters[l][a] = <<>> THEN c ELSE Head(waiters[l][a])
  <2> DEFINE q == waiters[l][a]
  <2>1. q \in Seq(L1s) /\ waiters'[l][a] = Append(q, c)
    BY <1>5
  <2> HIDE DEF q
  <2>2. Append(q, c) # <<>> /\ Head(Append(q, c)) = IF q = <<>> THEN c ELSE Head(q)
    <3> DEFINE r == Append(q, c)
    <3>1. /\ r \in Seq(L1s) /\ Len(r) = Len(q) + 1 /\ Len(q) \in Nat
          /\ r[Len(q) + 1] = c /\ \A i \in 1 .. Len(q) : r[i] = q[i]
      BY <2>1
    <3> HIDE DEF r
    <3>2. r # <<>> /\ Head(r) = r[1]
      BY <3>1
    <3>3. CASE q = <<>>
      BY <3>1, <3>2, <3>3 DEF r
    <3>4. CASE q # <<>>
      <4>1. 1 \in 1 .. Len(q) /\ Head(q) = q[1]
        BY <2>1, <3>4
      <4> QED
        BY <3>1, <3>2, <3>4, <4>1 DEF r
    <3> QED
      BY <3>3, <3>4
  <2> QED
    BY <2>1, <2>2 DEF q
<1>7. waiters[l][a] = <<>> => served[l] # a
  BY <1>2, Fields DEF DirectoryInv, Line, Transaction
<1>8. \A k \in Llcs, b \in Addrs : Followed(k, b)
  <2>1. CASE waiters[l][a] # <<>>
    <3>1. ASSUME NEW k \in Llcs, NEW b \in Addrs PROVE Followed(k, b)
      <4>1. /\ SameFor(Kinds(toDir[k]), Kinds(toDir'[k]), b)
            /\ SameFor(Kinds(toLlc[k]), Kinds(toLlc'[k]), b)
        BY <1>2, <1>4, <2>1, SameUnchanged
      <4>2. waiters'[k][b] # <<>> <=> waiters[k][b] # <<>>
        BY <1>5, <1>6, <2>1
      <4> QED
        BY <1>2, <1>4, <2>1, <4>1, <4>2 DEF Followed, Untouched
    <3> QED
      BY <3>1
  <2>2. CASE waiters[l][a] = <<>>
    <3>1. PICK t \in Requests :
            /\ \A k \in Llcs : Kinds(toDir'[k]) =
                 IF k = l THEN Append(Kinds(toDir[k]), <<t, a>>) ELSE Kinds(toDir[k])
            /\ \A k \in Llcs, b \in Addrs :
                 llc'[k][b].st = IF k = l /\ b = a /\ t = "UPGRADE_REQ"
                                 THEN "SHARED_UPGRADING" ELSE llc[k][b].st
            /\ \/ t \in Fetching /\ llc[l][a].st = "INVALID"
               \/ t = "UPGRADE_REQ" /\ llc[l][a].st = "SHARED"
            /\ t = "UPGRADE_REQ" => op[c] \notin Reads
      BY <1>15, <2>2 DEF Requested
    <3>2. t = "UPGRADE_REQ" => op'[Head(waiters'[l][a])] \notin Reads
      BY <1>2, <1>6, <2>2, <3>1
    <3>3. \A k \in Llcs, b \in Addrs : k # l \/ b # a =>
            /\ waiters'[k][b] # <<>> <=> waiters[k][b] # <<>>
            /\ served'[k] = b <=> served[k] = b
      BY <1>2, <1>5
    <3>4. served'[l] # a /\ toLlc' = toLlc /\ dir' = dir
      BY <1>2, <1>7, <2>2
    <3> QED
      BY <1>1, <1>2, <1>6, <2>2, <3>1, <3>2, <3>3, <3>4, RequestFollowed
  <2> QED
    BY <2>1, <2>2
<1>9. WaitersKept
  <2>1. ASSUME NEW k \in Llcs, NEW b \in Addrs, waiters[k][b] # <<>>
        PROVE  Head(waiters'[k][b]) = Head(waiters[k][b])
    BY <1>5, <1>6, <2>1
  <2> QED
    BY <1>2, <2>1 DEF WaitersKept
<1>10. ServedHere'
  <2>1. ASSUME NEW k \in Llcs, net'[k] # "idle"
        PROVE  llc'[k][served'[k]].st \in {"SHARED", "EXCLUSIVE", "MODIFIED"}
    <3>1. net[k] # "idle" /\ served'[k] = served[k] /\ served[k] \in Addrs
      BY <1>1, <1>2, <2>1 DEF TypeOK
    <3>2. llc'[k][served[k]].st = llc[k][served[k]].st
      BY <1>4, <1>7, <3>1
    <3> QED
      BY <1>1, <3>1, <3>2 DEF ServedHere
  <2> QED
    BY <2>1 DEF ServedHere
<1>11. DirectoryInv' /\ UpgradeWrites'
  BY <1>1, <1>8, <1>9, <1>10, LinesFollowed
<1>12. /\ pc'[c] = "waiting" /\ \A d \in L1s : d # c => pc'[d] = pc[d]
  BY <1>1, <1>2 DEF TypeOK
<1>13. Elsewhere(l)
  <2>1. \A k \in Llcs : k # l => \A b \in Addrs : llc'[k][b].st = llc[k][b].st
    BY <1>4
  <2> QED
    BY <1>2, <1>3, <1>4, <1>5, <1>12, <2>1 DEF Elsewhere
<1>14. LockedHeld' /\ MissDropsClean'
  <2>1. ASSUME NEW d \in L1s, LlcOf[d] = l, pc'[d] = "locked" PROVE FALSE
    BY <1>2, <1>12, <2>1
  <2>2. ASSUME NEW d \in L1s, LlcOf[d] = l, pc'[d] = "upgrading", op'[d] # "PREFETCH",
               l1'[d][at'[d]].st = "MODIFIED"
        PROVE  FALSE
    <3>1. pc[d] = "upgrading" /\ at'[d] = at[d] /\ at[d] \in Addrs /\ op'[d] = op[d]
      BY <1>1, <1>2, <1>12, <2>2 DEF TypeOK
    <3>2. l1[d][at[d]].st = "MODIFIED"
      BY <1>4, <2>2, <3>1
    <3> QED
      BY <1>1, <1>2, <2>2, <3>1, <3>2 DEF MissDropsClean, UpgradedFirst
  <2> QED
    BY <1>1, <1>2, <1>13, <2>1, <2>2, ElsewhereHeld
<1> QED
  BY <1>4, <1>11, <1>14 DEF ControllerInv

(* The network thread takes a message.                                     *)
Takes(l, t, a) ==
  /\ a \in Addrs /\ t \in Replies \cup SnoopRequests
  /\ Kinds(toLlc[l]) # <<>> /\ Head(Kinds(toLlc[l])) = <<t, a>>
  /\ Kinds(toLlc'[l]) = Tail(Kinds(toLlc[l]))
  /\ \A k \in Llcs, b \in Addrs : k # l \/ b # a =>
       SameFor(Kinds(toLlc[k]), Kinds(toLlc'[k]), b)
  /\ net[l] = "idle" /\ served[l] = None
  /\ \A d \in L1s : LlcOf[d] = l => pc[d] # "locked"

LEMMA ReceivedKinds ==
  ASSUME TypeOK, NEW l \in Llcs, NEW types, Received(l, types),
         NEW t, t = Head(toLlc[l]).t, NEW a, a = Head(toLlc[l]).a
  PROVE  t \in types /\ Takes(l, t, a)
<1> DEFINE q == toLlc[l]
<1>1. /\ q \in Seq(FromDirectory) /\ q # <<>> /\ Head(q).t \in types
      /\ toLlc'[l] = Tail(q) /\ \A k \in Llcs : k # l => toLlc'[k] = toLlc[k]
      /\ net[l] = "idle" /\ served[l] = None
      /\ \A d \in L1s : LlcOf[d] = l => pc[d] # "locked"
  BY DEF Received, TypeOK, ExclusiveFree, L1sOf
<1>2. t = Head(q).t /\ a = Head(q).a
  OBVIOUS
<1> HIDE DEF q
<1>3. Head(q) \in FromDirectory
  BY <1>1
<1>4. t \in types /\ t \in Replies \cup SnoopRequests /\ a \in Addrs
  BY <1>1, <1>2, <1>3 DEF FromDirectory, Message
<1>5. /\ Kinds(q) # <<>> /\ Head(Kinds(q)) = <<t, a>> /\ Kinds(Tail(q)) = Tail(Kinds(q))
      /\ Kinds(q) \in Seq(DownKinds)
  BY <1>1, <1>2, KindsTyped DEF FromDirectory, DownKinds
<1>6. ASSUME NEW k \in Llcs, NEW b \in Addrs, k # l \/ b # a
      PROVE  SameFor(Kinds(toLlc[k]), Kinds(toLlc'[k]), b)
  <2>1. CASE k # l
    BY <1>1, <2>1, SameUnchanged
  <2>2. CASE k = l
    <3> DEFINE p == Kinds(q)
    <3>1. p \in Seq(DownKinds) /\ p # <<>> /\ Head(p)[2] # b
      BY <1>5, <1>6, <2>2
    <3>2. Kinds(toLlc[k]) = p /\ Kinds(toLlc'[k]) = Tail(p)
      BY <1>1, <1>5, <2>2 DEF q
    <3> HIDE DEF p
    <3> QED
      BY <3>1, <3>2, SameDeparted
  <2> QED
    BY <2>1, <2>2
<1> QED
  BY <1>1, <1>4, <1>5, <1>6 DEF q, Takes

LEMMA ReceivedHeld ==
  ASSUME CoherentInv, ControllerInv, NEW l \in Llcs, NEW types, Received(l, types),
         UNCHANGED <<threads, waiters>>,
         \A k \in Llcs : k # l =>
           /\ net'[k] = net[k] /\ served'[k] = served[k]
           /\ \A b \in Addrs : llc'[k][b].st = llc[k][b].st,
         \A d \in L1s, b \in Addrs :
           \/ l1'[d][b].st = l1[d][b].st
           \/ LlcOf[d] = l /\ l1'[d][b].st # "MODIFIED"
  PROVE  LockedHeld' /\ MissDropsClean'
<1>1. /\ TypeOK /\ failed = {} /\ LockedHeld /\ MissDropsClean
      /\ net[l] = "idle" /\ \A d \in L1s : LlcOf[d] = l => pc[d] # "locked"
      /\ UNCHANGED <<pc, op, at, waiters>>
  BY DEF CoherentInv, ControllerInv, Received, ExclusiveFree, L1sOf, threads
<1>2. Elsewhere(l)
  BY <1>1 DEF Elsewhere
<1>3. ASSUME NEW d \in L1s, LlcOf[d] = l, pc'[d] = "locked" PROVE FALSE
  BY <1>1, <1>3
<1>4. ASSUME NEW d \in L1s, LlcOf[d] = l, pc'[d] = "upgrading", op'[d] # "PREFETCH",
             l1'[d][at'[d]].st = "MODIFIED"
      PROVE  FALSE
  <2>1. at[d] \in Addrs /\ at'[d] = at[d] /\ pc[d] = "upgrading" /\ op[d] # "PREFETCH"
    BY <1>1, <1>4 DEF TypeOK
  <2>2. l1[d][at[d]].st = "MODIFIED"
    BY <1>4, <2>1
  <2> QED
    BY <1>1, <1>4, <2>1, <2>2 DEF MissDropsClean, UpgradedFirst
<1> QED
  BY <1>1, <1>2, <1>3, <1>4, ElsewhereHeld

(* EX_REP and SH_REP: a victim may have to leave.                          *)
Inserted(l, a, state, victim) ==
  /\ failed' = {}
  /\ \A d \in L1s, b \in Addrs :
       \/ l1'[d][b].st = l1[d][b].st
       \/ LlcOf[d] = l /\ l1'[d][b].st # "MODIFIED"
  /\ \A k \in Llcs, b \in Addrs :
       llc'[k][b].st = IF k = l /\ b = a THEN state
                       ELSE IF k = l /\ b = victim THEN "INVALID" ELSE llc[k][b].st
  /\ victim = None => \A k \in Llcs : Kinds(toDir'[k]) = Kinds(toDir[k])
  /\ victim # None =>
       /\ victim \in Addrs /\ victim # a
       /\ llc[l][victim].st \notin {"INVALID", "SHARED_UPGRADING"}
       /\ \E t \in GivingUp : \A k \in Llcs : Kinds(toDir'[k]) =
            IF k = l THEN Append(Kinds(toDir[k]), <<t, victim>>) ELSE Kinds(toDir[k])

LEMMA DataInserted ==
  ASSUME CoherentInv, DirectoryInv, ControllerInv, NEW l \in Llcs,
         NEW type \in Granting, NEW state \in {"EXCLUSIVE", "SHARED"},
         NEW a, a = Head(toLlc[l]).a, ReceiveData(l, type, state)
  PROVE  \E victim : Inserted(l, a, state, victim)
<1> DEFINE copy == [st |-> state, new |-> Head(toLlc[l]).new]
           v == View(l, a)
<1>1. TypeOK /\ failed = {} /\ Received(l, {type})
  BY DEF CoherentInv, ControllerInv, ReceiveData
<1>2. PICK victim \in LlcVictims(Now, l) :
        Commit(InsertLlc(Awaited(l, a), l, a, copy, victim), l, None)
  BY DEF ReceiveData, CommitQuiet
<1>3. a \in Addrs /\ Head(toLlc[l]).new \in BOOLEAN
  BY <1>1, ReceivedTyped
<1>4. /\ Kinds(toLlc[l]) # <<>> /\ Head(Kinds(toLlc[l])) = <<type, a>>
  <2> DEFINE t == Head(toLlc[l]).t
  <2>1. t = Head(toLlc[l]).t
    OBVIOUS
  <2> HIDE DEF t
  <2>2. t \in {type} /\ Kinds(toLlc[l]) # <<>> /\ Head(Kinds(toLlc[l])) = <<t, a>>
    BY <1>1, <2>1, ReceivedKinds DEF Takes
  <2> QED
    BY <2>2
<1>5. /\ v.down # <<>> /\ Head(v.down) = <<type, a>> /\ v.waiters = waiters[l][a]
      /\ v.st = llc[l][a].st
  BY <1>4, Fields
<1>6. Line(v, l, a) /\ IsView(v)
  BY <1>1, <1>3, ViewTyped DEF DirectoryInv
<1> HIDE DEF v
<1>7. Has(v.down, Granting, a)
  <2>1. v.down \in Seq(DownKinds)
    BY <1>6 DEF IsView
  <2>2. Departure(v.down, Head(v.down), Tail(v.down), a)
    BY <1>5, <2>1, Departing
  <2>3. Is(Head(v.down), Granting, a)
    BY <1>5 DEF Is
  <2> QED
    BY <2>2, <2>3 DEF Departure
<1>8. waiters[l][a] # <<>> /\ llc[l][a].st = "INVALID"
  <2>1. Has(v.down, Replies, a)
    BY <1>7, HasReply
  <2> QED
    BY <1>5, <1>6, <1>7, <2>1 DEF Line, Transaction, Custody
<1>9. Awaited(l, a) = Now
  BY <1>8 DEF Awaited, Check
<1>10. /\ victim \in Addrs \cup {None} /\ victim # a
       /\ victim # None => llc[l][victim].st \notin {"INVALID", "SHARED_UPGRADING"}
  BY <1>3, <1>8, CoherentAssumption DEF LlcVictims, Resident, Now
<1>11. copy \in Copy /\ copy.st = state
  BY <1>3 DEF Copy, States
<1> HIDE DEF copy
<1> DEFINE r == InsertLlc(Now, l, a, copy, victim)
<1>12. IsCaches(Now) /\ Now.sent = <<>> /\ Now.l1 = l1 /\ Now.llc = llc /\ Now.failed = {}
  BY <1>1, NowIsCaches
<1>13. Commit(r, l, None)
  BY <1>2, <1>9
<1>14. /\ Lowered(Now, r, l) /\ r.failed = {}
       /\ \A k \in Llcs, b \in Addrs :
            r.llc[k][b].st = IF k = l /\ b = a THEN copy.st
                             ELSE IF k = l /\ b = victim THEN "INVALID"
                             ELSE Now.llc[k][b].st
       /\ victim = None => r.sent = <<>>
       /\ victim # None => \E m \in ToDirectory :
            m.t \in GivingUp /\ m.a = victim /\ r.sent = Append(<<>>, m)
  <2> DEFINE s == Now
  <2>1. /\ IsCaches(s) /\ s.sent = <<>> /\ s.failed = {} /\ s.llc[l][a].st = "INVALID"
        /\ r = InsertLlc(s, l, a, copy, victim) /\ s = Now
    BY <1>8, <1>12
  <2> HIDE DEF s, r
  <2>2. /\ Lowered(s, r, l) /\ r.failed = s.failed
        /\ \A k \in Llcs, b \in Addrs :
             r.llc[k][b].st = IF k = l /\ b = a THEN copy.st
                              ELSE IF k = l /\ b = victim THEN "INVALID"
                              ELSE s.llc[k][b].st
        /\ victim = None => r.sent = s.sent
        /\ victim # None => \E m \in ToDirectory :
             m.t \in GivingUp /\ m.a = victim /\ r.sent = Append(s.sent, m)
    <3>1. /\ l \in Llcs /\ a \in Addrs /\ copy \in Copy
          /\ victim \in Addrs \cup {None} /\ victim # a
      BY <1>3, <1>10, <1>11
    <3>2. InsertsAt(s, r, l, a, copy, victim)
      BY <2>1, <3>1, InsertLlcEffect
    <3> QED
      BY <2>1, <3>2 DEF InsertsAt
  <2> QED
    BY <2>1, <2>2
<1>15. IsCaches(r)
  <2>1. copy.st # "INVALID" => Kept(Now, r)
    BY <1>3, <1>10, <1>11, <1>12, InsertLlcKeeps
  <2>2. state # "INVALID"
    OBVIOUS
  <2> QED
    BY <1>11, <2>1, <2>2 DEF Kept
<1> HIDE DEF r
<1>16. /\ l1' = r.l1 /\ llc' = r.llc /\ failed' = r.failed
       /\ r.sent = <<>> => \A k \in Llcs : Kinds(toDir'[k]) = Kinds(toDir[k])
       /\ \A m \in ToDirectory : r.sent = Append(<<>>, m) =>
            \A k \in Llcs : Kinds(toDir'[k]) =
              IF k = l THEN Append(Kinds(toDir[k]), <<m.t, m.a>>) ELSE Kinds(toDir[k])
  <2> DEFINE n == None
  <2>1. n \in Addrs \cup {None} /\ Commit(r, l, n) /\ n = None
    BY <1>13
  <2> HIDE DEF n
  <2> QED
    BY <1>1, <1>15, <2>1, CommitKinds
<1>17. /\ \A d \in L1s, b \in Addrs :
            \/ l1'[d][b].st = l1[d][b].st
            \/ LlcOf[d] = l /\ l1'[d][b].st # "MODIFIED"
       /\ \A k \in Llcs, b \in Addrs :
            llc'[k][b].st = IF k = l /\ b = a THEN state
                            ELSE IF k = l /\ b = victim THEN "INVALID" ELSE llc[k][b].st
       /\ failed' = {}
  BY <1>11, <1>12, <1>14, <1>16 DEF Lowered
<1>18. ASSUME victim # None
       PROVE  \E t \in GivingUp : \A k \in Llcs : Kinds(toDir'[k]) =
                IF k = l THEN Append(Kinds(toDir[k]), <<t, victim>>) ELSE Kinds(toDir[k])
  <2>1. PICK m \in ToDirectory : m.t \in GivingUp /\ m.a = victim /\ r.sent = Append(<<>>, m)
    BY <1>14, <1>18
  <2> DEFINE t == m.t
  <2>2. \A k \in Llcs : Kinds(toDir'[k]) =
          IF k = l THEN Append(Kinds(toDir[k]), <<t, victim>>) ELSE Kinds(toDir[k])
    BY <1>16, <2>1
  <2> QED
    BY <2>1, <2>2
<1>19. Inserted(l, a, state, victim)
  BY <1>10, <1>14, <1>16, <1>17, <1>18 DEF Inserted
<1> QED
  BY <1>19

LEMMA SameReplies ==
  ASSUME NEW q, NEW r, NEW x, SameFor(q, r, x)
  PROVE  RepliesKept(q, r, x)
BY DEF SameFor, RepliesKept

LEMMA GivingUpIsAnswer ==
  GivingUp \subseteq Answers /\ GivingUp \subseteq Requests \cup Answers
BY DEF GivingUp, Answers

LEMMA ReceiveDataSafe ==
  ASSUME CoherentInv, DirectoryInv, ControllerInv, NEW l \in Llcs,
         NEW type \in Granting, type # "UPGRADE_DATA_REP",
         NEW state, state = IF type = "EX_REP" THEN "EXCLUSIVE" ELSE "SHARED",
         ReceiveData(l, type, state)
  PROVE  DirectoryInv' /\ ControllerInv'
<1> DEFINE a == Head(toLlc[l]).a
           t == Head(toLlc[l]).t
           types == {type}
<1>1. /\ TypeOK /\ Received(l, {type}) /\ UpgradeWrites /\ ServedHere
      /\ net' = [net EXCEPT ![l] = "serving"] /\ served' = [served EXCEPT ![l] = a]
      /\ UNCHANGED <<threads, waiters, dir>>
      /\ state \in {"EXCLUSIVE", "SHARED"}
  BY DEF CoherentInv, ControllerInv, DirectoryInv, ReceiveData, NowServing
<1>2. a = Head(toLlc[l]).a /\ t = Head(toLlc[l]).t
  OBVIOUS
<1> HIDE DEF a, t
<1>3. /\ t = type /\ a \in Addrs
      /\ Kinds(toLlc[l]) # <<>> /\ Head(Kinds(toLlc[l])) = <<t, a>>
      /\ Kinds(toLlc'[l]) = Tail(Kinds(toLlc[l]))
      /\ \A k \in Llcs, b \in Addrs : k # l \/ b # a =>
           SameFor(Kinds(toLlc[k]), Kinds(toLlc'[k]), b)
      /\ net[l] = "idle" /\ served[l] = None
  <2>1. Received(l, types) /\ (t \in types => t = type)
    BY <1>1
  <2> HIDE DEF types
  <2>2. t \in types /\ Takes(l, t, a)
    BY <1>1, <1>2, <2>1, ReceivedKinds
  <2> QED
    BY <2>1, <2>2 DEF Takes
<1>4. PICK victim : Inserted(l, a, state, victim)
  BY <1>1, <1>2, DataInserted
<1>5. /\ net'[l] = "serving" /\ served'[l] = a /\ None \notin Addrs
      /\ \A k \in Llcs : k # l => net'[k] = net[k] /\ served'[k] = served[k]
  BY <1>1, CoherentAssumption DEF TypeOK
<1>6. \A k \in Llcs, b \in Addrs : k # l \/ b # victim =>
        SameFor(Kinds(toDir[k]), Kinds(toDir'[k]), b)
  <2>1. CASE victim = None
    BY <1>4, <2>1, SameUnchanged DEF Inserted
  <2>2. CASE victim # None
    <3>1. PICK g \in GivingUp : \A k \in Llcs : Kinds(toDir'[k]) =
            IF k = l THEN Append(Kinds(toDir[k]), <<g, victim>>) ELSE Kinds(toDir[k])
      BY <1>4, <2>2 DEF Inserted
    <3>2. victim \in Addrs /\ g \in Requests \cup Answers
      BY <1>4, <2>2, GivingUpIsAnswer DEF Inserted
    <3> QED
      BY <1>1, <3>1, <3>2, OthersSent
  <2> QED
    BY <2>1, <2>2
<1>7. ASSUME NEW k \in Llcs, NEW b \in Addrs, k # l \/ (b # a /\ b # victim)
      PROVE  Followed(k, b)
  <2>1. SameFor(Kinds(toDir[k]), Kinds(toDir'[k]), b)
    BY <1>6, <1>7
  <2>2. SameFor(Kinds(toLlc[k]), Kinds(toLlc'[k]), b)
    BY <1>3, <1>7
  <2>3. llc'[k][b].st = llc[k][b].st
    BY <1>4, <1>7 DEF Inserted
  <2>4. served'[k] = b <=> served[k] = b
    BY <1>3, <1>5, <1>7
  <2> QED
    BY <1>1, <2>1, <2>2, <2>3, <2>4 DEF Followed, Untouched
<1>8. Followed(l, a)
  <2> DEFINE v == View(l, a)
             w == After(l, a)
  <2>1. Line(v, l, a) /\ IsView(v) /\ v = View(l, a) /\ w = After(l, a)
    BY <1>1, <1>3, ViewTyped DEF DirectoryInv
  <2>2. /\ v.up = Kinds(toDir[l]) /\ w.up = Kinds(toDir'[l])
        /\ v.down = Kinds(toLlc[l]) /\ w.down = Kinds(toLlc'[l])
        /\ w.sharers = v.sharers /\ w.owner = v.owner /\ w.queue = v.queue
        /\ w.asked = v.asked /\ w.waiters = v.waiters /\ w.served = a
        /\ w.st = state
    BY <1>1, <1>3, <1>4, <1>5, Fields DEF Inserted
  <2> HIDE DEF v, w
  <2>3. victim # a
    BY <1>3, <1>4, <1>5 DEF Inserted
  <2>4. SameFor(v.up, w.up, a)
    BY <1>3, <1>6, <2>2, <2>3
  <2>5. /\ v.down # <<>> /\ w.down = Tail(v.down) /\ Is(Head(v.down), Granting, a)
        /\ Head(v.down)[1] = type
    BY <1>3, <2>2 DEF Is
  <2>6. Line(w, l, a)
    BY <1>3, <2>1, <2>2, <2>4, <2>5, LineGranted
  <2>7. v.down \in Seq(DownKinds)
    BY <2>1 DEF IsView
  <2>8. Departure(v.down, Head(v.down), w.down, a)
    BY <2>5, <2>7, Departing
  <2>9. UpgradeUnderway(w, l, a) => UpgradeUnderway(v, l, a)
    BY <2>2, <2>4, <2>8 DEF UpgradeUnderway, SameFor, Departure
  <2> QED
    BY <2>1, <2>6, <2>9 DEF Followed
<1>9. ASSUME victim # None PROVE Followed(l, victim)
  <2> DEFINE v == View(l, victim)
             w == After(l, victim)
  <2>0. victim \in Addrs /\ victim # a
    BY <1>4, <1>9 DEF Inserted
  <2>1. Line(v, l, victim) /\ IsView(v) /\ v = View(l, victim) /\ w = After(l, victim)
    BY <1>1, <2>0, ViewTyped DEF DirectoryInv
  <2>2. PICK g \in GivingUp : \A k \in Llcs : Kinds(toDir'[k]) =
          IF k = l THEN Append(Kinds(toDir[k]), <<g, victim>>) ELSE Kinds(toDir[k])
    BY <1>4, <1>9 DEF Inserted
  <2> DEFINE m == <<g, victim>>
  <2>3. Kinds(toDir'[l]) = Append(Kinds(toDir[l]), m) /\ m = <<g, victim>>
    BY <2>2
  <2>4. m \in UpKinds /\ m[1] = g
    BY <2>0, GivingUpIsAnswer DEF UpKinds
  <2> HIDE DEF m
  <2>5. /\ w.up = Append(v.up, m)
        /\ v.down = Kinds(toLlc[l]) /\ w.down = Kinds(toLlc'[l])
        /\ w.sharers = v.sharers /\ w.owner = v.owner /\ w.queue = v.queue
        /\ w.asked = v.asked /\ w.waiters = v.waiters /\ w.served = a /\ v.served = None
        /\ v.st \notin {"INVALID", "SHARED_UPGRADING"} /\ w.st = "INVALID"
    BY <1>1, <1>3, <1>4, <1>5, <1>9, <2>0, <2>3, Fields DEF Inserted
  <2> HIDE DEF v, w
  <2>6. SameFor(v.down, w.down, victim)
    BY <1>3, <2>0, <2>5
  <2>7. RepliesKept(v.down, w.down, victim)
    BY <2>6, SameReplies
  <2>8. v.served # victim /\ w.served # victim
    BY <1>5, <2>0, <2>5
  <2>9. Line(w, l, victim)
    <3>1. w.up = Append(v.up, <<g, victim>>)
      BY <2>3, <2>5
    <3> QED
      BY <2>0, <2>1, <2>5, <2>7, <2>8, <3>1, LineGivenUp
  <2>10. v.up \in Seq(UpKinds)
    BY <2>1 DEF IsView
  <2>11. Arrival(v.up, m, w.up, victim)
    BY <2>4, <2>5, <2>10, Arriving
  <2>12. ~Is(m, {"UPGRADE_REQ"}, victim)
    BY <2>4 DEF Is, GivingUp
  <2>13. UpgradeUnderway(w, l, victim) => UpgradeUnderway(v, l, victim)
    BY <2>5, <2>6, <2>11, <2>12 DEF UpgradeUnderway, SameFor, Arrival
  <2> QED
    BY <2>1, <2>9, <2>13 DEF Followed
<1>10. \A k \in Llcs, b \in Addrs : Followed(k, b)
  BY <1>5, <1>7, <1>8, <1>9
<1>11. WaitersKept
  BY <1>1 DEF WaitersKept, threads
<1>12. ServedHere'
  <2>1. ASSUME NEW k \in Llcs, net'[k] # "idle"
        PROVE  llc'[k][served'[k]].st \in {"SHARED", "EXCLUSIVE", "MODIFIED"}
    <3>1. CASE k = l
      BY <1>1, <1>3, <1>4, <1>5, <3>1 DEF Inserted
    <3>2. CASE k # l
      <4>1. net[k] # "idle" /\ served'[k] = served[k] /\ served[k] \in Addrs
        BY <1>1, <1>5, <2>1, <3>2 DEF TypeOK
      <4> QED
        BY <1>1, <1>4, <3>2, <4>1 DEF ServedHere, Inserted
    <3> QED
      BY <3>1, <3>2
  <2> QED
    BY <2>1 DEF ServedHere
<1>13. DirectoryInv' /\ UpgradeWrites'
  BY <1>1, <1>10, <1>11, <1>12, LinesFollowed
<1>14. LockedHeld' /\ MissDropsClean'
  <2>1. \A k \in Llcs : k # l =>
          /\ net'[k] = net[k] /\ served'[k] = served[k]
          /\ \A b \in Addrs : llc'[k][b].st = llc[k][b].st
    BY <1>4, <1>5 DEF Inserted
  <2>2. \A d \in L1s, b \in Addrs :
          \/ l1'[d][b].st = l1[d][b].st
          \/ LlcOf[d] = l /\ l1'[d][b].st # "MODIFIED"
    BY <1>4 DEF Inserted
  <2> QED
    BY <1>1, <2>1, <2>2, ReceivedHeld
<1> QED
  BY <1>4, <1>13, <1>14 DEF ControllerInv, Inserted

(* UPGRADE_REP: the first-level caches that hold the line are upgraded too.*)
Upgraded(l, a) ==
  /\ failed' = {}
  /\ \A k \in Llcs : Kinds(toDir'[k]) = Kinds(toDir[k])
  /\ \A k \in Llcs, b \in Addrs :
       llc'[k][b].st = IF k = l /\ b = a THEN "MODIFIED" ELSE llc[k][b].st
  /\ \A d \in L1s, b \in Addrs :
       LlcOf[d] # l \/ b # a => l1'[d][b].st = l1[d][b].st

(* Its line still upgrades or, when it brings the data, was lost; either   *)
(* way somebody waits for it.                                              *)
LEMMA UpgradeFinds ==
  ASSUME CoherentInv, DirectoryInv, NEW l \in Llcs, NEW a, a = Head(toLlc[l]).a,
         NEW t, t = Head(toLlc[l]).t, ReceiveUpgradeRep(l)
  PROVE  /\ Takes(l, t, a) /\ waiters[l][a] # <<>>
         /\ \/ t = "UPGRADE_REP" /\ llc[l][a].st = "SHARED_UPGRADING"
               /\ UpgradeUnderway(View(l, a), l, a)
            \/ t = "UPGRADE_DATA_REP" /\ llc[l][a].st = "INVALID"
<1> DEFINE v == View(l, a)
           types == {"UPGRADE_REP", "UPGRADE_DATA_REP"}
<1>1. TypeOK
  BY DEF CoherentInv
<1>2. Received(l, types) /\ types = {"UPGRADE_REP", "UPGRADE_DATA_REP"}
  BY DEF ReceiveUpgradeRep
<1> HIDE DEF types
<1>3. t \in types /\ Takes(l, t, a)
  BY <1>1, <1>2, ReceivedKinds
<1>4. a \in Addrs /\ v.down # <<>> /\ Head(v.down) = <<t, a>>
      /\ v.waiters = waiters[l][a] /\ v.st = llc[l][a].st
  BY <1>3, Fields DEF Takes
<1>5. Line(v, l, a) /\ IsView(v) /\ v = View(l, a)
  BY <1>1, <1>4, ViewTyped DEF DirectoryInv
<1> HIDE DEF v
<1>6. \A T : t \in T => Has(v.down, T, a)
  <2>1. v.down \in Seq(DownKinds)
    BY <1>5 DEF IsView
  <2>2. Departure(v.down, Head(v.down), Tail(v.down), a)
    BY <1>4, <2>1, Departing
  <2>3. \A T : t \in T => Is(Head(v.down), T, a)
    BY <1>4 DEF Is
  <2> QED
    BY <2>2, <2>3 DEF Departure
<1>7. waiters[l][a] # <<>>
  <2>1. Has(v.down, Replies, a)
    BY <1>2, <1>3, <1>6 DEF Replies
  <2> QED
    BY <1>4, <1>5, <2>1 DEF Line, Transaction
<1>8. CASE t = "UPGRADE_REP"
  <2>1. Has(v.down, {"UPGRADE_REP"}, a)
    BY <1>6, <1>8
  <2> QED
    BY <1>3, <1>4, <1>5, <1>7, <1>8, <2>1 DEF Line, Upgrading, UpgradeUnderway
<1>9. CASE t = "UPGRADE_DATA_REP"
  <2>1. Has(v.down, Granting, a)
    BY <1>6, <1>9 DEF Granting
  <2> QED
    BY <1>3, <1>4, <1>5, <1>7, <1>9, <2>1 DEF Line, Custody
<1> QED
  BY <1>2, <1>3, <1>8, <1>9

(* A lost line's upgrade changes nothing: updateCacheBlock takes the data  *)
(* it is given for a buffer to be filled, and its assertion fails.         *)
Lost == "out_buf_passed_in_but_never_written_to"
Fails ==
  /\ failed' = {Lost}
  /\ UNCHANGED <<caches, threads, waiters, toDir, dir, memory>>

LEMMA LostUpgradeStops ==
  ASSUME CoherentInv, DirectoryInv, failed = {}, NEW l \in Llcs,
         Head(toLlc[l]).t # "UPGRADE_REP", ReceiveUpgradeRep(l)
  PROVE  Fails
<1> DEFINE a == Head(toLlc[l]).a
           t == Head(toLlc[l]).t
           sent == Check(Awaited(l, a), t = "UPGRADE_DATA_REP",
                         "now_INV_and_no_data_in_the_shmem_msg")
           upgraded == [SnoopChecked(Awaited(l, a), l, a, {}, "MODIFIED")
                          EXCEPT !.llc[l][a].st = "MODIFIED"]
           lost == Check(sent, FALSE, Lost)
           wrong == Check(Awaited(l, a), FALSE, "upgrade_of_a_line_not_SHARED_UPGRADING")
<1>1. /\ Commit(CASE llc[l][a].st = "SHARED_UPGRADING" -> upgraded
                  [] llc[l][a].st = "INVALID" -> lost
                  [] OTHER -> wrong, l, None)
      /\ UNCHANGED <<threads, waiters, dir>>
  BY DEF ReceiveUpgradeRep, CommitQuiet, NowServing, Lost
<1>2. waiters[l][a] # <<>> /\ t = "UPGRADE_DATA_REP" /\ llc[l][a].st = "INVALID"
  BY UpgradeFinds
<1>3. lost = [Now EXCEPT !.failed = @ \cup {Lost}]
  BY <1>2 DEF Awaited, Check
<1>4. Commit(lost, l, None)
  <2> HIDE DEF lost, upgraded, wrong, a
  <2> QED
    BY <1>1, <1>2
<1>5. lost.l1 = l1 /\ lost.llc = llc /\ lost.sent = <<>> /\ lost.failed = {Lost}
  BY <1>3 DEF Now
<1> HIDE DEF lost
<1>6. toDir' = toDir
  <2>1. toDir' = [toDir EXCEPT ![l] = @ \o <<>>]
    BY <1>4, <1>5 DEF Commit
  <2>2. toDir \in [Llcs -> Seq(ToDirectory)]
    BY DEF CoherentInv, TypeOK
  <2> HIDE DEF ToDirectory
  <2> QED
    BY <2>1, <2>2
<1>7. l1' = l1 /\ llc' = llc /\ failed' = {Lost} /\ memory' = memory
  BY <1>4, <1>5 DEF Commit
<1> QED
  BY <1>1, <1>6, <1>7 DEF Fails, caches

LEMMA UpgradeTaken ==
  ASSUME CoherentInv, DirectoryInv, ControllerInv, NEW l \in Llcs,
         Head(toLlc[l]).t = "UPGRADE_REP",
         NEW a, a = Head(toLlc[l]).a, ReceiveUpgradeRep(l)
  PROVE  /\ Takes(l, "UPGRADE_REP", a) /\ UpgradeUnderway(View(l, a), l, a)
         /\ waiters[l][a] # <<>> /\ llc[l][a].st = "SHARED_UPGRADING" /\ Upgraded(l, a)
<1> DEFINE snooped == SnoopChecked(Awaited(l, a), l, a, {}, "MODIFIED")
           upgraded == [snooped EXCEPT !.llc[l][a].st = "MODIFIED"]
           sent == Check(Awaited(l, a), Head(toLlc[l]).t = "UPGRADE_DATA_REP",
                         "now_INV_and_no_data_in_the_shmem_msg")
           lost == Check(sent, FALSE, "out_buf_passed_in_but_never_written_to")
           wrong == Check(Awaited(l, a), FALSE, "upgrade_of_a_line_not_SHARED_UPGRADING")
<1>1. /\ TypeOK /\ failed = {} /\ Inclusive
  BY DEF CoherentInv, ControllerInv
<1>2. Commit(CASE llc[l][a].st = "SHARED_UPGRADING" -> upgraded
               [] llc[l][a].st = "INVALID" -> lost
               [] OTHER -> wrong, l, None)
  BY DEF ReceiveUpgradeRep, CommitQuiet
<1>3. /\ Takes(l, "UPGRADE_REP", a) /\ UpgradeUnderway(View(l, a), l, a)
      /\ waiters[l][a] # <<>> /\ llc[l][a].st = "SHARED_UPGRADING"
  BY UpgradeFinds
<1>4. a \in Addrs
  BY <1>3 DEF Takes
<1>9. Awaited(l, a) = Now
  BY <1>3 DEF Awaited, Check
<1> DEFINE n == "MODIFIED"
           skip == {}
           s == SnoopChecked(Now, l, a, skip, n)
           r == SetState(s, l, a, n)
<1>10. Commit(r, l, None)
  <2>1. upgraded = r
    BY <1>9 DEF SetState
  <2> HIDE DEF r, upgraded, lost, wrong
  <2> QED
    BY <1>2, <1>3, <2>1
<1>11. IsCaches(Now) /\ Now.sent = <<>> /\ Now.l1 = l1 /\ Now.llc = llc /\ Now.failed = {}
  BY <1>1, NowIsCaches
<1>12. n \in {"INVALID", "SHARED", "MODIFIED"} /\ n \in States /\ n = "MODIFIED"
  BY DEF States
<1>13. Included(Now)
  BY <1>1 DEF Inclusive, Included, IncludedAt, Now
<1> HIDE DEF n, skip
<1>14. /\ Alike(Now, s) /\ s.failed = Now.failed
       /\ \A c \in L1s, b \in Addrs :
            s.l1[c][b].st = IF c \in L1sOf(l) \ skip /\ b = a /\ Now.l1[c][b].st # "INVALID"
                            THEN n ELSE Now.l1[c][b].st
  BY <1>4, <1>11, <1>12, <1>13, SnoopedAlike
<1> HIDE DEF s
<1>15. /\ IsCaches(r) /\ r.l1 = s.l1 /\ r.sent = s.sent /\ r.failed = s.failed
       /\ \A k \in Llcs, b \in Addrs :
            r.llc[k][b].st = IF k = l /\ b = a THEN n ELSE s.llc[k][b].st
  BY <1>4, <1>12, <1>14, SetStateKeeps DEF Alike
<1> HIDE DEF r
<1>16. /\ l1' = r.l1 /\ llc' = r.llc /\ failed' = r.failed
       /\ \A k \in Llcs : Kinds(toDir'[k]) = Kinds(toDir[k])
  <2>1. r.sent = <<>>
    BY <1>11, <1>14, <1>15 DEF Alike
  <2> QED
    BY <1>1, <1>10, <1>15, <2>1, CommitKinds
<1>17. Upgraded(l, a)
  BY <1>11, <1>12, <1>14, <1>15, <1>16 DEF Upgraded, Alike, L1sOf
<1> QED
  BY <1>3, <1>17

LEMMA ReceiveUpgradeRepSafe ==
  ASSUME CoherentInv, DirectoryInv, ControllerInv, NEW l \in Llcs, ReceiveUpgradeRep(l),
         Head(toLlc[l]).t = "UPGRADE_REP"
  PROVE  DirectoryInv' /\ ControllerInv'
<1> DEFINE a == Head(toLlc[l]).a
<1>1. /\ TypeOK /\ UpgradeWrites /\ ServedHere /\ LockedHeld /\ MissDropsClean /\ failed = {}
      /\ net' = [net EXCEPT ![l] = "serving"] /\ served' = [served EXCEPT ![l] = a]
      /\ UNCHANGED <<pc, op, at, waiters, dir>>
  BY DEF CoherentInv, ControllerInv, DirectoryInv, ReceiveUpgradeRep, NowServing, threads
<1>2. a = Head(toLlc[l]).a
  OBVIOUS
<1> HIDE DEF a
<1>3. /\ Takes(l, "UPGRADE_REP", a) /\ UpgradeUnderway(View(l, a), l, a)
      /\ waiters[l][a] # <<>> /\ Upgraded(l, a)
  BY <1>2, UpgradeTaken
<1>4. /\ a \in Addrs
      /\ Kinds(toLlc[l]) # <<>> /\ Head(Kinds(toLlc[l])) = <<"UPGRADE_REP", a>>
      /\ Kinds(toLlc'[l]) = Tail(Kinds(toLlc[l]))
      /\ \A k \in Llcs, b \in Addrs : k # l \/ b # a =>
           SameFor(Kinds(toLlc[k]), Kinds(toLlc'[k]), b)
      /\ net[l] = "idle" /\ served[l] = None
      /\ \A d \in L1s : LlcOf[d] = l => pc[d] # "locked"
  BY <1>3 DEF Takes
<1>5. /\ net'[l] = "serving" /\ served'[l] = a /\ None \notin Addrs
      /\ \A k \in Llcs : k # l => net'[k] = net[k] /\ served'[k] = served[k]
  BY <1>1, CoherentAssumption DEF TypeOK
<1>6. ASSUME NEW k \in Llcs, NEW b \in Addrs, k # l \/ b # a
      PROVE  Followed(k, b)
  <2>1. SameFor(Kinds(toDir[k]), Kinds(toDir'[k]), b)
    BY <1>3, SameUnchanged DEF Upgraded
  <2>2. SameFor(Kinds(toLlc[k]), Kinds(toLlc'[k]), b)
    BY <1>4, <1>6
  <2>3. llc'[k][b].st = llc[k][b].st
    BY <1>3, <1>6 DEF Upgraded
  <2>4. served'[k] = b <=> served[k] = b
    BY <1>4, <1>5, <1>6
  <2> QED
    BY <1>1, <2>1, <2>2, <2>3, <2>4 DEF Followed, Untouched
<1>7. Followed(l, a)
  <2> DEFINE v == View(l, a)
             w == After(l, a)
  <2>1. Line(v, l, a) /\ IsView(v) /\ w = After(l, a)
    BY <1>1, <1>4, ViewTyped DEF DirectoryInv
  <2>2. /\ w.up = v.up
        /\ v.down # <<>> /\ w.down = Tail(v.down) /\ Head(v.down) = <<"UPGRADE_REP", a>>
        /\ w.sharers = v.sharers /\ w.owner = v.owner /\ w.queue = v.queue
        /\ w.asked = v.asked /\ w.waiters = v.waiters /\ w.served = a
        /\ w.st = "MODIFIED"
    <3>1. /\ Kinds(toDir'[l]) = Kinds(toDir[l]) /\ dir' = dir /\ waiters' = waiters
          /\ served'[l] = a /\ llc'[l][a].st = "MODIFIED"
      BY <1>1, <1>3, <1>4, <1>5 DEF Upgraded
    <3>2. v.down = Kinds(toLlc[l]) /\ w.down = Kinds(toLlc'[l])
      BY Fields
    <3>3. /\ w.up = v.up
          /\ w.sharers = v.sharers /\ w.owner = v.owner /\ w.queue = v.queue
          /\ w.asked = v.asked /\ w.waiters = v.waiters /\ w.served = a
          /\ w.st = "MODIFIED"
      BY <3>1, Fields
    <3> HIDE DEF v, w
    <3> QED
      BY <1>4, <3>2, <3>3
  <2> HIDE DEF v, w
  <2>3. Is(Head(v.down), {"UPGRADE_REP"}, a)
    BY <2>2 DEF Is
  <2>4. Line(w, l, a)
    BY <1>4, <2>1, <2>2, <2>3, LineUpgraded
  <2> QED
    BY <1>3, <2>1, <2>4 DEF Followed
<1>8. \A k \in Llcs, b \in Addrs : Followed(k, b)
  BY <1>6, <1>7
<1>9. WaitersKept
  BY <1>1 DEF WaitersKept
<1>10. ServedHere'
  <2>1. ASSUME NEW k \in Llcs, net'[k] # "idle"
        PROVE  llc'[k][served'[k]].st \in {"SHARED", "EXCLUSIVE", "MODIFIED"}
    <3>1. CASE k = l
      BY <1>3, <1>4, <1>5, <3>1 DEF Upgraded
    <3>2. CASE k # l
      <4>1. net[k] # "idle" /\ served'[k] = served[k] /\ served[k] \in Addrs
        BY <1>1, <1>5, <2>1, <3>2 DEF TypeOK
      <4> QED
        BY <1>1, <1>3, <3>2, <4>1 DEF ServedHere, Upgraded
    <3> QED
      BY <3>1, <3>2
  <2> QED
    BY <2>1 DEF ServedHere
<1>11. DirectoryInv' /\ UpgradeWrites'
  BY <1>1, <1>8, <1>9, <1>10, LinesFollowed
<1>12. Elsewhere(l)
  BY <1>1, <1>3, <1>5 DEF Elsewhere, Upgraded
<1>13. ASSUME NEW d \in L1s, LlcOf[d] = l, pc'[d] = "locked" PROVE FALSE
  BY <1>1, <1>4, <1>13
<1>14. ASSUME NEW d \in L1s, LlcOf[d] = l, pc'[d] = "upgrading", op'[d] # "PREFETCH",
              l1'[d][at'[d]].st = "MODIFIED"
       PROVE  UpgradedFirst(d)'
  <2>1. at[d] \in Addrs /\ at'[d] = at[d] /\ pc[d] = "upgrading" /\ op[d] # "PREFETCH"
    BY <1>1, <1>14 DEF TypeOK
  <2>2. at[d] = a
    <3>1. CASE at[d] # a
      <4>1. l1[d][at[d]].st = "MODIFIED"
        BY <1>3, <1>14, <2>1, <3>1 DEF Upgraded
      <4> QED
        BY <1>1, <1>4, <1>14, <2>1, <4>1 DEF MissDropsClean, UpgradedFirst
    <3> QED
      BY <3>1
  <2>3. op[Head(waiters[l][a])] \notin Reads
    BY <1>1, <1>3, <1>4 DEF UpgradeWrites
  <2>4. FrontWaiter(l)' = Head(waiters[l][a])
    BY <1>1, <1>5 DEF FrontWaiter
  <2>5. llc'[l][a].st = "MODIFIED"
    BY <1>3, <1>4 DEF Upgraded
  <2> QED
    BY <1>1, <1>5, <1>14, <2>1, <2>2, <2>3, <2>4, <2>5 DEF UpgradedFirst
<1>15. LockedHeld' /\ MissDropsClean'
  BY <1>1, <1>12, <1>13, <1>14, ElsewhereHeld
<1> QED
  BY <1>3, <1>11, <1>15 DEF ControllerInv, Upgraded

(* The directory's snoops: the copy is answered for and left in a state,   *)
(* or it is gone and nothing is said.                                      *)
LowersTo(l, a, state) ==
  /\ failed' = {}
  /\ \A d \in L1s, b \in Addrs :
       \/ l1'[d][b].st = l1[d][b].st
       \/ LlcOf[d] = l /\ l1'[d][b].st # "MODIFIED"
  /\ \A k \in Llcs, b \in Addrs :
       llc'[k][b].st = IF k = l /\ b = a THEN state ELSE llc[k][b].st

AnswersWith(l, a, t) ==
  \A k \in Llcs : Kinds(toDir'[k]) =
    IF k = l THEN Append(Kinds(toDir[k]), <<t, a>>) ELSE Kinds(toDir[k])

SaysNothing(l, a) ==
  /\ LowersTo(l, a, "INVALID")
  /\ \A k \in Llcs : Kinds(toDir'[k]) = Kinds(toDir[k])

LowersCopy(r, l, a, state) ==
  /\ IsCaches(r) /\ r.failed = {} /\ r.sent = <<>> /\ Lowered(Now, r, l)
  /\ \A k \in Llcs, b \in Addrs :
       r.llc[k][b].st = IF k = l /\ b = a THEN state ELSE llc[k][b].st

LEMMA AnswerCommitted ==
  ASSUME TypeOK, failed = {}, NEW l \in Llcs, NEW a \in Addrs, NEW state,
         NEW r, LowersCopy(r, l, a, state), NEW t \in Answers, NEW new \in BOOLEAN, Commit(Send(r, t, a, new), l, None)
  PROVE  LowersTo(l, a, state) /\ AnswersWith(l, a, t)
<1> DEFINE s == Send(r, t, a, new)
           m == Msg(t, a, new)
           n == None
<1>1. /\ IsCaches(s) /\ s.l1 = r.l1 /\ s.llc = r.llc /\ s.failed = {}
      /\ s.sent = Append(<<>>, m) /\ m \in ToDirectory /\ m.t = t /\ m.a = a
  <2>1. t \in Requests \cup Answers /\ IsCaches(r) /\ r.failed = {} /\ r.sent = <<>>
    BY DEF LowersCopy
  <2> QED
    BY <2>1, SendAlike
<1>2. n \in Addrs \cup {None} /\ Commit(s, l, n) /\ n = None
  OBVIOUS
<1>3. Now.l1 = l1
  BY NowIsCaches
<1> HIDE DEF n, s, m
<1>4. /\ l1' = s.l1 /\ llc' = s.llc /\ failed' = s.failed
      /\ \A k \in Llcs : Kinds(toDir'[k]) =
           IF k = l THEN Append(Kinds(toDir[k]), <<m.t, m.a>>) ELSE Kinds(toDir[k])
  BY <1>1, <1>2, CommitKinds
<1>5. AnswersWith(l, a, t)
  BY <1>1, <1>4 DEF AnswersWith
<1>6. LowersTo(l, a, state)
  BY <1>1, <1>3, <1>4 DEF LowersTo, Lowered, LowersCopy
<1> QED
  BY <1>5, <1>6

LEMMA NothingCommitted ==
  ASSUME TypeOK, failed = {}, NEW l \in Llcs, NEW a \in Addrs,
         llc[l][a].st = "INVALID", Commit(Now, l, None)
  PROVE  SaysNothing(l, a)
<1> DEFINE s == Now
           n == None
<1>1. /\ IsCaches(s) /\ s.sent = <<>> /\ s.l1 = l1 /\ s.llc = llc /\ s.failed = {}
      /\ n \in Addrs \cup {None} /\ Commit(s, l, n)
  BY NowIsCaches
<1> HIDE DEF s, n
<1>2. /\ l1' = s.l1 /\ llc' = s.llc /\ failed' = s.failed
      /\ \A k \in Llcs : Kinds(toDir'[k]) = Kinds(toDir[k])
  BY <1>1, CommitKinds
<1> QED
  BY <1>1, <1>2 DEF SaysNothing, LowersTo

(* What such a step keeps, when it keeps its line.                         *)
LEMMA SnoopSafe ==
  ASSUME CoherentInv, DirectoryInv, ControllerInv, NEW l \in Llcs, NEW types,
         Received(l, types), NEW a, NEW t \in SnoopRequests, Takes(l, t, a),
         UNCHANGED <<threads, waiters, net, served, dir>>, NEW state,
         LowersTo(l, a, state), Line(After(l, a), l, a),
         \/ \A k \in Llcs : Kinds(toDir'[k]) = Kinds(toDir[k])
         \/ \E r \in Answers : AnswersWith(l, a, r)
  PROVE  DirectoryInv' /\ ControllerInv'
<1>1. /\ TypeOK /\ UpgradeWrites /\ ServedHere /\ a \in Addrs /\ net[l] = "idle"
      /\ UNCHANGED <<pc, op, at>>
  BY DEF CoherentInv, ControllerInv, DirectoryInv, Takes, threads
<1>2. ASSUME NEW k \in Llcs, NEW b \in Addrs, k # l \/ b # a PROVE Followed(k, b)
  <2>1. SameFor(Kinds(toDir[k]), Kinds(toDir'[k]), b)
    <3>1. CASE \A j \in Llcs : Kinds(toDir'[j]) = Kinds(toDir[j])
      BY <3>1, SameUnchanged
    <3>2. CASE \E r \in Answers : AnswersWith(l, a, r)
      BY <1>1, <1>2, <3>2, OthersSent DEF AnswersWith
    <3> QED
      BY <3>1, <3>2
  <2>2. SameFor(Kinds(toLlc[k]), Kinds(toLlc'[k]), b)
    BY <1>2 DEF Takes
  <2>3. llc'[k][b].st = llc[k][b].st
    BY <1>2 DEF LowersTo
  <2> QED
    BY <2>1, <2>2, <2>3 DEF Followed, Untouched
<1>3. Followed(l, a)
  <2> DEFINE v == View(l, a)
             w == After(l, a)
  <2>1. /\ IsView(v) /\ v = View(l, a) /\ w = After(l, a)
        /\ v.up = Kinds(toDir[l]) /\ w.up = Kinds(toDir'[l])
        /\ v.down = Kinds(toLlc[l]) /\ w.down = Kinds(toLlc'[l])
        /\ w.queue = v.queue
    BY <1>1, ViewTyped, Fields
  <2> HIDE DEF v, w
  <2>2. v.down \in Seq(DownKinds) /\ v.up \in Seq(UpKinds)
    BY <2>1 DEF IsView
  <2>3. v.down # <<>> /\ w.down = Tail(v.down)
    BY <2>1 DEF Takes
  <2>4. Departure(v.down, Head(v.down), w.down, a)
    BY <2>2, <2>3, Departing
  <2>5. Has(w.up, {"UPGRADE_REQ"}, a) => Has(v.up, {"UPGRADE_REQ"}, a)
    <3>1. CASE \A j \in Llcs : Kinds(toDir'[j]) = Kinds(toDir[j])
      BY <2>1, <3>1
    <3>2. CASE \E r \in Answers : AnswersWith(l, a, r)
      <4>1. PICK r \in Answers : AnswersWith(l, a, r)
        BY <3>2
      <4> DEFINE m == <<r, a>>
      <4>2. m \in UpKinds /\ ~Is(m, {"UPGRADE_REQ"}, a)
        BY <1>1 DEF UpKinds, Is, Answers
      <4>3. Kinds(toDir'[l]) = Append(Kinds(toDir[l]), m)
        BY <4>1 DEF AnswersWith
      <4> HIDE DEF m
      <4>4. w.up = Append(v.up, m)
        BY <2>1, <4>3
      <4>5. Arrival(v.up, m, w.up, a)
        BY <2>2, <4>2, <4>4, Arriving
      <4> QED
        BY <4>2, <4>5 DEF Arrival
    <3> QED
      BY <3>1, <3>2
  <2>6. UpgradeUnderway(w, l, a) => UpgradeUnderway(v, l, a)
    BY <2>1, <2>4, <2>5 DEF UpgradeUnderway, Departure
  <2> QED
    BY <2>1, <2>6 DEF Followed
<1>4. ServedHere'
  BY <1>1, ServedTyped DEF ServedHere, LowersTo
<1>5. WaitersKept
  BY <1>1 DEF WaitersKept
<1>6. DirectoryInv' /\ UpgradeWrites'
  <2>1. \A k \in Llcs, b \in Addrs : Followed(k, b)
    BY <1>2, <1>3
  <2> QED
    BY <1>1, <1>4, <1>5, <2>1, LinesFollowed
<1>7. LockedHeld' /\ MissDropsClean'
  <2>1. \A k \in Llcs : k # l => \A b \in Addrs : llc'[k][b].st = llc[k][b].st
    BY DEF LowersTo
  <2>2. \A d \in L1s, b \in Addrs :
          \/ l1'[d][b].st = l1[d][b].st
          \/ LlcOf[d] = l /\ l1'[d][b].st # "MODIFIED"
    BY DEF LowersTo
  <2> QED
    BY <2>1, <2>2, ReceivedHeld
<1> QED
  BY <1>6, <1>7 DEF ControllerInv, LowersTo

LEMMA GoneQuiet ==
  ASSUME TypeOK, DirectoryInv, NEW l \in Llcs, NEW a, NEW t \in SnoopRequests,
         Takes(l, t, a), llc[l][a].st = "INVALID", SaysNothing(l, a),
         UNCHANGED <<waiters, served, dir>>
  PROVE  Line(After(l, a), l, a)
<1> DEFINE v == View(l, a)
           w == After(l, a)
<1>1. a \in Addrs
  BY DEF Takes
<1>2. /\ Line(v, l, a) /\ IsView(v) /\ v = View(l, a) /\ w = After(l, a)
      /\ v.down = Kinds(toLlc[l]) /\ w.down = Kinds(toLlc'[l])
  BY <1>1, ViewTyped, Fields DEF DirectoryInv
<1>3. /\ w.up = v.up /\ w.sharers = v.sharers /\ w.owner = v.owner /\ w.queue = v.queue
      /\ w.asked = v.asked /\ w.waiters = v.waiters /\ w.served = v.served
      /\ v.st = "INVALID" /\ w.st = "INVALID"
  BY <1>1, Fields DEF SaysNothing, LowersTo
<1> HIDE DEF v, w
<1>4. v.down \in Seq(DownKinds) /\ v.down # <<>> /\ w.down = Tail(v.down)
  BY <1>2 DEF IsView, Takes
<1>5. Is(Head(v.down), SnoopRequests, a)
  BY <1>2 DEF Is, Takes
<1>6. ~Is(Head(v.down), Granting, a)
  BY <1>5, KindsApart
<1>7. SnoopLeft(v.down, Head(v.down), w.down, a, v.st, w.st)
  BY <1>3, <1>4, <1>6, SnoopLeaving
<1>8. RepliesKept(v.down, w.down, a)
  BY <1>4, <1>5, SnoopDeparted
<1>9. SameFor(v.up, w.up, a)
  BY <1>3, SameUnchanged
<1>10. Line(w, l, a)
  BY <1>2, <1>3, <1>7, <1>8, <1>9, LineQuiet DEF SnoopLeft
<1> QED
  BY <1>2, <1>10

LEMMA InvFindsClean ==
  ASSUME TypeOK, DirectoryInv, NEW l \in Llcs, NEW a, Takes(l, "INV_REQ", a),
         llc[l][a].st # "INVALID"
  PROVE  llc[l][a].st # "MODIFIED"
<1> DEFINE v == View(l, a)
<1>1. /\ Line(v, l, a) /\ IsView(v) /\ v.down = Kinds(toLlc[l]) /\ v.st = llc[l][a].st
  BY ViewTyped, Fields DEF DirectoryInv, Takes
<1> HIDE DEF v
<1>2. v.down # <<>> /\ Is(Head(v.down), SnoopRequests, a) /\ Head(v.down)[1] = "INV_REQ"
  BY <1>1 DEF Is, Takes, SnoopRequests
<1>3. v.owner # l
  BY <1>1, <1>2, LineSnooped
<1> QED
  BY <1>1, <1>3 DEF Line, Ownership

LEMMA SnoopGivesUp ==
  ASSUME TypeOK, DirectoryInv, NEW l \in Llcs, NEW a, NEW t \in {"INV_REQ", "FLUSH_REQ"},
         Takes(l, t, a), llc[l][a].st # "INVALID",
         NEW g \in GivingUp, LowersTo(l, a, "INVALID"), AnswersWith(l, a, g),
         UNCHANGED <<waiters, served, dir>>
  PROVE  Line(After(l, a), l, a)
<1> DEFINE v == View(l, a)
           w == After(l, a)
           m == <<g, a>>
<1>1. a \in Addrs
  BY DEF Takes
<1>2. /\ Line(v, l, a) /\ IsView(v) /\ v = View(l, a) /\ w = After(l, a)
      /\ v.down = Kinds(toLlc[l]) /\ w.down = Kinds(toLlc'[l])
      /\ v.st = llc[l][a].st
  BY <1>1, ViewTyped, Fields DEF DirectoryInv
<1>3. Kinds(toDir'[l]) = Append(Kinds(toDir[l]), m) /\ m = <<g, a>>
  BY DEF AnswersWith
<1> HIDE DEF m
<1>4. /\ w.up = Append(v.up, m)
      /\ w.sharers = v.sharers /\ w.owner = v.owner /\ w.queue = v.queue
      /\ w.asked = v.asked /\ w.waiters = v.waiters /\ w.served = v.served
      /\ w.st = "INVALID"
  BY <1>1, <1>3, Fields DEF LowersTo
<1> HIDE DEF v, w
<1>5. v.down \in Seq(DownKinds) /\ v.down # <<>> /\ w.down = Tail(v.down)
  BY <1>2 DEF IsView, Takes
<1>6. Is(Head(v.down), SnoopRequests, a) /\ Head(v.down)[1] = t
  BY <1>2 DEF Is, Takes, SnoopRequests
<1>7. Awaits(v, l) /\ ~Has(v.down, Replies, a) /\ ~Shares(v)
  BY <1>2, <1>5, <1>6, LineSnooped
<1>8. RepliesKept(v.down, w.down, a)
  BY <1>5, <1>6, SnoopDeparted
<1>9. w.up = Append(v.up, <<g, a>>)
  BY <1>3, <1>4
<1>10. Line(w, l, a)
  BY <1>1, <1>2, <1>4, <1>7, <1>8, <1>9, LineGivenUp
<1> QED
  BY <1>2, <1>10

LEMMA SnoopWritesBack ==
  ASSUME TypeOK, DirectoryInv, NEW l \in Llcs, NEW a, Takes(l, "WB_REQ", a),
         llc[l][a].st # "INVALID", NEW state,
         state = IF llc[l][a].st = "SHARED_UPGRADING" THEN llc[l][a].st ELSE "SHARED",
         LowersTo(l, a, state), AnswersWith(l, a, "WB_REP"),
         UNCHANGED <<waiters, served, dir>>
  PROVE  Line(After(l, a), l, a)
<1> DEFINE v == View(l, a)
           w == After(l, a)
<1>1. a \in Addrs
  BY DEF Takes
<1>2. /\ Line(v, l, a) /\ IsView(v) /\ v = View(l, a) /\ w = After(l, a)
      /\ v.down = Kinds(toLlc[l]) /\ w.down = Kinds(toLlc'[l])
      /\ v.up = Kinds(toDir[l]) /\ w.up = Kinds(toDir'[l])
      /\ v.st = llc[l][a].st
  BY <1>1, ViewTyped, Fields DEF DirectoryInv
<1>3. /\ w.sharers = v.sharers /\ w.owner = v.owner /\ w.queue = v.queue
      /\ w.asked = v.asked /\ w.waiters = v.waiters /\ w.served = v.served
      /\ w.st = state
  BY <1>1, Fields DEF LowersTo
<1> HIDE DEF v, w
<1>4. /\ v.down # <<>> /\ w.down = Tail(v.down) /\ Head(v.down) = <<"WB_REQ", a>>
      /\ w.up = Append(v.up, <<"WB_REP", a>>)
  BY <1>2 DEF Takes, AnswersWith
<1>5. Line(w, l, a)
  BY <1>1, <1>2, <1>3, <1>4, LineWrittenBack
<1> QED
  BY <1>2, <1>5

(* What both kinds of invalidation do to the copies.                       *)
LEMMA InvalidatedEffect ==
  ASSUME TypeOK, Inclusive, failed = {}, NEW l \in Llcs, NEW a \in Addrs,
         NEW s, s = SnoopChecked(Now, l, a, {}, "INVALID")
  PROVE  /\ IsCaches(s) /\ s.failed = {} /\ s.sent = <<>>
         /\ LowersCopy(Put(s, l, a, Invalid), l, a, "INVALID")
<1> DEFINE n == "INVALID"
           skip == {}
           copy == Invalid
           t == Put(s, l, a, copy)
<1>1. /\ IsCaches(Now) /\ Now.sent = <<>> /\ Now.l1 = l1 /\ Now.llc = llc
      /\ Now.failed = {}
  BY NowIsCaches
<1>2. Included(Now)
  BY DEF Inclusive, Included, IncludedAt, Now
<1>3. n \in {"INVALID", "SHARED", "MODIFIED"} /\ n # "MODIFIED"
      /\ s = SnoopChecked(Now, l, a, skip, n)
  OBVIOUS
<1>4. copy \in Copy /\ copy.st = n
  BY InvalidIsCopy
<1> HIDE DEF n, skip, copy
<1>5. Alike(Now, s) /\ s.failed = Now.failed /\ Lowered(Now, s, l)
  BY <1>1, <1>2, <1>3, SnoopedAlike
<1>6. /\ IsCaches(t) /\ t.l1 = s.l1 /\ t.sent = s.sent /\ t.failed = s.failed
      /\ \A k \in Llcs, b \in Addrs :
           t.llc[k][b] = IF k = l /\ b = a THEN copy ELSE s.llc[k][b]
  BY <1>4, <1>5, PutKeeps DEF Alike
<1> HIDE DEF t
<1>7. \A k \in Llcs, b \in Addrs :
        t.llc[k][b].st = IF k = l /\ b = a THEN n ELSE llc[k][b].st
  BY <1>1, <1>4, <1>5, <1>6 DEF Alike
<1>8. Lowered(Now, t, l)
  BY <1>5, <1>6 DEF Lowered
<1>9. t.failed = {} /\ t.sent = <<>> /\ IsCaches(s) /\ s.failed = {} /\ s.sent = <<>>
  BY <1>1, <1>5, <1>6 DEF Alike
<1>10. LowersCopy(t, l, a, n)
  BY <1>6, <1>7, <1>8, <1>9 DEF LowersCopy
<1> QED
  BY <1>9, <1>10 DEF t, n, copy

LEMMA InvalidationAnswered ==
  ASSUME TypeOK, Inclusive, failed = {}, NEW l \in Llcs, NEW a \in Addrs,
         NEW r, r = Put(SnoopChecked(Now, l, a, {}, "INVALID"), l, a, Invalid),
         NEW g \in GivingUp, NEW new \in BOOLEAN, Commit(Send(r, g, a, new), l, None)
  PROVE  LowersTo(l, a, "INVALID") /\ AnswersWith(l, a, g)
<1> DEFINE s == SnoopChecked(Now, l, a, {}, "INVALID")
           n == "INVALID"
<1>1. s = SnoopChecked(Now, l, a, {}, "INVALID") /\ r = Put(s, l, a, Invalid) /\ n = "INVALID"
  OBVIOUS
<1> HIDE DEF s
<1>2. LowersCopy(r, l, a, n)
  BY <1>1, InvalidatedEffect
<1> HIDE DEF n
<1>3. g \in Answers
  BY GivingUpIsAnswer
<1>4. LowersTo(l, a, n) /\ AnswersWith(l, a, g)
  BY <1>2, <1>3, AnswerCommitted
<1> QED
  BY <1>1, <1>4

LEMMA InvalidationSafe ==
  ASSUME CoherentInv, DirectoryInv, ControllerInv, NEW l \in Llcs, NEW a,
         NEW types \in SUBSET {"INV_REQ", "FLUSH_REQ"},
         Received(l, types), a = Head(toLlc[l]).a,
         UNCHANGED <<threads, waiters, net, served, dir>>,
         NEW r, r = Put(SnoopChecked(Now, l, a, {}, "INVALID"), l, a, Invalid),
         NEW g \in GivingUp, NEW new \in BOOLEAN,
         IF llc[l][a].st = "INVALID" THEN Commit(Now, l, None)
                                     ELSE Commit(Send(r, g, a, new), l, None)
  PROVE  DirectoryInv' /\ ControllerInv'
<1> DEFINE t == Head(toLlc[l]).t
<1>1. TypeOK /\ Inclusive /\ failed = {}
  BY DEF CoherentInv, ControllerInv
<1>2. t = Head(toLlc[l]).t
  OBVIOUS
<1> HIDE DEF t
<1>0. t \in types /\ Takes(l, t, a)
  BY <1>1, <1>2, ReceivedKinds
<1>3. t \in {"INV_REQ", "FLUSH_REQ"} /\ t \in SnoopRequests /\ Takes(l, t, a) /\ a \in Addrs
  BY <1>0 DEF Takes, SnoopRequests
<1>4. UNCHANGED <<waiters, served, dir>> /\ g \in Answers
  BY GivingUpIsAnswer
<1>5. CASE llc[l][a].st = "INVALID"
  <2>1. SaysNothing(l, a)
    BY <1>1, <1>3, <1>5, NothingCommitted
  <2>2. Line(After(l, a), l, a)
    BY <1>1, <1>3, <1>4, <1>5, <2>1, GoneQuiet
  <2> QED
    BY <1>3, <2>1, <2>2, SnoopSafe DEF SaysNothing
<1>6. CASE llc[l][a].st # "INVALID"
  <2>3. LowersTo(l, a, "INVALID") /\ AnswersWith(l, a, g)
    BY <1>1, <1>3, <1>6, InvalidationAnswered
  <2>4. Line(After(l, a), l, a)
    BY <1>1, <1>3, <1>4, <1>6, <2>3, SnoopGivesUp
  <2> QED
    BY <1>3, <1>4, <2>3, <2>4, SnoopSafe
<1> QED
  BY <1>5, <1>6

LEMMA ReceiveInvReqSafe ==
  ASSUME CoherentInv, DirectoryInv, ControllerInv, NEW l \in Llcs, ReceiveInvReq(l)
  PROVE  DirectoryInv' /\ ControllerInv'
<1> DEFINE a == Head(toLlc[l]).a
           t == Head(toLlc[l]).t
           types == {"INV_REQ"}
           ok == llc[l][a].st # "MODIFIED"
           asked == SnoopChecked(Now, l, a, {}, "INVALID")
           snooped == Check(asked, ok, "MODIFIED_data_is_about_to_get_lost")
           put == [snooped EXCEPT !.llc[l][a] = Invalid]
           r == Put(asked, l, a, Invalid)
<1>1. TypeOK
  BY DEF CoherentInv
<1>2. /\ Received(l, types) /\ types \in SUBSET {"INV_REQ", "FLUSH_REQ"}
      /\ Commit(IF llc[l][a].st = "INVALID" THEN Now
                ELSE Send(put, "INV_REP", a, FALSE), l, None)
      /\ UNCHANGED <<threads, waiters, net, served, dir>>
  BY DEF ReceiveInvReq, CommitQuiet
<1>3. a = Head(toLlc[l]).a /\ t = Head(toLlc[l]).t /\ (t \in types => t = "INV_REQ")
  OBVIOUS
<1> HIDE DEF types, t
<1>4. t = "INV_REQ" /\ Takes(l, t, a)
  BY <1>1, <1>2, <1>3, ReceivedKinds
<1>5. llc[l][a].st # "INVALID" => put = r
  <2>1. llc[l][a].st # "INVALID" => ok
    BY <1>1, <1>4, InvFindsClean
  <2>2. ok => snooped = asked
    BY DEF Check
  <2> QED
    BY <2>1, <2>2 DEF Put
<1> HIDE DEF put, ok, snooped
<1>6. IF llc[l][a].st = "INVALID" THEN Commit(Now, l, None)
      ELSE Commit(Send(r, "INV_REP", a, FALSE), l, None)
  BY <1>2, <1>5
<1>7. "INV_REP" \in GivingUp /\ FALSE \in BOOLEAN
  BY DEF GivingUp
<1>8. r = Put(SnoopChecked(Now, l, a, {}, "INVALID"), l, a, Invalid)
  OBVIOUS
<1> HIDE DEF r, a, asked
<1> QED
  BY <1>2, <1>3, <1>6, <1>7, <1>8, InvalidationSafe

LEMMA ReceiveFlushReqSafe ==
  ASSUME CoherentInv, DirectoryInv, ControllerInv, NEW l \in Llcs, ReceiveFlushReq(l)
  PROVE  DirectoryInv' /\ ControllerInv'
<1> DEFINE a == Head(toLlc[l]).a
           types == {"FLUSH_REQ"}
           s == SnoopChecked(Now, l, a, {}, "INVALID")
           new == s.llc[l][a].new
           r == Put(s, l, a, Invalid)
<1>1. TypeOK /\ Inclusive /\ failed = {}
  BY DEF CoherentInv, ControllerInv
<1>2. /\ Received(l, types) /\ types \in SUBSET {"INV_REQ", "FLUSH_REQ"}
      /\ Commit(IF llc[l][a].st = "INVALID" THEN Now
                ELSE Send(r, "FLUSH_REP", a, new), l, None)
      /\ UNCHANGED <<threads, waiters, net, served, dir>>
  BY DEF ReceiveFlushReq, CommitQuiet, Put
<1>3. a = Head(toLlc[l]).a /\ s = SnoopChecked(Now, l, a, {}, "INVALID")
      /\ r = Put(SnoopChecked(Now, l, a, {}, "INVALID"), l, a, Invalid)
  OBVIOUS
<1> HIDE DEF types, a
<1>4. a \in Addrs
  BY <1>1, <1>2, <1>3, ReceivedTyped
<1>5. new \in BOOLEAN
  <2> HIDE DEF s
  <2>1. IsCaches(s)
    BY <1>1, <1>3, <1>4, InvalidatedEffect
  <2> QED
    BY <1>4, <2>1 DEF IsCaches, Copy
<1> HIDE DEF new, r, s
<1>6. IF llc[l][a].st = "INVALID" THEN Commit(Now, l, None)
      ELSE Commit(Send(r, "FLUSH_REP", a, new), l, None)
  BY <1>2
<1>7. "FLUSH_REP" \in GivingUp
  BY DEF GivingUp
<1> QED
  BY <1>2, <1>3, <1>5, <1>6, <1>7, InvalidationSafe

LEMMA ReceiveWbReqSafe ==
  ASSUME CoherentInv, DirectoryInv, ControllerInv, NEW l \in Llcs, ReceiveWbReq(l)
  PROVE  DirectoryInv' /\ ControllerInv'
<1> DEFINE a == Head(toLlc[l]).a
           t == Head(toLlc[l]).t
           types == {"WB_REQ"}
           n == "SHARED"
           skip == {}
           g == "WB_REP"
           old == llc[l][a].st
           snooped == SnoopChecked(Now, l, a, skip, n)
           new == snooped.llc[l][a].new
           set == SetState(snooped, l, a, n)
           state == IF old = "SHARED_UPGRADING" THEN old ELSE n
           now == Now
           f == FALSE
           answer == Send(set, g, a, new)
           blind == Send(now, g, a, f)
<1>1. TypeOK /\ Inclusive /\ failed = {}
  BY DEF CoherentInv, ControllerInv
<1>2. /\ Received(l, types)
      /\ Commit(CASE old = "INVALID" -> Now
                  [] old = "SHARED_UPGRADING" -> blind
                  [] OTHER -> answer, l, None)
      /\ UNCHANGED <<threads, waiters, net, served, dir>>
  BY DEF ReceiveWbReq, CommitQuiet, SetState
<1>3. /\ a = Head(toLlc[l]).a /\ t = Head(toLlc[l]).t /\ (t \in types => t = "WB_REQ")
      /\ old = llc[l][a].st /\ n = "SHARED" /\ g = "WB_REP"
  OBVIOUS
<1>4. g \in Answers /\ f \in BOOLEAN /\ n \in {"INVALID", "SHARED", "MODIFIED"}
      /\ n \in States /\ n # "MODIFIED" /\ "WB_REQ" \in SnoopRequests
  BY DEF Answers, States, SnoopRequests
<1> HIDE DEF types, a, t
<1>5. t = "WB_REQ" /\ Takes(l, t, a)
  BY <1>1, <1>2, <1>3, ReceivedKinds
<1>6. a \in Addrs /\ Takes(l, "WB_REQ", a) /\ UNCHANGED <<waiters, served, dir>>
  BY <1>2, <1>5 DEF Takes
<1>7. /\ IsCaches(now) /\ now.sent = <<>> /\ now.l1 = l1 /\ now.llc = llc
      /\ now.failed = {} /\ now = Now
  BY <1>1, NowIsCaches
<1>8. Included(now)
  BY <1>1 DEF Inclusive, Included, IncludedAt, Now
<1>9. CASE old = "INVALID"
  <2>1. Commit(Now, l, None)
    BY <1>2, <1>9
  <2>2. SaysNothing(l, a)
    BY <1>1, <1>3, <1>6, <1>9, <2>1, NothingCommitted
  <2>3. Line(After(l, a), l, a)
    BY <1>1, <1>3, <1>4, <1>6, <1>9, <2>2, GoneQuiet
  <2> QED
    BY <1>2, <1>4, <1>6, <2>2, <2>3, SnoopSafe DEF SaysNothing
<1>10. ASSUME old # "INVALID", LowersTo(l, a, state), AnswersWith(l, a, g)
       PROVE  DirectoryInv' /\ ControllerInv'
  <2>1. state = IF old = "SHARED_UPGRADING" THEN old ELSE n
    OBVIOUS
  <2> HIDE DEF old, n, g, state
  <2>2. Line(After(l, a), l, a)
    BY <1>1, <1>3, <1>6, <1>10, <2>1, SnoopWritesBack
  <2> QED
    BY <1>2, <1>4, <1>6, <1>10, <2>2, SnoopSafe
<1>11. CASE old = "SHARED_UPGRADING"
  <2>1. Commit(blind, l, None)
    BY <1>2, <1>11
  <2> HIDE DEF now
  <2>2. \A k \in Llcs, b \in Addrs :
          now.llc[k][b].st = IF k = l /\ b = a THEN old ELSE llc[k][b].st
    BY <1>3, <1>7
  <2> HIDE DEF old, g, f
  <2>3. LowersCopy(now, l, a, old)
    BY <1>7, <2>2 DEF LowersCopy, Lowered
  <2>4. LowersTo(l, a, old) /\ AnswersWith(l, a, g)
    BY <1>1, <1>4, <1>6, <2>1, <2>3, AnswerCommitted
  <2> QED
    BY <1>10, <1>11, <2>4
<1>12. CASE old \notin {"INVALID", "SHARED_UPGRADING"}
  <2>1. Commit(answer, l, None)
    <3> HIDE DEF answer, blind, old
    <3> QED
      BY <1>2, <1>12
  <2> HIDE DEF now, n, skip, g
  <2>2. Alike(now, snooped) /\ snooped.failed = now.failed /\ Lowered(now, snooped, l)
    <3>1. snooped = SnoopChecked(now, l, a, skip, n)
      BY <1>7
    <3> HIDE DEF snooped
    <3> QED
      BY <1>4, <1>6, <1>7, <1>8, <3>1, SnoopedAlike
  <2> HIDE DEF snooped
  <2>3. /\ IsCaches(set) /\ set.l1 = snooped.l1 /\ set.sent = snooped.sent
        /\ set.failed = snooped.failed
        /\ \A k \in Llcs, b \in Addrs :
             set.llc[k][b].st = IF k = l /\ b = a THEN n ELSE snooped.llc[k][b].st
    BY <1>4, <1>6, <2>2, SetStateKeeps DEF Alike
  <2>4. new \in BOOLEAN
    BY <1>6, <2>2 DEF Alike, IsCaches, Copy
  <2> HIDE DEF set, new
  <2>5. \A k \in Llcs, b \in Addrs :
          set.llc[k][b].st = IF k = l /\ b = a THEN n ELSE llc[k][b].st
    BY <1>7, <2>2, <2>3 DEF Alike
  <2>6. LowersCopy(set, l, a, n)
    <3>1. set.failed = {} /\ set.sent = <<>>
      BY <1>7, <2>2, <2>3 DEF Alike
    <3>2. Lowered(Now, set, l)
      BY <1>7, <2>2, <2>3 DEF Lowered
    <3> QED
      BY <2>3, <2>5, <3>1, <3>2 DEF LowersCopy
  <2>7. LowersTo(l, a, n) /\ AnswersWith(l, a, g)
    BY <1>1, <1>4, <1>6, <2>1, <2>4, <2>6, AnswerCommitted
  <2>8. state = n
    BY <1>12
  <2> QED
    BY <1>10, <1>12, <2>7, <2>8
<1> QED
  BY <1>9, <1>11, <1>12

-----------------------------------------------------------------------------
(* The directory: only the messages and its own state.                     *)
LEMMA DirectoryQuiet ==
  ASSUME CoherentInv, DirectoryInv, ControllerInv,
         UNCHANGED <<caches, threads, waiters, net, served, failed>>,
         \A k \in Llcs, b \in Addrs : Followed(k, b)
  PROVE  DirectoryInv' /\ ControllerInv'
<1>1. UNCHANGED <<l1, llc, pc, op, at, waiters, net, served, failed>>
  BY DEF caches, threads
<1>2. WaitersKept
  BY <1>1 DEF WaitersKept
<1>3. ServedHere'
  BY <1>1 DEF DirectoryInv, ServedHere
<1>4. DirectoryInv' /\ UpgradeWrites'
  BY <1>2, <1>3, LinesFollowed DEF ControllerInv
<1>5. LockedHeld'
  BY <1>1 DEF ControllerInv, LockedHeld
<1>6. MissDropsClean'
  BY <1>1 DEF ControllerInv, MissDropsClean, UpgradedFirst, FrontWaiter
<1> QED
  BY <1>1, <1>4, <1>5, <1>6 DEF ControllerInv

(* It takes a message and notes what it says.                              *)
TakesUp(l, t, a) ==
  /\ a \in Addrs /\ t \in Requests \cup Answers
  /\ Kinds(toDir[l]) # <<>> /\ Head(Kinds(toDir[l])) = <<t, a>>
  /\ Kinds(toDir'[l]) = Tail(Kinds(toDir[l]))
  /\ \A k \in Llcs : k # l => toDir'[k] = toDir[k]
  /\ \A k \in Llcs, b \in Addrs : k # l \/ b # a =>
       SameFor(Kinds(toDir[k]), Kinds(toDir'[k]), b)

Notes(l, t, a) ==
  /\ \A b \in Addrs : b # a => dir'[b] = dir[b]
  /\ dir'[a].asked = dir[a].asked
  /\ dir'[a].queue = IF t \in Requests THEN Append(dir[a].queue, <<t, l>>)
                                       ELSE dir[a].queue
  /\ dir'[a].sharers = IF t \in GivingUp THEN dir[a].sharers \ {l} ELSE dir[a].sharers
  /\ dir'[a].owner = IF t = "WB_REP" \/ (t \in GivingUp /\ dir[a].owner = l)
                     THEN None ELSE dir[a].owner

LEMMA DirectoryTakes ==
  ASSUME TypeOK, NEW l \in Llcs, DirReceive(l),
         NEW a, a = Head(toDir[l]).a, NEW t, t = Head(toDir[l]).t
  PROVE  TakesUp(l, t, a)
<1>1. /\ toDir \in [Llcs -> Seq(ToDirectory)] /\ toDir[l] # <<>>
      /\ toDir' = [toDir EXCEPT ![l] = Tail(@)]
  BY DEF TypeOK, DirReceive
<1>2. Head(toDir[l]) \in ToDirectory
  BY <1>1
<1>3. a \in Addrs /\ t \in Requests \cup Answers
  BY <1>2 DEF ToDirectory, Message
<1>4. /\ Kinds(toDir[l]) # <<>> /\ Head(Kinds(toDir[l])) = <<t, a>>
      /\ Kinds(Tail(toDir[l])) = Tail(Kinds(toDir[l]))
      /\ Kinds(toDir[l]) \in Seq((Requests \cup Answers) \X Addrs)
  <2> DEFINE q == toDir[l]
             types == Requests \cup Answers
  <2>1. q \in Seq(Message(types)) /\ q # <<>>
    BY <1>1 DEF ToDirectory
  <2>2. a = Head(q).a /\ t = Head(q).t
    OBVIOUS
  <2> HIDE DEF q, types
  <2>3. /\ Kinds(q) # <<>> /\ Head(Kinds(q)) = <<Head(q).t, Head(q).a>>
        /\ Kinds(Tail(q)) = Tail(Kinds(q)) /\ Kinds(q) \in Seq(types \X Addrs)
    BY <2>1, KindsTyped
  <2> QED
    BY <2>2, <2>3 DEF q, types
<1>5. \A k \in Llcs : toDir'[k] = IF k = l THEN Tail(toDir[l]) ELSE toDir[k]
  BY <1>1
<1>6. ASSUME NEW k \in Llcs, NEW b \in Addrs, k # l \/ b # a
      PROVE  SameFor(Kinds(toDir[k]), Kinds(toDir'[k]), b)
  <2>1. CASE k # l
    BY <1>5, <2>1, SameUnchanged
  <2>2. CASE k = l /\ b # a
    <3> DEFINE q == Kinds(toDir[l])
               types == (Requests \cup Answers) \X Addrs
    <3>1. q \in Seq(types) /\ q # <<>> /\ Head(q)[2] # b
      BY <1>4, <2>2
    <3>2. Kinds(toDir'[k]) = Tail(q) /\ Kinds(toDir[k]) = q
      BY <1>4, <1>5, <2>2
    <3> HIDE DEF q, types
    <3> QED
      BY <3>1, <3>2, SameDeparted
  <2> QED
    BY <1>6, <2>1, <2>2
<1> QED
  BY <1>3, <1>4, <1>5, <1>6 DEF TakesUp

LEMMA DirectoryNotes ==
  ASSUME TypeOK, NEW l \in Llcs, DirReceive(l),
         NEW a, a = Head(toDir[l]).a, NEW t, t = Head(toDir[l]).t, TakesUp(l, t, a)
  PROVE  Notes(l, t, a)
<1> DEFINE d == dir[a]
           asking == [d EXCEPT !.queue = Append(@, <<t, l>>)]
           gone == [d EXCEPT !.sharers = @ \ {l}, !.owner = IF @ = l THEN None ELSE @]
           clean == [d EXCEPT !.owner = None]
           noted == CASE t \in Requests -> asking
                      [] t \in {"INV_REP", "FLUSH_REP"} -> gone
                      [] t = "WB_REP" -> clean
<1>1. dir' = [dir EXCEPT ![a] = noted]
  BY DEF DirReceive
<1>2. /\ a \in Addrs /\ t \in Requests \cup Answers
      /\ \E x, y, z, u : d = [sharers |-> x, owner |-> y, queue |-> z, asked |-> u]
  BY DEF TypeOK, TakesUp
<1>3. /\ t \in Requests => t \notin GivingUp /\ t # "WB_REP"
      /\ t \in GivingUp => t \notin Requests /\ t # "WB_REP"
      /\ t \in {"INV_REP", "FLUSH_REP"} <=> t \in GivingUp
      /\ t \in Requests \/ t \in GivingUp \/ t = "WB_REP"
  BY <1>2 DEF Requests, Answers, GivingUp
<1>4. /\ noted.asked = d.asked
      /\ noted.queue = IF t \in Requests THEN Append(d.queue, <<t, l>>) ELSE d.queue
      /\ noted.sharers = IF t \in GivingUp THEN d.sharers \ {l} ELSE d.sharers
      /\ noted.owner = IF t = "WB_REP" \/ (t \in GivingUp /\ d.owner = l)
                       THEN None ELSE d.owner
  <2>1. CASE t \in Requests
    <3>1. noted = asking
      BY <1>3, <2>1
    <3> QED
      BY <1>2, <1>3, <2>1, <3>1
  <2>2. CASE t \in GivingUp
    <3>1. noted = gone
      BY <1>3, <2>2
    <3> QED
      BY <1>2, <1>3, <2>2, <3>1
  <2>3. CASE t = "WB_REP"
    <3>1. noted = clean
      BY <1>3, <2>3
    <3> QED
      BY <1>2, <1>3, <2>3, <3>1
  <2> QED
    BY <1>3, <2>1, <2>2, <2>3
<1> HIDE DEF noted
<1>5. dir'[a] = noted /\ \A b \in Addrs : b # a => dir'[b] = dir[b]
  BY <1>1, <1>2 DEF TypeOK
<1> QED
  BY <1>4, <1>5 DEF Notes

(* The line the message is of, for the cache it comes from.                *)
LEMMA OwnLineNoted ==
  ASSUME TypeOK, DirectoryInv, NEW l \in Llcs, NEW t, NEW a, TakesUp(l, t, a),
         Notes(l, t, a), UNCHANGED <<caches, waiters, served, toLlc>>
  PROVE  /\ Followed(l, a)
         /\ t = "WB_REP" => dir[a].owner = l
<1> DEFINE v == View(l, a)
           w == After(l, a)
<1>1. a \in Addrs /\ t \in Requests \cup Answers /\ llc' = llc
  BY DEF TakesUp, caches
<1>2. /\ Line(v, l, a) /\ IsView(v) /\ v = View(l, a) /\ w = After(l, a)
      /\ v.up = Kinds(toDir[l]) /\ w.up = Kinds(toDir'[l])
      /\ v.queue = dir[a].queue /\ w.queue = dir'[a].queue
      /\ v.sharers = dir[a].sharers /\ w.sharers = dir'[a].sharers
      /\ v.owner = dir[a].owner /\ w.owner = dir'[a].owner
  BY <1>1, ViewTyped, Fields DEF DirectoryInv
<1>3. /\ w.down = v.down /\ w.st = v.st /\ w.waiters = v.waiters /\ w.served = v.served
      /\ w.asked = v.asked
  BY <1>1, Fields DEF Notes
<1> HIDE DEF v, w
<1>4. v.up # <<>> /\ w.up = Tail(v.up) /\ Head(v.up) = <<t, a>>
  BY <1>2 DEF TakesUp
<1>5. /\ w.queue = IF t \in Requests THEN Append(v.queue, <<t, l>>) ELSE v.queue
      /\ w.sharers = IF t \in GivingUp THEN v.sharers \ {l} ELSE v.sharers
      /\ w.owner = IF t = "WB_REP" \/ (t \in GivingUp /\ v.owner = l) THEN None ELSE v.owner
  BY <1>2 DEF Notes
<1>6. /\ t \in Requests => t \notin GivingUp /\ t # "WB_REP"
      /\ t \in GivingUp => t \notin Requests /\ t # "WB_REP"
      /\ t \in Requests \/ t \in GivingUp \/ t = "WB_REP"
      /\ "WB_REP" \notin Requests
  BY <1>1 DEF Requests, Answers, GivingUp
<1>7. v.up \in Seq(UpKinds) /\ v.queue \in Seq(QueueKinds)
  BY <1>2 DEF IsView
<1>8. Departure(v.up, Head(v.up), w.up, a)
  BY <1>4, <1>7, Departing
<1>0. ASSUME t = "WB_REP" PROVE Line(w, l, a) /\ v.owner = l
  <2>1. /\ Head(v.up) = <<"WB_REP", a>> /\ w.owner = None
        /\ w.sharers = v.sharers /\ w.queue = v.queue
    BY <1>0, <1>4, <1>5, <1>6
  <2> QED
    BY <1>2, <1>3, <1>4, <2>1, LineClean
<1>9. Line(w, l, a)
  <2>1. CASE t \in Requests
    <3>1. /\ w.queue = Append(v.queue, <<t, l>>) /\ w.sharers = v.sharers
          /\ w.owner = v.owner
      BY <1>5, <1>6, <2>1
    <3>2. a \in Addrs /\ IsView(v) /\ Line(v, l, a)
      BY <1>1, <1>2
    <3> QED
      BY <1>3, <1>4, <2>1, <3>1, <3>2, LineQueued
  <2>2. CASE t \in GivingUp
    <3>1. /\ w.queue = v.queue /\ w.sharers = v.sharers \ {l}
          /\ w.owner = IF v.owner = l THEN None ELSE v.owner
      BY <1>5, <1>6, <2>2
    <3>2. IsView(v) /\ Line(v, l, a)
      BY <1>2
    <3> QED
      BY <1>3, <1>4, <2>2, <3>1, <3>2, LineGone
  <2>3. CASE t = "WB_REP"
    BY <1>0, <2>3
  <2> QED
    BY <1>6, <2>1, <2>2, <2>3
<1>10. t = "WB_REP" => v.owner = l
  BY <1>0
<1>11. Has(w.queue, {"UPGRADE_REQ"}, l) =>
         Has(v.queue, {"UPGRADE_REQ"}, l) \/ Has(v.up, {"UPGRADE_REQ"}, a)
  <2>1. CASE t \in Requests
    <3> DEFINE m == <<t, l>>
    <3>1. m \in QueueKinds /\ (Is(m, {"UPGRADE_REQ"}, l) => t = "UPGRADE_REQ")
      BY <2>1 DEF QueueKinds, Is
    <3>2. w.queue = Append(v.queue, m)
      BY <1>5, <2>1
    <3> HIDE DEF m
    <3>3. Arrival(v.queue, m, w.queue, l)
      BY <1>7, <3>1, <3>2, Arriving
    <3>4. t = "UPGRADE_REQ" => Is(Head(v.up), {"UPGRADE_REQ"}, a)
      BY <1>4 DEF Is
    <3> QED
      BY <1>8, <3>1, <3>3, <3>4 DEF Arrival, Departure
  <2>2. CASE t \notin Requests
    BY <1>5, <2>2
  <2> QED
    BY <2>1, <2>2
<1>12. UpgradeUnderway(w, l, a) => UpgradeUnderway(v, l, a)
  BY <1>3, <1>8, <1>11 DEF UpgradeUnderway, Departure
<1> QED
  BY <1>2, <1>9, <1>10, <1>12 DEF Followed

(* The same line for the other caches.                                     *)
LEMMA OtherLineNoted ==
  ASSUME TypeOK, DirectoryInv, NEW l \in Llcs, NEW t, NEW a, TakesUp(l, t, a),
         Notes(l, t, a), UNCHANGED <<caches, waiters, served, toLlc>>,
         t = "WB_REP" => dir[a].owner = l, NEW k \in Llcs, k # l
  PROVE  Followed(k, a)
<1> DEFINE v == View(k, a)
           w == After(k, a)
<1>1. /\ a \in Addrs /\ t \in Requests \cup Answers /\ llc' = llc
      /\ toDir'[k] = toDir[k]
  BY DEF TakesUp, caches
<1>2. /\ Line(v, k, a) /\ IsView(v) /\ v = View(k, a) /\ w = After(k, a)
      /\ v.queue = dir[a].queue /\ w.queue = dir'[a].queue
      /\ v.sharers = dir[a].sharers /\ w.sharers = dir'[a].sharers
      /\ v.owner = dir[a].owner /\ w.owner = dir'[a].owner
  BY <1>1, ViewTyped, Fields DEF DirectoryInv
<1>3. /\ w.up = v.up /\ w.down = v.down /\ w.st = v.st /\ w.waiters = v.waiters
      /\ w.served = v.served /\ w.asked = v.asked
  BY <1>1, Fields DEF Notes
<1> HIDE DEF v, w
<1>5. /\ w.queue = IF t \in Requests THEN Append(v.queue, <<t, l>>) ELSE v.queue
      /\ w.sharers = IF t \in GivingUp THEN v.sharers \ {l} ELSE v.sharers
      /\ w.owner = IF t = "WB_REP" \/ (t \in GivingUp /\ v.owner = l) THEN None ELSE v.owner
      /\ t = "WB_REP" => v.owner = l
  BY <1>2 DEF Notes
<1>6. /\ t \in Requests => t \notin GivingUp /\ t # "WB_REP"
      /\ t \in GivingUp => t \notin Requests /\ t # "WB_REP"
      /\ t \in Requests \/ t \in GivingUp \/ t = "WB_REP"
  BY <1>1 DEF Requests, Answers, GivingUp
<1>7. v.queue \in Seq(QueueKinds)
  BY <1>2 DEF IsView
<1>8. Line(w, k, a)
  <2>1. CASE t \in Requests
    BY <1>2, <1>3, <1>5, <1>6, <2>1, LineOtherQueued
  <2>2. CASE t \in GivingUp
    BY <1>2, <1>3, <1>5, <1>6, <2>2, LineOtherGone
  <2>3. CASE t = "WB_REP"
    BY <1>2, <1>3, <1>5, <1>6, <2>3, LineOtherClean
  <2> QED
    BY <1>6, <2>1, <2>2, <2>3
<1>9. Has(w.queue, {"UPGRADE_REQ"}, k) => Has(v.queue, {"UPGRADE_REQ"}, k)
  <2>1. CASE t \in Requests
    <3> DEFINE m == <<t, l>>
    <3>1. m \in QueueKinds /\ ~Is(m, {"UPGRADE_REQ"}, k)
      BY <2>1 DEF QueueKinds, Is
    <3>2. w.queue = Append(v.queue, m)
      BY <1>5, <2>1
    <3> HIDE DEF m
    <3>3. Arrival(v.queue, m, w.queue, k)
      BY <1>7, <3>1, <3>2, Arriving
    <3> QED
      BY <3>1, <3>3 DEF Arrival
  <2>2. CASE t \notin Requests
    BY <1>5, <2>2
  <2> QED
    BY <2>1, <2>2
<1>10. UpgradeUnderway(w, k, a) => UpgradeUnderway(v, k, a)
  BY <1>3, <1>9 DEF UpgradeUnderway
<1> QED
  BY <1>2, <1>8, <1>10 DEF Followed

LEMMA DirReceiveSafe ==
  ASSUME CoherentInv, DirectoryInv, ControllerInv, NEW l \in Llcs, DirReceive(l)
  PROVE  DirectoryInv' /\ ControllerInv'
<1> DEFINE a == Head(toDir[l]).a
           t == Head(toDir[l]).t
<1>1. /\ TypeOK /\ a = Head(toDir[l]).a /\ t = Head(toDir[l]).t
      /\ UNCHANGED <<caches, threads, waiters, net, served, toLlc, failed>>
  BY DEF CoherentInv, DirReceive
<1> HIDE DEF a, t
<1>2. TakesUp(l, t, a)
  BY <1>1, DirectoryTakes
<1>3. Notes(l, t, a)
  BY <1>1, <1>2, DirectoryNotes
<1>4. UNCHANGED <<caches, waiters, served, toLlc>>
  BY <1>1
<1>5. Followed(l, a) /\ (t = "WB_REP" => dir[a].owner = l)
  BY <1>1, <1>2, <1>3, <1>4, OwnLineNoted
<1>6. \A k \in Llcs : k # l => Followed(k, a)
  BY <1>1, <1>2, <1>3, <1>4, <1>5, OtherLineNoted
<1>7. ASSUME NEW k \in Llcs, NEW b \in Addrs, b # a PROVE Followed(k, b)
  <2>1. SameFor(Kinds(toDir[k]), Kinds(toDir'[k]), b)
    BY <1>2, <1>7 DEF TakesUp
  <2>2. SameFor(Kinds(toLlc[k]), Kinds(toLlc'[k]), b)
    BY <1>1, SameUnchanged
  <2>3. dir'[b] = dir[b]
    BY <1>3, <1>7 DEF Notes
  <2> QED
    BY <1>1, <2>1, <2>2, <2>3 DEF Followed, Untouched, caches
<1>8. \A k \in Llcs, b \in Addrs : Followed(k, b)
  BY <1>5, <1>6, <1>7
<1> QED
  BY <1>1, <1>8, DirectoryQuiet

(* The snoops: every cache in the way of the first request is asked.       *)
LEMMA DirSnoopSafe ==
  ASSUME CoherentInv, DirectoryInv, ControllerInv, NEW a \in Addrs, DirSnoop(a)
  PROVE  DirectoryInv' /\ ControllerInv'
<1>1. /\ TypeOK /\ dir[a].queue # <<>> /\ dir[a].asked = FALSE
      /\ UNCHANGED <<caches, threads, waiters, net, served, toDir, memory, failed>>
      /\ UNCHANGED <<l1, llc>>
  BY DEF CoherentInv, DirSnoop, TypeOK, caches
<1>2. /\ \A b \in Addrs : b # a => dir'[b] = dir[b]
      /\ dir'[a].sharers = dir[a].sharers /\ dir'[a].owner = dir[a].owner
      /\ dir'[a].queue = dir[a].queue /\ dir'[a].asked = TRUE
  <2>1. /\ dir' = [dir EXCEPT ![a].asked = TRUE]
        /\ \E x, y, z, u : dir[a] = [sharers |-> x, owner |-> y, queue |-> z, asked |-> u]
    BY <1>1 DEF DirSnoop, TypeOK
  <2> QED
    BY <1>1, <2>1 DEF TypeOK
<1>3. ASSUME NEW l \in Llcs
      PROVE  Kinds(toLlc'[l]) =
               IF l \in BlockersOf(View(l, a))
               THEN Append(Kinds(toLlc[l]), <<SnoopFor(View(l, a), l), a>>)
               ELSE Kinds(toLlc[l])
  <2> DEFINE v == View(l, a)
             t == IF Head(dir[a].queue)[1] = "SH_REQ" THEN "WB_REQ"
                  ELSE IF dir[a].owner = l THEN "FLUSH_REQ" ELSE "INV_REQ"
             m == Msg(t, a, FALSE)
             types == Replies \cup SnoopRequests
             q == toLlc[l]
  <2>1. toLlc'[l] = IF l \in Blockers(a) THEN Append(q, m) ELSE q
    BY DEF DirSnoop
  <2>2. v.queue = dir[a].queue /\ v.sharers = dir[a].sharers /\ v.owner = dir[a].owner
    BY Fields
  <2> HIDE DEF v
  <2>3. (l \in Blockers(a) <=> l \in BlockersOf(v)) /\ SnoopFor(v, l) = t
    BY <2>2 DEF Blockers, BlockersOf, SnoopFor, Shares
  <2>4. t \in types
    BY DEF SnoopRequests
  <2> HIDE DEF t
  <2>5. m \in Message(types) /\ m.t = t /\ m.a = a
    BY <2>4 DEF Msg, Message
  <2>6. q \in Seq(Message(types))
    BY <1>1 DEF TypeOK, FromDirectory
  <2> HIDE DEF m, types, q
  <2>7. Kinds(Append(q, m)) = Append(Kinds(q), <<m.t, m.a>>)
    BY <2>5, <2>6, KindsTyped
  <2> QED
    BY <2>1, <2>3, <2>5, <2>7 DEF v, q
<1>4. ASSUME NEW l \in Llcs PROVE Followed(l, a)
  <2> DEFINE v == View(l, a)
             w == After(l, a)
  <2>1. /\ Line(v, l, a) /\ IsView(v) /\ v = View(l, a) /\ w = After(l, a)
        /\ v.down = Kinds(toLlc[l]) /\ w.down = Kinds(toLlc'[l])
        /\ w.up = v.up /\ w.st = v.st /\ w.sharers = v.sharers /\ w.owner = v.owner
        /\ w.queue = v.queue /\ w.waiters = v.waiters /\ w.served = v.served
        /\ v.queue = dir[a].queue
    BY <1>1, <1>2, ViewTyped, Fields DEF DirectoryInv
  <2>2. v.queue # <<>> /\ v.asked = FALSE /\ w.asked = TRUE
    BY <1>1, <1>2, Fields
  <2>3. v.sharers = dir[a].sharers
    BY Fields
  <2> HIDE DEF v, w
  <2>4. w.down = IF l \in BlockersOf(v) THEN Append(v.down, <<SnoopFor(v, l), a>>)
                                        ELSE v.down
    BY <1>3, <2>1
  <2>5. Shares(v) => Head(v.queue)[2] \notin v.sharers
    <3> DEFINE k == Head(v.queue)[2]
               u == View(k, a)
    <3>1. v.queue \in Seq(QueueKinds)
      BY <2>1 DEF IsView
    <3>2. k \in Llcs /\ (Head(v.queue)[1] \in Fetching => Has(v.queue, Fetching, k))
      BY <2>2, <3>1, HeadHas
    <3>3. Line(u, k, a) /\ u.queue = v.queue /\ u.sharers = v.sharers
      BY <2>1, <2>3, <3>2, Fields DEF DirectoryInv
    <3> HIDE DEF k, u
    <3>4. Has(v.queue, Fetching, k) => k \notin v.sharers
      BY <3>3 DEF Line, Fetched
    <3> QED
      BY <3>2, <3>4 DEF Shares, Fetching, k
  <2>6. Line(w, l, a)
    BY <2>1, <2>2, <2>4, <2>5, LineAsked
  <2>7. Has(w.down, {"UPGRADE_REP"}, a) => Has(v.down, {"UPGRADE_REP"}, a)
    <3> DEFINE t == SnoopFor(v, l)
               m == <<t, a>>
    <3>1. t \in SnoopRequests
      BY DEF SnoopFor, SnoopRequests
    <3> HIDE DEF t
    <3>2. m \in DownKinds /\ ~Is(m, {"UPGRADE_REP"}, a)
      BY <3>1 DEF DownKinds, Is, SnoopRequests
    <3>3. w.down = Append(v.down, m) \/ w.down = v.down
      BY <2>4 DEF t
    <3> HIDE DEF m
    <3>4. v.down \in Seq(DownKinds)
      BY <2>1 DEF IsView
    <3>5. Arrival(v.down, m, Append(v.down, m), a)
      BY <3>2, <3>4, Arriving
    <3> QED
      BY <3>2, <3>3, <3>5 DEF Arrival
  <2>8. UpgradeUnderway(w, l, a) => UpgradeUnderway(v, l, a)
    BY <2>1, <2>7 DEF UpgradeUnderway
  <2> QED
    BY <2>1, <2>6, <2>8 DEF Followed
<1>5. ASSUME NEW k \in Llcs, NEW b \in Addrs, b # a PROVE Followed(k, b)
  <2>1. SameFor(Kinds(toDir[k]), Kinds(toDir'[k]), b)
    BY <1>1, SameUnchanged
  <2>2. SameFor(Kinds(toLlc[k]), Kinds(toLlc'[k]), b)
    <3> DEFINE q == Kinds(toLlc[k])
               t == SnoopFor(View(k, a), k)
               m == <<t, a>>
    <3>1. q \in Seq(DownKinds)
      BY <1>1, ViewTyped, Fields DEF IsView
    <3>2. t \in SnoopRequests
      BY DEF SnoopFor, SnoopRequests
    <3>3. Kinds(toLlc'[k]) = Append(q, m) \/ Kinds(toLlc'[k]) = q
      BY <1>3
    <3> HIDE DEF t
    <3>4. m \in DownKinds /\ m[2] # b
      BY <1>5, <3>2 DEF DownKinds
    <3> HIDE DEF q, m
    <3>5. SameFor(q, Append(q, m), b) /\ SameFor(q, q, b)
      BY <3>1, <3>4, SameArrived, SameUnchanged
    <3> QED
      BY <3>3, <3>5 DEF q
  <2> QED
    BY <1>1, <1>2, <1>5, <2>1, <2>2 DEF Followed, Untouched
<1>6. \A k \in Llcs, b \in Addrs : Followed(k, b)
  BY <1>4, <1>5
<1> QED
  BY <1>1, <1>6, DirectoryQuiet

(* The answer to the first request: to an upgrade whose copy was lost, the *)
(* data in a message of one kind or the other.                             *)
Grants(l, t, a) ==
  /\ l \in Llcs /\ t \in Replies /\ dir[a].queue # <<>> /\ l = Head(dir[a].queue)[2]
  /\ \A k \in Llcs : Kinds(toLlc'[k]) =
       IF k = l THEN Append(Kinds(toLlc[k]), <<t, a>>) ELSE Kinds(toLlc[k])
  /\ \A b \in Addrs : b # a => dir'[b] = dir[b]
  /\ dir'[a].sharers = dir[a].sharers \cup {l}
  /\ dir'[a].owner = IF t = "SH_REP" THEN None ELSE l
  /\ dir'[a].queue = Tail(dir[a].queue) /\ dir'[a].asked = FALSE
  /\ BlockersOf(View(l, a)) = {} /\ Chosen(View(l, a), l, t)

LEMMA DirectoryGrants ==
  ASSUME TypeOK, NEW a \in Addrs, NEW lost \in LostUpgradeReplies, DirAnswer(a, lost)
  PROVE  \E l, t : Grants(l, t, a)
<1> DEFINE r == Head(dir[a].queue)
           l == r[2]
           held == l \in dir[a].sharers
           t == CASE r[1] = "SH_REQ" -> IF Mesi /\ dir[a].sharers = {} THEN "EX_REP"
                                                                      ELSE "SH_REP"
                  [] r[1] = "EX_REQ" -> "EX_REP"
                  [] r[1] = "UPGRADE_REQ" -> IF held THEN "UPGRADE_REP"
                                                     ELSE lost
           new == memory[a] /\ ~(held /\ t = "UPGRADE_REP")
           m == Msg(t, a, new)
           v == View(l, a)
<1>1. /\ dir[a].queue # <<>> /\ Blockers(a) = {}
      /\ toLlc' = [toLlc EXCEPT ![l] = Append(@, m)]
      /\ dir' = [dir EXCEPT ![a] =
           [sharers |-> @.sharers \cup {l}, owner |-> IF t = "SH_REP" THEN None ELSE l,
            queue |-> Tail(@.queue), asked |-> FALSE]]
  BY DEF DirAnswer
<1>2. r = Head(dir[a].queue) /\ l = r[2] /\ v = View(l, a)
  OBVIOUS
<1>3. r[1] \in Requests /\ l \in Llcs
  <2> DEFINE q == dir[a].queue
  <2>1. q \in Seq(QueueKinds) /\ q # <<>>
    BY <1>1 DEF TypeOK, QueueKinds
  <2> HIDE DEF q
  <2>2. Head(q)[1] \in Requests /\ Head(q)[2] \in Llcs
    BY <2>1, HeadHas
  <2> QED
    BY <2>2 DEF q
<1>4. /\ r[1] = "SH_REQ" => /\ t \in {"EX_REP", "SH_REP"}
                            /\ t = "EX_REP" => dir[a].sharers = {}
      /\ r[1] = "EX_REQ" => t = "EX_REP"
      /\ r[1] = "UPGRADE_REQ" => IF l \in dir[a].sharers
                                   THEN t = "UPGRADE_REP"
                                   ELSE t \in {"EX_REP", "UPGRADE_DATA_REP"}
      /\ t \in Replies
  BY <1>3, CoherentAssumption DEF Requests, Replies
<1>5. new \in BOOLEAN
  BY DEF TypeOK
<1> HIDE DEF r, t, new, v, l
<1>6. v.queue = dir[a].queue /\ v.sharers = dir[a].sharers /\ v.owner = dir[a].owner
  BY <1>2, Fields
<1>7. Chosen(v, l, t)
  <2>1. Head(v.queue) = r /\ v.sharers = dir[a].sharers
    BY <1>2, <1>6
  <2>2. Head(v.queue)[1] = "UPGRADE_REQ" =>
          IF l \in v.sharers THEN t = "UPGRADE_REP"
                            ELSE t \in {"EX_REP", "UPGRADE_DATA_REP"}
    BY <1>4, <2>1
  <2>3. Shares(v) => t \in {"EX_REP", "SH_REP"} /\ (t = "EX_REP" => v.sharers = {})
    BY <1>4, <2>1 DEF Shares
  <2> QED
    BY <1>4, <2>1, <2>2, <2>3 DEF Chosen
<1>8. BlockersOf(v) = {}
  BY <1>1, <1>2, <1>6 DEF BlockersOf, Blockers, Shares
<1>9. /\ dir'[a] = [sharers |-> dir[a].sharers \cup {l},
                    owner |-> IF t = "SH_REP" THEN None ELSE l,
                    queue |-> Tail(dir[a].queue), asked |-> FALSE]
      /\ \A b \in Addrs : b # a => dir'[b] = dir[b]
  BY <1>1 DEF TypeOK
<1>10. \A k \in Llcs : Kinds(toLlc'[k]) =
         IF k = l THEN Append(Kinds(toLlc[k]), <<t, a>>) ELSE Kinds(toLlc[k])
  <2> DEFINE types == Replies \cup SnoopRequests
             q == toLlc[l]
  <2>1. m \in Message(types) /\ m.t = t /\ m.a = a
    BY <1>4, <1>5 DEF Msg, Message
  <2>2. q \in Seq(Message(types))
    BY <1>3 DEF TypeOK, FromDirectory
  <2>3. \A k \in Llcs : toLlc'[k] = IF k = l THEN Append(q, m) ELSE toLlc[k]
    BY <1>1 DEF TypeOK
  <2>4. q = toLlc[l]
    OBVIOUS
  <2> HIDE DEF m, types, q
  <2>5. Kinds(Append(q, m)) = Append(Kinds(q), <<m.t, m.a>>)
    BY <2>1, <2>2, KindsTyped
  <2> QED
    BY <2>1, <2>3, <2>4, <2>5
<1>11. /\ dir'[a].sharers = dir[a].sharers \cup {l}
       /\ dir'[a].owner = IF t = "SH_REP" THEN None ELSE l
       /\ dir'[a].queue = Tail(dir[a].queue) /\ dir'[a].asked = FALSE
  BY <1>9
<1>12. dir[a].queue # <<>> /\ l = Head(dir[a].queue)[2] /\ t \in Replies
       /\ \A b \in Addrs : b # a => dir'[b] = dir[b]
  BY <1>1, <1>2, <1>4, <1>9
<1>13. BlockersOf(View(l, a)) = {} /\ Chosen(View(l, a), l, t)
  BY <1>2, <1>7, <1>8
<1> HIDE DEF m, held
<1>14. Grants(l, t, a)
  BY <1>3, <1>10, <1>11, <1>12, <1>13 DEF Grants
<1> QED
  BY <1>14

LEMMA OwnLineGranted ==
  ASSUME TypeOK, DirectoryInv, NEW a \in Addrs, NEW l, NEW t, Grants(l, t, a),
         UNCHANGED <<caches, waiters, served, toDir>>
  PROVE  Followed(l, a) /\ Sharing(After(l, a))
<1> DEFINE v == View(l, a)
           w == After(l, a)
           m == <<t, a>>
<1>1. l \in Llcs /\ t \in Replies /\ llc' = llc
  BY DEF Grants, caches
<1>2. /\ Line(v, l, a) /\ IsView(v) /\ v = View(l, a) /\ w = After(l, a)
      /\ v.down = Kinds(toLlc[l]) /\ w.down = Kinds(toLlc'[l])
      /\ v.queue = dir[a].queue /\ w.queue = dir'[a].queue
      /\ v.sharers = dir[a].sharers /\ w.sharers = dir'[a].sharers
      /\ w.owner = dir'[a].owner /\ w.asked = dir'[a].asked
  BY <1>1, ViewTyped, Fields DEF DirectoryInv
<1>3. w.up = v.up /\ w.st = v.st /\ w.waiters = v.waiters /\ w.served = v.served
  BY <1>1, Fields
<1> HIDE DEF v, w
<1>4. m = <<t, a>>
  OBVIOUS
<1> HIDE DEF m
<1>5. /\ w.down = Append(v.down, m) /\ v.queue # <<>> /\ Head(v.queue)[2] = l
      /\ w.sharers = v.sharers \cup {l} /\ w.owner = IF t = "SH_REP" THEN None ELSE l
      /\ w.queue = Tail(v.queue) /\ w.asked = FALSE
      /\ BlockersOf(v) = {} /\ Chosen(v, l, t)
  BY <1>1, <1>2, <1>4 DEF Grants
<1>6. Line(w, l, a)
  BY <1>1, <1>2, <1>3, <1>4, <1>5, LineReplied
<1>7. v.down \in Seq(DownKinds) /\ v.queue \in Seq(QueueKinds)
  BY <1>2 DEF IsView
<1>8. m \in DownKinds /\ (Is(m, {"UPGRADE_REP"}, a) => t = "UPGRADE_REP")
  BY <1>1, <1>4 DEF DownKinds, Is
<1>9. Arrival(v.down, m, w.down, a)
  BY <1>5, <1>7, <1>8, Arriving
<1>10. Departure(v.queue, Head(v.queue), w.queue, l)
  <2>1. v.queue \in Seq(QueueKinds) /\ v.queue # <<>> /\ w.queue = Tail(v.queue)
    BY <1>5, <1>7
  <2> QED
    BY <2>1, Departing
<1>11. t = "UPGRADE_REP" => Is(Head(v.queue), {"UPGRADE_REQ"}, l)
  <2>1. Head(v.queue)[1] \in Requests
    BY <1>5, <1>7, HeadHas
  <2> QED
    BY <1>5, <2>1 DEF Chosen, Shares, Is, Requests, Granting
<1>12. UpgradeUnderway(w, l, a) => UpgradeUnderway(v, l, a)
  BY <1>3, <1>8, <1>9, <1>10, <1>11 DEF UpgradeUnderway, Arrival, Departure
<1> QED
  BY <1>2, <1>6, <1>12 DEF Followed, Line

LEMMA OtherLineGranted ==
  ASSUME TypeOK, DirectoryInv, NEW a \in Addrs, NEW l, NEW t, Grants(l, t, a),
         UNCHANGED <<caches, waiters, served, toDir>>, Sharing(After(l, a)),
         NEW k \in Llcs, k # l
  PROVE  Followed(k, a)
<1> DEFINE v == View(k, a)
           w == After(k, a)
           x == View(l, a)
           y == After(l, a)
<1>1. l \in Llcs /\ llc' = llc /\ Kinds(toLlc'[k]) = Kinds(toLlc[k])
  BY DEF Grants, caches
<1>2. /\ Line(v, k, a) /\ IsView(v) /\ v = View(k, a) /\ w = After(k, a)
      /\ v.queue = dir[a].queue /\ w.queue = dir'[a].queue
      /\ v.sharers = dir[a].sharers /\ w.sharers = dir'[a].sharers
      /\ v.owner = dir[a].owner /\ w.owner = dir'[a].owner /\ w.asked = dir'[a].asked
  BY <1>1, ViewTyped, Fields DEF DirectoryInv
<1>3. /\ w.up = v.up /\ w.down = v.down /\ w.st = v.st /\ w.waiters = v.waiters
      /\ w.served = v.served
  BY <1>1, Fields
<1>4. /\ x = View(l, a) /\ y = After(l, a)
      /\ x.queue = v.queue /\ x.sharers = v.sharers /\ x.owner = v.owner
      /\ y.sharers = w.sharers /\ y.owner = w.owner
  BY Fields
<1> HIDE DEF v, w, x, y
<1>5. /\ v.queue # <<>> /\ Head(v.queue)[2] = l
      /\ w.sharers = v.sharers \cup {l} /\ w.owner \in {None, l}
      /\ w.queue = Tail(v.queue) /\ w.asked = FALSE
  BY <1>2 DEF Grants
<1>6. BlockersOf(v) = {} /\ Sharing(w)
  BY <1>4 DEF Grants, BlockersOf, Shares, Sharing
<1>7. Line(w, k, a)
  BY <1>1, <1>2, <1>3, <1>5, <1>6, LineOtherReplied
<1>8. v.queue \in Seq(QueueKinds)
  BY <1>2 DEF IsView
<1>9. Departure(v.queue, Head(v.queue), w.queue, k)
  <2>1. v.queue # <<>> /\ w.queue = Tail(v.queue)
    BY <1>5
  <2> QED
    BY <1>8, <2>1, Departing
<1>10. UpgradeUnderway(w, k, a) => UpgradeUnderway(v, k, a)
  BY <1>3, <1>9 DEF UpgradeUnderway, Departure
<1> QED
  BY <1>2, <1>7, <1>10 DEF Followed

LEMMA DirReplySafe ==
  ASSUME CoherentInv, DirectoryInv, ControllerInv, NEW a \in Addrs, DirReply(a)
  PROVE  DirectoryInv' /\ ControllerInv'
<1>0. PICK lost \in LostUpgradeReplies : DirAnswer(a, lost)
  BY DEF DirReply
<1>1. /\ TypeOK /\ UNCHANGED <<caches, threads, waiters, net, served, toDir, memory, failed>>
  BY <1>0 DEF CoherentInv, DirAnswer
<1>2. PICK l, t : Grants(l, t, a)
  BY <1>0, <1>1, DirectoryGrants
<1>3. UNCHANGED <<caches, waiters, served, toDir>> /\ llc' = llc
  BY <1>1 DEF caches
<1>4. Followed(l, a) /\ Sharing(After(l, a)) /\ l \in Llcs
  <2>1. l \in Llcs
    BY <1>2 DEF Grants
  <2>2. TypeOK /\ DirectoryInv /\ Grants(l, t, a)
    BY <1>1, <1>2
  <2>3. Followed(l, a) /\ Sharing(After(l, a))
    BY <1>3, <2>2, OwnLineGranted
  <2> QED
    BY <2>1, <2>3
<1>5. \A k \in Llcs : k # l => Followed(k, a)
  BY <1>1, <1>2, <1>3, <1>4, OtherLineGranted
<1>6. ASSUME NEW k \in Llcs, NEW b \in Addrs, b # a PROVE Followed(k, b)
  <2>1. SameFor(Kinds(toDir[k]), Kinds(toDir'[k]), b)
    BY <1>3, SameUnchanged
  <2>2. SameFor(Kinds(toLlc[k]), Kinds(toLlc'[k]), b)
    <3> DEFINE q == Kinds(toLlc[k])
               m == <<t, a>>
    <3>1. q \in Seq(DownKinds)
      BY <1>1, ViewTyped, Fields DEF IsView
    <3>2. m \in DownKinds /\ m[2] # b
      BY <1>2, <1>6 DEF DownKinds, Grants
    <3>3. Kinds(toLlc'[k]) = Append(q, m) \/ Kinds(toLlc'[k]) = q
      BY <1>2 DEF Grants
    <3> HIDE DEF q, m
    <3>4. SameFor(q, Append(q, m), b) /\ SameFor(q, q, b)
      BY <3>1, <3>2, SameArrived, SameUnchanged
    <3> QED
      BY <3>3, <3>4 DEF q
  <2>3. dir'[b] = dir[b]
    BY <1>2, <1>6 DEF Grants
  <2> QED
    BY <1>3, <2>1, <2>2, <2>3 DEF Followed, Untouched
<1>7. \A k \in Llcs, b \in Addrs : Followed(k, b)
  BY <1>4, <1>5, <1>6
<1> QED
  BY <1>1, <1>7, DirectoryQuiet

-----------------------------------------------------------------------------
LEMMA DirectoryInit ==
  ASSUME Init
  PROVE  DirectoryInv /\ ControllerInv
<1>1. ASSUME NEW l \in Llcs, NEW a \in Addrs PROVE Line(View(l, a), l, a)
  <2> DEFINE v == View(l, a)
  <2>1. toDir[l] = <<>> /\ toLlc[l] = <<>> /\ served[l] # a /\ waiters[l][a] = <<>>
        /\ llc[l][a].st = "INVALID" /\ dir[a].sharers = {} /\ dir[a].owner = None
        /\ dir[a].queue = <<>>
    BY CoherentAssumption DEF Init, Invalid
  <2>2. \A q : q = <<>> => Kinds(q) = <<>>
    BY DEF Kinds
  <2>3. /\ v.up = <<>> /\ v.down = <<>> /\ v.st = "INVALID" /\ v.sharers = {}
        /\ v.owner = None /\ v.queue = <<>> /\ v.waiters = <<>> /\ v.served # a
    BY <2>1, <2>2, Fields
  <2> HIDE DEF v
  <2>4. \A q : q = <<>> => DOMAIN q = {}
    OBVIOUS
  <2>5. \A q, T, x : q = <<>> => ~Has(q, T, x) /\ Once(q, T, x)
    BY <2>4 DEF Has, Once
  <2>6. \A q, T, U, x : q = <<>> => Ahead(q, T, U, x)
    BY <2>4 DEF Ahead
  <2>7. \A q, st, x : q = <<>> => Settled(q, st, x) /\ \A T : ~LiveOf(q, st, T, x)
    BY <2>4 DEF Settled, LiveOf
  <2>8. Sharing(v) /\ Custody(v, l, a) /\ Ownership(v, l, a)
    BY <2>3, <2>5 DEF Sharing, Custody, Ownership
  <2>9. Transaction(v, l, a) /\ Upgrading(v, l, a)
    BY <2>3, <2>5 DEF Transaction, Upgrading
  <2>10. Fetched(v, l, a) /\ Snooped(v, l, a) /\ WroteBack(v, l, a)
    BY <2>3, <2>5, <2>6, <2>7 DEF Fetched, Snooped, WroteBack
  <2>11. Entitled(v, l, a)
    BY <2>3, CoherentAssumption DEF Entitled
  <2> QED
    BY <2>8, <2>9, <2>10, <2>11 DEF Line, v
<1>2. ServedHere /\ failed = {} /\ LockedHeld /\ MissDropsClean
  BY DEF Init, ServedHere, LockedHeld, MissDropsClean
<1>3. ASSUME NEW l \in Llcs, NEW a \in Addrs PROVE ~UpgradeUnderway(View(l, a), l, a)
  <2>1. toDir[l] = <<>> /\ toLlc[l] = <<>> /\ dir[a].queue = <<>>
    BY DEF Init
  <2>2. \A q : q = <<>> => Kinds(q) = <<>>
    BY DEF Kinds
  <2>3. View(l, a).up = <<>> /\ View(l, a).down = <<>> /\ View(l, a).queue = <<>>
    BY <2>1, <2>2, Fields
  <2>4. \A q, T, x : q = <<>> => ~Has(q, T, x)
    BY DEF Has
  <2> QED
    BY <2>3, <2>4 DEF UpgradeUnderway
<1> QED
  BY <1>1, <1>2, <1>3 DEF DirectoryInv, ControllerInv, UpgradeWrites

LEMMA DirectoryStep ==
  ASSUME CoherentInv, DirectoryInv, ControllerInv, [Next]_vars
  PROVE  (DirectoryInv' /\ ControllerInv') \/ Fails
<1>1. CASE UNCHANGED vars
  <2>1. UNCHANGED <<caches, threads, waiters, net, served, toDir, toLlc, dir, failed>>
    BY <1>1 DEF vars
  <2>2. \A k \in Llcs, b \in Addrs : Followed(k, b)
    BY <2>1, SameUnchanged DEF Followed, Untouched, caches
  <2> QED
    BY <2>1, <2>2, DirectoryQuiet
<1>2. ASSUME NEW c \in L1s, UserStep(c) PROVE DirectoryInv' /\ ControllerInv'
  <2>1. CASE \E a \in Addrs : WriteHit(c, a) \/ AtomicHit(c, a) \/ \E o \in Ops : Miss(c, o, a)
    BY <2>1, UserOutside
  <2>2. CASE \E a \in Addrs : DoPrefetch(c, a)
    BY <2>2, UserOutside
  <2>3. CASE AtomicUnlock(c)
    <3>1. at[c] \in Addrs
      BY <2>3 DEF CoherentInv, TypeOK, AtomicUnlock
    <3> QED
      BY <2>3, <3>1, UserOutside
  <2>4. CASE MissHitsLlc(c)
    BY <2>4, MissHitsLlcSafe
  <2>5. CASE MissGoesToDirectory(c)
    BY <2>5, MissGoesToDirectorySafe
  <2> QED
    BY <1>2, <2>1, <2>2, <2>3, <2>4, <2>5 DEF UserStep
<1>3. ASSUME NEW l \in Llcs, NetworkStep(l)
      PROVE  (DirectoryInv' /\ ControllerInv') \/ Fails
  <2>1. CASE ReceiveExRep(l)
    <3> DEFINE type == "EX_REP"
               state == "EXCLUSIVE"
    <3>1. /\ type \in Granting /\ type # "UPGRADE_DATA_REP" /\ ReceiveData(l, type, state)
          /\ state = IF type = "EX_REP" THEN "EXCLUSIVE" ELSE "SHARED"
      BY <2>1 DEF ReceiveExRep, Granting
    <3> HIDE DEF type, state
    <3> QED
      BY <3>1, ReceiveDataSafe
  <2>2. CASE ReceiveShRep(l)
    <3> DEFINE type == "SH_REP"
               state == "SHARED"
    <3>1. /\ type \in Granting /\ type # "UPGRADE_DATA_REP" /\ ReceiveData(l, type, state)
          /\ state = IF type = "EX_REP" THEN "EXCLUSIVE" ELSE "SHARED"
      BY <2>2 DEF ReceiveShRep, Granting
    <3> HIDE DEF type, state
    <3> QED
      BY <3>1, ReceiveDataSafe
  <2>3. CASE ReceiveUpgradeRep(l)
    <3>1. failed = {}
      BY DEF ControllerInv
    <3> QED
      BY <2>3, <3>1, ReceiveUpgradeRepSafe, LostUpgradeStops
  <2>4. CASE ServeUpgrade(l)
    BY <2>4, ServeUpgradeSafe
  <2>5. CASE ServeWaiter(l)
    BY <2>5, ServeWaiterSafe
  <2>6. CASE ResumeServing(l)
    BY <2>6, ResumeServingSafe
  <2>7. CASE ReceiveInvReq(l)
    BY <2>7, ReceiveInvReqSafe
  <2>8. CASE ReceiveFlushReq(l)
    BY <2>8, ReceiveFlushReqSafe
  <2>9. CASE ReceiveWbReq(l)
    BY <2>9, ReceiveWbReqSafe
  <2> QED
    BY <1>3, <2>1, <2>2, <2>3, <2>4, <2>5, <2>6, <2>7, <2>8, <2>9 DEF NetworkStep
<1>4. ASSUME NEW l \in Llcs, DirReceive(l) PROVE DirectoryInv' /\ ControllerInv'
  BY <1>4, DirReceiveSafe
<1>5. ASSUME NEW a \in Addrs, DirSnoop(a) \/ DirReply(a)
      PROVE  DirectoryInv' /\ ControllerInv'
  BY <1>5, DirSnoopSafe, DirReplySafe
<1> QED
  BY <1>1, <1>2, <1>3, <1>4, <1>5 DEF Next

(* Once an assertion has failed nothing moves.                             *)
LEMMA FailedStops ==
  ASSUME failed # {}, [Next]_vars
  PROVE  UNCHANGED vars
<1>1. ~Running
  BY DEF Running
<1>2. ASSUME NEW c \in L1s, UserStep(c) PROVE FALSE
  <2>1. \A a \in Addrs : ~WriteHit(c, a) /\ ~AtomicHit(c, a) /\ ~DoPrefetch(c, a)
    BY <1>1 DEF WriteHit, AtomicHit, DoPrefetch
  <2>2. \A a \in Addrs, o \in Ops : ~Miss(c, o, a)
    BY <1>1 DEF Miss
  <2>3. ~AtomicUnlock(c) /\ ~MissHitsLlc(c) /\ ~MissGoesToDirectory(c)
    BY <1>1 DEF AtomicUnlock, MissHitsLlc, MissGoesToDirectory
  <2> QED
    BY <1>2, <2>1, <2>2, <2>3 DEF UserStep
<1>3. ASSUME NEW l \in Llcs, NetworkStep(l) PROVE FALSE
  <2>1. \A types : ~Received(l, types)
    BY <1>1 DEF Received
  <2>2. ~ReceiveExRep(l) /\ ~ReceiveShRep(l) /\ ~ReceiveUpgradeRep(l)
    BY <2>1 DEF ReceiveExRep, ReceiveShRep, ReceiveData, ReceiveUpgradeRep
  <2>3. ~ReceiveInvReq(l) /\ ~ReceiveFlushReq(l) /\ ~ReceiveWbReq(l)
    BY <2>1 DEF ReceiveInvReq, ReceiveFlushReq, ReceiveWbReq
  <2>4. ~ServeUpgrade(l) /\ ~ServeWaiter(l) /\ ~ResumeServing(l)
    BY <1>1 DEF ServeUpgrade, ServeWaiter, ResumeServing
  <2> QED
    BY <1>3, <2>2, <2>3, <2>4 DEF NetworkStep
<1>4. \A l \in Llcs : ~DirReceive(l)
  BY <1>1 DEF DirReceive
<1>5. \A a \in Addrs : ~DirSnoop(a) /\ ~DirReply(a)
  BY <1>1 DEF DirSnoop, DirReply, DirAnswer
<1> QED
  BY <1>2, <1>3, <1>4, <1>5 DEF Next

-----------------------------------------------------------------------------
(* What the invariant says in the words of the module.                     *)
LEMMA OnlyCopy ==
  ASSUME TypeOK, DirectoryInv
  PROVE  LlcExclusive
<1>1. SUFFICES ASSUME NEW k \in Llcs, NEW l \in Llcs, NEW a \in Addrs, k # l,
                      llc[l][a].st \in {"EXCLUSIVE", "MODIFIED"}
               PROVE  llc[k][a].st = "INVALID"
  BY DEF LlcExclusive
<1> DEFINE u == View(k, a)
           v == View(l, a)
<1>2. /\ Line(u, k, a) /\ Line(v, l, a)
      /\ u.st = llc[k][a].st /\ v.st = llc[l][a].st
      /\ u.sharers = dir[a].sharers /\ v.sharers = dir[a].sharers
      /\ v.owner = dir[a].owner
  BY Fields DEF DirectoryInv
<1> HIDE DEF u, v
<1>3. v.owner = l
  BY <1>1, <1>2 DEF Line, Ownership
<1>4. dir[a].sharers = {l}
  BY <1>2, <1>3, CoherentAssumption DEF Line, Sharing
<1> QED
  BY <1>1, <1>2, <1>4 DEF Line, Custody

LEMMA KindsHave ==
  ASSUME NEW q, NEW T, NEW x, Has(Kinds(q), T, x)
  PROVE  \E i \in DOMAIN q : q[i].a = x /\ q[i].t \in T
BY DEF Has, Kinds, Is

LEMMA CopyGivenUp ==
  ASSUME TypeOK, DirectoryInv
  PROVE  EvictionUnderway
<1>1. SUFFICES ASSUME NEW l \in Llcs, NEW a \in Addrs,
                      l \in dir[a].sharers, llc[l][a].st = "INVALID"
               PROVE  \/ \E i \in DOMAIN toLlc[l] :
                           toLlc[l][i].a = a /\ toLlc[l][i].t \in Replies
                      \/ \E i \in DOMAIN toDir[l] :
                           /\ toDir[l][i].a = a
                           /\ toDir[l][i].t \in {"INV_REP", "FLUSH_REP"}
  BY DEF EvictionUnderway
<1> DEFINE v == View(l, a)
<1>2. /\ Line(v, l, a) /\ v.st = llc[l][a].st /\ v.sharers = dir[a].sharers
      /\ v.up = Kinds(toDir[l]) /\ v.down = Kinds(toLlc[l])
  BY Fields DEF DirectoryInv
<1> HIDE DEF v
<1>3. Has(v.down, Granting, a) \/ Has(v.up, GivingUp, a)
  BY <1>1, <1>2 DEF Line, Custody
<1>4. CASE Has(v.down, Granting, a)
  <2>1. Has(v.down, Replies, a)
    BY <1>4, HasReply
  <2> QED
    BY <1>2, <2>1, KindsHave
<1>5. CASE Has(v.up, GivingUp, a)
  BY <1>2, <1>5, KindsHave DEF GivingUp
<1> QED
  BY <1>3, <1>4, <1>5

LEMMA CountOnce ==
  ASSUME NEW q, NEW T, NEW x, Once(q, T, x)
  PROVE  Cardinality({i \in DOMAIN q : Is(q[i], T, x)}) = IF Has(q, T, x) THEN 1 ELSE 0
<1> DEFINE there == {i \in DOMAIN q : Is(q[i], T, x)}
<1>1. CASE Has(q, T, x)
  <2>1. PICK i \in DOMAIN q : Is(q[i], T, x)
    BY <1>1 DEF Has
  <2>2. there = {i}
    BY <2>1 DEF Once
  <2>3. Cardinality({i}) = 1
    BY FS_Singleton
  <2> QED
    BY <1>1, <2>2, <2>3
<1>2. CASE ~Has(q, T, x)
  <2>1. there = {}
    BY <1>2 DEF Has
  <2>2. Cardinality({}) = 0
    BY FS_EmptySet
  <2> QED
    BY <1>2, <2>1, <2>2
<1> QED
  BY <1>1, <1>2

LEMMA CountKinds ==
  ASSUME NEW q, NEW T, NEW x, Once(Kinds(q), T, x)
  PROVE  Cardinality({i \in DOMAIN q : q[i].a = x /\ q[i].t \in T})
           = IF Has(Kinds(q), T, x) THEN 1 ELSE 0
<1>1. {i \in DOMAIN q : q[i].a = x /\ q[i].t \in T}
        = {i \in DOMAIN Kinds(q) : Is(Kinds(q)[i], T, x)}
  BY DEF Kinds, Is
<1> QED
  BY <1>1, CountOnce

LEMMA OneRequest ==
  ASSUME TypeOK, DirectoryInv
  PROVE  OneRequestPerLine
<1>1. SUFFICES ASSUME NEW l \in Llcs, NEW a \in Addrs
               PROVE  Outstanding(l, a) = IF waiters[l][a] = <<>> THEN 0 ELSE 1
  BY DEF OneRequestPerLine
<1> DEFINE v == View(l, a)
           n1 == Cardinality({i \in DOMAIN toDir[l] :
                                toDir[l][i].a = a /\ toDir[l][i].t \in Requests})
           n2 == Cardinality({i \in DOMAIN dir[a].queue : dir[a].queue[i][2] = l})
           n3 == Cardinality({i \in DOMAIN toLlc[l] :
                                toLlc[l][i].a = a /\ toLlc[l][i].t \in Replies})
<1>2. /\ Transaction(v, l, a) /\ IsView(v)
      /\ v.up = Kinds(toDir[l]) /\ v.down = Kinds(toLlc[l]) /\ v.queue = dir[a].queue
      /\ v.served = served[l] /\ v.waiters = waiters[l][a]
  BY ViewTyped, Fields DEF DirectoryInv, Line
<1> HIDE DEF v
<1>3. n1 = IF Has(v.up, Requests, a) THEN 1 ELSE 0
  <2>1. v.up = Kinds(toDir[l]) /\ Once(Kinds(toDir[l]), Requests, a)
    BY <1>2 DEF Transaction
  <2> QED
    BY <2>1, CountKinds
<1>4. n2 = IF Has(v.queue, Requests, l) THEN 1 ELSE 0
  <2>1. \A i \in DOMAIN v.queue : v.queue[i][1] \in Requests
    BY <1>2 DEF IsView, QueueKinds
  <2>2. {i \in DOMAIN dir[a].queue : dir[a].queue[i][2] = l}
          = {i \in DOMAIN v.queue : Is(v.queue[i], Requests, l)}
    BY <1>2, <2>1 DEF Is
  <2>3. Once(v.queue, Requests, l)
    BY <1>2 DEF Transaction
  <2> QED
    BY <2>2, <2>3, CountOnce
<1>5. n3 = IF Has(v.down, Replies, a) THEN 1 ELSE 0
  <2>1. v.down = Kinds(toLlc[l]) /\ Once(Kinds(toLlc[l]), Replies, a)
    BY <1>2 DEF Transaction
  <2> QED
    BY <2>1, CountKinds
<1>6. Outstanding(l, a) = n1 + n2 + n3 + (IF v.served = a THEN 1 ELSE 0)
  BY <1>2 DEF Outstanding
<1> HIDE DEF n1, n2, n3
<1> DEFINE t1 == Has(v.up, Requests, a)
           t2 == Has(v.queue, Requests, l)
           t3 == Has(v.down, Replies, a)
           t4 == v.served = a
<1>7. /\ ~(t1 /\ t2) /\ ~(t1 /\ t3) /\ ~(t1 /\ t4)
      /\ ~(t2 /\ t3) /\ ~(t2 /\ t4) /\ ~(t3 /\ t4)
      /\ waiters[l][a] # <<>> <=> t1 \/ t2 \/ t3 \/ t4
  BY <1>2 DEF Transaction
<1>8. /\ n1 = IF t1 THEN 1 ELSE 0
      /\ n2 = IF t2 THEN 1 ELSE 0
      /\ n3 = IF t3 THEN 1 ELSE 0
      /\ Outstanding(l, a) = n1 + n2 + n3 + (IF t4 THEN 1 ELSE 0)
  BY <1>3, <1>4, <1>5, <1>6
<1> HIDE DEF t1, t2, t3, t4
<1>9. CASE waiters[l][a] = <<>>
  <2>1. ~t1 /\ ~t2 /\ ~t3 /\ ~t4
    BY <1>7, <1>9
  <2> QED
    BY <1>8, <1>9, <2>1
<1>10. CASE waiters[l][a] # <<>>
  BY <1>7, <1>8, <1>10
<1> QED
  BY <1>9, <1>10

(* The caches and the directory, until a lost upgrade is answered without  *)
(* its data being wanted; then they stay as they were.                     *)
Coherent ==
  /\ CoherentInv
  /\ \/ DirectoryInv /\ ControllerInv
     \/ failed = {Lost} /\ Inclusive /\ LlcExclusive

LEMMA CoherentSays ==
  ASSUME Coherent
  PROVE  Inclusive /\ LlcExclusive /\ OnlyLostUpgradesFail
<1>1. CASE DirectoryInv /\ ControllerInv
  BY <1>1, OnlyCopy DEF Coherent, CoherentInv, ControllerInv, OnlyLostUpgradesFail
<1>2. CASE failed = {Lost} /\ Inclusive /\ LlcExclusive
  BY <1>2 DEF OnlyLostUpgradesFail, Lost
<1> QED
  BY <1>1, <1>2 DEF Coherent

LEMMA CoherentKept ==
  ASSUME Coherent, [Next]_vars
  PROVE  Coherent'
<1>1. CoherentInv'
  BY CoherentStep DEF Coherent
<1>2. Inclusive /\ LlcExclusive
  BY CoherentSays
<1>3. ASSUME UNCHANGED caches PROVE Inclusive' /\ LlcExclusive'
  BY <1>2, <1>3 DEF Inclusive, LlcExclusive, caches
<1>4. CASE DirectoryInv /\ ControllerInv
  <2>1. (DirectoryInv' /\ ControllerInv') \/ Fails
    BY <1>4, DirectoryStep DEF Coherent
  <2> QED
    BY <1>1, <1>3, <2>1 DEF Coherent, Fails
<1>5. CASE failed = {Lost}
  <2>1. UNCHANGED vars
    BY <1>5, FailedStops
  <2>2. UNCHANGED caches /\ failed' = failed
    BY <2>1 DEF vars
  <2> QED
    BY <1>1, <1>3, <1>5, <2>2 DEF Coherent
<1> QED
  BY <1>4, <1>5 DEF Coherent

LEMMA CoherentAllAlong == Spec => []Coherent
<1>1. Init => Coherent
  BY CoherentInit, DirectoryInit DEF Coherent
<1>2. Coherent /\ [Next]_vars => Coherent'
  BY CoherentKept
<1> QED
  BY <1>1, <1>2, PTL DEF Spec

-----------------------------------------------------------------------------
(* Whatever the directory answers to an upgrade whose copy it took back,   *)
(* writebacks find MODIFIED lines, replies find their waiter, an upgrade   *)
(* finds its line still upgrading, woken threads and second halves of      *)
(* atomic operations find their data (processShmemReqFromPrevCache and     *)
(* processExRepFromDramDirectory and their peers), however evictions,      *)
(* snoops and upgrades cross: the one assertion that can fail is the one   *)
(* in updateCacheBlock, on an UPGRADE_REP that brings the data of a lost   *)
(* copy.                                                                   *)
THEOREM OnlyOneAssertionCanFail == Spec => []OnlyLostUpgradesFail
<1>1. Coherent => OnlyLostUpgradesFail
  BY CoherentSays
<1> QED
  BY <1>1, CoherentAllAlong, PTL

(* So inclusion holds without a condition: whatever a first-level cache    *)
(* holds is below it, a modified line under a modified one.                *)
THEOREM AlwaysInclusive == Spec => []Inclusive
<1>1. Coherent => Inclusive
  BY CoherentSays
<1> QED
  BY <1>1, CoherentAllAlong, PTL

(* A last-level cache that may write, or silently become writable, has the *)
(* only copy among last-level caches, with any number of requests, answers *)
(* and evictions of the line under way.                                    *)
THEOREM WritableCopyIsTheOnlyOne == Spec => []LlcExclusive
<1>1. Coherent => LlcExclusive
  BY CoherentSays
<1> QED
  BY <1>1, CoherentAllAlong, PTL

(* "hoping eviction message is underway" (processInvReqFromDramDirectory): *)
(* it is, whenever the directory snoops a cache that has nothing.          *)
THEOREM EvictionIsUnderway == Spec => []EvictionUnderway
<1>1. Coherent => EvictionUnderway
  BY CopyGivenUp DEF Coherent, CoherentInv, EvictionUnderway, Running
<1> QED
  BY <1>1, CoherentAllAlong, PTL

(* The waiters of a line have exactly one request between the first miss   *)
(* and the last waiter served; a thread that finds the list not empty need *)
(* not ask (initiateDirectoryAccess).                                      *)
THEOREM WaitersShareOneRequest == Spec => []OneRequestPerLine
<1>1. Coherent => OneRequestPerLine
  BY OneRequest DEF Coherent, CoherentInv, OneRequestPerLine, Running
<1> QED
  BY <1>1, CoherentAllAlong, PTL

-----------------------------------------------------------------------------
(* The data in the caches s and in what they sent: a first-level copy is   *)
(* new, a last-level copy is or lies below a modified one, and every       *)
(* modified line sent back is new; and the copies are of lines the program *)
(* accesses through their cache, the writable ones of lines it writes.     *)
Writebacks == {"FLUSH_REP", "WB_REP"}
Fresh(q, T) == \A i \in DOMAIN q : q[i].t \in T => q[i].new = TRUE

DirtyAbove(s, l, a) == \E c \in L1sOf(l) : s.l1[c][a].st = "MODIFIED"
Writable == {"MODIFIED", "SHARED_UPGRADING"}
WrittenAbove(l, a) == \E c \in L1sOf(l) : a \in Written[c]
Within(s) ==
  /\ \A c \in L1s, a \in Addrs : s.l1[c][a].st # "INVALID" => a \in Accessed[c]
  /\ \A l \in Llcs, a \in Addrs : s.llc[l][a].st \in Writable => WrittenAbove(l, a)
Sound(s) ==
  /\ \A c \in L1s, a \in Addrs : s.l1[c][a].st # "INVALID" => s.l1[c][a].new = TRUE
  /\ \A l \in Llcs, a \in Addrs :
       s.llc[l][a].st # "INVALID" => s.llc[l][a].new = TRUE \/ DirtyAbove(s, l, a)
  /\ Fresh(s.sent, Writebacks)
  /\ Within(s)

(* From s to t on behalf of l: no first-level copy appears, and a modified *)
(* line of a last-level cache stays there or is sent back.                 *)
NoneAppears(s, t) ==
  \A c \in L1s, a \in Addrs : s.l1[c][a].st = "INVALID" => t.l1[c][a].st = "INVALID"
SentBack(q, a) == \E i \in DOMAIN q : q[i].t \in Writebacks /\ q[i].a = a
Holding(s, l, k, a) == s.llc[k][a].st = "MODIFIED" \/ (k = l /\ SentBack(s.sent, a))
Carries(s, t, l) ==
  /\ IsCaches(t)
  /\ Sound(s) => Sound(t)
  /\ NoneAppears(s, t)
  /\ \A k \in Llcs, a \in Addrs : Holding(s, l, k, a) => Holding(t, l, k, a)

LEMMA CarriesTwice ==
  ASSUME NEW s, NEW t, NEW u, NEW l, Carries(s, t, l), Carries(t, u, l)
  PROVE  Carries(s, u, l)
BY DEF Carries, NoneAppears

LEMMA CheckCarries ==
  ASSUME NEW s, IsCaches(s), NEW ok, NEW what, NEW l
  PROVE  Carries(s, Check(s, ok, what), l)
<1> DEFINE t == Check(s, ok, what)
<1>1. /\ IsCaches(t) /\ t.l1 = s.l1 /\ t.llc = s.llc /\ t.sent = s.sent
  BY CheckKeeps DEF Kept
<1> HIDE DEF t
<1> QED
  BY <1>1 DEF Carries, Sound, Within, NoneAppears, Holding, DirtyAbove, t

LEMMA SendCarries ==
  ASSUME NEW s, IsCaches(s), NEW type \in Requests \cup Answers, NEW a \in Addrs,
         NEW new \in BOOLEAN, type \in Writebacks => new = TRUE, NEW l
  PROVE  /\ Carries(s, Send(s, type, a, new), l)
         /\ type \in Writebacks => SentBack(Send(s, type, a, new).sent, a)
<1> DEFINE t == Send(s, type, a, new)
           m == Msg(type, a, new)
<1>1. /\ IsCaches(t) /\ t.l1 = s.l1 /\ t.llc = s.llc /\ t.sent = Append(s.sent, m)
      /\ m \in ToDirectory /\ m.t = type /\ m.a = a
  BY SendAlike
<1>2. m.new = new
  BY DEF Msg
<1> HIDE DEF t, m
<1>3. s.sent \in Seq(ToDirectory)
  BY DEF IsCaches
<1>4. /\ DOMAIN t.sent = 1 .. Len(s.sent) + 1
      /\ \A i \in DOMAIN s.sent : i \in DOMAIN t.sent /\ t.sent[i] = s.sent[i]
      /\ t.sent[Len(s.sent) + 1] = m /\ Len(s.sent) + 1 \in DOMAIN t.sent
      /\ \A i \in DOMAIN t.sent : i \in DOMAIN s.sent \/ t.sent[i] = m
  BY <1>1, <1>3
<1>5. Fresh(s.sent, Writebacks) => Fresh(t.sent, Writebacks)
  BY <1>1, <1>2, <1>4 DEF Fresh
<1>6. \A b : SentBack(s.sent, b) => SentBack(t.sent, b)
  BY <1>4 DEF SentBack
<1>7. type \in Writebacks => SentBack(t.sent, a)
  BY <1>1, <1>4 DEF SentBack
<1> QED
  BY <1>1, <1>5, <1>6, <1>7 DEF t, Carries, Sound, Within, NoneAppears, Holding, DirtyAbove

(* updateCacheBlock loses no data: what a first-level cache modified is    *)
(* below it afterwards.                                                    *)
LEMMA SnoopCarries ==
  ASSUME NEW s, IsCaches(s), NEW l \in Llcs, NEW a \in Addrs, NEW skip,
         NEW n \in {"INVALID", "SHARED", "MODIFIED"}
  PROVE  Carries(s, Snoop(s, l, a, skip, n), l)
<1> DEFINE t == Snoop(s, l, a, skip, n)
           holders == {c \in L1sOf(l) \ skip : s.l1[c][a].st # "INVALID"}
           dirty == {c \in holders : s.l1[c][a].st = "MODIFIED"}
           updated(copy) == IF n = "INVALID" THEN Invalid ELSE [copy EXCEPT !.st = n]
           first == [c \in L1s |-> IF c \in holders
                        THEN [s.l1[c] EXCEPT ![a] = updated(@)] ELSE s.l1[c]]
           new == IF dirty = {} THEN s.llc[l][a].new ELSE \E c \in dirty : s.l1[c][a].new
           last == [s.llc EXCEPT ![l][a].new = new]
<1>1. /\ IsCaches(t) /\ t.sent = s.sent
      /\ \A c \in L1s, b \in Addrs :
           t.l1[c][b].st = IF c \in L1sOf(l) \ skip /\ b = a
                              /\ s.l1[c][b].st # "INVALID"
                           THEN n ELSE s.l1[c][b].st
      /\ \A k \in Llcs, b \in Addrs : t.llc[k][b].st = s.llc[k][b].st
  BY SnoopKeeps
<1>2. t.l1 = first /\ t.llc = last
  BY DEF Snoop, IsCaches
<1>3. \A c \in L1s, b \in Addrs : t.l1[c][b].st # "INVALID" => t.l1[c][b].new = s.l1[c][b].new
  <2>1. \A copy \in Copy : updated(copy).st # "INVALID" => updated(copy).new = copy.new
    BY DEF Copy, Invalid
  <2>2. \A c \in L1s, b \in Addrs :
          first[c][b] = IF c \in holders /\ b = a THEN updated(s.l1[c][b]) ELSE s.l1[c][b]
    <3> HIDE DEF holders, updated
    <3> QED
      BY DEF IsCaches
  <2>3. \A c \in L1s, b \in Addrs : s.l1[c][b] \in Copy
    BY DEF IsCaches
  <2> HIDE DEF t, first, updated
  <2> QED
    BY <1>2, <2>1, <2>2, <2>3
<1>4. \A k \in Llcs, b \in Addrs :
        t.llc[k][b].new = IF k = l /\ b = a THEN new ELSE s.llc[k][b].new
  <2>1. s.llc \in [Llcs -> [Addrs -> [st : States, new : BOOLEAN]]]
    BY DEF IsCaches, Copy
  <2> HIDE DEF new, t
  <2> QED
    BY <1>2, <2>1
<1>5. ASSUME Sound(s), dirty # {} PROVE new = TRUE
  <2>1. PICK c \in dirty : TRUE
    BY <1>5
  <2>2. s.l1[c][a].new = TRUE
    BY <1>5, <2>1 DEF Sound, L1sOf
  <2>3. \E d \in dirty : s.l1[d][a].new
    BY <2>1, <2>2, Zenon
  <2> QED
    BY <1>5, <2>3, Zenon
<1>6. dirty = {} => new = s.llc[l][a].new
  OBVIOUS
<1>7. \A c \in L1sOf(l) : s.l1[c][a].st = "MODIFIED" => c \in skip \/ c \in dirty
  OBVIOUS
<1> HIDE DEF t, first, new, last, updated, dirty
<1>8. ASSUME Sound(s), NEW k \in Llcs, NEW b \in Addrs, t.llc[k][b].st # "INVALID"
      PROVE  t.llc[k][b].new = TRUE \/ DirtyAbove(t, k, b)
  <2>1. s.llc[k][b].new = TRUE \/ DirtyAbove(s, k, b)
    BY <1>1, <1>8 DEF Sound
  <2>2. CASE k # l \/ b # a
    <3>1. \A c \in L1sOf(k) : t.l1[c][b].st = s.l1[c][b].st
      BY <1>1, <2>2 DEF L1sOf
    <3> QED
      BY <1>4, <2>1, <2>2, <3>1 DEF DirtyAbove
  <2>3. CASE k = l /\ b = a /\ dirty = {}
    <3>1. \A c \in L1sOf(l) : s.l1[c][a].st = "MODIFIED" => t.l1[c][a].st = "MODIFIED"
      BY <1>1, <1>7, <2>3 DEF L1sOf
    <3> QED
      BY <1>4, <1>6, <2>1, <2>3, <3>1 DEF DirtyAbove
  <2>4. CASE k = l /\ b = a /\ dirty # {}
    BY <1>4, <1>5, <1>8, <2>4
  <2> QED
    BY <2>2, <2>3, <2>4
<1>9. Sound(s) => Sound(t)
  <2> SUFFICES ASSUME Sound(s) PROVE Sound(t)
    OBVIOUS
  <2>1. \A c \in L1s, b \in Addrs : t.l1[c][b].st # "INVALID" => t.l1[c][b].new = TRUE
    BY <1>1, <1>3 DEF Sound
  <2>2. Within(t)
    BY <1>1 DEF Sound, Within
  <2> QED
    BY <1>1, <1>8, <2>1, <2>2 DEF Sound
<1>10. NoneAppears(s, t)
  BY <1>1 DEF NoneAppears
<1>11. \A k \in Llcs, b \in Addrs : Holding(s, l, k, b) => Holding(t, l, k, b)
  BY <1>1 DEF Holding
<1> QED
  BY <1>1, <1>9, <1>10, <1>11 DEF Carries, t

LEMMA SnoopCheckedCarries ==
  ASSUME NEW s, IsCaches(s), NEW l \in Llcs, NEW a \in Addrs, NEW skip,
         NEW n \in {"INVALID", "SHARED", "MODIFIED"}
  PROVE  Carries(s, SnoopChecked(s, l, a, skip, n), l)
<1> DEFINE t == Snoop(s, l, a, skip, n)
<1>1. Carries(s, t, l)
  BY SnoopCarries
<1>2. IsCaches(t)
  BY <1>1 DEF Carries
<1>3. SnoopChecked(s, l, a, skip, n) =
        Check(t, WritebackAllowed(s, l, a, skip), "Got_writeback_for_non_MODIFIED_line")
  BY DEF SnoopChecked
<1> HIDE DEF t
<1>4. Carries(t, SnoopChecked(s, l, a, skip, n), l)
  BY <1>2, <1>3, CheckCarries
<1> QED
  BY <1>1, <1>4, CarriesTwice

LEMMA SetStateCarries ==
  ASSUME NEW s, IsCaches(s), NEW l \in Llcs, NEW a \in Addrs, NEW state \in States,
         s.llc[l][a].st # "INVALID", s.llc[l][a].st = "MODIFIED" => state = "MODIFIED",
         state \in Writable => s.llc[l][a].st \in Writable \/ WrittenAbove(l, a)
  PROVE  Carries(s, SetState(s, l, a, state), l)
<1> DEFINE t == SetState(s, l, a, state)
<1>1. /\ IsCaches(t) /\ t.l1 = s.l1 /\ t.sent = s.sent
      /\ \A k \in Llcs, b \in Addrs :
           t.llc[k][b].st = IF k = l /\ b = a THEN state ELSE s.llc[k][b].st
  BY SetStateKeeps
<1>2. \A k \in Llcs, b \in Addrs : t.llc[k][b].new = s.llc[k][b].new
  <2>1. s.llc \in [Llcs -> [Addrs -> [st : States, new : BOOLEAN]]]
    BY DEF IsCaches, Copy
  <2>2. t.llc = [s.llc EXCEPT ![l][a].st = state]
    BY DEF SetState, IsCaches
  <2> HIDE DEF t
  <2> QED
    BY <2>1, <2>2
<1> HIDE DEF t
<1>3. Sound(s) => Sound(t)
  BY <1>1, <1>2 DEF Sound, Within, DirtyAbove
<1> QED
  BY <1>1, <1>3 DEF Carries, NoneAppears, Holding, t

(* The first-level copy a miss drops must not be modified.                 *)
LEMMA DroppedCarries ==
  ASSUME NEW s, IsCaches(s), NEW c \in L1s, NEW a \in Addrs,
         s.l1[c][a].st # "MODIFIED", NEW l
  PROVE  Carries(s, PutL1(s, c, [s.l1[c] EXCEPT ![a] = Invalid]), l)
<1> DEFINE line == [s.l1[c] EXCEPT ![a] = Invalid]
           t == PutL1(s, c, line)
<1>1. /\ line \in [Addrs -> Copy]
      /\ \A b \in Addrs : line[b] = IF b = a THEN Invalid ELSE s.l1[c][b]
  BY InvalidIsCopy DEF IsCaches
<1> HIDE DEF line
<1>2. /\ IsCaches(t) /\ t.llc = s.llc /\ t.sent = s.sent
      /\ \A d \in L1s : t.l1[d] = IF d = c THEN line ELSE s.l1[d]
  BY <1>1, PutL1Keeps
<1> HIDE DEF t
<1>3. \A d \in L1s, b \in Addrs :
        t.l1[d][b] = IF d = c /\ b = a THEN Invalid ELSE s.l1[d][b]
  BY <1>1, <1>2
<1>4. \A k \in Llcs, b \in Addrs : DirtyAbove(s, k, b) => DirtyAbove(t, k, b)
  BY <1>3 DEF DirtyAbove, L1sOf
<1>5. Sound(s) => Sound(t)
  BY <1>2, <1>3, <1>4, InvalidIsCopy DEF Sound, Within
<1>6. NoneAppears(s, t)
  BY <1>3, InvalidIsCopy DEF NoneAppears
<1> QED
  BY <1>2, <1>5, <1>6 DEF Carries, Holding, t, line

(* A line is given up with its data if it was modified.                    *)
LEMMA GivenUpCarries ==
  ASSUME NEW s, IsCaches(s), NEW l \in Llcs, NEW a \in Addrs, NEW type \in GivingUp,
         NEW new \in BOOLEAN, type = "FLUSH_REP" => new = TRUE,
         s.llc[l][a].st = "MODIFIED" => type = "FLUSH_REP"
  PROVE  Carries(s, Send(Put(s, l, a, Invalid), type, a, new), l)
<1> DEFINE r == Put(s, l, a, Invalid)
           t == Send(r, type, a, new)
<1>1. /\ IsCaches(r) /\ r.l1 = s.l1 /\ r.sent = s.sent
      /\ \A k \in Llcs, b \in Addrs :
           r.llc[k][b] = IF k = l /\ b = a THEN Invalid ELSE s.llc[k][b]
  BY PutKeeps, InvalidIsCopy
<1>2. Sound(s) => Sound(r)
  <2> HIDE DEF r
  <2> QED
    BY <1>1, InvalidIsCopy DEF Sound, Within, Writable, DirtyAbove
<1>3. type \in Requests \cup Answers /\ (type \in Writebacks <=> type = "FLUSH_REP")
  BY DEF Answers, GivingUp, Writebacks
<1> HIDE DEF r
<1>4. Carries(r, t, l) /\ (type = "FLUSH_REP" => SentBack(t.sent, a))
  BY <1>1, <1>3, SendCarries
<1> HIDE DEF t
<1>5. NoneAppears(s, t)
  BY <1>1, <1>4 DEF Carries, NoneAppears
<1>6. ASSUME NEW k \in Llcs, NEW b \in Addrs, Holding(s, l, k, b) PROVE Holding(t, l, k, b)
  <2>1. CASE k = l /\ b = a /\ s.llc[l][a].st = "MODIFIED"
    BY <1>4, <2>1 DEF Holding
  <2>2. CASE ~(k = l /\ b = a /\ s.llc[l][a].st = "MODIFIED")
    <3>1. Holding(r, l, k, b)
      BY <1>1, <1>6, <2>2 DEF Holding
    <3> QED
      BY <1>4, <3>1 DEF Carries
  <2> QED
    BY <2>1, <2>2
<1> QED
  BY <1>2, <1>4, <1>5, <1>6 DEF Carries, t, r

(* A copy that arrives with the new data.                                  *)
LEMMA PutCarries ==
  ASSUME NEW s, IsCaches(s), NEW l \in Llcs, NEW a \in Addrs, s.llc[l][a].st # "MODIFIED",
         NEW copy \in Copy, copy.new = TRUE, copy.st \notin Writable
  PROVE  Carries(s, Put(s, l, a, copy), l)
<1> DEFINE t == Put(s, l, a, copy)
<1>1. /\ IsCaches(t) /\ t.l1 = s.l1 /\ t.sent = s.sent
      /\ \A k \in Llcs, b \in Addrs :
           t.llc[k][b] = IF k = l /\ b = a THEN copy ELSE s.llc[k][b]
  BY PutKeeps
<1> HIDE DEF t
<1>2. Sound(s) => Sound(t)
  BY <1>1 DEF Sound, Within, DirtyAbove
<1>3. \A k \in Llcs, b \in Addrs : Holding(s, l, k, b) => Holding(t, l, k, b)
  BY <1>1 DEF Holding
<1> QED
  BY <1>1, <1>2, <1>3 DEF Carries, NoneAppears, t

(* Snooped caches have given all their data to the line below them.        *)
LEMMA SnoopedBelow ==
  ASSUME NEW s, IsCaches(s), Sound(s), NEW l \in Llcs, NEW a \in Addrs,
         \A c \in L1sOf(l) : s.l1[c][a].st # "MODIFIED", s.llc[l][a].st # "INVALID"
  PROVE  s.llc[l][a].new = TRUE
BY DEF Sound, DirtyAbove

LEMMA InsertLlcCarries ==
  ASSUME NEW s, IsCaches(s), Sound(s), NEW l \in Llcs, NEW a \in Addrs,
         s.llc[l][a].st = "INVALID", NEW copy \in Copy, copy.new = TRUE,
         copy.st \notin Writable,
         NEW victim \in Addrs \cup {None}, victim # a
  PROVE  Carries(s, InsertLlc(s, l, a, copy, victim), l)
<1> DEFINE t == InsertLlc(s, l, a, copy, victim)
           checked == Check(s, s.llc[l][a].st = "INVALID", "we_already_have_this_line")
<1>1. checked = s
  BY DEF Check
<1>2. CASE victim = None
  <2>1. t = Put(s, l, a, copy)
    BY <1>1, <1>2 DEF InsertLlc, Put
  <2>2. Carries(s, Put(s, l, a, copy), l)
    BY PutCarries
  <2> QED
    BY <2>1, <2>2
<1>3. CASE victim # None
  <2> DEFINE back == Snoop(s, l, victim, {}, "INVALID")
             old == back.llc[l][victim]
             put == Put(back, l, a, copy)
             type == IF old.st = "MODIFIED" THEN "FLUSH_REP" ELSE "INV_REP"
             new == IF old.st = "MODIFIED" THEN old.new ELSE FALSE
  <2>0. victim \in Addrs
    BY <1>3
  <2> DEFINE n == "INVALID"
  <2>1. n \in {"INVALID", "SHARED", "MODIFIED"} /\ back = Snoop(s, l, victim, {}, n)
    OBVIOUS
  <2>2. n = "INVALID"
    OBVIOUS
  <2> HIDE DEF n
  <2> HIDE DEF back
  <2>3. /\ IsCaches(back)
        /\ \A c \in L1s, b \in Addrs :
             back.l1[c][b].st = IF c \in L1sOf(l) \ {} /\ b = victim
                                   /\ s.l1[c][b].st # "INVALID"
                                THEN n ELSE s.l1[c][b].st
        /\ \A k \in Llcs, b \in Addrs : back.llc[k][b].st = s.llc[k][b].st
    BY <2>0, <2>1, SnoopKeeps
  <2>4. Carries(s, back, l)
    BY <2>0, <2>1, SnoopCarries
  <2>5. Sound(back)
    BY <2>4 DEF Carries
  <2>6. \A c \in L1sOf(l) : back.l1[c][victim].st # "MODIFIED"
    BY <2>0, <2>2, <2>3 DEF L1sOf
  <2>7. old.st = "MODIFIED" => old.new = TRUE
    BY <2>0, <2>3, <2>5, <2>6, SnoopedBelow
  <2>8. back.llc[l][a].st = "INVALID"
    BY <2>3
  <2>9. Carries(back, put, l)
    BY <2>3, <2>8, PutCarries
  <2>10. IsCaches(put) /\ put.llc[l][victim] = old
    <3>1. /\ IsCaches(put)
          /\ \A k \in Llcs, b \in Addrs :
               put.llc[k][b] = IF k = l /\ b = a THEN copy ELSE back.llc[k][b]
      BY <2>3, PutKeeps
    <3> QED
      BY <2>0, <3>1
  <2>11. Put(put, l, victim, Invalid)
           = [back EXCEPT !.llc[l] = [@ EXCEPT ![victim] = Invalid, ![a] = copy]]
    <3> DEFINE row == [[back.llc[l] EXCEPT ![a] = copy] EXCEPT ![victim] = Invalid]
    <3>1. back.llc \in [Llcs -> [Addrs -> Copy]]
      BY <2>3 DEF IsCaches
    <3>2. row = [[back.llc[l] EXCEPT ![victim] = Invalid] EXCEPT ![a] = copy]
      <4>1. back.llc[l] \in [Addrs -> Copy]
        BY <3>1
      <4> QED
        BY <2>0, <4>1
    <3>3. Put(put, l, victim, Invalid) = [back EXCEPT !.llc = [back.llc EXCEPT ![l] = row]]
      <4>1. put = [back EXCEPT !.llc = [back.llc EXCEPT ![l][a] = copy]]
        BY DEF Put
      <4>2. put.llc = [back.llc EXCEPT ![l][a] = copy]
        BY <2>3, <4>1 DEF IsCaches
      <4>3. [put.llc EXCEPT ![l][victim] = Invalid] = [back.llc EXCEPT ![l] = row]
        BY <3>1, <4>2
      <4>4. Put(put, l, victim, Invalid)
              = [put EXCEPT !.llc = [put.llc EXCEPT ![l][victim] = Invalid]]
        BY DEF Put
      <4> HIDE DEF row
      <4> QED
        BY <2>3, <4>1, <4>3, <4>4 DEF IsCaches
    <3> QED
      BY <3>2, <3>3
  <2>12. t = Send(Put(put, l, victim, Invalid), type, victim, new)
    BY <1>1, <1>3, <2>1, <2>2, <2>11 DEF InsertLlc
  <2>13. /\ type \in GivingUp /\ new \in BOOLEAN /\ (type = "FLUSH_REP" => new = TRUE)
         /\ put.llc[l][victim].st = "MODIFIED" => type = "FLUSH_REP"
    BY <2>7, <2>10 DEF GivingUp
  <2> HIDE DEF put, type, new
  <2>14. Carries(put, Send(Put(put, l, victim, Invalid), type, victim, new), l)
    BY <2>0, <2>10, <2>13, GivenUpCarries
  <2> HIDE DEF t
  <2>15. Carries(back, t, l)
    BY <2>9, <2>12, <2>14, CarriesTwice
  <2> QED
    BY <2>4, <2>15, CarriesTwice DEF t
<1> QED
  BY <1>2, <1>3

LEMMA SatisfiedCarries ==
  ASSUME NEW s, IsCaches(s), NEW c \in L1s, NEW a \in Addrs, NEW o,
         o \notin Reads => s.llc[LlcOf[c]][a].st # "INVALID" /\ a \in Written[c]
  PROVE  Carries(s, Satisfied(s, c, a, o), LlcOf[c])
<1> DEFINE l == LlcOf[c]
           exclusive == SnoopChecked(s, l, a, {c}, "INVALID")
           skip == IF o = "PREFETCH" THEN {} ELSE {c}
           shared == SnoopChecked(s, l, a, skip, "SHARED")
           t == Satisfied(s, c, a, o)
<1>1. l \in Llcs
  BY CoherentAssumption
<1>2. CASE o \notin Reads
  <2>1. t = SetState(exclusive, l, a, "MODIFIED")
    BY <1>2 DEF Satisfied, SetState
  <2>2. Carries(s, exclusive, l)
    BY <1>1, SnoopCheckedCarries
  <2>3. /\ IsCaches(exclusive)
        /\ \A k \in Llcs, b \in Addrs : exclusive.llc[k][b].st = s.llc[k][b].st
    BY <1>1, InvalidatedKeeps
  <2> DEFINE state == "MODIFIED"
  <2>4. state \in States /\ state = "MODIFIED"
    BY DEF States
  <2> HIDE DEF exclusive, state
  <2>6. WrittenAbove(l, a)
    BY <1>2 DEF WrittenAbove, L1sOf
  <2>5. Carries(exclusive, SetState(exclusive, l, a, state), l)
    BY <1>1, <1>2, <2>3, <2>4, <2>6, SetStateCarries
  <2> QED
    BY <2>1, <2>2, <2>4, <2>5, CarriesTwice
<1>3. CASE o \in Reads
  <2>1. t = shared \/ t = s
    BY <1>3 DEF Satisfied
  <2>2. Carries(s, shared, l)
    BY <1>1, SnoopCheckedCarries
  <2>3. Carries(s, s, l)
    BY DEF Carries, NoneAppears
  <2> QED
    BY <2>1, <2>2, <2>3
<1> QED
  BY <1>2, <1>3

(* A first-level cache fills from a new copy below; its modified victim's  *)
(* data goes there.                                                        *)
LEMMA InsertL1Sound ==
  ASSUME NEW s, IsCaches(s), Sound(s), NEW c \in L1s, NEW a \in Addrs, a \in Accessed[c],
         s.llc[LlcOf[c]][a].new = TRUE, NEW victim \in Addrs \cup {None},
         NEW t, t = InsertL1(s, c, a, s.llc[LlcOf[c]][a], victim)
  PROVE  Sound(t) /\ t.sent = s.sent
<1> DEFINE l == LlcOf[c]
           copy == s.llc[l][a]
           line == [b \in Addrs |-> IF b = a THEN copy
                                    ELSE IF b = victim THEN Invalid ELSE s.l1[c][b]]
           put == PutL1(s, c, line)
           written == [put.llc[l][victim] EXCEPT !.new = s.l1[c][victim].new]
           kept == Put(put, l, victim, written)
           ok == s.llc[l][victim].st = "MODIFIED"
           dirty == victim # None /\ s.l1[c][victim].st = "MODIFIED"
<1>1. l \in Llcs
  BY CoherentAssumption
<1>2. /\ line \in [Addrs -> Copy] /\ line[a] = copy
      /\ \A b \in Addrs : line[b] = IF b = a THEN copy
                                    ELSE IF b = victim THEN Invalid ELSE s.l1[c][b]
  BY <1>1, InvalidIsCopy DEF IsCaches
<1>3. /\ IsCaches(put)
      /\ put.llc = s.llc /\ put.sent = s.sent /\ put.failed = s.failed
      /\ \A d \in L1s : put.l1[d] = IF d = c THEN line ELSE s.l1[d]
  <2> HIDE DEF line
  <2> QED
    BY <1>2, PutL1Keeps
<1>4. /\ t.l1 = put.l1 /\ t.sent = s.sent
      /\ \A k \in Llcs, b \in Addrs : t.llc[k][b].st = s.llc[k][b].st
      /\ \A k \in Llcs, b \in Addrs :
           t.llc[k][b].new = IF dirty /\ k = l /\ b = victim THEN s.l1[c][victim].new
                                                             ELSE s.llc[k][b].new
  <2>1. CASE dirty
    <3>0. victim \in Addrs
      BY <2>1
    <3>1. t = Check(kept, ok, "Got_writeback_for_non_MODIFIED_line")
      <4>1. [put EXCEPT !.llc[l][victim].new = s.l1[c][victim].new] = kept
        <5> HIDE DEF put
        <5> QED
          BY <1>3 DEF Put, IsCaches
      <4> QED
        BY <2>1, <4>1 DEF InsertL1, PutL1
    <3> HIDE DEF put
    <3>2. /\ written \in Copy /\ written.st = put.llc[l][victim].st
          /\ written.new = s.l1[c][victim].new
      <4>1. put.llc[l][victim] \in Copy /\ s.l1[c][victim] \in Copy
        BY <1>1, <1>3, <3>0 DEF IsCaches
      <4> QED
        BY <4>1 DEF Copy
    <3> HIDE DEF written
    <3>3. /\ IsCaches(kept) /\ kept.l1 = put.l1 /\ kept.sent = put.sent
          /\ \A k \in Llcs, b \in Addrs :
               kept.llc[k][b] = IF k = l /\ b = victim THEN written ELSE put.llc[k][b]
      BY <1>1, <1>3, <3>0, <3>2, PutKeeps
    <3> HIDE DEF kept, ok
    <3>4. t.l1 = kept.l1 /\ t.llc = kept.llc /\ t.sent = kept.sent
      BY <3>1, <3>3, CheckKeeps
    <3> QED
      BY <1>3, <2>1, <3>2, <3>3, <3>4
  <2>2. CASE ~dirty
    <3>1. t = put
      BY <2>2 DEF InsertL1, PutL1
    <3> HIDE DEF put
    <3> QED
      BY <1>3, <2>2, <3>1
  <2> QED
    BY <2>1, <2>2
<1>5. \A d \in L1s, b \in Addrs :
        t.l1[d][b] = IF d = c THEN IF b = a THEN copy
                                   ELSE IF b = victim THEN Invalid ELSE s.l1[c][b]
                     ELSE s.l1[d][b]
  <2>1. \A d \in L1s : t.l1[d] = IF d = c THEN line ELSE s.l1[d]
    <3> HIDE DEF put, line
    <3> QED
      BY <1>3, <1>4
  <2> HIDE DEF line, copy
  <2> QED
    BY <1>2, <2>1
<1> HIDE DEF put, line, kept, written
<1>6. dirty => s.l1[c][victim].new = TRUE
  BY DEF Sound
<1>7. ASSUME NEW k \in Llcs, NEW b \in Addrs, s.llc[k][b].st # "INVALID"
      PROVE  t.llc[k][b].new = TRUE \/ DirtyAbove(t, k, b)
  <2>1. CASE s.llc[k][b].new = TRUE
    BY <1>4, <1>6, <2>1
  <2>2. CASE DirtyAbove(s, k, b)
    <3>1. PICK d \in L1sOf(k) : s.l1[d][b].st = "MODIFIED"
      BY <2>2 DEF DirtyAbove
    <3>2. d \in L1s /\ LlcOf[d] = k
      BY <3>1 DEF L1sOf
    <3>3. CASE d # c \/ (b # a /\ b # victim)
      <4>1. t.l1[d][b].st = "MODIFIED"
        BY <1>5, <3>1, <3>2, <3>3
      <4> QED
        BY <3>1, <4>1 DEF DirtyAbove
    <3>4. CASE d = c /\ b = a
      BY <1>4, <1>6, <3>2, <3>4
    <3>5. CASE d = c /\ b = victim
      <4>1. victim # None
        BY <3>5, CoherentAssumption
      <4> QED
        BY <1>4, <1>6, <3>1, <3>2, <3>5, <4>1
    <3> QED
      BY <3>3, <3>4, <3>5
  <2> QED
    BY <1>7, <2>1, <2>2 DEF Sound
<1>8. \A d \in L1s, b \in Addrs : t.l1[d][b].st # "INVALID" => t.l1[d][b].new = TRUE
  <2>1. copy.new = TRUE /\ Invalid.st = "INVALID"
    BY DEF Invalid
  <2>2. \A d \in L1s, b \in Addrs : s.l1[d][b].st # "INVALID" => s.l1[d][b].new = TRUE
    BY DEF Sound
  <2>3. \A d \in L1s, b \in Addrs :
          t.l1[d][b] = copy \/ t.l1[d][b] = Invalid \/ t.l1[d][b] = s.l1[d][b]
    BY <1>5
  <2> HIDE DEF copy
  <2> QED
    BY <2>1, <2>2, <2>3
<1>9. Fresh(t.sent, Writebacks)
  BY <1>4 DEF Sound
<1>10. Within(t)
  <2>1. \A d \in L1s, b \in Addrs :
          t.l1[d][b] = Invalid \/ (d = c /\ b = a) \/ t.l1[d][b] = s.l1[d][b]
    BY <1>5
  <2> QED
    BY <1>4, <2>1, InvalidIsCopy DEF Sound, Within
<1>11. Sound(t)
  BY <1>4, <1>7, <1>8, <1>9, <1>10 DEF Sound
<1> QED
  BY <1>4, <1>11

(* A write to the only copy leaves no stale copy behind.                   *)
LEMMA WroteSound ==
  ASSUME NEW s, IsCaches(s), Sound(s), NEW c \in L1s, NEW a \in Addrs,
         s.l1[c][a].st = "MODIFIED",
         \A d \in L1s : d # c => s.l1[d][a].st = "INVALID",
         \A k \in Llcs : k # LlcOf[c] => s.llc[k][a].st = "INVALID",
         NEW t, t = Wrote(s, c, a)
  PROVE  Sound(t)
<1>1. /\ IsCaches(t) /\ t.sent = s.sent
      /\ \A d \in L1s, b \in Addrs : t.l1[d][b].st = s.l1[d][b].st
      /\ \A k \in Llcs, b \in Addrs : t.llc[k][b].st = s.llc[k][b].st
  <2>1. Alike(s, t) /\ \A d \in L1s, b \in Addrs : t.l1[d][b].st = s.l1[d][b].st
    BY WroteAlike
  <2> QED
    BY <2>1 DEF Alike
<1> DEFINE fresh(copy) == [copy EXCEPT !.new = TRUE]
           stale(copy) == [copy EXCEPT !.new = FALSE]
           first == [d \in L1s |-> [s.l1[d] EXCEPT ![a] =
                       IF d = c THEN fresh(@) ELSE stale(@)]]
           last == [k \in Llcs |-> [s.llc[k] EXCEPT ![a] = stale(@)]]
<1>2. t.l1 = first /\ t.llc = last
  BY DEF Wrote, IsCaches
<1>3. \A copy \in Copy : fresh(copy).new = TRUE
  BY DEF Copy
<1>4. \A d \in L1s, b \in Addrs :
        first[d][b] = IF b = a THEN IF d = c THEN fresh(s.l1[d][b]) ELSE stale(s.l1[d][b])
                      ELSE s.l1[d][b]
  <2> HIDE DEF fresh, stale
  <2> QED
    BY DEF IsCaches
<1>5. \A k \in Llcs, b \in Addrs : b # a => last[k][b] = s.llc[k][b]
  <2> HIDE DEF stale
  <2> QED
    BY DEF IsCaches
<1>6. \A d \in L1s, b \in Addrs : s.l1[d][b] \in Copy
  BY DEF IsCaches
<1> HIDE DEF fresh, stale, first, last
<1>7. \A d \in L1s, b \in Addrs : t.l1[d][b].st # "INVALID" => t.l1[d][b].new = TRUE
  BY <1>1, <1>2, <1>3, <1>4, <1>6 DEF Sound
<1>8. ASSUME NEW k \in Llcs, NEW b \in Addrs, t.llc[k][b].st # "INVALID"
      PROVE  t.llc[k][b].new = TRUE \/ DirtyAbove(t, k, b)
  <2>1. CASE b = a
    <3>1. k = LlcOf[c]
      BY <1>1, <1>8, <2>1
    <3>2. c \in L1sOf(k) /\ t.l1[c][b].st = "MODIFIED"
      BY <1>1, <2>1, <3>1 DEF L1sOf
    <3> QED
      BY <3>2 DEF DirtyAbove
  <2>2. CASE b # a
    <3>1. t.llc[k][b].new = s.llc[k][b].new
      BY <1>2, <1>5, <2>2
    <3>2. s.llc[k][b].new = TRUE \/ DirtyAbove(s, k, b)
      BY <1>1, <1>8 DEF Sound
    <3> QED
      BY <1>1, <3>1, <3>2 DEF DirtyAbove, L1sOf
  <2> QED
    BY <2>1, <2>2
<1>9. Fresh(t.sent, Writebacks)
  BY <1>1 DEF Sound
<1>10. Within(t)
  BY <1>1 DEF Sound, Within
<1> QED
  BY <1>7, <1>8, <1>9, <1>10 DEF Sound

-----------------------------------------------------------------------------
(* The data of the whole system: what is on its way is new, a waiting      *)
(* thread's first-level cache has no copy, and memory is new unless the    *)
(* owner of the line is about to give the data back.                       *)
FreshNet == \A l \in Llcs : Fresh(toDir[l], Writebacks) /\ Fresh(toLlc[l], Granting)
WaitsEmpty ==
  \A c \in L1s : pc[c] = "waiting" /\ op[c] # "PREFETCH" => l1[c][at[c]].st = "INVALID"
Holds(l, a) == llc[l][a].st = "MODIFIED" \/ SentBack(toDir[l], a)
Stored ==
  \A a \in Addrs :
    /\ dir[a].owner = None => memory[a] = TRUE
    /\ \A l \in Llcs : dir[a].owner = l => memory[a] = TRUE \/ Holds(l, a)
DataInv == Sound(Now) /\ FreshNet /\ WaitsEmpty /\ Stored

(* The accesses under way are some the program makes.                      *)
Programmed ==
  \A c \in L1s :
    /\ pc[c] = "locked" => at[c] \in Written[c]
    /\ pc[c] \in {"upgrading", "waiting"} /\ op[c] # "PREFETCH" =>
         at[c] \in (IF op[c] \in Reads THEN Accessed[c] ELSE Written[c])

LEMMA SoundNext ==
  ASSUME NEW s, Sound(s), l1' = s.l1, llc' = s.llc
  PROVE  Sound(Now)'
BY DEF Sound, Within, DirtyAbove, Now, Fresh

LEMMA NowHolds ==
  ASSUME NEW l, NEW k, NEW a
  PROVE  Holding(Now, l, k, a) <=> llc[k][a].st = "MODIFIED"
BY DEF Holding, Now, SentBack

LEMMA FreshJoined ==
  ASSUME NEW S, NEW p \in Seq(S), NEW q \in Seq(S), NEW T, Fresh(p, T), Fresh(q, T)
  PROVE  Fresh(p \o q, T)
<1> DEFINE r == p \o q
<1>1. /\ r \in Seq(S) /\ Len(r) = Len(p) + Len(q)
      /\ \A i \in 1 .. Len(r) : r[i] = IF i <= Len(p) THEN p[i] ELSE q[i - Len(p)]
  OBVIOUS
<1> HIDE DEF r
<1>2. ASSUME NEW i \in DOMAIN r, r[i].t \in T PROVE r[i].new = TRUE
  <2>1. i \in 1 .. Len(r)
    BY <1>1
  <2>2. CASE i <= Len(p)
    BY <1>1, <1>2, <2>1, <2>2 DEF Fresh
  <2>3. CASE ~(i <= Len(p))
    <3>1. i - Len(p) \in DOMAIN q /\ r[i] = q[i - Len(p)]
      BY <1>1, <2>1, <2>3
    <3> QED
      BY <1>2, <3>1 DEF Fresh
  <2> QED
    BY <2>2, <2>3
<1> QED
  BY <1>2 DEF Fresh, r

LEMMA SentBackJoined ==
  ASSUME NEW S, NEW p \in Seq(S), NEW q \in Seq(S), NEW a
  PROVE  SentBack(p, a) \/ SentBack(q, a) => SentBack(p \o q, a)
<1> DEFINE r == p \o q
<1>1. /\ r \in Seq(S) /\ Len(r) = Len(p) + Len(q)
      /\ \A i \in 1 .. Len(p) : r[i] = p[i]
      /\ \A i \in 1 .. Len(q) : r[Len(p) + i] = q[i]
  OBVIOUS
<1> HIDE DEF r
<1>2. \A i \in DOMAIN p : i \in DOMAIN r /\ r[i] = p[i]
  BY <1>1
<1>3. \A i \in DOMAIN q : Len(p) + i \in DOMAIN r /\ r[Len(p) + i] = q[i]
  BY <1>1
<1> QED
  BY <1>2, <1>3 DEF SentBack, r

(* A step of the caches s on behalf of l that keeps the data.              *)
Moves(s, l) ==
  /\ IsCaches(s) /\ Sound(s)
  /\ \A k \in Llcs, a \in Addrs : llc[k][a].st = "MODIFIED" => Holding(s, l, k, a)

LEMMA CarriedMoves ==
  ASSUME Sound(Now), NEW s, NEW l, Carries(Now, s, l)
  PROVE  Moves(s, l)
BY NowHolds DEF Moves, Carries

LEMMA CommitHolds ==
  ASSUME TypeOK, FreshNet, NEW l \in Llcs, NEW s, Moves(s, l), Commit(s, l, None)
  PROVE  /\ Sound(Now)' /\ memory' = memory
         /\ \A k \in Llcs : Fresh(toDir'[k], Writebacks)
         /\ \A k \in Llcs, a \in Addrs : Holds(k, a) => Holds(k, a)'
<1>1. l1' = s.l1 /\ llc' = s.llc /\ memory' = memory
  BY DEF Commit
<1>2. Sound(Now)'
  BY <1>1, SoundNext DEF Moves
<1>3. toDir \in [Llcs -> Seq(ToDirectory)] /\ s.sent \in Seq(ToDirectory)
  BY DEF TypeOK, Moves, IsCaches
<1>4. \A k \in Llcs : toDir'[k] = IF k = l THEN toDir[l] \o s.sent ELSE toDir[k]
  BY <1>3 DEF Commit
<1>5. Fresh(s.sent, Writebacks)
  BY DEF Moves, Sound
<1>6. Fresh(toDir[l] \o s.sent, Writebacks)
  BY <1>3, <1>5, FreshJoined DEF FreshNet
<1>7. \A k \in Llcs : Fresh(toDir'[k], Writebacks)
  BY <1>4, <1>6 DEF FreshNet
<1>8. ASSUME NEW k \in Llcs, NEW a \in Addrs, Holds(k, a) PROVE Holds(k, a)'
  <2>1. SentBack(toDir[l], a) \/ SentBack(s.sent, a) => SentBack(toDir[l] \o s.sent, a)
    BY <1>3, SentBackJoined
  <2>2. CASE llc[k][a].st = "MODIFIED"
    <3>1. s.llc[k][a].st = "MODIFIED" \/ (k = l /\ SentBack(s.sent, a))
      BY <2>2 DEF Moves, Holding
    <3> QED
      BY <1>1, <1>4, <2>1, <3>1 DEF Holds
  <2>3. CASE SentBack(toDir[k], a)
    BY <1>4, <2>1, <2>3 DEF Holds
  <2> QED
    BY <1>8, <2>2, <2>3 DEF Holds
<1> QED
  BY <1>1, <1>2, <1>7, <1>8

LEMMA DataMoves ==
  ASSUME TypeOK, DataInv, NEW l \in Llcs, NEW s, Moves(s, l), Commit(s, l, None),
         \A k \in Llcs : Fresh(toLlc'[k], Granting), UNCHANGED dir,
         \A c \in L1s : pc'[c] = "waiting" /\ op'[c] # "PREFETCH" =>
                          s.l1[c][at'[c]].st = "INVALID"
  PROVE  DataInv'
<1>1. /\ Sound(Now)' /\ memory' = memory
      /\ \A k \in Llcs : Fresh(toDir'[k], Writebacks)
      /\ \A k \in Llcs, a \in Addrs : Holds(k, a) => Holds(k, a)'
  BY CommitHolds DEF DataInv
<1>2. WaitsEmpty'
  BY DEF WaitsEmpty, Commit
<1>3. Stored'
  BY <1>1 DEF Stored, DataInv
<1> QED
  BY <1>1, <1>2, <1>3 DEF DataInv, FreshNet

(* Threads that wait keep waiting without a copy.                          *)
LEMMA DataCarried ==
  ASSUME TypeOK, DataInv, NEW l \in Llcs, NEW s, Carries(Now, s, l), Commit(s, l, None),
         \A k \in Llcs : Fresh(toLlc'[k], Granting), UNCHANGED <<threads, dir>>
  PROVE  DataInv'
<1>1. Moves(s, l)
  BY CarriedMoves DEF DataInv
<1>2. ASSUME NEW c \in L1s, pc'[c] = "waiting", op'[c] # "PREFETCH"
      PROVE  s.l1[c][at'[c]].st = "INVALID"
  <2>1. at[c] \in Addrs /\ l1[c][at[c]].st = "INVALID" /\ at'[c] = at[c]
    BY <1>2 DEF DataInv, WaitsEmpty, TypeOK, threads
  <2> QED
    BY <2>1 DEF Carries, NoneAppears, Now
<1> QED
  BY <1>1, <1>2, DataMoves

-----------------------------------------------------------------------------
(* A cache that may write a line has its data alone: no other cache has a  *)
(* copy, none is on its way, and the directory knows.                      *)
Unsent(q, T, a) == \A i \in DOMAIN q : ~(q[i].t \in T /\ q[i].a = a)
Alone(l, a) ==
  /\ dir[a].owner = l
  /\ \A k \in Llcs : /\ Unsent(toDir[k], Writebacks, a) /\ Unsent(toLlc[k], Granting, a)
                     /\ k # l => llc[k][a].st = "INVALID"

LEMMA UnsentKinds ==
  ASSUME NEW q, NEW T, NEW a, ~Has(Kinds(q), T, a)
  PROVE  Unsent(q, T, a)
BY DEF Unsent, Has, Kinds, Is

LEMMA OwnerAlone ==
  ASSUME TypeOK, DirectoryInv, NEW l \in Llcs, NEW a \in Addrs,
         llc[l][a].st \in {"EXCLUSIVE", "MODIFIED"}
  PROVE  Alone(l, a)
<1>1. dir[a].owner = l /\ dir[a].sharers = {l}
  <2>1. Line(View(l, a), l, a) /\ l # None
    BY CoherentAssumption DEF DirectoryInv
  <2> QED
    BY <2>1, Fields DEF Line, Ownership, Sharing
<1>2. ASSUME NEW k \in Llcs
      PROVE  /\ ~Has(Kinds(toDir[k]), Writebacks, a) /\ ~Has(Kinds(toLlc[k]), Granting, a)
             /\ k # l => llc[k][a].st = "INVALID"
  <2> DEFINE v == View(k, a)
  <2>1. /\ v.up = Kinds(toDir[k]) /\ v.down = Kinds(toLlc[k]) /\ v.st = llc[k][a].st
        /\ v.sharers = {l} /\ v.owner = l
    BY <1>1, Fields
  <2>2. Custody(v, k, a) /\ WroteBack(v, k, a)
    BY DEF DirectoryInv, Line
  <2> HIDE DEF v
  <2>3. ~Has(v.up, GivingUp, a) /\ ~Has(v.down, Granting, a)
    BY <2>1, <2>2 DEF Custody
  <2>4. k # l => v.st = "INVALID"
    BY <2>1, <2>2 DEF Custody
  <2>5. ~Has(v.up, {"WB_REP"}, a)
    BY <2>1, <2>2 DEF WroteBack
  <2>6. ~Has(v.up, Writebacks, a)
    BY <2>3, <2>5 DEF Has, Is, Writebacks, GivingUp
  <2> QED
    BY <2>1, <2>3, <2>4, <2>6
<1> QED
  BY <1>1, <1>2, UnsentKinds DEF Alone

LEMMA OutdatedFresh ==
  ASSUME NEW types, NEW q \in Seq(Message(types)), NEW T, NEW a, Fresh(q, T), Unsent(q, T, a)
  PROVE  Fresh(Outdated(q, a), T)
<1>1. \A i \in DOMAIN q : q[i] \in Message(types)
  OBVIOUS
<1>2. /\ DOMAIN Outdated(q, a) = DOMAIN q
      /\ \A i \in DOMAIN q :
           Outdated(q, a)[i] = IF q[i].a = a THEN [q[i] EXCEPT !.new = FALSE] ELSE q[i]
  BY DEF Outdated
<1>3. \A m \in Message(types) : [m EXCEPT !.new = FALSE].t = m.t
  BY DEF Message
<1>4. ASSUME NEW i \in DOMAIN q, Outdated(q, a)[i].t \in T PROVE Outdated(q, a)[i].new = TRUE
  <2>1. q[i].t \in T
    BY <1>1, <1>2, <1>3, <1>4
  <2>2. q[i].a # a
    BY <2>1 DEF Unsent
  <2>3. q[i].new = TRUE
    BY <2>1 DEF Fresh
  <2> QED
    BY <1>2, <2>2, <2>3
<1> QED
  BY <1>2, <1>4 DEF Fresh

LEMMA OutdatedSentBack ==
  ASSUME NEW types, NEW q \in Seq(Message(types)), NEW a, NEW b, SentBack(q, b)
  PROVE  SentBack(Outdated(q, a), b)
<1>1. \A i \in DOMAIN q : q[i] \in Message(types)
  OBVIOUS
<1>2. /\ DOMAIN Outdated(q, a) = DOMAIN q
      /\ \A i \in DOMAIN q :
           Outdated(q, a)[i] = IF q[i].a = a THEN [q[i] EXCEPT !.new = FALSE] ELSE q[i]
  BY DEF Outdated
<1>3. \A m \in Message(types) : [m EXCEPT !.new = FALSE].t = m.t /\ [m EXCEPT !.new = FALSE].a = m.a
  BY DEF Message
<1> QED
  BY <1>1, <1>2, <1>3 DEF SentBack

(* A write makes only data old that nobody reads again.                    *)
LEMMA DataWrites ==
  ASSUME TypeOK, DataInv, NEW l \in Llcs, NEW a \in Addrs, Alone(l, a),
         NEW s, IsCaches(s), Sound(s), s.sent = <<>>, Commit(s, l, a),
         s.llc[l][a].st = "MODIFIED",
         \A k \in Llcs, b \in Addrs : llc[k][b].st = "MODIFIED" => s.llc[k][b].st = "MODIFIED",
         toLlc' = [k \in Llcs |-> Outdated(toLlc[k], a)], UNCHANGED dir,
         \A c \in L1s : pc'[c] = "waiting" /\ op'[c] # "PREFETCH" =>
                          s.l1[c][at'[c]].st = "INVALID"
  PROVE  DataInv'
<1>1. a # None
  BY CoherentAssumption
<1>2. /\ l1' = s.l1 /\ llc' = s.llc /\ memory' = [memory EXCEPT ![a] = FALSE]
      /\ toDir' = [k \in Llcs |-> Outdated(toDir[k], a) \o (IF k = l THEN s.sent ELSE <<>>)]
  BY <1>1 DEF Commit
<1>3. toDir \in [Llcs -> Seq(ToDirectory)] /\ toLlc \in [Llcs -> Seq(FromDirectory)]
  BY DEF TypeOK
<1>4. \A k \in Llcs : Outdated(toDir[k], a) \in Seq(ToDirectory)
  BY <1>3, OutdatedTyped DEF ToDirectory
<1>5. \A k \in Llcs : toDir'[k] = Outdated(toDir[k], a)
  <2>1. ASSUME NEW k \in Llcs PROVE Outdated(toDir[k], a) \o <<>> = Outdated(toDir[k], a)
    BY <1>4
  <2> QED
    BY <1>2, <2>1
<1>6. \A k \in Llcs : Fresh(toDir'[k], Writebacks)
  BY <1>3, <1>5, OutdatedFresh DEF ToDirectory, DataInv, FreshNet, Alone
<1>7. \A k \in Llcs : Fresh(toLlc'[k], Granting)
  BY <1>3, OutdatedFresh DEF FromDirectory, DataInv, FreshNet, Alone
<1>8. Sound(Now)'
  BY <1>2, SoundNext
<1>9. WaitsEmpty'
  BY <1>2 DEF WaitsEmpty
<1>10. \A k \in Llcs, b \in Addrs : Holds(k, b) => Holds(k, b)'
  <2>1. \A k \in Llcs, b \in Addrs : SentBack(toDir[k], b) => SentBack(toDir'[k], b)
    BY <1>3, <1>5, OutdatedSentBack DEF ToDirectory
  <2> QED
    BY <1>2, <2>1 DEF Holds
<1>11. Holds(l, a)'
  BY <1>2 DEF Holds
<1>12. Stored'
  <2> SUFFICES ASSUME NEW b \in Addrs
               PROVE  /\ dir[b].owner = None => memory'[b] = TRUE
                      /\ \A k \in Llcs : dir[b].owner = k => memory'[b] = TRUE \/ Holds(k, b)'
    BY DEF Stored
  <2>1. CASE b = a
    <3>1. dir[a].owner = l /\ l # None
      BY CoherentAssumption DEF Alone
    <3> QED
      BY <1>11, <2>1, <3>1
  <2>2. CASE b # a
    <3>1. memory'[b] = memory[b]
      BY <1>2, <2>2
    <3> QED
      BY <1>10, <3>1 DEF DataInv, Stored
  <2> QED
    BY <2>1, <2>2
<1> QED
  BY <1>6, <1>7, <1>8, <1>9, <1>12 DEF DataInv, FreshNet

-----------------------------------------------------------------------------
(* No line is written through one first-level cache and accessed through   *)
(* another one above the same last-level cache.                            *)
Apart ==
  \A c, d \in L1s : c # d /\ LlcOf[c] = LlcOf[d] => Written[c] \cap Accessed[d] = {}

LEMMA DataWrote ==
  ASSUME TypeOK, DataInv, NEW c \in L1s, NEW a \in Addrs, NEW l, l = LlcOf[c], Alone(l, a),
         NEW s, IsCaches(s), Sound(s), s.sent = <<>>,
         s.l1[c][a].st = "MODIFIED", s.llc[l][a].st = "MODIFIED",
         \A d \in L1s : d # c => s.l1[d][a].st = "INVALID",
         \A k \in Llcs, b \in Addrs : llc[k][b].st = "MODIFIED" => s.llc[k][b].st = "MODIFIED",
         \A k \in Llcs : k # l => s.llc[k][a].st = "INVALID",
         NEW ok, NEW what, Commit(Check(Wrote(s, c, a), ok, what), l, a),
         toLlc' = [k \in Llcs |-> Outdated(toLlc[k], a)], UNCHANGED dir,
         \A d \in L1s : pc'[d] = "waiting" /\ op'[d] # "PREFETCH" =>
                          at'[d] \in Addrs /\ s.l1[d][at'[d]].st = "INVALID"
  PROVE  DataInv'
<1> DEFINE w == Wrote(s, c, a)
           t == Check(w, ok, what)
<1>1. l \in Llcs
  BY CoherentAssumption
<1>2. /\ IsCaches(w) /\ w.sent = <<>>
      /\ \A d \in L1s, b \in Addrs : w.l1[d][b].st = s.l1[d][b].st
      /\ \A k \in Llcs, b \in Addrs : w.llc[k][b].st = s.llc[k][b].st
  BY WroteAlike DEF Alike
<1>3. Sound(w)
  BY WroteSound
<1> HIDE DEF w
<1>4. Carries(w, t, l) /\ t.l1 = w.l1 /\ t.llc = w.llc /\ t.sent = w.sent
  BY <1>2, CheckCarries, CheckKeeps
<1> HIDE DEF t
<1>5. IsCaches(t) /\ Sound(t)
  BY <1>3, <1>4 DEF Carries
<1>6. Commit(t, l, a)
  BY DEF t, w
<1>7. /\ t.sent = <<>> /\ t.llc[l][a].st = "MODIFIED"
      /\ \A k \in Llcs, b \in Addrs : llc[k][b].st = "MODIFIED" => t.llc[k][b].st = "MODIFIED"
      /\ \A d \in L1s : pc'[d] = "waiting" /\ op'[d] # "PREFETCH" =>
                          t.l1[d][at'[d]].st = "INVALID"
  BY <1>1, <1>2, <1>4
<1> QED
  BY <1>1, <1>5, <1>6, <1>7, DataWrites

(* Only one first-level cache can have a copy that is written to.          *)
LEMMA WriterAlone ==
  ASSUME Apart, TypeOK, Inclusive, Within(Now), NEW c \in L1s, NEW a \in Addrs,
         a \in Written[c], Alone(LlcOf[c], a)
  PROVE  \A d \in L1s : d # c => l1[d][a].st = "INVALID"
<1>1. SUFFICES ASSUME NEW d \in L1s, d # c PROVE l1[d][a].st = "INVALID"
  OBVIOUS
<1>2. CASE LlcOf[d] = LlcOf[c]
  <2>1. a \notin Accessed[d]
    BY <1>1, <1>2 DEF Apart
  <2> QED
    BY <2>1 DEF Within, Now
<1>3. CASE LlcOf[d] # LlcOf[c]
  BY <1>3, CoherentAssumption DEF Alone, Inclusive
<1> QED
  BY <1>2, <1>3

(* A write hit, at once or at the end of an atomic operation.              *)
LEMMA DataHit ==
  ASSUME Apart, CoherentInv, DirectoryInv, DataInv, failed = {},
         NEW c \in L1s, NEW a \in Addrs, a \in Written[c], l1[c][a].st = "MODIFIED",
         NEW ok, NEW what, Commit(Check(Wrote(Now, c, a), ok, what), LlcOf[c], a),
         toLlc' = [k \in Llcs |-> Outdated(toLlc[k], a)], UNCHANGED dir,
         \A d \in L1s : pc'[d] = "waiting" =>
                          pc[d] = "waiting" /\ op'[d] = op[d] /\ at'[d] = at[d]
  PROVE  DataInv'
<1>1. TypeOK /\ Inclusive
  BY DEF CoherentInv
<1>2. LlcOf[c] \in Llcs /\ llc[LlcOf[c]][a].st = "MODIFIED"
  BY <1>1, CoherentAssumption DEF Inclusive
<1>3. Alone(LlcOf[c], a)
  BY <1>1, <1>2, OwnerAlone
<1>4. \A d \in L1s : d # c => l1[d][a].st = "INVALID"
  BY <1>1, <1>3, WriterAlone DEF DataInv, Sound
<1>5. \A k \in Llcs : k # LlcOf[c] => llc[k][a].st = "INVALID"
  BY <1>3 DEF Alone
<1>6. IsCaches(Now) /\ Now.sent = <<>> /\ Now.l1 = l1 /\ Now.llc = llc /\ Sound(Now)
  BY <1>1, NowIsCaches DEF DataInv
<1>7. ASSUME NEW d \in L1s, pc'[d] = "waiting", op'[d] # "PREFETCH"
      PROVE  at'[d] \in Addrs /\ l1[d][at'[d]].st = "INVALID"
  BY <1>1, <1>7 DEF TypeOK, DataInv, WaitsEmpty
<1> HIDE DEF Now
<1> QED
  BY <1>1, <1>2, <1>3, <1>4, <1>5, <1>6, <1>7, DataWrote

(* A fill gets the new data: with no modified copy above the last-level    *)
(* cache any more, its copy is new.                                        *)
LEMMA SatisfiedSiblings ==
  ASSUME NEW s, IsCaches(s), Included(s), NEW c \in L1s, NEW a \in Addrs, NEW o,
         o # "PREFETCH", LlcHit(s, c, a, o), NEW t, t = Satisfied(s, c, a, o)
  PROVE  \A d \in L1sOf(LlcOf[c]) : d # c => t.l1[d][a].st # "MODIFIED"
<1> DEFINE l == LlcOf[c]
           skip == {c}
           h == "SHARED"
           shared == SnoopChecked(s, l, a, skip, h)
<1>1. l \in Llcs
  BY CoherentAssumption
<1>2. CASE o \notin Reads
  BY <1>2, SatisfiedEffect DEF L1sOf
<1>3. CASE o \in Reads /\ s.llc[l][a].st \in {"MODIFIED", "EXCLUSIVE"}
  <2>1. t = shared /\ h \in {"INVALID", "SHARED", "MODIFIED"} /\ h = "SHARED" /\ skip = {c}
    BY <1>3 DEF Satisfied
  <2> HIDE DEF skip, h, l
  <2>2. \A d \in L1s, b \in Addrs :
          shared.l1[d][b].st = IF d \in L1sOf(l) \ skip /\ b = a /\ s.l1[d][b].st # "INVALID"
                               THEN h ELSE s.l1[d][b].st
    BY <1>1, <2>1, SnoopedAlike
  <2> HIDE DEF shared
  <2> QED
    BY <2>1, <2>2 DEF L1sOf, l
<1>4. CASE o \in Reads /\ s.llc[l][a].st \notin {"MODIFIED", "EXCLUSIVE"}
  <2>1. t = s
    BY <1>4 DEF Satisfied
  <2> QED
    BY <1>4, <2>1 DEF Included, IncludedAt, L1sOf
<1> QED
  BY <1>2, <1>3, <1>4

LEMMA DataFilled ==
  ASSUME Apart, CoherentInv, DirectoryInv, DataInv, failed = {},
         NEW c \in L1s, NEW a \in Addrs, a \in Accessed[c], NEW l, l = LlcOf[c], NEW o,
         NEW r, IsCaches(r), Sound(r), r.sent = <<>>, NoneAppears(Now, r),
         r.l1[c][a].st = "INVALID", r.llc[l][a].st # "INVALID",
         o = "WRITE" => Alone(l, a) /\ r.llc[l][a].st = "MODIFIED" /\ a \in Written[c],
         \A d \in L1sOf(l) : r.l1[d][a].st # "MODIFIED",
         \A k \in Llcs, b \in Addrs : llc[k][b].st = "MODIFIED" => r.llc[k][b].st = "MODIFIED",
         \A k \in Llcs : k # l => r.llc[k][a].st = llc[k][a].st,
         FillAndAccess(r, c, a, o), UNCHANGED dir,
         \A d \in L1s : pc'[d] = "waiting" =>
           d # c /\ pc[d] = "waiting" /\ op'[d] = op[d] /\ at'[d] = at[d]
  PROVE  DataInv'
<1> DEFINE wrote == o = "WRITE"
           filled(victim) == InsertL1(r, c, a, r.llc[l][a], victim)
           done(victim) == IF wrote THEN Wrote(filled(victim), c, a) ELSE filled(victim)
           ok(victim) == Permissible(filled(victim).l1[c][a].st, o)
           what == "Expected_to_be_valid_in_L1"
<1>1. PICK victim \in L1Victims(r, c) :
        /\ Commit(Check(done(victim), ok(victim), what), l, IF wrote THEN a ELSE None)
        /\ toLlc' = IF wrote THEN [k \in Llcs |-> Outdated(toLlc[k], a)] ELSE toLlc
  BY DEF FillAndAccess
<1>2. victim \in Addrs \cup {None}
  BY DEF L1Victims, Resident
<1>3. TypeOK /\ Inclusive /\ l \in Llcs
  BY CoherentAssumption DEF CoherentInv
<1>4. r.llc[l][a].new = TRUE
  BY <1>3, SnoopedBelow
<1> DEFINE s == InsertL1(r, c, a, r.llc[LlcOf[c]][a], victim)
<1>5. /\ Sound(s) /\ s.sent = <<>>
      /\ Alike(r, s) /\ s.l1[c][a] = r.llc[l][a]
      /\ \A d \in L1s : d # c => s.l1[d] = r.l1[d]
  <2>1. s = InsertL1(r, c, a, r.llc[LlcOf[c]][a], victim) /\ r.llc[LlcOf[c]][a].new = TRUE
    BY <1>4
  <2> HIDE DEF s, filled, done, ok, what, wrote
  <2>2. Sound(s) /\ s.sent = <<>>
    BY <1>2, <2>1, InsertL1Sound
  <2>3. /\ Alike(r, s) /\ s.l1[c][a] = r.llc[LlcOf[c]][a]
        /\ \A d \in L1s : d # c => s.l1[d] = r.l1[d]
    BY <1>2, <2>1, InsertL1Alike
  <2> QED
    BY <2>2, <2>3
<1>6. filled(victim) = s
  OBVIOUS
<1> HIDE DEF s, what, ok, filled
<1>7. ASSUME NEW d \in L1s, pc'[d] = "waiting", op'[d] # "PREFETCH"
      PROVE  at'[d] \in Addrs /\ s.l1[d][at'[d]].st = "INVALID"
  <2>1. d # c /\ at[d] \in Addrs /\ at'[d] = at[d] /\ l1[d][at[d]].st = "INVALID"
    BY <1>3, <1>7 DEF TypeOK, DataInv, WaitsEmpty
  <2>2. r.l1[d][at[d]].st = "INVALID"
    BY <2>1 DEF NoneAppears, Now
  <2> QED
    BY <1>5, <2>1, <2>2
<1>8. /\ IsCaches(s)
      /\ \A k \in Llcs, b \in Addrs : s.llc[k][b].st = r.llc[k][b].st
  BY <1>5 DEF Alike
<1>9. CASE wrote
  <2>1. \A d \in L1s : d # c => l1[d][a].st = "INVALID"
    BY <1>3, <1>9, WriterAlone DEF DataInv, Sound
  <2>2. \A d \in L1s : d # c => s.l1[d][a].st = "INVALID"
    BY <1>5, <2>1 DEF NoneAppears, Now
  <2>3. /\ s.l1[c][a].st = "MODIFIED" /\ s.llc[l][a].st = "MODIFIED"
        /\ \A k \in Llcs : k # l => s.llc[k][a].st = "INVALID"
    BY <1>3, <1>5, <1>8, <1>9 DEF Alone
  <2>4. \A k \in Llcs, b \in Addrs : llc[k][b].st = "MODIFIED" => s.llc[k][b].st = "MODIFIED"
    BY <1>8
  <2>5. /\ Commit(Check(Wrote(s, c, a), ok(victim), what), l, a)
        /\ toLlc' = [k \in Llcs |-> Outdated(toLlc[k], a)]
    BY <1>1, <1>6, <1>9
  <2> DEFINE fits == ok(victim)
  <2>6. Commit(Check(Wrote(s, c, a), fits, what), l, a)
    BY <2>5
  <2> HIDE DEF fits
  <2>7. Alone(l, a)
    BY <1>9
  <2> QED
    BY <1>3, <1>5, <1>7, <1>8, <2>2, <2>3, <2>4, <2>5, <2>6, <2>7, DataWrote
<1>10. CASE ~wrote
  <2> DEFINE t == Check(s, ok(victim), what)
  <2>1. Commit(t, l, None) /\ toLlc' = toLlc
    BY <1>1, <1>6, <1>10
  <2>2. Carries(s, t, l) /\ t.l1 = s.l1 /\ t.llc = s.llc
    BY <1>8, CheckCarries, CheckKeeps
  <2> HIDE DEF t
  <2>3. Moves(t, l)
    BY <1>5, <1>8, <2>2 DEF Moves, Carries, Holding
  <2>4. \A k \in Llcs : Fresh(toLlc'[k], Granting)
    BY <2>1 DEF DataInv, FreshNet
  <2>5. \A d \in L1s : pc'[d] = "waiting" /\ op'[d] # "PREFETCH" =>
                         t.l1[d][at'[d]].st = "INVALID"
    BY <1>7, <2>2
  <2> QED
    BY <1>3, <2>1, <2>3, <2>4, <2>5, DataMoves
<1> QED
  BY <1>9, <1>10

(* A miss that hits the last-level cache, at once or after an answer.      *)
LEMMA DataCompleted ==
  ASSUME Apart, CoherentInv, DirectoryInv, DataInv, failed = {},
         NEW c \in L1s, NEW a \in Addrs, NEW l, l = LlcOf[c], NEW o,
         o # "PREFETCH" => a \in (IF o \in Reads THEN Accessed[c] ELSE Written[c]),
         LlcHit(Now, c, a, o), NEW s, Carries(Now, s, l), Included(s), s.sent = <<>>,
         \A k \in Llcs, b \in Addrs : s.llc[k][b].st = llc[k][b].st,
         o # "PREFETCH" => s.l1[c][a].st = "INVALID",
         Complete(Satisfied(s, c, a, o), c, a, o), UNCHANGED dir,
         \A d \in L1s : pc'[d] = "waiting" =>
           d # c /\ pc[d] = "waiting" /\ op'[d] = op[d] /\ at'[d] = at[d]
  PROVE  DataInv'
<1> DEFINE r == Satisfied(s, c, a, o)
<1>1. TypeOK /\ l \in Llcs /\ IsCaches(s) /\ Sound(Now)
  BY CoherentAssumption DEF CoherentInv, DataInv, Carries
<1>2. /\ o \notin Reads => llc[l][a].st \in {"EXCLUSIVE", "MODIFIED"}
      /\ llc[l][a].st # "INVALID"
  BY DEF LlcHit, Permissible, Now
<1>3. r = Satisfied(s, c, a, o)
  OBVIOUS
<1>10. /\ o \notin Reads => o # "PREFETCH" /\ a \in Written[c]
       /\ o # "PREFETCH" => a \in Accessed[c]
  BY CoherentAssumption DEF Reads
<1>4. Carries(s, r, l)
  BY <1>1, <1>2, <1>10, SatisfiedCarries
<1> HIDE DEF r
<1>5. /\ r.sent = <<>> /\ IsCaches(r)
      /\ \A k \in Llcs, b \in Addrs :
           r.llc[k][b].st = IF o \notin Reads /\ k = l /\ b = a THEN "MODIFIED"
                                                                ELSE llc[k][b].st
  BY <1>1, <1>3, SatisfiedEffect
<1>6. Carries(Now, r, l)
  BY <1>4, CarriesTwice
<1>7. Sound(r) /\ NoneAppears(Now, r) /\ Moves(r, l)
  BY <1>1, <1>6, CarriedMoves DEF Carries
<1>8. CASE o = "PREFETCH" /\ Prefetched(r, c)
  <2>1. Commit(r, l, None) /\ toLlc' = toLlc
    BY <1>8 DEF Prefetched, CommitQuiet
  <2>2. \A k \in Llcs : Fresh(toLlc'[k], Granting)
    BY <2>1 DEF DataInv, FreshNet
  <2>3. ASSUME NEW d \in L1s, pc'[d] = "waiting", op'[d] # "PREFETCH"
        PROVE  r.l1[d][at'[d]].st = "INVALID"
    <3>1. at[d] \in Addrs /\ at'[d] = at[d] /\ l1[d][at[d]].st = "INVALID"
      BY <1>1, <2>3 DEF TypeOK, DataInv, WaitsEmpty
    <3> QED
      BY <1>7, <3>1 DEF NoneAppears, Now
  <2> QED
    BY <1>1, <1>7, <2>1, <2>2, <2>3, DataMoves
<1>9. CASE o # "PREFETCH" /\ FillAndAccess(r, c, a, o)
  <2>1. r.l1[c][a].st = "INVALID"
    BY <1>4, <1>9 DEF Carries, NoneAppears
  <2>2. r.llc[l][a].st # "INVALID"
    BY <1>1, <1>2, <1>5
  <2>3. o = "WRITE" => Alone(l, a) /\ r.llc[l][a].st = "MODIFIED" /\ a \in Written[c]
    <3>1. "WRITE" \notin Reads
      BY DEF Reads
    <3> QED
      BY <1>1, <1>2, <1>5, <1>10, <3>1, OwnerAlone
  <2>4. /\ \A k \in Llcs, b \in Addrs : llc[k][b].st = "MODIFIED" => r.llc[k][b].st = "MODIFIED"
        /\ \A k \in Llcs : k # l => r.llc[k][a].st = llc[k][a].st
    BY <1>5
  <2>5. FillAndAccess(r, c, a, o)
    BY <1>9
  <2>6. \A d \in L1sOf(l) : r.l1[d][a].st # "MODIFIED"
    <3>1. LlcHit(s, c, a, o)
      BY <1>1 DEF LlcHit, Now
    <3>2. \A d \in L1sOf(LlcOf[c]) : d # c => r.l1[d][a].st # "MODIFIED"
      BY <1>1, <1>3, <1>9, <3>1, SatisfiedSiblings
    <3> QED
      BY <2>1, <3>2
  <2>7. a \in Accessed[c]
    BY <1>9, <1>10
  <2> QED
    BY <1>5, <1>7, <2>1, <2>2, <2>3, <2>4, <2>5, <2>6, <2>7, DataFilled
<1> QED
  BY <1>3, <1>8, <1>9 DEF Complete

LEMMA MissDrops ==
  ASSUME TypeOK, NEW c \in L1s, at[c] \in Addrs, NEW l,
         op[c] = "PREFETCH" \/ l1[c][at[c]].st # "MODIFIED"
  PROVE  Carries(Now, Dropped(c), l)
<1> DEFINE put == PutL1(Now, c, [Now.l1[c] EXCEPT ![at[c]] = Invalid])
           ok == l1[c][at[c]].st # "MODIFIED"
           t == Check(put, ok, "invalidateCacheBlock_of_MODIFIED")
<1>1. Dropped(c) = IF op[c] = "PREFETCH" THEN Now ELSE t
  BY NowIsCaches DEF Dropped, PutL1, Now
<1>2. IsCaches(Now) /\ Now.l1 = l1
  BY NowIsCaches
<1>3. CASE op[c] = "PREFETCH"
  BY <1>1, <1>2, <1>3 DEF Carries, NoneAppears
<1>4. CASE op[c] # "PREFETCH"
  <2>1. Carries(Now, put, l)
    BY <1>2, <1>4, DroppedCarries
  <2> HIDE DEF put, ok
  <2>2. Carries(put, t, l)
    BY <2>1, CheckCarries DEF Carries
  <2> HIDE DEF t
  <2> QED
    BY <1>1, <1>4, <2>1, <2>2, CarriesTwice
<1> QED
  BY <1>3, <1>4

LEMMA MissHitsLlcData ==
  ASSUME Apart, CoherentInv, DirectoryInv, ControllerInv, DataInv, Programmed,
         NEW c \in L1s, MissHitsLlc(c)
  PROVE  DataInv'
<1> DEFINE l == LlcOf[c]
           a == at[c]
           o == op[c]
           s == Dropped(c)
<1>1. TypeOK /\ failed = {} /\ MissDropsClean
  BY DEF CoherentInv, ControllerInv
<1>2. /\ pc[c] = "upgrading" /\ a \in Addrs /\ l \in Llcs /\ net[l] # "serving"
      /\ LlcHit(Now, c, a, o) /\ Complete(Satisfied(s, c, a, o), c, a, o)
      /\ UNCHANGED dir
  BY <1>1, CoherentAssumption DEF MissHitsLlc, ExclusiveFree, TypeOK
<1>3. o = "PREFETCH" \/ l1[c][a].st # "MODIFIED"
  BY <1>1, <1>2 DEF MissDropsClean, UpgradedFirst
<1>4. /\ Alike(Now, s) /\ (o # "PREFETCH" => s.l1[c][a].st = "INVALID")
      /\ Included(s)
  <2>1. Included(Now)
    BY <1>1 DEF CoherentInv, Inclusive, Included, IncludedAt, Now
  <2> QED
    BY <1>1, <1>2, <2>1, DroppedAlike
<1>10. o # "PREFETCH" => a \in (IF o \in Reads THEN Accessed[c] ELSE Written[c])
  BY <1>2 DEF Programmed
<1>5. Carries(Now, s, l)
  BY <1>1, <1>2, <1>3, MissDrops
<1>6. /\ s.sent = <<>>
      /\ \A k \in Llcs, b \in Addrs : s.llc[k][b].st = llc[k][b].st
  BY <1>4 DEF Alike, Now
<1>7. \E there \in {"idle", "locked"} : pc' = [pc EXCEPT ![c] = there]
  BY <1>2 DEF Complete, Prefetched, FillAndAccess
<1>8. \A d \in L1s : d # c => op'[d] = op[d] /\ at'[d] = at[d]
  BY <1>1, <1>2 DEF Complete, Prefetched, FillAndAccess, TypeOK
<1>9. \A d \in L1s : pc'[d] = "waiting" =>
           d # c /\ pc[d] = "waiting" /\ op'[d] = op[d] /\ at'[d] = at[d]
  BY <1>1, <1>7, <1>8 DEF TypeOK
<1> HIDE DEF l, a, o, s
<1> QED
  BY <1>1, <1>2, <1>4, <1>5, <1>6, <1>9, <1>10, DataCompleted DEF l

LEMMA ServeWaiterData ==
  ASSUME Apart, CoherentInv, DirectoryInv, ControllerInv, DataInv, Programmed,
         NEW l \in Llcs, ServeWaiter(l)
  PROVE  DataInv'
<1> DEFINE c == FrontWaiter(l)
           a == at[c]
           o == op[c]
           ok == LlcHit(Now, c, a, o)
           found == Check(Now, ok,
                          "Tried_to_read_in_next_level_cache_but_data_is_already_gone")
<1>1. TypeOK /\ WaitersListed /\ ServesSomebody /\ failed = {} /\ ServedHere
  BY DEF CoherentInv, ControllerInv, DirectoryInv
<1>2. /\ net[l] = "serving" /\ ~NeedsUpgrade(l)
      /\ Complete(Satisfied(found, c, a, o), c, a, o) /\ UNCHANGED dir
  BY DEF ServeWaiter
<1>3. c \in L1s /\ a \in Addrs /\ a = served[l] /\ l = LlcOf[c] /\ pc[c] = "waiting"
  BY <1>1, <1>2, FrontWaits
<1>4. ok
  <2>1. llc[l][a].st \in {"SHARED", "EXCLUSIVE", "MODIFIED"}
    BY <1>1, <1>2, <1>3 DEF ServedHere
  <2>2. o \in Reads \/ llc[l][a].st # "SHARED"
    BY <1>2, <1>3 DEF NeedsUpgrade
  <2> QED
    BY <1>3, <2>1, <2>2 DEF LlcHit, Permissible, Now
<1>5. found = Now
  BY <1>4 DEF Check
<1>6. /\ IsCaches(Now) /\ Now.sent = <<>> /\ Now.llc = llc /\ Now.l1 = l1
  BY <1>1, NowIsCaches
<1>7. Carries(Now, Now, l)
  BY <1>6 DEF Carries, NoneAppears
<1>8. o # "PREFETCH" => Now.l1[c][a].st = "INVALID"
  BY <1>3, <1>6 DEF DataInv, WaitsEmpty
<1>9. LlcHit(Now, c, a, o) /\ Complete(Satisfied(Now, c, a, o), c, a, o)
  BY <1>2, <1>4, <1>5
<1>15. o # "PREFETCH" => a \in (IF o \in Reads THEN Accessed[c] ELSE Written[c])
  BY <1>3 DEF Programmed
<1>16. Included(Now)
  BY <1>1 DEF CoherentInv, Inclusive, Included, IncludedAt, Now
<1> HIDE DEF found, ok, a, o, c
<1>10. \E there \in {"idle", "locked"} : pc' = [pc EXCEPT ![c] = there]
  BY <1>9 DEF Complete, Prefetched, FillAndAccess
<1>11. \A d \in L1s : d # c => op'[d] = op[d] /\ at'[d] = at[d]
  BY <1>1, <1>9 DEF Complete, Prefetched, FillAndAccess, TypeOK
<1>12. \A d \in L1s : pc'[d] = "waiting" =>
           d # c /\ pc[d] = "waiting" /\ op'[d] = op[d] /\ at'[d] = at[d]
  BY <1>1, <1>3, <1>10, <1>11 DEF TypeOK
<1>13. \A k \in Llcs, b \in Addrs : Now.llc[k][b].st = llc[k][b].st
  BY <1>6
<1> DEFINE s == Now
<1> HIDE DEF s
<1>14. /\ Carries(Now, s, l) /\ Included(s) /\ s.sent = <<>>
       /\ \A k \in Llcs, b \in Addrs : s.llc[k][b].st = llc[k][b].st
       /\ o # "PREFETCH" => s.l1[c][a].st = "INVALID"
       /\ Complete(Satisfied(s, c, a, o), c, a, o)
  BY <1>6, <1>7, <1>8, <1>9, <1>13, <1>16 DEF s
<1> QED
  BY <1>1, <1>2, <1>3, <1>9, <1>12, <1>14, <1>15, DataCompleted

-----------------------------------------------------------------------------
(* Steps that leave the caches and the network alone.                      *)
LEMMA DataQuiet ==
  ASSUME DataInv, UNCHANGED <<l1, llc, toDir, toLlc, dir, memory>>,
         \A d \in L1s : pc'[d] = "waiting" =>
                          pc[d] = "waiting" /\ op'[d] = op[d] /\ at'[d] = at[d]
  PROVE  DataInv'
<1>1. Sound(Now)'
  BY SoundNext DEF DataInv, Now
<1>2. FreshNet'
  BY DEF DataInv, FreshNet
<1>3. WaitsEmpty'
  BY DEF DataInv, WaitsEmpty
<1>4. Stored'
  BY DEF DataInv, Stored, Holds
<1> QED
  BY <1>1, <1>2, <1>3, <1>4 DEF DataInv

LEMMA UserOutsideData ==
  ASSUME Apart, CoherentInv, DirectoryInv, ControllerInv, DataInv, Programmed,
         NEW c \in L1s, NEW a \in Addrs,
         \/ WriteHit(c, a) \/ AtomicHit(c, a) \/ AtomicUnlock(c)
         \/ \E o \in Ops : Miss(c, o, a)
         \/ DoPrefetch(c, a)
  PROVE  DataInv'
<1>0. TypeOK /\ failed = {} /\ LockedHeld
  BY DEF CoherentInv, ControllerInv
<1>1. CASE WriteHit(c, a)
  <2> DEFINE ok == TRUE
  <2>1. Wrote(Now, c, a) = Check(Wrote(Now, c, a), ok, None)
    BY DEF Check
  <2> HIDE DEF ok
  <2>2. /\ Commit(Check(Wrote(Now, c, a), ok, None), LlcOf[c], a)
        /\ toLlc' = [k \in Llcs |-> Outdated(toLlc[k], a)]
        /\ UNCHANGED <<pc, op, at, dir>> /\ l1[c][a].st = "MODIFIED" /\ a \in Written[c]
    BY <1>1, <2>1 DEF WriteHit, threads, Permissible, Reads
  <2> QED
    BY <1>0, <2>2, DataHit
<1>2. CASE AtomicUnlock(c)
  <2> DEFINE x == at[c]
             ok == Permissible(l1[c][x].st, "WRITE")
             what == "Expected_to_find_address_in_L1_Cache"
  <2>1. x \in Addrs /\ x \in Written[c] /\ l1[c][x].st = "MODIFIED"
    BY <1>0, <1>2 DEF AtomicUnlock, TypeOK, LockedHeld, Programmed
  <2>2. /\ Commit(Check(Wrote(Now, c, x), ok, what), LlcOf[c], x)
        /\ toLlc' = [k \in Llcs |-> Outdated(toLlc[k], x)] /\ UNCHANGED dir
    BY <1>2 DEF AtomicUnlock
  <2>3. \A d \in L1s : pc'[d] = "waiting" =>
                         pc[d] = "waiting" /\ op'[d] = op[d] /\ at'[d] = at[d]
    <3>1. /\ UNCHANGED op
          /\ pc' = [pc EXCEPT ![c] = "idle"] /\ at' = [at EXCEPT ![c] = None]
      BY <1>2 DEF AtomicUnlock
    <3> QED
      BY <1>0, <3>1 DEF TypeOK
  <2> HIDE DEF ok, x, what
  <2> QED
    BY <1>0, <2>1, <2>2, <2>3, DataHit
<1>3. CASE AtomicHit(c, a) \/ (\E o \in Ops : Miss(c, o, a)) \/ DoPrefetch(c, a)
  <2>1. UNCHANGED <<l1, llc, toDir, toLlc, dir, memory>>
    BY <1>3 DEF AtomicHit, Miss, DoPrefetch, caches
  <2>2. \A d \in L1s : pc'[d] = "waiting" =>
                         pc[d] = "waiting" /\ op'[d] = op[d] /\ at'[d] = at[d]
    <3>1. \E there \in {"locked", "upgrading"} : pc' = [pc EXCEPT ![c] = there]
      BY <1>3 DEF AtomicHit, Miss, DoPrefetch
    <3>2. at' = [at EXCEPT ![c] = a] /\ (op' = op \/ \E o : op' = [op EXCEPT ![c] = o])
      BY <1>3 DEF AtomicHit, Miss, DoPrefetch
    <3> QED
      BY <1>0, <3>1, <3>2 DEF TypeOK
  <2> QED
    BY <2>1, <2>2, DataQuiet
<1> QED
  BY <1>1, <1>2, <1>3

(* What a miss asks for carries no data.                                   *)
LEMMA SendRequestCarries ==
  ASSUME NEW s, IsCaches(s), NEW type \in Requests, NEW a \in Addrs, NEW l
  PROVE  Carries(s, Send(s, type, a, FALSE), l)
<1> DEFINE new == FALSE
<1>1. new \in BOOLEAN /\ type \in Requests \cup Answers /\ type \notin Writebacks
  BY DEF Requests, Writebacks
<1>2. Send(s, type, a, FALSE) = Send(s, type, a, new)
  OBVIOUS
<1> HIDE DEF new
<1> QED
  BY <1>1, <1>2, SendCarries

LEMMA AskedUpgradeCarries ==
  ASSUME NEW s, IsCaches(s), NEW l \in Llcs, NEW a \in Addrs, s.llc[l][a].st = "SHARED",
         WrittenAbove(l, a)
  PROVE  Carries(s, AskedUpgrade(s, l, a), l)
<1> DEFINE type == "UPGRADE_REQ"
           r == Send(s, type, a, FALSE)
           state == "SHARED_UPGRADING"
<1>1. type \in Requests /\ state \in States
  BY DEF Requests, States
<1>2. AskedUpgrade(s, l, a) = SetState(r, l, a, state)
  BY DEF AskedUpgrade
<1>3. r.llc = s.llc
  BY DEF Send, IsCaches
<1>4. Carries(s, r, l)
  <2> HIDE DEF type
  <2> QED
    BY <1>1, SendRequestCarries DEF type
<1>5. IsCaches(r) /\ r.llc[l][a].st = "SHARED"
  BY <1>3, <1>4 DEF Carries
<1> HIDE DEF r, state
<1>6. Carries(r, SetState(r, l, a, state), l)
  BY <1>1, <1>5, SetStateCarries
<1> QED
  BY <1>2, <1>4, <1>6, CarriesTwice

LEMMA MissGoesToDirectoryData ==
  ASSUME CoherentInv, DirectoryInv, ControllerInv, DataInv, Programmed,
         NEW c \in L1s, MissGoesToDirectory(c)
  PROVE  DataInv'
<1> DEFINE l == LlcOf[c]
           a == at[c]
           snooped == SnoopChecked(Dropped(c), l, a, {c}, "INVALID")
           shared == IF llc[l][a].st = "SHARED" THEN snooped ELSE Dropped(c)
           exclusive == op[c] \notin Reads
           waited == waiters[l][a] # <<>>
           ok == llc[l][a].st = "INVALID"
           upgrade == AskedUpgrade(shared, l, a)
           fetch == Send(shared, "EX_REQ", a, FALSE)
           read == Send(shared, "SH_REQ", a, FALSE)
           requested == IF waited THEN shared
                        ELSE IF ~exclusive THEN read
                        ELSE IF llc[l][a].st = "SHARED" THEN upgrade
                        ELSE Check(fetch, ok, "ExReq_for_a_line_that_is_not_INVALID")
<1>1. /\ TypeOK /\ MissDropsClean
  BY DEF CoherentInv, ControllerInv
<1>2. /\ pc[c] = "upgrading" /\ net[l] # "serving" /\ a \in Addrs /\ l \in Llcs
      /\ Commit(requested, l, None)
      /\ pc' = [pc EXCEPT ![c] = "waiting"] /\ UNCHANGED <<op, at, toLlc, dir>>
  <2> DEFINE asked == [Send(shared, "UPGRADE_REQ", a, FALSE)
                         EXCEPT !.llc[l][a].st = "SHARED_UPGRADING"]
             sent == IF waited THEN shared
                     ELSE IF ~exclusive THEN read
                     ELSE IF llc[l][a].st = "SHARED" THEN asked
                     ELSE Check(fetch, ok, "ExReq_for_a_line_that_is_not_INVALID")
  <2>1. /\ pc[c] = "upgrading" /\ net[l] # "serving"
        /\ pc' = [pc EXCEPT ![c] = "waiting"] /\ UNCHANGED <<op, at, toLlc, dir>>
    BY DEF MissGoesToDirectory, ExclusiveFree
  <2>2. at[c] \in Addrs /\ LlcOf[c] \in Llcs
    BY <1>1, <2>1, CoherentAssumption DEF TypeOK
  <2>3. upgrade = asked
    BY DEF AskedUpgrade, SetState
  <2>4. Commit(sent, l, None)
    BY DEF MissGoesToDirectory, CommitQuiet
  <2> HIDE DEF asked, upgrade, fetch, read, shared
  <2>5. requested = sent
    BY <2>3
  <2> QED
    BY <2>1, <2>2, <2>4, <2>5
<1>3. op[c] = "PREFETCH" \/ l1[c][a].st # "MODIFIED"
  BY <1>1, <1>2 DEF MissDropsClean, UpgradedFirst
<1>4. /\ Alike(Now, Dropped(c)) /\ (op[c] # "PREFETCH" => Dropped(c).l1[c][a].st = "INVALID")
  BY <1>1, <1>2, DroppedAlike
<1>5. Carries(Now, Dropped(c), l)
  BY <1>1, <1>2, <1>3, MissDrops
<1>6. /\ Carries(Dropped(c), snooped, l)
      /\ \A k \in Llcs, b \in Addrs : snooped.llc[k][b].st = Dropped(c).llc[k][b].st
  <2> DEFINE n == "INVALID"
             s == Dropped(c)
             t == SnoopChecked(s, l, a, {c}, n)
  <2>1. IsCaches(s) /\ l \in Llcs /\ a \in Addrs /\ n \in {"INVALID", "SHARED", "MODIFIED"}
    BY <1>2, <1>5 DEF Carries
  <2>2. t = snooped
    OBVIOUS
  <2> HIDE DEF l, a, n, s, snooped
  <2>3. Carries(s, t, l)
    BY <2>1, SnoopCheckedCarries
  <2>4. Alike(s, t)
    BY <2>1, SnoopedAlike
  <2>5. \A k \in Llcs, b \in Addrs : t.llc[k][b].st = s.llc[k][b].st
    BY <2>4 DEF Alike
  <2> QED
    BY <2>2, <2>3, <2>5 DEF s
<1> HIDE DEF snooped
<1>7. Carries(Dropped(c), shared, l)
  <2>1. Carries(Dropped(c), Dropped(c), l)
    BY <1>5 DEF Carries, NoneAppears
  <2> QED
    BY <1>6, <2>1
<1>8. IsCaches(shared) /\ shared.llc[l][a].st = llc[l][a].st
  <2>1. Dropped(c).llc[l][a].st = llc[l][a].st
    BY <1>2, <1>4 DEF Alike, Now
  <2>2. snooped.llc[l][a].st = llc[l][a].st
    BY <1>2, <1>6, <2>1
  <2> QED
    BY <1>7, <2>1, <2>2 DEF Carries
<1> HIDE DEF shared
<1>9. Carries(shared, requested, l)
  <2>1. Carries(shared, shared, l)
    BY <1>8 DEF Carries, NoneAppears
  <2>2. Carries(shared, read, l) /\ Carries(shared, fetch, l)
    <3> DEFINE sh == "SH_REQ"
               ex == "EX_REQ"
    <3>1. sh \in Requests /\ ex \in Requests
      BY DEF Requests
    <3> HIDE DEF sh, ex
    <3>2. Carries(shared, Send(shared, sh, a, FALSE), l) /\ Carries(shared, Send(shared, ex, a, FALSE), l)
      BY <1>2, <1>8, <3>1, SendRequestCarries
    <3> QED
      BY <3>2 DEF sh, ex
  <2>3. llc[l][a].st = "SHARED" /\ exclusive => Carries(shared, upgrade, l)
    <3>1. exclusive => WrittenAbove(l, a)
      BY <1>2 DEF Programmed, WrittenAbove, L1sOf, Reads
    <3> QED
      BY <1>2, <1>8, <3>1, AskedUpgradeCarries
  <2> HIDE DEF fetch, read, upgrade
  <2> DEFINE fetched == Check(fetch, ok, "ExReq_for_a_line_that_is_not_INVALID")
  <2>4. Carries(shared, fetched, l)
    <3> HIDE DEF ok
    <3>1. Carries(fetch, fetched, l)
      BY <2>2, CheckCarries DEF Carries
    <3> QED
      BY <2>2, <3>1, CarriesTwice
  <2> HIDE DEF fetched
  <2>5. requested \in {shared, read, fetched} 
        \/ (llc[l][a].st = "SHARED" /\ exclusive /\ requested = upgrade)
    BY DEF fetched
  <2> QED
    BY <2>1, <2>2, <2>3, <2>4, <2>5
<1> HIDE DEF requested
<1>10. Carries(Dropped(c), requested, l) /\ Carries(Now, requested, l)
  BY <1>5, <1>7, <1>9, CarriesTwice
<1>11. \A d \in L1s : pc'[d] = "waiting" /\ op'[d] # "PREFETCH" =>
                        requested.l1[d][at'[d]].st = "INVALID"
  <2> SUFFICES ASSUME NEW d \in L1s, pc'[d] = "waiting", op'[d] # "PREFETCH"
               PROVE  requested.l1[d][at'[d]].st = "INVALID"
    OBVIOUS
  <2>1. CASE d = c
    BY <1>2, <1>4, <1>10, <2>1 DEF Carries, NoneAppears
  <2>2. CASE d # c
    <3>1. at[d] \in Addrs /\ l1[d][at[d]].st = "INVALID" /\ at'[d] = at[d]
      BY <1>1, <1>2, <2>2 DEF DataInv, WaitsEmpty, TypeOK
    <3> QED
      BY <1>10, <3>1 DEF Carries, NoneAppears, Now
  <2> QED
    BY <2>1, <2>2
<1>12. \A k \in Llcs : Fresh(toLlc'[k], Granting)
  BY <1>2 DEF DataInv, FreshNet
<1>13. Moves(requested, l) /\ UNCHANGED dir
  BY <1>2, <1>10, CarriedMoves DEF DataInv
<1> HIDE DEF l, a
<1> QED
  BY <1>1, <1>2, <1>11, <1>12, <1>13, DataMoves

LEMMA ServeUpgradeData ==
  ASSUME CoherentInv, DirectoryInv, ControllerInv, DataInv, Programmed, NEW l \in Llcs, ServeUpgrade(l)
  PROVE  DataInv'
<1> DEFINE a == served[l]
           r == AskedUpgrade(Now, l, a)
<1>1. TypeOK /\ WaitersListed /\ ServesSomebody
  BY DEF CoherentInv, ControllerInv
<1>2. /\ Commit(r, l, None) /\ llc[l][a].st = "SHARED" /\ a \in Addrs
      /\ UNCHANGED <<threads, toLlc, dir>>
  BY <1>1 DEF ServeUpgrade, NeedsUpgrade, CommitQuiet, AskedUpgrade, SetState, TypeOK
<1>3. IsCaches(Now) /\ Now.llc = llc
  BY <1>1, NowIsCaches
<1>6. WrittenAbove(l, a)
  <2> DEFINE c == FrontWaiter(l)
  <2>1. c \in L1s /\ pc[c] = "waiting" /\ at[c] = a /\ LlcOf[c] = l
    BY <1>1, FrontWaits DEF ServeUpgrade
  <2>2. op[c] \notin Reads
    BY DEF ServeUpgrade, NeedsUpgrade
  <2> HIDE DEF c
  <2> QED
    BY <2>1, <2>2 DEF Programmed, WrittenAbove, L1sOf, Reads
<1>4. Carries(Now, r, l)
  BY <1>2, <1>3, <1>6, AskedUpgradeCarries
<1>5. \A k \in Llcs : Fresh(toLlc'[k], Granting)
  BY <1>2 DEF DataInv, FreshNet
<1> HIDE DEF r
<1> QED
  BY <1>1, <1>2, <1>4, <1>5, DataCarried

-----------------------------------------------------------------------------
(* What the network thread receives.                                       *)
LEMMA FreshTail ==
  ASSUME NEW S, NEW q \in Seq(S), q # <<>>, NEW T, Fresh(q, T)
  PROVE  /\ Fresh(Tail(q), T)
         /\ Head(q).t \in T => Head(q).new = TRUE
<1>1. /\ Tail(q) \in Seq(S) /\ Len(Tail(q)) = Len(q) - 1 /\ Len(q) \in Nat \ {0}
      /\ \A i \in 1 .. Len(Tail(q)) : Tail(q)[i] = q[i + 1]
      /\ Head(q) = q[1] /\ 1 \in DOMAIN q /\ DOMAIN q = 1 .. Len(q)
  OBVIOUS
<1>2. \A i \in DOMAIN Tail(q) : i + 1 \in DOMAIN q /\ Tail(q)[i] = q[i + 1]
  BY <1>1
<1> QED
  BY <1>1, <1>2 DEF Fresh

LEMMA FreshReceived ==
  ASSUME TypeOK, DataInv, NEW l \in Llcs, NEW types, Received(l, types)
  PROVE  /\ \A k \in Llcs : Fresh(toLlc'[k], Granting)
         /\ Head(toLlc[l]).t \in types
         /\ Head(toLlc[l]).t \in Granting => Head(toLlc[l]).new = TRUE
<1>1. /\ toLlc[l] \in Seq(FromDirectory) /\ toLlc[l] # <<>> /\ Head(toLlc[l]).t \in types
      /\ toLlc'[l] = Tail(toLlc[l]) /\ \A k \in Llcs : k # l => toLlc'[k] = toLlc[k]
  BY DEF Received, TypeOK
<1>2. \A k \in Llcs : Fresh(toLlc[k], Granting)
  BY DEF DataInv, FreshNet
<1>3. /\ Fresh(Tail(toLlc[l]), Granting)
      /\ Head(toLlc[l]).t \in Granting => Head(toLlc[l]).new = TRUE
  BY <1>1, <1>2, FreshTail
<1> QED
  BY <1>1, <1>2, <1>3

(* What is needed of an answer that comes with a line: somebody waits for  *)
(* it, and there is no copy.                                               *)
LEMMA GrantAwaited ==
  ASSUME TypeOK, DirectoryInv, NEW l \in Llcs, NEW type \in Granting,
         Received(l, {type}), NEW a, a = Head(toLlc[l]).a
  PROVE  a \in Addrs /\ waiters[l][a] # <<>> /\ llc[l][a].st = "INVALID"
<1> DEFINE v == View(l, a)
           t == Head(toLlc[l]).t
<1>1. t = Head(toLlc[l]).t
  OBVIOUS
<1> HIDE DEF t
<1>2. t \in {type} /\ Takes(l, t, a)
  BY <1>1, ReceivedKinds
<1>3. a \in Addrs /\ Takes(l, type, a)
  BY <1>2 DEF Takes
<1>4. /\ v.down # <<>> /\ Head(v.down) = <<type, a>> /\ v.waiters = waiters[l][a]
      /\ v.st = llc[l][a].st
  BY <1>3, Fields DEF Takes
<1>5. Line(v, l, a) /\ IsView(v)
  BY <1>3, ViewTyped DEF DirectoryInv
<1> HIDE DEF v
<1>6. Has(v.down, Granting, a)
  <2>1. v.down \in Seq(DownKinds)
    BY <1>5 DEF IsView
  <2>2. Departure(v.down, Head(v.down), Tail(v.down), a)
    BY <1>4, <2>1, Departing
  <2>3. Is(Head(v.down), Granting, a)
    BY <1>4 DEF Is
  <2> QED
    BY <2>2, <2>3 DEF Departure
<1>7. Has(v.down, Replies, a)
  BY <1>6, HasReply
<1> QED
  BY <1>3, <1>4, <1>5, <1>6, <1>7 DEF Line, Transaction, Custody

LEMMA ReceiveDataData ==
  ASSUME CoherentInv, DirectoryInv, DataInv, NEW l \in Llcs,
         NEW type \in Granting, NEW state \in {"EXCLUSIVE", "SHARED"},
         ReceiveData(l, type, state)
  PROVE  DataInv'
<1> DEFINE a == Head(toLlc[l]).a
           copy == [st |-> state, new |-> Head(toLlc[l]).new]
           types == {type}
<1>1. TypeOK /\ Received(l, types) /\ a = Head(toLlc[l]).a
  BY DEF CoherentInv, ReceiveData
<1>2. PICK victim \in LlcVictims(Now, l) :
        Commit(InsertLlc(Awaited(l, a), l, a, copy, victim), l, None)
  BY DEF ReceiveData, CommitQuiet
<1>3. UNCHANGED <<threads, dir>>
  BY DEF ReceiveData, NowServing
<1>4. a \in Addrs /\ waiters[l][a] # <<>> /\ llc[l][a].st = "INVALID"
  <2> HIDE DEF a
  <2> QED
    BY <1>1, GrantAwaited
<1>5. /\ \A k \in Llcs : Fresh(toLlc'[k], Granting)
      /\ Head(toLlc[l]).new = TRUE
  <2>1. types \subseteq Granting
    OBVIOUS
  <2> HIDE DEF types
  <2> QED
    BY <1>1, <2>1, FreshReceived
<1>6. copy \in Copy /\ copy.new = TRUE /\ copy.st \notin Writable
  BY <1>5 DEF Copy, States, Writable
<1>7. Awaited(l, a) = Now
  BY <1>4 DEF Awaited, Check
<1>8. victim \in Addrs \cup {None} /\ victim # a
  BY <1>4, CoherentAssumption DEF LlcVictims, Resident, Now
<1>9. IsCaches(Now) /\ Now.llc = llc /\ Sound(Now)
  BY <1>1, NowIsCaches DEF DataInv
<1> DEFINE r == InsertLlc(Now, l, a, copy, victim)
<1>10. Commit(r, l, None)
  BY <1>2, <1>7
<1> HIDE DEF copy, a
<1>11. Carries(Now, r, l)
  <2>1. Now.llc[l][a].st = "INVALID"
    BY <1>4, <1>9
  <2> QED
    BY <1>4, <1>6, <1>8, <1>9, <2>1, InsertLlcCarries
<1> HIDE DEF r
<1> QED
  BY <1>1, <1>3, <1>5, <1>10, <1>11, DataCarried

LEMMA ReceiveUpgradeRepData ==
  ASSUME CoherentInv, DirectoryInv, ControllerInv, DataInv, NEW l \in Llcs,
         ReceiveUpgradeRep(l), Head(toLlc[l]).t = "UPGRADE_REP"
  PROVE  DataInv'
<1> DEFINE a == Head(toLlc[l]).a
           types == {"UPGRADE_REP", "UPGRADE_DATA_REP"}
           n == "MODIFIED"
           skip == {}
           snooped == SnoopChecked(Awaited(l, a), l, a, skip, n)
           upgraded == SetState(snooped, l, a, n)
           sent == Check(Awaited(l, a), Head(toLlc[l]).t = "UPGRADE_DATA_REP",
                         "now_INV_and_no_data_in_the_shmem_msg")
           lost == Check(sent, FALSE, "out_buf_passed_in_but_never_written_to")
           wrong == Check(Awaited(l, a), FALSE, "upgrade_of_a_line_not_SHARED_UPGRADING")
<1>1. TypeOK
  BY DEF CoherentInv
<1>2. /\ Received(l, types) /\ UNCHANGED <<threads, dir>>
      /\ Commit(CASE llc[l][a].st = "SHARED_UPGRADING" -> upgraded
                  [] llc[l][a].st = "INVALID" -> lost
                  [] OTHER -> wrong, l, None)
  BY DEF ReceiveUpgradeRep, CommitQuiet, NowServing, SetState
<1>3. a = Head(toLlc[l]).a
  OBVIOUS
<1> HIDE DEF a
<1>4. /\ Takes(l, "UPGRADE_REP", a) /\ waiters[l][a] # <<>>
      /\ llc[l][a].st = "SHARED_UPGRADING"
  BY <1>3, UpgradeTaken
<1>5. a \in Addrs
  BY <1>4 DEF Takes
<1>7. Awaited(l, a) = Now
  BY <1>4 DEF Awaited, Check
<1>8. Commit(upgraded, l, None)
  <2> HIDE DEF upgraded, lost, wrong
  <2> QED
    BY <1>2, <1>4
<1>9. IsCaches(Now) /\ Now.llc = llc
  BY <1>1, NowIsCaches
<1> DEFINE s == SnoopChecked(Now, l, a, skip, n)
<1>10. snooped = s
  BY <1>7
<1>11. n \in {"INVALID", "SHARED", "MODIFIED"} /\ n \in States
  BY DEF States
<1>12. n = "MODIFIED"
  OBVIOUS
<1> HIDE DEF n, skip
<1>13. Carries(Now, s, l) /\ Alike(Now, s)
  BY <1>5, <1>9, <1>11, SnoopCheckedCarries, SnoopedAlike
<1> HIDE DEF s
<1>14. /\ IsCaches(s) /\ s.llc[l][a].st = "SHARED_UPGRADING"
       /\ s.llc[l][a].st \in Writable
  BY <1>4, <1>5, <1>9, <1>13 DEF Alike, Writable
<1>15. Carries(s, SetState(s, l, a, n), l)
  BY <1>5, <1>11, <1>14, SetStateCarries
<1>16. Carries(Now, upgraded, l)
  BY <1>10, <1>13, <1>15, CarriesTwice
<1>17. \A k \in Llcs : Fresh(toLlc'[k], Granting)
  <2> HIDE DEF types
  <2> QED
    BY <1>1, <1>2, FreshReceived
<1> HIDE DEF upgraded
<1> QED
  BY <1>1, <1>2, <1>8, <1>16, <1>17, DataCarried

(* A snoop finds the data below the first-level caches afterwards.         *)
LEMMA SnoopedClean ==
  ASSUME NEW s, IsCaches(s), Sound(s), NEW l \in Llcs, NEW a \in Addrs,
         NEW n \in {"INVALID", "SHARED"}, s.llc[l][a].st # "INVALID",
         NEW t, t = SnoopChecked(s, l, a, {}, n)
  PROVE  Carries(s, t, l) /\ Alike(s, t) /\ t.llc[l][a].new = TRUE
<1> DEFINE skip == {}
           r == Snoop(s, l, a, skip, n)
           ok == WritebackAllowed(s, l, a, skip)
<1>1. skip = {} /\ t = SnoopChecked(s, l, a, skip, n)
  OBVIOUS
<1>2. t = Check(r, ok, "Got_writeback_for_non_MODIFIED_line")
  BY DEF SnoopChecked
<1> HIDE DEF skip, ok
<1>3. Carries(s, t, l) /\ Alike(s, t)
  BY <1>1, SnoopCheckedCarries, SnoopedAlike
<1>4. /\ IsCaches(r)
      /\ \A c \in L1s, b \in Addrs :
           r.l1[c][b].st = IF c \in L1sOf(l) \ skip /\ b = a
                              /\ s.l1[c][b].st # "INVALID"
                           THEN n ELSE s.l1[c][b].st
  BY SnoopKeeps
<1> HIDE DEF r
<1>5. t.l1 = r.l1
  BY <1>2, <1>4, CheckAlike
<1>6. \A c \in L1sOf(l) : t.l1[c][a].st # "MODIFIED"
  BY <1>1, <1>4, <1>5 DEF L1sOf
<1>7. Sound(t) /\ IsCaches(t) /\ t.llc[l][a].st # "INVALID"
  BY <1>3 DEF Carries, Alike
<1> QED
  BY <1>3, <1>6, <1>7, SnoopedBelow

LEMMA ReceiveInvReqData ==
  ASSUME CoherentInv, DirectoryInv, DataInv, NEW l \in Llcs, ReceiveInvReq(l)
  PROVE  DataInv'
<1> DEFINE a == Head(toLlc[l]).a
           t == Head(toLlc[l]).t
           types == {"INV_REQ"}
           n == "INVALID"
           ok == llc[l][a].st # "MODIFIED"
           s == SnoopChecked(Now, l, a, {}, n)
           snooped == Check(s, ok, "MODIFIED_data_is_about_to_get_lost")
           g == "INV_REP"
           f == FALSE
           answer == Send(Put(snooped, l, a, Invalid), g, a, f)
<1>1. TypeOK
  BY DEF CoherentInv
<1>2. /\ Received(l, types) /\ types = {"INV_REQ"}
      /\ Commit(IF llc[l][a].st = "INVALID" THEN Now ELSE answer, l, None)
      /\ UNCHANGED <<threads, dir>>
  BY DEF ReceiveInvReq, CommitQuiet, Put
<1>3. a = Head(toLlc[l]).a /\ t = Head(toLlc[l]).t /\ n \in {"INVALID", "SHARED"}
  OBVIOUS
<1> HIDE DEF types, t, a
<1>4. t \in types /\ Takes(l, t, a)
  BY <1>1, <1>2, <1>3, ReceivedKinds
<1>5. Takes(l, "INV_REQ", a) /\ a \in Addrs
  BY <1>2, <1>4 DEF Takes
<1>6. \A k \in Llcs : Fresh(toLlc'[k], Granting)
  BY <1>1, <1>2, FreshReceived
<1>7. IsCaches(Now) /\ Now.llc = llc /\ Sound(Now)
  BY <1>1, NowIsCaches DEF DataInv
<1>8. CASE llc[l][a].st = "INVALID"
  <2>1. Commit(Now, l, None)
    BY <1>2, <1>8
  <2>2. Carries(Now, Now, l)
    BY <1>7 DEF Carries, NoneAppears
  <2> QED
    BY <1>1, <1>2, <1>6, <2>1, <2>2, DataCarried
<1>9. CASE llc[l][a].st # "INVALID"
  <2>1. Commit(answer, l, None)
    BY <1>2, <1>9
  <2>2. llc[l][a].st # "MODIFIED"
    BY <1>1, <1>5, <1>9, InvFindsClean
  <2>3. snooped = s
    BY <2>2 DEF Check
  <2>4. s = SnoopChecked(Now, l, a, {}, n) /\ Now.llc[l][a].st # "INVALID"
    BY <1>7, <1>9
  <2> HIDE DEF n, s
  <2>5. Carries(Now, s, l) /\ Alike(Now, s)
    BY <1>3, <1>5, <1>7, <2>4, SnoopedClean
  <2>6. IsCaches(s) /\ s.llc[l][a].st # "MODIFIED"
    BY <1>5, <1>7, <2>2, <2>5 DEF Alike
  <2>7. g \in GivingUp /\ f \in BOOLEAN /\ g # "FLUSH_REP"
    BY DEF GivingUp
  <2> HIDE DEF g, f
  <2>8. Carries(s, Send(Put(s, l, a, Invalid), g, a, f), l)
    BY <1>5, <2>6, <2>7, GivenUpCarries
  <2>9. Carries(Now, answer, l)
    BY <2>3, <2>5, <2>8, CarriesTwice
  <2> HIDE DEF answer
  <2> QED
    BY <1>1, <1>2, <1>6, <2>1, <2>9, DataCarried
<1> QED
  BY <1>8, <1>9

LEMMA ReceiveFlushReqData ==
  ASSUME CoherentInv, DataInv, NEW l \in Llcs, ReceiveFlushReq(l)
  PROVE  DataInv'
<1> DEFINE a == Head(toLlc[l]).a
           types == {"FLUSH_REQ"}
           n == "INVALID"
           s == SnoopChecked(Now, l, a, {}, n)
           new == s.llc[l][a].new
           g == "FLUSH_REP"
           answer == Send(Put(s, l, a, Invalid), g, a, new)
<1>1. TypeOK
  BY DEF CoherentInv
<1>2. /\ Received(l, types)
      /\ Commit(IF llc[l][a].st = "INVALID" THEN Now ELSE answer, l, None)
      /\ UNCHANGED <<threads, dir>>
  BY DEF ReceiveFlushReq, CommitQuiet, Put
<1>3. a = Head(toLlc[l]).a /\ n \in {"INVALID", "SHARED"}
  OBVIOUS
<1> HIDE DEF types, a
<1>5. a \in Addrs
  BY <1>1, <1>2, <1>3, ReceivedTyped
<1>6. \A k \in Llcs : Fresh(toLlc'[k], Granting)
  BY <1>1, <1>2, FreshReceived
<1>7. IsCaches(Now) /\ Now.llc = llc /\ Sound(Now)
  BY <1>1, NowIsCaches DEF DataInv
<1>8. CASE llc[l][a].st = "INVALID"
  <2>1. Commit(Now, l, None)
    BY <1>2, <1>8
  <2>2. Carries(Now, Now, l)
    BY <1>7 DEF Carries, NoneAppears
  <2> QED
    BY <1>1, <1>2, <1>6, <2>1, <2>2, DataCarried
<1>9. CASE llc[l][a].st # "INVALID"
  <2>1. Commit(answer, l, None)
    BY <1>2, <1>9
  <2>4. s = SnoopChecked(Now, l, a, {}, n) /\ Now.llc[l][a].st # "INVALID"
    BY <1>7, <1>9
  <2> HIDE DEF n, s
  <2>5. Carries(Now, s, l) /\ s.llc[l][a].new = TRUE
    BY <1>3, <1>5, <1>7, <2>4, SnoopedClean
  <2>6. IsCaches(s) /\ new \in BOOLEAN /\ new = TRUE
    BY <2>5 DEF Carries
  <2>7. g \in GivingUp /\ g = "FLUSH_REP"
    BY DEF GivingUp
  <2> HIDE DEF g, new
  <2>8. Carries(s, Send(Put(s, l, a, Invalid), g, a, new), l)
    BY <1>5, <2>6, <2>7, GivenUpCarries
  <2>9. Carries(Now, answer, l)
    BY <2>5, <2>8, CarriesTwice
  <2> HIDE DEF answer
  <2> QED
    BY <1>1, <1>2, <1>6, <2>1, <2>9, DataCarried
<1> QED
  BY <1>8, <1>9

(* A written-back line keeps a copy, modified no more.                     *)
LEMMA WrittenBackCarries ==
  ASSUME NEW s, IsCaches(s), NEW l \in Llcs, NEW a \in Addrs, s.llc[l][a].st # "INVALID",
         NEW state \in States \ {"INVALID"}, state \notin Writable,
         NEW new \in BOOLEAN, new = TRUE
  PROVE  Carries(s, Send(SetState(s, l, a, state), "WB_REP", a, new), l)
<1> DEFINE r == SetState(s, l, a, state)
           type == "WB_REP"
           t == Send(r, type, a, new)
<1>1. /\ IsCaches(r) /\ r.l1 = s.l1 /\ r.sent = s.sent
      /\ \A k \in Llcs, b \in Addrs :
           r.llc[k][b].st = IF k = l /\ b = a THEN state ELSE s.llc[k][b].st
  BY SetStateKeeps
<1>2. \A k \in Llcs, b \in Addrs : r.llc[k][b].new = s.llc[k][b].new
  <2>1. s.llc \in [Llcs -> [Addrs -> [st : States, new : BOOLEAN]]]
    BY DEF IsCaches, Copy
  <2>2. r.llc = [s.llc EXCEPT ![l][a].st = state]
    BY DEF SetState, IsCaches
  <2> HIDE DEF r
  <2> QED
    BY <2>1, <2>2
<1> HIDE DEF r
<1>3. Sound(s) => Sound(r)
  BY <1>1, <1>2 DEF Sound, Within, DirtyAbove
<1>4. type \in Requests \cup Answers /\ type \in Writebacks /\ type = "WB_REP"
  BY DEF Answers, Writebacks
<1> HIDE DEF type
<1>5. Carries(r, t, l) /\ SentBack(t.sent, a)
  BY <1>1, <1>4, SendCarries
<1> HIDE DEF t
<1>6. NoneAppears(s, t)
  BY <1>1, <1>5 DEF Carries, NoneAppears
<1>7. ASSUME NEW k \in Llcs, NEW b \in Addrs, Holding(s, l, k, b) PROVE Holding(t, l, k, b)
  <2>1. CASE k = l /\ b = a
    BY <1>5, <2>1 DEF Holding
  <2>2. CASE ~(k = l /\ b = a)
    <3>1. Holding(r, l, k, b)
      BY <1>1, <1>7, <2>2 DEF Holding
    <3> QED
      BY <1>5, <3>1 DEF Carries
  <2> QED
    BY <2>1, <2>2
<1> QED
  BY <1>3, <1>4, <1>5, <1>6, <1>7 DEF Carries, t, r

(* A cache that is upgrading is never asked to write back: its answer      *)
(* would have no data.                                                     *)
LEMMA WbFindsData ==
  ASSUME TypeOK, DirectoryInv, NEW l \in Llcs, NEW a, Takes(l, "WB_REQ", a),
         llc[l][a].st # "INVALID"
  PROVE  llc[l][a].st # "SHARED_UPGRADING"
<1> DEFINE v == View(l, a)
<1>1. /\ Line(v, l, a) /\ IsView(v) /\ v.down = Kinds(toLlc[l]) /\ v.st = llc[l][a].st
  BY ViewTyped, Fields DEF DirectoryInv, Takes
<1> HIDE DEF v
<1>2. /\ v.down # <<>> /\ Is(Head(v.down), SnoopRequests, a) /\ Head(v.down)[1] = "WB_REQ"
      /\ Is(Head(v.down), {"WB_REQ"}, a)
  BY <1>1 DEF Is, Takes, SnoopRequests
<1>3. v.owner = l /\ ~Has(v.down, Replies, a)
  BY <1>1, <1>2, LineSnooped
<1>4. LiveOf(v.down, v.st, SnoopRequests, a)
  <2>1. v.down \in Seq(DownKinds)
    BY <1>1 DEF IsView
  <2>2. SnoopLeft(v.down, Head(v.down), Tail(v.down), a, v.st, v.st)
    BY <1>1, <1>2, <2>1, KindsApart, SnoopLeaving
  <2> QED
    BY <1>1, <1>2, <2>2 DEF SnoopLeft, SnoopRequests
<1>5. ~Has(v.up, {"WB_REP"}, a) /\ ~Has(v.up, GivingUp, a)
  BY <1>1, <1>4 DEF Line, WroteBack, Custody
<1>6. ~Has(v.up, Answers, a)
  BY <1>5 DEF Has, Is, Answers, GivingUp
<1>7. ~Has(v.down, Owning, a)
  BY <1>3, HasReply DEF Has, Is, Replies
<1> QED
  BY <1>1, <1>3, <1>6, <1>7 DEF Line, Entitled

LEMMA ReceiveWbReqData ==
  ASSUME CoherentInv, DirectoryInv, DataInv, NEW l \in Llcs, ReceiveWbReq(l)
  PROVE  DataInv'
<1> DEFINE a == Head(toLlc[l]).a
           t == Head(toLlc[l]).t
           types == {"WB_REQ"}
           n == "SHARED"
           old == llc[l][a].st
           s == SnoopChecked(Now, l, a, {}, n)
           new == s.llc[l][a].new
           blind == Send(Now, "WB_REP", a, FALSE)
           answer == Send(SetState(s, l, a, n), "WB_REP", a, new)
<1>1. TypeOK
  BY DEF CoherentInv
<1>2. /\ Received(l, types) /\ types = {"WB_REQ"}
      /\ Commit(CASE old = "INVALID" -> Now
                  [] old = "SHARED_UPGRADING" -> blind
                  [] OTHER -> answer, l, None)
      /\ UNCHANGED <<threads, dir>>
  BY DEF ReceiveWbReq, CommitQuiet, SetState
<1>3. a = Head(toLlc[l]).a /\ t = Head(toLlc[l]).t /\ n \in {"INVALID", "SHARED"}
      /\ n \in States \ {"INVALID"} /\ n \notin Writable
  BY DEF States, Writable
<1> HIDE DEF types, t, a
<1>4. t \in types /\ Takes(l, t, a)
  BY <1>1, <1>2, <1>3, ReceivedKinds
<1>5. Takes(l, "WB_REQ", a) /\ a \in Addrs
  BY <1>2, <1>4 DEF Takes
<1>6. \A k \in Llcs : Fresh(toLlc'[k], Granting)
  BY <1>1, <1>2, FreshReceived
<1>7. IsCaches(Now) /\ Now.llc = llc /\ Sound(Now)
  BY <1>1, NowIsCaches DEF DataInv
<1>8. CASE llc[l][a].st = "INVALID"
  <2>1. Commit(Now, l, None)
    BY <1>2, <1>8
  <2>2. Carries(Now, Now, l)
    BY <1>7 DEF Carries, NoneAppears
  <2> QED
    BY <1>1, <1>2, <1>6, <2>1, <2>2, DataCarried
<1>9. CASE llc[l][a].st # "INVALID"
  <2>1. llc[l][a].st # "SHARED_UPGRADING"
    BY <1>1, <1>5, <1>9, WbFindsData
  <2>2. Commit(answer, l, None)
    <3> HIDE DEF answer, blind
    <3> QED
      BY <1>2, <1>9, <2>1
  <2>3. s = SnoopChecked(Now, l, a, {}, n) /\ Now.llc[l][a].st # "INVALID"
    BY <1>7, <1>9
  <2> HIDE DEF n, s
  <2>4. Carries(Now, s, l) /\ Alike(Now, s) /\ s.llc[l][a].new = TRUE
    BY <1>3, <1>5, <1>7, <2>3, SnoopedClean
  <2>5. IsCaches(s) /\ s.llc[l][a].st # "INVALID" /\ new \in BOOLEAN /\ new = TRUE
    BY <1>5, <2>3, <2>4 DEF Alike
  <2> HIDE DEF new
  <2>6. Carries(s, answer, l)
    BY <1>3, <1>5, <2>5, WrittenBackCarries
  <2>7. Carries(Now, answer, l)
    BY <2>4, <2>6, CarriesTwice
  <2> HIDE DEF answer
  <2> QED
    BY <1>1, <1>2, <1>6, <2>2, <2>7, DataCarried
<1> QED
  BY <1>8, <1>9

-----------------------------------------------------------------------------
(* The directory's memory.                                                 *)
LEMMA SentBackTail ==
  ASSUME NEW S, NEW q \in Seq(S), q # <<>>, NEW b, SentBack(q, b),
         ~(Head(q).t \in Writebacks /\ Head(q).a = b)
  PROVE  SentBack(Tail(q), b)
<1>1. PICK i \in DOMAIN q : q[i].t \in Writebacks /\ q[i].a = b
  BY DEF SentBack
<1>2. /\ Tail(q) \in Seq(S) /\ Len(Tail(q)) = Len(q) - 1 /\ Len(q) \in Nat \ {0}
      /\ \A j \in 1 .. Len(Tail(q)) : Tail(q)[j] = q[j + 1]
      /\ Head(q) = q[1] /\ DOMAIN q = 1 .. Len(q)
  OBVIOUS
<1>3. i # 1
  BY <1>1, <1>2
<1>4. i - 1 \in DOMAIN Tail(q) /\ Tail(q)[i - 1] = q[i]
  BY <1>1, <1>2, <1>3
<1> QED
  BY <1>1, <1>4 DEF SentBack

(* A cache that gives a line up without data has none of it left to give.  *)
LEMMA CleanGivenUp ==
  ASSUME TypeOK, DirectoryInv, NEW l \in Llcs, NEW a, TakesUp(l, "INV_REP", a)
  PROVE  ~Holds(l, a)
<1> DEFINE v == View(l, a)
<1>1. /\ a \in Addrs /\ Line(v, l, a) /\ IsView(v) /\ v.up = Kinds(toDir[l])
      /\ v.st = llc[l][a].st
  BY ViewTyped, Fields DEF DirectoryInv, TakesUp
<1> HIDE DEF v
<1>2. /\ v.up \in Seq(UpKinds) /\ v.up # <<>> /\ Head(v.up) = <<"INV_REP", a>>
  BY <1>1 DEF IsView, TakesUp
<1>3. 1 \in DOMAIN v.up /\ v.up[1] = <<"INV_REP", a>> /\ DOMAIN v.up = 1 .. Len(v.up)
  BY <1>2
<1>4. Is(v.up[1], GivingUp, a)
  BY <1>3 DEF Is, GivingUp
<1>5. v.st = "INVALID"
  BY <1>1, <1>3, <1>4 DEF Line, Custody, Has
<1>6. ASSUME NEW i \in DOMAIN v.up, Is(v.up[i], Writebacks, a) PROVE FALSE
  <2>1. CASE Is(v.up[i], GivingUp, a)
    <3>1. i = 1
      BY <1>1, <1>3, <1>4, <1>6, <2>1 DEF Line, Custody, Once
    <3> QED
      BY <1>3, <1>6, <3>1 DEF Is, Writebacks
  <2>2. CASE Is(v.up[i], {"WB_REP"}, a)
    <3>1. i < 1
      BY <1>1, <1>3, <1>4, <1>6, <2>2 DEF Line, WroteBack, Ahead
    <3> QED
      BY <1>3, <1>6, <3>1
  <2> QED
    BY <1>6, <2>1, <2>2 DEF Is, Writebacks, GivingUp
<1>7. ~SentBack(toDir[l], a)
  BY <1>1, <1>6 DEF SentBack, Kinds, Is
<1> QED
  BY <1>1, <1>5, <1>7 DEF Holds

LEMMA DirReceiveData ==
  ASSUME CoherentInv, DirectoryInv, DataInv, NEW l \in Llcs, DirReceive(l)
  PROVE  DataInv'
<1> DEFINE a == Head(toDir[l]).a
           t == Head(toDir[l]).t
           new == Head(toDir[l]).new
<1>1. /\ TypeOK /\ a = Head(toDir[l]).a /\ t = Head(toDir[l]).t /\ new = Head(toDir[l]).new
      /\ UNCHANGED <<caches, threads, toLlc, failed>>
      /\ toDir[l] # <<>> /\ toDir' = [toDir EXCEPT ![l] = Tail(@)]
      /\ memory' = IF t \in Writebacks THEN [memory EXCEPT ![a] = new] ELSE memory
  BY DEF CoherentInv, DirReceive, Writebacks
<1> HIDE DEF a, t, new
<1>2. TakesUp(l, t, a) /\ a \in Addrs /\ t \in Requests \cup Answers
  BY <1>1, DirectoryTakes DEF TakesUp
<1>3. Notes(l, t, a)
  BY <1>1, <1>2, DirectoryNotes
<1>4. toDir[l] \in Seq(ToDirectory) /\ memory \in [Addrs -> BOOLEAN]
      /\ \A k \in Llcs : toDir'[k] = IF k = l THEN Tail(toDir[l]) ELSE toDir[k]
  BY <1>1 DEF TypeOK
<1>5. /\ Fresh(Tail(toDir[l]), Writebacks)
      /\ t \in Writebacks => new = TRUE
  <2>1. Fresh(toDir[l], Writebacks)
    BY DEF DataInv, FreshNet
  <2> QED
    BY <1>1, <1>4, <2>1, FreshTail
<1>6. FreshNet'
  BY <1>1, <1>4, <1>5 DEF DataInv, FreshNet
<1>7. Sound(Now)' /\ WaitsEmpty'
  BY <1>1, SoundNext DEF DataInv, WaitsEmpty, caches, threads, Now
<1>8. ASSUME NEW k \in Llcs, NEW b \in Addrs, Holds(k, b),
             ~(k = l /\ b = a /\ t \in Writebacks)
      PROVE  Holds(k, b)'
  <2>1. CASE llc[k][b].st = "MODIFIED"
    BY <1>1, <2>1 DEF Holds, caches
  <2>2. CASE SentBack(toDir[k], b)
    <3>1. CASE k # l
      BY <1>4, <2>2, <3>1 DEF Holds
    <3>2. CASE k = l
      <4>1. SentBack(toDir[l], b) /\ ~(Head(toDir[l]).t \in Writebacks /\ Head(toDir[l]).a = b)
        BY <1>1, <1>8, <2>2, <3>2
      <4>2. SentBack(Tail(toDir[l]), b)
        BY <1>1, <1>4, <4>1, SentBackTail
      <4> QED
        BY <1>4, <3>2, <4>2 DEF Holds
    <3> QED
      BY <3>1, <3>2
  <2> QED
    BY <1>8, <2>1, <2>2 DEF Holds
<1>9. ASSUME NEW b \in Addrs
      PROVE  /\ dir'[b].owner = None => memory'[b] = TRUE
             /\ \A k \in Llcs : dir'[b].owner = k => memory'[b] = TRUE \/ Holds(k, b)'
  <2>1. CASE b = a /\ t \in Writebacks
    BY <1>1, <1>2, <1>4, <1>5, <2>1
  <2>2. CASE ~(b = a /\ t \in Writebacks)
    <3>1. memory'[b] = memory[b]
      BY <1>1, <1>2, <1>4, <2>2
    <3>2. CASE dir'[b].owner = dir[b].owner
      BY <1>8, <2>2, <3>1, <3>2 DEF DataInv, Stored
    <3>3. CASE dir'[b].owner # dir[b].owner
      <4>1. b = a /\ t = "INV_REP" /\ dir[a].owner = l /\ dir'[a].owner = None
        BY <1>2, <1>3, <2>2, <3>3 DEF Notes, GivingUp, Writebacks
      <4>2. ~Holds(l, a)
        BY <1>1, <1>2, <4>1, CleanGivenUp
      <4>3. memory[a] = TRUE
        BY <1>2, <4>1, <4>2 DEF DataInv, Stored
      <4> QED
        BY <3>1, <4>1, <4>3, CoherentAssumption
    <3> QED
      BY <3>2, <3>3
  <2> QED
    BY <2>1, <2>2
<1>10. Stored'
  BY <1>9 DEF Stored
<1> QED
  BY <1>6, <1>7, <1>10 DEF DataInv

LEMMA FreshArrived ==
  ASSUME NEW S, NEW q \in Seq(S), NEW m \in S, NEW T, Fresh(q, T), m.t \in T => m.new = TRUE
  PROVE  Fresh(Append(q, m), T)
<1> DEFINE r == Append(q, m)
<1>1. /\ DOMAIN r = 1 .. Len(q) + 1 /\ r[Len(q) + 1] = m
      /\ \A i \in 1 .. Len(q) : i \in DOMAIN q /\ r[i] = q[i]
      /\ Len(q) \in Nat
  OBVIOUS
<1> HIDE DEF r
<1>2. \A i \in DOMAIN r : (i \in DOMAIN q /\ r[i] = q[i]) \/ r[i] = m
  BY <1>1
<1> QED
  BY <1>2 DEF Fresh, r

LEMMA DirSnoopData ==
  ASSUME CoherentInv, DataInv, NEW a \in Addrs, DirSnoop(a)
  PROVE  DataInv'
<1>1. /\ TypeOK /\ UNCHANGED <<l1, llc, threads, toDir, memory>>
  BY DEF CoherentInv, DirSnoop, caches
<1>2. ASSUME NEW b \in Addrs PROVE dir'[b].owner = dir[b].owner
  <2>1. /\ dir' = [dir EXCEPT ![a].asked = TRUE]
        /\ \E x, y, z, u : dir[a] = [sharers |-> x, owner |-> y, queue |-> z, asked |-> u]
    BY <1>1 DEF DirSnoop, TypeOK
  <2> QED
    BY <1>1, <2>1 DEF TypeOK
<1>3. ASSUME NEW l \in Llcs PROVE Fresh(toLlc'[l], Granting)
  <2> DEFINE t == IF Head(dir[a].queue)[1] = "SH_REQ" THEN "WB_REQ"
                  ELSE IF dir[a].owner = l THEN "FLUSH_REQ" ELSE "INV_REQ"
             m == Msg(t, a, FALSE)
  <2>1. toLlc'[l] = IF l \in Blockers(a) THEN Append(toLlc[l], m) ELSE toLlc[l]
    BY DEF DirSnoop
  <2>2. t \in SnoopRequests /\ t \notin Granting
    BY DEF SnoopRequests, Granting
  <2> HIDE DEF t
  <2>3. m \in FromDirectory /\ m.t = t
    BY <2>2 DEF Msg, FromDirectory, Message
  <2> HIDE DEF m
  <2>4. toLlc[l] \in Seq(FromDirectory) /\ Fresh(toLlc[l], Granting)
    BY <1>1 DEF TypeOK, DataInv, FreshNet
  <2>5. Fresh(Append(toLlc[l], m), Granting)
    BY <2>2, <2>3, <2>4, FreshArrived
  <2> QED
    BY <2>1, <2>4, <2>5
<1>4. FreshNet'
  BY <1>1, <1>3 DEF DataInv, FreshNet
<1>5. Sound(Now)' /\ WaitsEmpty'
  BY <1>1, SoundNext DEF DataInv, WaitsEmpty, threads, Now
<1>6. Stored'
  BY <1>1, <1>2 DEF DataInv, Stored, Holds
<1> QED
  BY <1>4, <1>5, <1>6 DEF DataInv

(* The directory answers with the data only when memory has it; an upgrade *)
(* keeps the data where it is.                                             *)
LEMMA DirAnswerData ==
  ASSUME CoherentInv, DirectoryInv, DataInv,
         NEW a \in Addrs, NEW lost \in LostUpgradeReplies, DirAnswer(a, lost)
  PROVE  DataInv'
<1> DEFINE r == Head(dir[a].queue)
           l == r[2]
           held == l \in dir[a].sharers
           t == CASE r[1] = "SH_REQ" -> IF Mesi /\ dir[a].sharers = {} THEN "EX_REP"
                                                                      ELSE "SH_REP"
                  [] r[1] = "EX_REQ" -> "EX_REP"
                  [] r[1] = "UPGRADE_REQ" -> IF held THEN "UPGRADE_REP"
                                                     ELSE lost
           new == memory[a] /\ ~(held /\ t = "UPGRADE_REP")
           m == Msg(t, a, new)
           v == View(l, a)
<1>1. /\ dir[a].queue # <<>> /\ Blockers(a) = {}
      /\ toLlc' = [toLlc EXCEPT ![l] = Append(@, m)]
      /\ dir' = [dir EXCEPT ![a] =
           [sharers |-> @.sharers \cup {l}, owner |-> IF t = "SH_REP" THEN None ELSE l,
            queue |-> Tail(@.queue), asked |-> FALSE]]
      /\ TypeOK /\ UNCHANGED <<l1, llc, threads, toDir, memory>>
  BY DEF DirAnswer, CoherentInv, caches
<1>2. r = Head(dir[a].queue) /\ l = r[2] /\ v = View(l, a) /\ (held <=> l \in dir[a].sharers)
      /\ new = (memory[a] /\ ~(held /\ t = "UPGRADE_REP"))
  OBVIOUS
<1>3. r[1] \in Requests /\ l \in Llcs /\ (r[1] \in Fetching => Has(dir[a].queue, Fetching, l))
  <2> DEFINE q == dir[a].queue
  <2>1. q \in Seq(QueueKinds) /\ q # <<>>
    BY <1>1 DEF TypeOK, QueueKinds
  <2> HIDE DEF q
  <2>2. /\ Head(q)[1] \in Requests /\ Head(q)[2] \in Llcs
        /\ Head(q)[1] \in Fetching => Has(q, Fetching, Head(q)[2])
    BY <2>1, HeadHas
  <2> QED
    BY <2>2 DEF q
<1>4. /\ r[1] = "UPGRADE_REQ" =>
           IF held THEN t = "UPGRADE_REP" ELSE t \in {"EX_REP", "UPGRADE_DATA_REP"}
      /\ r[1] # "UPGRADE_REQ" => t \in {"EX_REP", "SH_REP"}
      /\ t \in Replies
  <2>1. lost \in {"EX_REP", "UPGRADE_DATA_REP"}
    BY CoherentAssumption
  <2> QED
    BY <1>3, <2>1 DEF Requests, Replies
<1>5. new \in BOOLEAN
  BY <1>1 DEF TypeOK
<1> HIDE DEF r, t, new, v, l, held
<1>6. Line(v, l, a) /\ v.queue = dir[a].queue /\ v.sharers = dir[a].sharers
      /\ v.owner = dir[a].owner /\ IsView(v)
  <2>1. v = View(l, a) /\ TypeOK /\ l \in Llcs
    BY <1>1, <1>2, <1>3
  <2>2. Line(View(l, a), l, a)
    BY <2>1 DEF DirectoryInv
  <2>3. IsView(View(l, a))
    BY <2>1, ViewTyped
  <2>4. /\ View(l, a).queue = dir[a].queue /\ View(l, a).sharers = dir[a].sharers
        /\ View(l, a).owner = dir[a].owner
    BY Fields
  <2> QED
    BY <2>1, <2>2, <2>3, <2>4
<1>7. dir[a].owner = None \/ (dir[a].owner = l /\ held /\ r[1] = "UPGRADE_REQ")
  <2>1. CASE r[1] = "SH_REQ"
    BY <1>1, <1>2, <2>1 DEF Blockers
  <2>2. CASE r[1] # "SH_REQ" /\ dir[a].owner # None
    <3>1. dir[a].sharers = {dir[a].owner}
      BY <1>6, <2>2 DEF Line, Sharing
    <3>2. dir[a].sharers \subseteq {l}
      BY <1>1, <1>2, <2>2 DEF Blockers
    <3>3. dir[a].owner = l /\ held
      BY <1>2, <3>1, <3>2
    <3>4. r[1] \notin Fetching
      BY <1>2, <1>3, <1>6, <3>3 DEF Line, Fetched
    <3> QED
      BY <1>3, <3>3, <3>4 DEF Requests, Fetching
  <2> QED
    BY <2>1, <2>2
<1>8. /\ t \in Granting => memory[a] = TRUE
      /\ memory[a] = TRUE \/ (dir[a].owner = l /\ Holds(l, a))
  <2>1. dir[a].owner = None => memory[a] = TRUE
    BY DEF DataInv, Stored
  <2>2. dir[a].owner = l => memory[a] = TRUE \/ Holds(l, a)
    BY <1>3 DEF DataInv, Stored
  <2>3. t \in Granting => dir[a].owner = None
    BY <1>4, <1>7 DEF Granting
  <2> QED
    BY <1>7, <2>1, <2>2, <2>3
<1>9. t \in Granting => new = TRUE
  <2>1. t \in Granting => t # "UPGRADE_REP"
    BY DEF Granting
  <2>2. ASSUME t \in Granting PROVE new
    BY <1>2, <1>8, <2>1, <2>2
  <2> QED
    BY <1>5, <2>2
<1>10. m \in FromDirectory /\ m.t = t /\ m.new = new
  BY <1>4, <1>5 DEF Msg, FromDirectory, Message
<1> HIDE DEF m
<1>11. FreshNet'
  <2>1. toLlc[l] \in Seq(FromDirectory) /\ Fresh(toLlc[l], Granting)
    BY <1>1, <1>3 DEF TypeOK, DataInv, FreshNet
  <2>2. Fresh(Append(toLlc[l], m), Granting)
    BY <1>9, <1>10, <2>1, FreshArrived
  <2>3. \A k \in Llcs : toLlc'[k] = IF k = l THEN Append(toLlc[l], m) ELSE toLlc[k]
    BY <1>1, <1>3 DEF TypeOK
  <2> QED
    BY <1>1, <2>2, <2>3 DEF DataInv, FreshNet
<1>12. Sound(Now)' /\ WaitsEmpty'
  BY <1>1, SoundNext DEF DataInv, WaitsEmpty, threads, Now
<1>13. /\ dir'[a].owner = IF t = "SH_REP" THEN None ELSE l
       /\ \A b \in Addrs : b # a => dir'[b] = dir[b]
  BY <1>1 DEF TypeOK
<1>14. \A k \in Llcs, b \in Addrs : Holds(k, b)' <=> Holds(k, b)
  BY <1>1 DEF Holds
<1>15. Stored'
  <2> SUFFICES ASSUME NEW b \in Addrs
               PROVE  /\ dir'[b].owner = None => memory'[b] = TRUE
                      /\ \A k \in Llcs : dir'[b].owner = k => memory'[b] = TRUE \/ Holds(k, b)'
    BY DEF Stored
  <2>1. CASE b # a
    BY <1>1, <1>13, <1>14, <2>1 DEF DataInv, Stored
  <2>2. CASE b = a /\ t = "SH_REP"
    BY <1>1, <1>8, <2>2 DEF Granting
  <2>3. CASE b = a /\ t # "SH_REP"
    <3>1. dir'[b].owner = l /\ l # None
      BY <1>3, <1>13, <2>3, CoherentAssumption
    <3> QED
      BY <1>1, <1>3, <1>8, <1>14, <2>3, <3>1
  <2> QED
    BY <2>1, <2>2, <2>3
<1> QED
  BY <1>11, <1>12, <1>15 DEF DataInv

-----------------------------------------------------------------------------
(* The accesses.                                                           *)
LEMMA AccessKept ==
  ASSUME Programmed, UNCHANGED threads
  PROVE  Programmed'
BY DEF Programmed, threads

LEMMA AccessEnds ==
  ASSUME TypeOK, Programmed, NEW c \in L1s, pc[c] \in {"upgrading", "waiting"},
         NEW s, Complete(s, c, at[c], op[c])
  PROVE  Programmed'
<1> DEFINE locks == op[c] = "ATOMIC"
<1>1. locks => at[c] \in Written[c]
  BY DEF Programmed, Reads
<1>2. /\ pc' = [pc EXCEPT ![c] = IF locks THEN "locked" ELSE "idle"]
      /\ op' = [op EXCEPT ![c] = None]
      /\ at' = [at EXCEPT ![c] = IF locks THEN at[c] ELSE None]
  BY DEF Complete, Prefetched, FillAndAccess
<1>3. \A d \in L1s : d # c => pc'[d] = pc[d] /\ op'[d] = op[d] /\ at'[d] = at[d]
  BY <1>2 DEF TypeOK
<1>4. /\ pc'[c] = "locked" => at'[c] \in Written[c]
      /\ pc'[c] \notin {"upgrading", "waiting"}
  BY <1>1, <1>2 DEF TypeOK
<1> QED
  BY <1>3, <1>4 DEF Programmed

LEMMA UserAccess ==
  ASSUME TypeOK, Programmed, NEW c \in L1s, UserStep(c)
  PROVE  Programmed'
<1>1. ASSUME NEW a \in Addrs,
             WriteHit(c, a) \/ AtomicHit(c, a) \/ \E o \in Ops : Miss(c, o, a)
      PROVE  Programmed'
  <2>1. CASE WriteHit(c, a)
    BY <2>1, AccessKept DEF WriteHit
  <2>2. CASE AtomicHit(c, a)
    BY <2>2 DEF AtomicHit, Programmed, TypeOK
  <2>3. CASE \E o \in Ops : Miss(c, o, a)
    BY <2>3 DEF Miss, Programmed, TypeOK
  <2> QED
    BY <1>1, <2>1, <2>2, <2>3
<1>2. ASSUME NEW a \in Addrs, DoPrefetch(c, a) PROVE Programmed'
  BY <1>2 DEF DoPrefetch, Programmed, TypeOK
<1>3. CASE AtomicUnlock(c)
  BY <1>3 DEF AtomicUnlock, Programmed, TypeOK
<1>4. CASE MissHitsLlc(c)
  <2>1. /\ pc[c] \in {"upgrading", "waiting"}
        /\ \E s : Complete(s, c, at[c], op[c])
    BY <1>4 DEF MissHitsLlc
  <2> QED
    BY <2>1, AccessEnds
<1>5. CASE MissGoesToDirectory(c)
  <2>1. /\ pc[c] = "upgrading" /\ pc' = [pc EXCEPT ![c] = "waiting"]
        /\ UNCHANGED <<op, at>>
    BY <1>5 DEF MissGoesToDirectory
  <2> QED
    BY <2>1 DEF Programmed, TypeOK
<1> QED
  BY <1>1, <1>2, <1>3, <1>4, <1>5 DEF UserStep

LEMMA AccessStep ==
  ASSUME CoherentInv, ControllerInv, Programmed, [Next]_vars
  PROVE  Programmed'
<1>1. TypeOK /\ WaitersListed /\ ServesSomebody
  BY DEF CoherentInv, ControllerInv
<1>2. CASE UNCHANGED vars
  BY <1>2, AccessKept DEF vars
<1>3. ASSUME NEW l \in Llcs, NetworkStep(l) PROVE Programmed'
  <2>1. CASE ServeWaiter(l)
    <3> DEFINE c == FrontWaiter(l)
    <3>1. /\ net[l] = "serving"
          /\ \E s : Complete(s, c, at[c], op[c])
      BY <2>1 DEF ServeWaiter
    <3>2. c \in L1s /\ pc[c] = "waiting"
      BY <1>1, <3>1, FrontWaits
    <3> HIDE DEF c
    <3> QED
      BY <1>1, <3>1, <3>2, AccessEnds
  <2>2. CASE ~ServeWaiter(l)
    <3>1. UNCHANGED threads
      <4>1. CASE ReceiveExRep(l) \/ ReceiveShRep(l) \/ ReceiveUpgradeRep(l)
        BY <4>1 DEF ReceiveExRep, ReceiveShRep, ReceiveUpgradeRep, ReceiveData, NowServing
      <4>2. CASE ServeUpgrade(l) \/ ResumeServing(l)
        BY <4>2 DEF ServeUpgrade, ResumeServing
      <4>3. CASE ReceiveInvReq(l) \/ ReceiveFlushReq(l) \/ ReceiveWbReq(l)
        BY <4>3 DEF ReceiveInvReq, ReceiveFlushReq, ReceiveWbReq
      <4> QED
        BY <1>3, <2>2, <4>1, <4>2, <4>3 DEF NetworkStep
    <3> QED
      BY <3>1, AccessKept
  <2> QED
    BY <2>1, <2>2
<1>4. ASSUME NEW l \in Llcs, DirReceive(l) PROVE Programmed'
  BY <1>4, AccessKept DEF DirReceive
<1>5. ASSUME NEW a \in Addrs, DirSnoop(a) \/ DirReply(a) PROVE Programmed'
  BY <1>5, AccessKept DEF DirSnoop, DirReply, DirAnswer
<1> QED
  BY <1>1, <1>2, <1>3, <1>4, <1>5, UserAccess DEF Next

-----------------------------------------------------------------------------
LEMMA DataInit ==
  ASSUME Init
  PROVE  DataInv
<1>1. Sound(Now)
  BY DEF Init, Sound, Within, Writable, Now, Invalid, Fresh
<1>2. FreshNet
  BY DEF Init, FreshNet, Fresh
<1>3. WaitsEmpty
  BY DEF Init, WaitsEmpty
<1>4. Stored
  BY CoherentAssumption DEF Init, Stored
<1> QED
  BY <1>1, <1>2, <1>3, <1>4 DEF DataInv

LEMMA DataStep ==
  ASSUME Apart, CoherentInv, DirectoryInv, ControllerInv, DataInv, Programmed, [Next]_vars
  PROVE  DataInv' \/ Fails
<1>1. CASE UNCHANGED vars
  <2>1. UNCHANGED <<l1, llc, threads, toDir, toLlc, dir, memory>>
    BY <1>1 DEF vars, caches
  <2> QED
    BY <2>1, DataQuiet DEF threads
<1>2. ASSUME NEW c \in L1s, UserStep(c) PROVE DataInv'
  <2>1. CASE \E a \in Addrs : WriteHit(c, a) \/ AtomicHit(c, a) \/ \E o \in Ops : Miss(c, o, a)
    BY <2>1, UserOutsideData
  <2>2. CASE \E a \in Addrs : DoPrefetch(c, a)
    BY <2>2, UserOutsideData
  <2>3. CASE AtomicUnlock(c)
    <3>1. at[c] \in Addrs
      BY <2>3 DEF CoherentInv, TypeOK, AtomicUnlock
    <3> QED
      BY <2>3, <3>1, UserOutsideData
  <2>4. CASE MissHitsLlc(c)
    BY <2>4, MissHitsLlcData
  <2>5. CASE MissGoesToDirectory(c)
    BY <2>5, MissGoesToDirectoryData
  <2> QED
    BY <1>2, <2>1, <2>2, <2>3, <2>4, <2>5 DEF UserStep
<1>3. ASSUME NEW l \in Llcs, NetworkStep(l) PROVE DataInv' \/ Fails
  <2>1. CASE ReceiveExRep(l)
    <3> DEFINE type == "EX_REP"
               state == "EXCLUSIVE"
    <3>1. type \in Granting /\ state \in {"EXCLUSIVE", "SHARED"} /\ ReceiveData(l, type, state)
      BY <2>1 DEF ReceiveExRep, Granting
    <3> HIDE DEF type, state
    <3> QED
      BY <3>1, ReceiveDataData
  <2>2. CASE ReceiveShRep(l)
    <3> DEFINE type == "SH_REP"
               state == "SHARED"
    <3>1. type \in Granting /\ state \in {"EXCLUSIVE", "SHARED"} /\ ReceiveData(l, type, state)
      BY <2>2 DEF ReceiveShRep, Granting
    <3> HIDE DEF type, state
    <3> QED
      BY <3>1, ReceiveDataData
  <2>3. CASE ReceiveUpgradeRep(l)
    <3>1. failed = {}
      BY DEF ControllerInv
    <3> QED
      BY <2>3, <3>1, ReceiveUpgradeRepData, LostUpgradeStops
  <2>4. CASE ServeUpgrade(l)
    BY <2>4, ServeUpgradeData
  <2>5. CASE ServeWaiter(l)
    BY <2>5, ServeWaiterData
  <2>6. CASE ResumeServing(l)
    <3>1. UNCHANGED <<l1, llc, threads, toDir, toLlc, dir, memory>>
      BY <2>6 DEF ResumeServing, caches
    <3> QED
      BY <3>1, DataQuiet DEF threads
  <2>7. CASE ReceiveInvReq(l)
    BY <2>7, ReceiveInvReqData
  <2>8. CASE ReceiveFlushReq(l)
    BY <2>8, ReceiveFlushReqData
  <2>9. CASE ReceiveWbReq(l)
    BY <2>9, ReceiveWbReqData
  <2> QED
    BY <1>3, <2>1, <2>2, <2>3, <2>4, <2>5, <2>6, <2>7, <2>8, <2>9 DEF NetworkStep
<1>4. ASSUME NEW l \in Llcs, DirReceive(l) PROVE DataInv'
  BY <1>4, DirReceiveData
<1>5. ASSUME NEW a \in Addrs, DirSnoop(a) \/ DirReply(a) PROVE DataInv'
  BY <1>5, DirSnoopData, DirAnswerData DEF DirReply
<1> QED
  BY <1>1, <1>2, <1>3, <1>4, <1>5 DEF Next

-----------------------------------------------------------------------------
LEMMA DataSurvives ==
  ASSUME TypeOK, DataInv
  PROVE  LastWriteSurvives
<1>1. SUFFICES ASSUME NEW a \in Addrs, memory[a] # TRUE
               PROVE  \/ \E c \in L1s : l1[c][a].new
                      \/ \E l \in Llcs :
                           \/ llc[l][a].new
                           \/ \E i \in DOMAIN toDir[l] : toDir[l][i].a = a /\ toDir[l][i].new
  <2>1. ASSUME NEW a \in Addrs, memory[a] = TRUE PROVE memory[a]
    BY <2>1, Zenon
  <2> QED
    BY <2>1, Zenon DEF LastWriteSurvives
<1>2. PICK l \in Llcs : Holds(l, a)
  <2>1. dir[a].owner # None /\ dir[a].owner \in Llcs \cup {None}
    BY <1>1 DEF DataInv, Stored, TypeOK
  <2> QED
    BY <1>1, <2>1 DEF DataInv, Stored
<1>3. CASE SentBack(toDir[l], a)
  <2>1. PICK i \in DOMAIN toDir[l] : toDir[l][i].t \in Writebacks /\ toDir[l][i].a = a
    BY <1>3 DEF SentBack
  <2>2. toDir[l][i].new = TRUE
    BY <2>1 DEF DataInv, FreshNet, Fresh
  <2> QED
    BY <2>1, <2>2, Zenon
<1>4. CASE llc[l][a].st = "MODIFIED"
  <2>1. llc[l][a].new = TRUE \/ DirtyAbove(Now, l, a)
    BY <1>4 DEF DataInv, Sound, Now
  <2>2. CASE llc[l][a].new = TRUE
    BY <2>2, Zenon
  <2>3. CASE DirtyAbove(Now, l, a)
    <3>1. PICK c \in L1s : l1[c][a].st = "MODIFIED"
      BY <2>3 DEF DirtyAbove, Now, L1sOf
    <3>2. l1[c][a].new = TRUE
      BY <3>1 DEF DataInv, Sound, Now
    <3> QED
      BY <3>2, Zenon
  <2> QED
    BY <2>1, <2>2, <2>3
<1> QED
  BY <1>2, <1>3, <1>4 DEF Holds

(* A modified copy above a last-level cache that is modified, of a line one*)
(* of those above writes: itself, so no other has it.                      *)
LEMMA WriterSingle ==
  ASSUME Apart, Inclusive, LlcExclusive, DataInv
  PROVE  SingleWriter
<1>1. SUFFICES ASSUME NEW c \in L1s, NEW d \in L1s, NEW a \in Addrs, c # d,
                      l1[c][a].st = "MODIFIED"
               PROVE  l1[d][a].st = "INVALID"
  BY DEF SingleWriter
<1>2. LlcOf[c] \in Llcs /\ LlcOf[d] \in Llcs
  BY CoherentAssumption
<1>3. llc[LlcOf[c]][a].st = "MODIFIED"
  BY <1>1 DEF Inclusive
<1>4. CASE LlcOf[d] # LlcOf[c]
  BY <1>2, <1>3, <1>4 DEF LlcExclusive, Inclusive
<1>5. CASE LlcOf[d] = LlcOf[c]
  <2>1. Within(Now)
    BY DEF DataInv, Sound
  <2>2. PICK e \in L1s : LlcOf[e] = LlcOf[c] /\ a \in Written[e]
    BY <1>2, <1>3, <2>1 DEF Within, Now, Writable, WrittenAbove, L1sOf
  <2>3. a \in Accessed[c]
    BY <1>1, <2>1 DEF Within, Now
  <2>4. e = c
    BY <2>2, <2>3 DEF Apart
  <2>5. a \notin Accessed[d]
    BY <1>1, <1>5, <2>2, <2>4 DEF Apart
  <2> QED
    BY <2>1, <2>5 DEF Within, Now
<1> QED
  BY <1>4, <1>5

(* The data, until a lost upgrade stops everything.                        *)
DataSafe == SingleWriter /\ ReadsSeeLastWrite /\ LastWriteSurvives
DataCoherent ==
  /\ CoherentInv
  /\ \/ DirectoryInv /\ ControllerInv /\ DataInv /\ Programmed
     \/ failed = {Lost} /\ DataSafe

LEMMA DataReads ==
  ASSUME DataInv
  PROVE  ReadsSeeLastWrite
<1>1. SUFFICES ASSUME NEW c \in L1s, NEW a \in Addrs, l1[c][a].st # "INVALID"
               PROVE  l1[c][a].new
  BY DEF ReadsSeeLastWrite
<1>2. l1[c][a].new = TRUE
  BY <1>1 DEF DataInv, Sound, Now
<1> QED
  BY <1>2, Zenon

LEMMA DataSays ==
  ASSUME Apart, DataCoherent
  PROVE  DataSafe
<1>1. CASE DirectoryInv /\ ControllerInv /\ DataInv
  <2>1. TypeOK /\ Inclusive /\ LlcExclusive
    BY <1>1, OnlyCopy DEF DataCoherent, CoherentInv, ControllerInv
  <2> QED
    BY <1>1, <2>1, WriterSingle, DataReads, DataSurvives DEF DataSafe
<1> QED
  BY <1>1 DEF DataCoherent

LEMMA DataKept ==
  ASSUME Apart, DataCoherent, [Next]_vars
  PROVE  DataCoherent'
<1>1. CoherentInv'
  BY CoherentStep DEF DataCoherent
<1>2. DataSafe
  BY DataSays
<1>3. ASSUME UNCHANGED <<caches, toDir, memory>> PROVE DataSafe'
  BY <1>2, <1>3 DEF DataSafe, SingleWriter, ReadsSeeLastWrite, LastWriteSurvives, caches
<1>4. CASE DirectoryInv /\ ControllerInv /\ DataInv /\ Programmed
  <2>1. /\ (DirectoryInv' /\ ControllerInv') \/ Fails
        /\ DataInv' \/ Fails
        /\ Programmed'
    BY <1>4, DirectoryStep, DataStep, AccessStep DEF DataCoherent
  <2>2. Fails => failed' = {Lost} /\ DataSafe'
    BY <1>3 DEF Fails
  <2> QED
    BY <1>1, <2>1, <2>2 DEF DataCoherent
<1>5. CASE failed = {Lost}
  <2>1. UNCHANGED vars
    BY <1>5, FailedStops
  <2>2. UNCHANGED <<caches, toDir, memory>> /\ failed' = failed
    BY <2>1 DEF vars
  <2> QED
    BY <1>1, <1>3, <1>5, <2>2 DEF DataCoherent
<1> QED
  BY <1>4, <1>5 DEF DataCoherent

LEMMA DataAlways ==
  ASSUME Apart
  PROVE  Spec => []DataSafe
<1>1. Init => DataCoherent
  <2>1. Init => Programmed
    BY DEF Init, Programmed
  <2> QED
    BY <2>1, CoherentInit, DirectoryInit, DataInit DEF DataCoherent
<1>2. DataCoherent /\ [Next]_vars => DataCoherent'
  BY DataKept
<1>3. DataCoherent => DataSafe
  BY DataSays
<1> QED
  BY <1>1, <1>2, <1>3, PTL DEF Spec

-----------------------------------------------------------------------------
(* As long as no line is written through one first-level cache and accessed*)
(* through another one above the same last-level cache, a first-level cache*)
(* that may write without asking has the only first-level copy.  So it is  *)
(* with a last-level cache for each core whose program is not written to   *)
(* (an instruction and a data cache lie above it), and with a shared one   *)
(* when the threads above it share only what none of them writes.          *)
THEOREM UnsharedWritesHaveSingleWriter ==
  ASSUME \A c, d \in L1s :
           c # d /\ LlcOf[c] = LlcOf[d] => Written[c] \cap Accessed[d] = {}
  PROVE  Spec => []SingleWriter
<1>1. Apart
  BY DEF Apart
<1>2. DataSafe => SingleWriter
  BY DEF DataSafe
<1> QED
  BY <1>1, <1>2, DataAlways, PTL

(* Under the same condition a read that hits in a first-level cache returns*)
(* the value written last, by whatever core: the write that replaced it    *)
(* found no other copy (processMemOpFromCore and the caches'               *)
(* writeCacheBlock, retrieveCacheBlock), and every fill brought that value *)
(* from the cache below, which had it from memory or from a flush          *)
(* (copyDataFromNextLevel, processFlushReqFromDramDirectory).              *)
THEOREM ReadsAlwaysSeeLastWrite ==
  ASSUME \A c, d \in L1s :
           c # d /\ LlcOf[c] = LlcOf[d] => Written[c] \cap Accessed[d] = {}
  PROVE  Spec => []ReadsSeeLastWrite
<1>1. Apart
  BY DEF Apart
<1>2. DataSafe => ReadsSeeLastWrite
  BY DEF DataSafe
<1> QED
  BY <1>1, <1>2, DataAlways, PTL

(* And however evictions, flushes, writebacks and upgrades of a line cross,*)
(* the value written last is in memory, in a cache, or in a message on its *)
(* way to the directory: no controller drops the only copy of it (insert-  *)
(* CacheBlock's eviction, updateCacheBlock, processFlushReqFrom-           *)
(* DramDirectory, processWbReqFromDramDirectory).                          *)
THEOREM LastWriteAlwaysSurvives ==
  ASSUME \A c, d \in L1s :
           c # d /\ LlcOf[c] = LlcOf[d] => Written[c] \cap Accessed[d] = {}
  PROVE  Spec => []LastWriteSurvives
<1>1. Apart
  BY DEF Apart
<1>2. DataSafe => LastWriteSurvives
  BY DEF DataSafe
<1> QED
  BY <1>1, <1>2, DataAlways, PTL
=============================================================================
