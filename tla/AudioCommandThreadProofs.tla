---------------------- MODULE AudioCommandThreadProofs ----------------------
(***************************************************************************)
(* For all commands, delays and sizes of the queues: what was sent last is *)
(* applied last, and no thread oversleeps or lets the device sleep.        *)
(***************************************************************************)
EXTENDS AudioCommandThread, SequenceTheorems, WellFoundedInduction, TLAPS

(* What is pending for thread t.                                           *)
Fits(t, q) ==
  \A i \in 1 .. Len(q) :
    ThreadFor(q[i].kind) = t /\ q[i].sets # {} /\ q[i].stale \subseteq q[i].sets

Ordered(q) == \A i, j \in 1 .. Len(q) : i < j => q[i].time <= q[j].time

(* Every outdated key of a command is set by one behind it.                *)
Supersedes(q, i, k) ==
  \E j \in i + 1 .. Len(q) : q[j].on = q[i].on /\ k \in q[j].sets

Superseded(q) ==
  \A i \in 1 .. Len(q) : \A k \in q[i].stale : Supersedes(q, i, k)

AllDue(q) == \A i \in 1 .. Len(q) : q[i].time = 0

(* A queue as it ought to be.                                              *)
Good(t, q) ==
  q \in Seq(Pending) /\ Fits(t, q) /\ Ordered(q) /\ Superseded(q)

(* A thread at pc that sleeps, or not, over its queue.                     *)
Woken(q, pc, sleep, lock) ==
  /\ q # <<>> /\ pc # "gone" => lock
  /\ pc = "asleep" => IF q = <<>> THEN ~lock /\ sleep = Forever
                                  ELSE sleep <= q[1].time

(* Only ApmAudio has anything delayed.                                     *)
AtOnce == AllDue(queue["ApmOutput"])

(* Whoever destroys the service is the only one to refer to it; a thread   *)
(* that does is at nothing else.                                           *)
Ending ==
  /\ exiting = 0 <=> destroying = Nobody
  /\ destroying # Nobody =>
       ~referenced /\ \A t \in Thread : ~RefersToService(t)
  /\ destroying \in Thread /\ exiting \in {1, 2} => tpc[destroying] = "destroy"

(* The inductive invariant: TypeOK (Threads, Service and the rest of it in *)
(* Queues), LastSentWins and WokenInTime (Queues, Awoken), and the above.  *)
Threads ==
  /\ tpc \in [Thread -> {"run", "asleep", "serve", "locked", "clear",
                         "destroy", "gone"}]
  /\ sleepFor \in [Thread -> 0 .. Forever]
  /\ exitPending \in [Thread -> BOOLEAN] /\ wakeLock \in [Thread -> BOOLEAN]

Service ==
  /\ svcLock \in Thread \cup {Client, Nobody}
  /\ waiting \in BOOLEAN /\ referenced \in BOOLEAN
  /\ destroying \in Thread \cup {Client, Nobody} /\ exiting \in 0 .. 3

Queues ==
  /\ queue \in [Thread -> Seq(Pending)]
  /\ \A t \in Thread : Good(t, queue[t])

Awoken == \A t \in Thread : Woken(queue[t], tpc[t], sleepFor[t], wakeLock[t])

IInv == Threads /\ Service /\ Queues /\ Awoken /\ AtOnce /\ Ending
-----------------------------------------------------------------------------
(* A set of positions has a last one.                                      *)
LEMMA LastExists ==
  ASSUME NEW n \in Nat, NEW P \in SUBSET (1 .. n)
  PROVE  /\ LastOf(P) \in P \cup {0}
         /\ \A p \in P : p <= LastOf(P)
<1> DEFINE D == {n - p : p \in P \cup {0}}
<1>1. D \subseteq Nat /\ D # {}
  OBVIOUS
<1>2. PICK d \in D : \A e \in D : ~(<<e, d>> \in OpToRel(<, Nat))
  BY <1>1, NatLessThanWellFounded, WFMin
<1>3. PICK x \in P \cup {0} : d = n - x
  BY <1>2
<1>4. ASSUME NEW y \in P \cup {0} PROVE x >= y
  <2>1. n - y \in D /\ n - y \in Nat /\ d \in Nat
    BY <1>1, <1>2
  <2>2. ~(n - y < d)
    BY <1>2, <2>1 DEF OpToRel
  <2>3. QED
    BY <1>3, <2>1, <2>2
<1>5. LastOf(P) \in P \cup {0} /\ \A y \in P \cup {0} : LastOf(P) >= y
  BY <1>4 DEF LastOf, Max
<1>6. QED
  BY <1>5
-----------------------------------------------------------------------------
(* What InsertAt returns.                                                  *)
IsInserted(s, k, e, r) ==
  /\ r \in Seq(Pending)
  /\ Len(r) = Len(s) + 1
  /\ \A i \in 1 .. k : r[i] = s[i]
  /\ r[k + 1] = e
  /\ \A i \in k + 2 .. Len(s) + 1 : r[i] = s[i - 1]

LEMMA Insert ==
  ASSUME NEW s \in Seq(Pending), NEW k \in 0 .. Len(s), NEW e \in Pending
  PROVE  IsInserted(s, k, e, InsertAt(s, k + 1, e))
<1> DEFINE a == SubSeq(s, 1, k)
           b == SubSeq(s, k + 1, Len(s))
<1>1. /\ Len(s) \in Nat /\ k \in Nat
      /\ \A i \in 1 .. Len(s) : s[i] \in Pending
  BY ElementOfSeq
<1>2. /\ a \in Seq(Pending) /\ Len(a) = k /\ \A i \in 1 .. k : a[i] = s[i]
  <2>1. \A i \in 1 .. k : s[i] \in Pending
    BY <1>1
  <2>2. /\ a \in Seq(Pending) /\ Len(a) = IF 1 <= k THEN k - 1 + 1 ELSE 0
        /\ \A i \in 1 .. k - 1 + 1 : a[i] = s[1 + i - 1]
    BY <1>1, <2>1, SubSeqProperties
  <2>3. QED
    BY <1>1, <2>2
<1>3. /\ b \in Seq(Pending) /\ Len(b) = Len(s) - k
      /\ \A i \in 1 .. Len(s) - k : b[i] = s[k + i]
  <2>1. \A i \in k + 1 .. Len(s) : s[i] \in Pending
    BY <1>1
  <2>2. /\ b \in Seq(Pending)
        /\ Len(b) = IF k + 1 <= Len(s) THEN Len(s) - (k + 1) + 1 ELSE 0
        /\ \A i \in 1 .. Len(s) - (k + 1) + 1 : b[i] = s[(k + 1) + i - 1]
    BY <1>1, <2>1, SubSeqProperties
  <2>3. QED
    BY <1>1, <2>2
<1>4. InsertAt(s, k + 1, e) = a \o <<e>> \o b
  <2>1. (k + 1) - 1 = k
    BY <1>1
  <2>2. QED
    BY <2>1, Zenon DEF InsertAt
<1> HIDE DEF a, b
<1>5. /\ a \o <<e>> \in Seq(Pending) /\ Len(a \o <<e>>) = k + 1
      /\ \A i \in 1 .. k + 1 : (a \o <<e>>)[i] = IF i <= k THEN s[i] ELSE e
  <2>1. <<e>> \in Seq(Pending) /\ Len(<<e>>) = 1 /\ <<e>>[1] = e
    OBVIOUS
  <2>2. /\ a \o <<e>> \in Seq(Pending) /\ Len(a \o <<e>>) = Len(a) + Len(<<e>>)
        /\ \A i \in 1 .. Len(a) + Len(<<e>>) :
             (a \o <<e>>)[i] = IF i <= Len(a) THEN a[i] ELSE <<e>>[i - Len(a)]
    BY <1>2, <2>1, ConcatProperties
  <2>3. QED
    BY <1>1, <1>2, <2>1, <2>2
<1> DEFINE c == a \o <<e>>
<1> HIDE DEF c
<1>6. /\ c \o b \in Seq(Pending) /\ Len(c \o b) = Len(s) + 1
      /\ \A i \in 1 .. Len(s) + 1 :
           (c \o b)[i] = IF i <= k + 1 THEN c[i] ELSE b[i - (k + 1)]
  <2>1. c \in Seq(Pending) /\ Len(c) = k + 1
    BY <1>5 DEF c
  <2>2. /\ c \o b \in Seq(Pending) /\ Len(c \o b) = Len(c) + Len(b)
        /\ \A i \in 1 .. Len(c) + Len(b) :
             (c \o b)[i] = IF i <= Len(c) THEN c[i] ELSE b[i - Len(c)]
    BY <1>3, <2>1, ConcatProperties
  <2>3. Len(b) = Len(s) - k /\ (k + 1) + (Len(s) - k) = Len(s) + 1
    BY <1>1, <1>3
  <2>4. QED
    BY <2>1, <2>2, <2>3, ZenonT(60)
<1>7. ASSUME NEW i \in 1 .. Len(s) + 1
      PROVE  (c \o b)[i] = IF i <= k THEN s[i] ELSE IF i = k + 1 THEN e
                                               ELSE s[i - 1]
  <2>1. CASE i <= k + 1
    BY <1>1, <1>5, <1>6, <2>1 DEF c
  <2>2. CASE ~(i <= k + 1)
    <3>1. /\ i - (k + 1) \in 1 .. Len(s) - k /\ k + (i - (k + 1)) = i - 1
          /\ ~(i <= k) /\ i # k + 1
      BY <1>1, <2>2
    <3>2. b[i - (k + 1)] = s[i - 1]
      BY <1>3, <3>1, Zenon
    <3>3. QED
      BY <1>6, <2>2, <3>1, <3>2, Zenon
  <2>3. QED
    BY <2>1, <2>2
<1>8. QED
  <2>1. InsertAt(s, k + 1, e) = c \o b
    BY <1>4, Zenon DEF c
  <2>2. /\ \A i \in 1 .. k : (c \o b)[i] = s[i]
        /\ (c \o b)[k + 1] = e
        /\ \A i \in k + 2 .. Len(s) + 1 : (c \o b)[i] = s[i - 1]
    <3>1. ASSUME NEW i \in 1 .. k PROVE (c \o b)[i] = s[i]
      <4>1. i \in 1 .. Len(s) + 1 /\ i <= k
        BY <1>1
      <4>2. QED
        BY <1>7, <4>1, Zenon
    <3>2. (c \o b)[k + 1] = e
      <4>1. k + 1 \in 1 .. Len(s) + 1 /\ ~(k + 1 <= k)
        BY <1>1
      <4>2. QED
        BY <1>7, <4>1, Zenon
    <3>3. ASSUME NEW i \in k + 2 .. Len(s) + 1 PROVE (c \o b)[i] = s[i - 1]
      <4>1. i \in 1 .. Len(s) + 1 /\ ~(i <= k) /\ i # k + 1
        BY <1>1
      <4>2. QED
        BY <1>7, <4>1, Zenon
    <3>4. QED
      BY <3>1, <3>2, <3>3, Zenon
  <2>3. QED
    BY <1>6, <2>1, <2>2, Zenon DEF IsInserted
-----------------------------------------------------------------------------
(* What a new command says of a pending one.                               *)
Hits(c, d) == Same(c, d) \/ (c.kind \in Output /\ d.on = c.on)

LEMMA PendingFields ==
  ASSUME NEW d \in Pending
  PROVE  /\ d.kind \in Kind /\ d.on \in {c.on : c \in Commands}
         /\ d.sets \in SUBSET Keys /\ d.sources \in Seq(Int)
         /\ d.stale \in SUBSET Keys /\ d.time \in Delay /\ d.waits \in BOOLEAN
         /\ d.time \in Nat
BY BoundAssumption DEF Pending, Delay

(* A command as it is when it was just sent.                               *)
IsNew(e, c, time) ==
  e.kind = c.kind /\ e.on = c.on /\ e.sets = c.sets /\ e.stale = {} /\ e.time = time

LEMMA NewEntry ==
  ASSUME NEW c \in Commands, NEW time \in Delay, NEW w \in BOOLEAN
  PROVE  \E e \in Pending : e = Entry(c, time, w) /\ IsNew(e, c, time)
<1>1. /\ c.kind \in Kind /\ c.sources \in Seq(Int) /\ c.sets \subseteq Keys
      /\ c.on \in {d.on : d \in Commands}
  BY CommandAssumption DEF Keys
<1>2. Entry(c, time, w) \in Pending /\ IsNew(Entry(c, time, w), c, time)
  BY <1>1 DEF Entry, Pending, IsNew
<1>3. QED
  BY <1>2, Zenon

(* Outdated() only adds keys that are sent anew.                           *)
Outdates(c, q, o) ==
  /\ o \in Seq(Pending) /\ Len(o) = Len(q)
  /\ \A i \in 1 .. Len(q) :
       /\ o[i].kind = q[i].kind /\ o[i].on = q[i].on
       /\ o[i].sets = q[i].sets /\ o[i].sources = q[i].sources
       /\ o[i].time = q[i].time
       /\ Hits(c, q[i]) => o[i].stale = q[i].stale \cup (c.sets \cap q[i].sets)
       /\ ~Hits(c, q[i]) => o[i].stale = q[i].stale

LEMMA OutdatedKeeps ==
  ASSUME NEW c \in Commands, NEW q \in Seq(Pending),
         NEW o, o = Outdated(q, c)
  PROVE  Outdates(c, q, o)
<1>1. /\ DOMAIN q = 1 .. Len(q) /\ Len(q) \in Nat
      /\ \A i \in 1 .. Len(q) : q[i] \in Pending
  BY LenProperties, ElementOfSeq
<1>2. \A i \in 1 .. Len(q) :
        o[i] =
          IF Hits(c, q[i])
          THEN [q[i] EXCEPT !.stale = @ \cup (c.sets \cap q[i].sets)] ELSE q[i]
  BY <1>1, Zenon DEF Outdated, Hits
<1>3. ASSUME NEW i \in 1 .. Len(q)
      PROVE  /\ o[i] \in Pending
             /\ o[i].kind = q[i].kind
             /\ o[i].on = q[i].on
             /\ o[i].sets = q[i].sets
             /\ o[i].sources = q[i].sources
             /\ o[i].time = q[i].time
             /\ Hits(c, q[i]) =>
                  o[i].stale = q[i].stale \cup (c.sets \cap q[i].sets)
             /\ ~Hits(c, q[i]) => o[i].stale = q[i].stale
  <2>1. q[i] \in Pending
    BY <1>1
  <2>2. PICK d \in Pending : d = q[i]
    BY <2>1
  <2>3. CASE Hits(c, d)
    <3>1. o[i] = [d EXCEPT !.stale = @ \cup (c.sets \cap d.sets)]
      BY <1>2, <2>2, <2>3, Zenon
    <3>2. [d EXCEPT !.stale = @ \cup (c.sets \cap d.sets)] \in Pending
      BY DEF Pending
    <3>3. QED
      BY <2>2, <2>3, <3>1, <3>2 DEF Pending
  <2>4. CASE ~Hits(c, d)
    <3>1. o[i] = d
      BY <1>2, <2>2, <2>4, Zenon
    <3>2. QED
      BY <2>2, <2>4, <3>1
  <2>5. QED
    BY <2>3, <2>4
<1>4. o \in [1 .. Len(q) -> Pending]
  <2>1. \A i \in 1 .. Len(q) :
          (IF Hits(c, q[i])
           THEN [q[i] EXCEPT !.stale = @ \cup (c.sets \cap q[i].sets)]
           ELSE q[i]) \in Pending
    BY <1>2, <1>3, Zenon
  <2>2. o =
          [i \in 1 .. Len(q) |->
             IF Hits(c, q[i])
             THEN [q[i] EXCEPT !.stale = @ \cup (c.sets \cap q[i].sets)]
             ELSE q[i]]
    BY <1>1, Zenon DEF Outdated, Hits
  <2>3. QED
    BY <2>1, <2>2, Zenon
<1>5. o \in Seq(Pending) /\ Len(o) = Len(q)
  BY <1>1, <1>4
<1>6. QED
  BY <1>3, <1>5, Zenon DEF Outdates
-----------------------------------------------------------------------------
(* Every outdated key of a command is set by one behind it, or by e.       *)
Owes(q, i, e) ==
  \A k \in q[i].stale : Supersedes(q, i, k) \/ (q[i].on = e.on /\ k \in e.sets)

(* A command put between those due earlier and those due later makes good  *)
(* what the former owe it.                                                 *)
LEMMA InsertKeepsGood ==
  ASSUME NEW t \in Thread, NEW s \in Seq(Pending), Fits(t, s), Ordered(s),
         NEW p \in 0 .. Len(s), NEW e \in Pending,
         ThreadFor(e.kind) = t, e.sets # {}, e.stale = {},
         \A i \in 1 .. p : s[i].time <= e.time /\ Owes(s, i, e),
         \A i \in p + 1 .. Len(s) :
           e.time <= s[i].time /\ \A k \in s[i].stale : Supersedes(s, i, k)
  PROVE  /\ Good(t, InsertAt(s, p + 1, e)) /\ InsertAt(s, p + 1, e) # <<>>
         /\ AllDue(s) /\ e.time = 0 => AllDue(InsertAt(s, p + 1, e))
<1> DEFINE r == InsertAt(s, p + 1, e)
<1>1. /\ r \in Seq(Pending) /\ Len(r) = Len(s) + 1
      /\ \A i \in 1 .. p : r[i] = s[i]
      /\ r[p + 1] = e
      /\ \A i \in p + 2 .. Len(s) + 1 : r[i] = s[i - 1]
  <2>1. IsInserted(s, p, e, r)
    BY Insert, Zenon
  <2> QED BY <2>1, Zenon DEF IsInserted
<1>2. Len(s) \in Nat /\ p \in Nat
  OBVIOUS
<1> HIDE DEF r
<1> DEFINE Old(i) == IF i <= p THEN i ELSE i - 1
<1>3. ASSUME NEW i \in 1 .. Len(r), i # p + 1
      PROVE  /\ Old(i) \in 1 .. Len(s) /\ r[i] = s[Old(i)]
             /\ i <= p => Old(i) = i
             /\ ~(i <= p) => Old(i) \in p + 1 .. Len(s) /\ Old(i) = i - 1
  <2>1. CASE i <= p
    <3>1. i \in 1 .. p /\ i \in 1 .. Len(s)
      BY <1>1, <1>2, <2>1
    <3>2. QED
      BY <1>1, <2>1, <3>1, Zenon
  <2>2. CASE ~(i <= p)
    <3>1. i \in p + 2 .. Len(s) + 1 /\ i - 1 \in p + 1 .. Len(s)
          /\ i - 1 \in 1 .. Len(s)
      BY <1>1, <1>2, <1>3, <2>2
    <3>2. QED
      BY <1>1, <2>2, <3>1, Zenon
  <2>3. QED
    BY <2>1, <2>2
<1> HIDE DEF Old
<1>4. \A i \in 1 .. Len(s) : s[i].time \in Nat
  BY PendingFields, ElementOfSeq
<1>5. Fits(t, r)
  BY <1>1, <1>3 DEF Fits
<1>6. ASSUME NEW i \in 1 .. Len(r), NEW j \in 1 .. Len(r), i < j
      PROVE  r[i].time <= r[j].time
  <2>1. CASE i = p + 1
    <3>1. j # p + 1 /\ ~(j <= p)
      BY <1>1, <1>2, <1>6, <2>1
    <3>2. Old(j) \in p + 1 .. Len(s) /\ r[j] = s[Old(j)]
      BY <1>3, <3>1, Zenon
    <3>3. QED
      BY <1>1, <2>1, <3>2, Zenon
  <2>2. CASE j = p + 1
    <3>1. i # p + 1 /\ i <= p /\ i \in 1 .. p
      BY <1>1, <1>2, <1>6, <2>2
    <3>2. QED
      BY <1>1, <2>2, <3>1, Zenon
  <2>3. CASE i # p + 1 /\ j # p + 1
    <3>1. /\ Old(i) \in 1 .. Len(s) /\ r[i] = s[Old(i)]
          /\ Old(j) \in 1 .. Len(s) /\ r[j] = s[Old(j)]
      BY <1>3, <2>3, Zenon
    <3>2. Old(i) < Old(j)
      BY <1>1, <1>2, <1>6, <2>3 DEF Old
    <3>3. QED
      BY <3>1, <3>2, Zenon DEF Ordered
  <2>4. QED
    BY <2>1, <2>2, <2>3
<1>7. ASSUME NEW i \in 1 .. Len(r), i # p + 1, NEW k, Supersedes(s, Old(i), k)
      PROVE  Supersedes(r, i, k)
  <2>1. PICK j \in Old(i) + 1 .. Len(s) : s[j].on = s[Old(i)].on /\ k \in s[j].sets
    BY <1>7 DEF Supersedes
  <2>2. /\ Old(i) \in 1 .. Len(s) /\ r[i] = s[Old(i)]
        /\ Old(i) = IF i <= p THEN i ELSE i - 1
    BY <1>3, <1>7 DEF Old
  <2>3. \E h \in i + 1 .. Len(r) : r[h] = s[j]
    <3>1. CASE j <= p
      <4>1. j \in 1 .. p /\ j \in i + 1 .. Len(r)
        BY <1>1, <1>2, <2>1, <2>2, <3>1
      <4>2. QED
        BY <1>1, <4>1, Zenon
    <3>2. CASE ~(j <= p)
      <4>1. /\ j + 1 \in p + 2 .. Len(s) + 1 /\ j + 1 \in i + 1 .. Len(r)
            /\ (j + 1) - 1 = j
        BY <1>1, <1>2, <2>1, <2>2, <3>2
      <4>2. QED
        BY <1>1, <4>1, Zenon
    <3>3. QED
      BY <3>1, <3>2
  <2>4. QED
    BY <2>1, <2>2, <2>3, Zenon DEF Supersedes
<1>8. ASSUME NEW i \in 1 .. Len(r), NEW k \in r[i].stale
      PROVE  Supersedes(r, i, k)
  <2>1. CASE i = p + 1
    BY <1>1, <1>8, <2>1
  <2>2. CASE i # p + 1 /\ i <= p
    <3>1. /\ i \in 1 .. p /\ r[i] = s[i] /\ Old(i) = i
          /\ p + 1 \in i + 1 .. Len(r)
      BY <1>1, <1>2, <1>3, <2>2
    <3>2. Supersedes(s, Old(i), k) \/ (r[i].on = e.on /\ k \in e.sets)
      BY <1>8, <3>1, Zenon DEF Owes
    <3>3. CASE r[i].on = e.on /\ k \in e.sets
      BY <1>1, <3>1, <3>3, Zenon DEF Supersedes
    <3>4. QED
      BY <1>7, <2>2, <3>2, <3>3, Zenon
  <2>3. CASE i # p + 1 /\ ~(i <= p)
    <3>1. Old(i) \in p + 1 .. Len(s) /\ r[i] = s[Old(i)]
      BY <1>3, <2>3, Zenon
    <3>2. Supersedes(s, Old(i), k)
      BY <1>8, <3>1, ZenonT(60)
    <3>3. QED
      BY <1>7, <2>3, <3>2, ZenonT(60)
  <2>4. QED
    BY <2>1, <2>2, <2>3, Zenon
<1>9. ASSUME AllDue(s), e.time = 0 PROVE AllDue(r)
  BY <1>1, <1>3, <1>9, SMTT(60) DEF AllDue
<1>10. r # <<>>
  BY <1>1, <1>2
<1>11. QED
  BY <1>1, <1>5, <1>6, <1>8, <1>9, <1>10, Zenon
  DEF Good, Ordered, Superseded, r

(* What is owed to a new command once the keys it sets are outdated.       *)
LEMMA OutdatedOwes ==
  ASSUME NEW t \in Thread, NEW c \in Commands, NEW q \in Seq(Pending), Good(t, q),
         NEW o, o = Outdated(q, c)
  PROVE  /\ o \in Seq(Pending) /\ Len(o) = Len(q)
         /\ Fits(t, o) /\ Ordered(o) /\ (AllDue(q) => AllDue(o))
         /\ \A i \in 1 .. Len(o) :
              \A k \in o[i].stale :
                Supersedes(o, i, k)
                  \/ (Hits(c, o[i]) /\ o[i].on = c.on /\ k \in c.sets)
<1>1. /\ o \in Seq(Pending) /\ Len(o) = Len(q) /\ Len(q) \in Nat
      /\ \A i \in 1 .. Len(q) :
           /\ o[i].kind = q[i].kind /\ o[i].on = q[i].on
           /\ o[i].sets = q[i].sets /\ o[i].sources = q[i].sources
           /\ o[i].time = q[i].time
           /\ Hits(c, q[i]) =>
                o[i].stale = q[i].stale \cup (c.sets \cap q[i].sets)
           /\ ~Hits(c, q[i]) => o[i].stale = q[i].stale
  <2>1. Len(q) \in Nat
    OBVIOUS
  <2>2. Outdates(c, q, o)
    BY OutdatedKeeps, Zenon
  <2>3. QED
    BY <2>1, <2>2, Zenon DEF Outdates
<1>2. Fits(t, o) /\ Ordered(o) /\ (AllDue(q) => AllDue(o))
  <2>1. Fits(t, q) /\ Ordered(q)
    BY DEF Good
  <2>2. ASSUME NEW i \in 1 .. Len(o)
        PROVE  ThreadFor(o[i].kind) = t /\ o[i].sets # {}
                 /\ o[i].stale \subseteq o[i].sets
    <3>1. /\ i \in 1 .. Len(q) /\ ThreadFor(q[i].kind) = t /\ q[i].sets # {}
          /\ q[i].stale \subseteq q[i].sets
      BY <1>1, <2>1 DEF Fits
    <3>2. o[i].kind = q[i].kind /\ o[i].sets = q[i].sets
      BY <1>1, <3>1
    <3>3. o[i].stale \subseteq q[i].sets
      BY <1>1, <3>1
    <3>4. QED
      BY <3>1, <3>2, <3>3, Zenon
  <2>3. ASSUME NEW i \in 1 .. Len(o), NEW j \in 1 .. Len(o), i < j
        PROVE  o[i].time <= o[j].time
    BY <1>1, <2>1, <2>3, Zenon DEF Ordered
  <2>4. ASSUME AllDue(q), NEW i \in 1 .. Len(o) PROVE o[i].time = 0
    BY <1>1, <2>4, ZenonT(60) DEF AllDue
  <2>5. QED
    BY <2>2, <2>3, <2>4, Zenon DEF Fits, Ordered, AllDue
<1>3. ASSUME NEW i \in 1 .. Len(q) PROVE Hits(c, o[i]) <=> Hits(c, q[i])
  BY <1>1, ZenonT(60) DEF Hits, Same
<1>4. ASSUME NEW i \in 1 .. Len(q), NEW k, Supersedes(q, i, k)
      PROVE  Supersedes(o, i, k)
  <2>1. PICK j \in i + 1 .. Len(q) : q[j].on = q[i].on /\ k \in q[j].sets
    BY <1>4 DEF Supersedes
  <2>2. j \in 1 .. Len(q) /\ j \in i + 1 .. Len(o)
    BY <1>1
  <2>3. o[j].on = o[i].on /\ k \in o[j].sets
    BY <1>1, <2>1, <2>2
  <2>4. QED
    BY <2>2, <2>3, Zenon DEF Supersedes
<1>5. ASSUME NEW i \in 1 .. Len(o), NEW k \in o[i].stale
      PROVE  \/ Supersedes(o, i, k)
             \/ Hits(c, o[i]) /\ o[i].on = c.on /\ k \in c.sets
  <2>1. i \in 1 .. Len(q)
    BY <1>1
  <2>2. CASE k \in q[i].stale
    BY <1>4, <2>1, <2>2, Zenon DEF Good, Superseded
  <2>3. CASE k \notin q[i].stale
    <3>1. Hits(c, q[i]) /\ k \in c.sets
      BY <1>1, <1>5, <2>1, <2>3
    <3>2. q[i].on = c.on
      BY <3>1 DEF Hits, Same
    <3>3. QED
      BY <1>1, <1>3, <2>1, <3>1, <3>2, Zenon
  <2>4. QED
    BY <2>2, <2>3
<1>6. QED
  BY <1>1, <1>2, <1>5, Zenon

(* The scan for the command to replace, and for the place of a new one.    *)
LEMMA MatchIs ==
  ASSUME NEW c \in Commands, NEW q \in Seq(Pending), NEW delay \in Delay
  PROVE  /\ Match(q, c, delay) \in 0 .. Len(q)
         /\ Match(q, c, delay) # 0 =>
              q[Match(q, c, delay)].time > delay /\ Same(c, q[Match(q, c, delay)])
         /\ \A i \in 1 .. Len(q) :
              q[i].time > delay /\ Same(c, q[i]) => i <= Match(q, c, delay)
<1> DEFINE P == {i \in DOMAIN q : q[i].time > delay /\ Same(c, q[i])}
<1>1. DOMAIN q = 1 .. Len(q) /\ Len(q) \in Nat
  BY LenProperties
<1>2. P \in SUBSET (1 .. Len(q))
  BY <1>1
<1>3. Match(q, c, delay) = LastOf(P)
  BY Zenon DEF Match
<1>4. /\ LastOf(P) \in P \cup {0}
      /\ \A p \in P : p <= LastOf(P)
  BY <1>1, <1>2, LastExists, Zenon
<1>5. PICK m : m = LastOf(P)
  OBVIOUS
<1>6. m \in P \cup {0} /\ \A p \in P : p <= m
  BY <1>4, <1>5, Zenon
<1>7. QED
  BY <1>1, <1>3, <1>5, <1>6

Place(q, delay) == LastOf({i \in DOMAIN q : q[i].time <= delay})

LEMMA PlaceIs ==
  ASSUME NEW q \in Seq(Pending), Ordered(q), NEW delay \in Delay
  PROVE  /\ Place(q, delay) \in 0 .. Len(q)
         /\ \A i \in 1 .. Place(q, delay) : q[i].time <= delay
         /\ \A i \in Place(q, delay) + 1 .. Len(q) : q[i].time > delay
<1> DEFINE P == {i \in DOMAIN q : q[i].time <= delay}
<1>1. DOMAIN q = 1 .. Len(q) /\ Len(q) \in Nat
  BY LenProperties
<1>2. P \in SUBSET (1 .. Len(q))
  BY <1>1
<1>3. Place(q, delay) = LastOf(P)
  BY Zenon DEF Place
<1>4. /\ LastOf(P) \in P \cup {0}
      /\ \A p \in P : p <= LastOf(P)
  BY <1>1, <1>2, LastExists, Zenon
<1>5. PICK n : n = LastOf(P)
  OBVIOUS
<1>6. n \in P \cup {0} /\ \A p \in P : p <= n
  BY <1>4, <1>5, Zenon
<1>7. n \in 0 .. Len(q) /\ (n # 0 => q[n].time <= delay)
  BY <1>1, <1>6
<1>8. \A i \in 1 .. Len(q) : q[i].time \in Nat
  BY PendingFields, ElementOfSeq
<1>9. delay \in Nat
  BY BoundAssumption DEF Delay
<1>10. ASSUME NEW i \in 1 .. n PROVE q[i].time <= delay
  <2>1. i \in 1 .. Len(q) /\ n \in 1 .. Len(q) /\ n # 0
    BY <1>1, <1>7
  <2>2. CASE i = n
    BY <1>7, <2>1, <2>2
  <2>3. CASE i # n
    <3>1. i < n
      BY <1>7, <2>3
    <3>2. q[i].time <= q[n].time
      BY <2>1, <3>1, Zenon DEF Ordered
    <3>3. QED
      BY <1>7, <1>8, <1>9, <2>1, <3>2
  <2>4. QED
    BY <2>2, <2>3
<1>11. ASSUME NEW i \in n + 1 .. Len(q) PROVE q[i].time > delay
  <2>1. i \in 1 .. Len(q) /\ ~(i <= n)
    BY <1>1, <1>7
  <2>2. ~(q[i].time <= delay)
    BY <1>1, <1>6, <2>1, Zenon
  <2>3. QED
    BY <1>8, <1>9, <2>1, <2>2
<1>12. QED
  BY <1>3, <1>5, <1>7, <1>10, <1>11, Zenon

(* A command put in the place of another of its time.                      *)
Replaced(t, s, m, x, p) ==
  /\ p \in Seq(Pending) /\ Len(p) = Len(s) /\ p[m] = x
  /\ \A i \in 1 .. Len(s) : i # m => p[i] = s[i]
  /\ Fits(t, p) /\ Ordered(p)
  /\ \A i \in 1 .. Len(s) : \A k \in Keys :
       Supersedes(s, i, k) =>
         \/ Supersedes(p, i, k)
         \/ i < m /\ k \in s[m].sets \ x.sets /\ s[i].on = s[m].on

LEMMA ReplaceKeeps ==
  ASSUME NEW t \in Thread, NEW s \in Seq(Pending), Fits(t, s), Ordered(s),
         NEW m \in 1 .. Len(s), NEW x \in Pending,
         ThreadFor(x.kind) = t, x.sets # {}, x.stale \subseteq x.sets,
         x.time = s[m].time, x.on = s[m].on,
         NEW p, p = [s EXCEPT ![m] = x]
  PROVE  Replaced(t, s, m, x, p)
<1>1. /\ p \in Seq(Pending) /\ Len(p) = Len(s) /\ p[m] = x /\ Len(s) \in Nat
      /\ \A i \in 1 .. Len(s) : i # m => p[i] = s[i]
  OBVIOUS
<1>2. Fits(t, p)
  BY <1>1 DEF Fits
<1>3. Ordered(p)
  <2>1. ASSUME NEW i \in 1 .. Len(s) PROVE p[i].time = s[i].time
    BY <1>1
  <2>2. ASSUME NEW i \in 1 .. Len(p), NEW j \in 1 .. Len(p), i < j
        PROVE  p[i].time <= p[j].time
    <3>1. i \in 1 .. Len(s) /\ j \in 1 .. Len(s)
      BY <1>1
    <3>2. s[i].time <= s[j].time
      BY <2>2, <3>1, Zenon DEF Ordered
    <3>3. QED
      BY <2>1, <3>1, <3>2, Zenon
  <2>3. QED
    BY <2>2, Zenon DEF Ordered
<1>4. ASSUME NEW i \in 1 .. Len(s), NEW k \in Keys, Supersedes(s, i, k)
      PROVE  \/ Supersedes(p, i, k)
             \/ i < m /\ k \in s[m].sets \ x.sets /\ s[i].on = s[m].on
  <2>1. PICK j \in i + 1 .. Len(s) : s[j].on = s[i].on /\ k \in s[j].sets
    BY <1>4 DEF Supersedes
  <2>2. p[i].on = s[i].on
    BY <1>1
  <2>3. j \in i + 1 .. Len(p) /\ j \in 1 .. Len(s) /\ i < j
    BY <1>1
  <2>4. CASE j # m
    <3>1. p[j] = s[j]
      BY <1>1, <2>3, <2>4
    <3>2. QED
      BY <2>1, <2>2, <2>3, <3>1, Zenon DEF Supersedes
  <2>5. CASE j = m /\ k \in x.sets
    <3>1. p[j] = x
      BY <1>1, <2>5
    <3>2. p[j].on = p[i].on /\ k \in p[j].sets
      BY <2>1, <2>2, <2>5, <3>1
    <3>3. QED
      BY <2>3, <3>2, Zenon DEF Supersedes
  <2>6. CASE j = m /\ k \notin x.sets
    BY <2>1, <2>3, <2>6
  <2>7. QED
    BY <2>4, <2>5, <2>6
<1>5. QED
  BY <1>1, <1>2, <1>3, <1>4, Zenon DEF Replaced

(* insertCommand_l() keeps the queue as it ought to be.                    *)
Sent(t, q, delay, r) ==
  Good(t, r) /\ r # <<>> /\ (AllDue(q) /\ delay = 0 => AllDue(r))

LEMMA InsertedIsGood ==
  ASSUME NEW t \in Thread, NEW c \in Commands, ThreadFor(c.kind) = t,
         NEW delay \in Delay, NEW q \in Seq(Pending), Good(t, q),
         c.kind \in Output => AllDue(q),
         NEW r, r = Inserted(Outdated(q, c), c, delay)
  PROVE  Sent(t, q, delay, r)
<1>1. PICK o : o = Outdated(q, c)
  OBVIOUS
<1>2. /\ o \in Seq(Pending) /\ Fits(t, o) /\ Ordered(o)
      /\ AllDue(q) => AllDue(o)
      /\ \A i \in 1 .. Len(o) :
           \A k \in o[i].stale :
             Supersedes(o, i, k)
               \/ (Hits(c, o[i]) /\ o[i].on = c.on /\ k \in c.sets)
  BY <1>1, OutdatedOwes, Zenon
<1>3. PICK m \in 0 .. Len(o) : m = Match(o, c, delay)
  BY <1>2, MatchIs, Zenon
<1>4. /\ m # 0 => o[m].time > delay /\ Same(c, o[m])
      /\ \A i \in 1 .. Len(o) : o[i].time > delay /\ Same(c, o[i]) => i <= m
  BY <1>2, <1>3, MatchIs, Zenon
<1>5. PICK w \in BOOLEAN : w = Waits(c, delay, m)
  BY DEF Waits, WantsStatus
<1>6. /\ Len(o) \in Nat /\ delay \in Nat
      /\ \A i \in 1 .. Len(o) : o[i] \in Pending /\ o[i].time \in Delay
           /\ o[i].time \in Nat /\ o[i].stale \in SUBSET Keys
  <2>1. \A i \in 1 .. Len(o) : o[i] \in Pending
    BY <1>2, ElementOfSeq
  <2>2. Len(o) \in Nat /\ delay \in Nat
    BY <1>2, BoundAssumption DEF Delay
  <2>3. QED
    BY <2>1, <2>2, PendingFields, Zenon
<1>7. c.sets # {}
  BY CommandAssumption
<1>8. ASSUME NEW i \in 1 .. Len(o), c.kind \in Output PROVE o[i].time = 0
  BY <1>2, <1>8, Zenon DEF AllDue
<1>9. ASSUME m = 0
      PROVE  Good(t, r) /\ r # <<>> /\ (AllDue(q) /\ delay = 0 => AllDue(r))
  <2>1. PICK n \in 0 .. Len(o) : n = Place(o, delay)
    BY <1>2, PlaceIs, Zenon
  <2>2. /\ \A i \in 1 .. n : o[i].time <= delay
        /\ \A i \in n + 1 .. Len(o) : o[i].time > delay
    BY <1>2, <2>1, PlaceIs, Zenon
  <2>3. PICK e \in Pending : e = Entry(c, delay, w) /\ IsNew(e, c, delay)
    BY NewEntry, Zenon
  <2>4. /\ e.kind = c.kind /\ e.on = c.on /\ e.sets = c.sets /\ e.stale = {}
        /\ e.time = delay
    BY <2>3, Zenon DEF IsNew
  <2>5. r = InsertAt(o, n + 1, e)
    BY <1>1, <1>3, <1>5, <1>9, <2>1, <2>3, Zenon DEF Inserted, Place
  <2>6. ASSUME NEW i \in 1 .. n PROVE o[i].time <= e.time /\ Owes(o, i, e)
    <3>1. i \in 1 .. Len(o) /\ o[i].time <= e.time
      BY <1>6, <2>2, <2>4
    <3>2. QED
      BY <1>2, <2>4, <3>1, Zenon DEF Owes
  <2>7. ASSUME NEW i \in n + 1 .. Len(o)
        PROVE  e.time <= o[i].time /\ \A k \in o[i].stale : Supersedes(o, i, k)
    <3>1. i \in 1 .. Len(o) /\ ~(i <= m) /\ o[i].time > delay
          /\ e.time <= o[i].time /\ o[i].time # 0
      BY <1>6, <1>9, <2>2, <2>4
    <3>2. ~Hits(c, o[i])
      BY <1>4, <1>8, <3>1, Zenon DEF Hits
    <3>3. QED
      BY <1>2, <3>1, <3>2, Zenon
  <2>8. e.sets # {} /\ ThreadFor(e.kind) = t
    BY <1>7, <2>4, Zenon
  <2>9. /\ Good(t, r) /\ r # <<>>
        /\ AllDue(o) /\ e.time = 0 => AllDue(r)
    BY <1>2, <2>4, <2>5, <2>6, <2>7, <2>8, InsertKeepsGood, Zenon
  <2>10. QED
    BY <1>2, <2>4, <2>9, Zenon
<1>10. ASSUME m # 0
       PROVE  Good(t, r) /\ r # <<>> /\ (AllDue(q) /\ delay = 0 => AllDue(r))
  <2>1. /\ m \in 1 .. Len(o) /\ Same(c, o[m]) /\ o[m].time > delay
        /\ o[m] \in Pending /\ o[m].time \in Delay
    BY <1>4, <1>6, <1>10
  <2>2. c.kind \notin Output /\ c.on = o[m].on
    BY <2>1 DEF Same, Patch, Output
  <2>3. ~AllDue(q)
    <3>1. o[m].time # 0
      BY <1>6, <2>1
    <3>2. QED
      BY <1>2, <2>1, <3>1, Zenon DEF AllDue
  <2>4. PICK e \in Pending : e = Entry(c, o[m].time, w) /\ IsNew(e, c, o[m].time)
    BY <2>1, NewEntry, Zenon
  <2>5. /\ e.kind = c.kind /\ e.on = c.on /\ e.sets = c.sets /\ e.stale = {}
        /\ e.time = o[m].time
    BY <2>4, Zenon DEF IsNew
  <2>6. e.sets # {} /\ ThreadFor(e.kind) = t
    BY <1>7, <2>5, Zenon
  <2>7. ASSUME NEW i \in 1 .. Len(o), i > m, NEW k \in o[i].stale
        PROVE  Supersedes(o, i, k)
    <3>1. ~(i <= m) /\ o[m].time <= o[i].time
      BY <1>2, <2>1, <2>7 DEF Ordered
    <3>2. o[i].time > delay
      BY <1>6, <2>1, <3>1
    <3>3. ~Hits(c, o[i])
      BY <1>4, <2>2, <3>1, <3>2, Zenon DEF Hits
    <3>4. QED
      BY <1>2, <3>3, Zenon
  <2>8. CASE Filtered(o[m], c)
    <3>1. r = [o EXCEPT ![m] = e]
      BY <1>1, <1>3, <1>5, <1>10, <2>4, <2>8, Zenon DEF Inserted
    <3>2. /\ r \in Seq(Pending) /\ Len(r) = Len(o) /\ r[m] = e
          /\ \A i \in 1 .. Len(o) : i # m => r[i] = o[i]
          /\ Fits(t, r) /\ Ordered(r)
          /\ \A i \in 1 .. Len(o) : \A k \in Keys :
               Supersedes(o, i, k) =>
                 \/ Supersedes(r, i, k)
                 \/ i < m /\ k \in o[m].sets \ e.sets /\ o[i].on = o[m].on
      <4>1. e.stale \subseteq e.sets /\ e.on = o[m].on
        BY <2>2, <2>5
      <4>2. e.time = o[m].time /\ e.on = o[m].on
        BY <2>5, <4>1
      <4>3. Replaced(t, o, m, e, r)
        BY <1>2, <2>1, <2>6, <3>1, <4>1, <4>2, ReplaceKeeps, Zenon
      <4>4. QED
        BY <4>3, Zenon DEF Replaced
    <3>3. ASSUME NEW i \in 1 .. Len(o), NEW k \in r[i].stale
          PROVE  Supersedes(r, i, k)
      <4>1. i # m
        BY <2>5, <3>2, <3>3
      <4>2. r[i] = o[i] /\ k \in o[i].stale /\ k \in Keys
        BY <1>6, <3>2, <3>3, <4>1
      <4>3. o[m].sets \subseteq e.sets
        BY <2>5, <2>8 DEF Filtered
      <4>4. Supersedes(o, i, k) => Supersedes(r, i, k)
        BY <3>2, <4>2, <4>3, Zenon
      <4>5. CASE i > m
        BY <2>7, <4>2, <4>4, <4>5, Zenon
      <4>6. CASE i < m /\ o[i].on = c.on /\ k \in c.sets
        <5>1. m \in i + 1 .. Len(r)
          BY <1>6, <2>1, <3>2, <4>6
        <5>2. r[m].on = r[i].on /\ k \in r[m].sets
          BY <2>5, <3>2, <4>2, <4>6
        <5>3. QED
          BY <5>1, <5>2, Zenon DEF Supersedes
      <4>7. i > m \/ i < m
        BY <1>6, <2>1, <4>1
      <4>8. QED
        BY <1>2, <4>2, <4>4, <4>5, <4>6, <4>7, Zenon
    <3>4. Good(t, r)
      BY <3>2, <3>3, Zenon DEF Good, Superseded
    <3>5. r # <<>>
      BY <1>6, <2>1, <3>2
    <3>6. QED
      BY <2>3, <3>4, <3>5, Zenon
  <2>9. CASE ~Filtered(o[m], c)
    <3>1. PICK x : x = Rest(o[m], c)
      OBVIOUS
    <3>2. /\ x \in Pending /\ x.kind = o[m].kind /\ x.on = o[m].on
          /\ x.sets = o[m].sets \ c.sets /\ x.stale = o[m].stale \ c.sets
          /\ x.time = o[m].time
      <4>1. PICK d \in Pending : d = o[m]
        BY <2>1
      <4>2. x = [d EXCEPT !.sets = @ \ c.sets, !.stale = @ \ c.sets]
        BY <3>1, <4>1 DEF Rest
      <4>3. QED
        BY <4>1, <4>2 DEF Pending
    <3>3. /\ ThreadFor(x.kind) = t /\ x.sets # {} /\ x.stale \subseteq x.sets
      BY <1>2, <2>1, <2>9, <3>2 DEF Fits, Filtered
    <3>4. PICK p : p = [o EXCEPT ![m] = x]
      OBVIOUS
    <3>5. r = InsertAt(p, (m - 1) + 1, e)
      <4>1. r = InsertAt(p, m, e)
        BY <1>1, <1>3, <1>5, <1>10, <2>4, <2>9, <3>1, <3>4, Zenon DEF Inserted
      <4>2. (m - 1) + 1 = m
        BY <2>1
      <4>3. QED
        BY <4>1, <4>2, Zenon
    <3>6. /\ p \in Seq(Pending) /\ Len(p) = Len(o) /\ p[m] = x
          /\ \A i \in 1 .. Len(o) : i # m => p[i] = o[i]
          /\ Fits(t, p) /\ Ordered(p)
          /\ \A i \in 1 .. Len(o) : \A k \in Keys :
               Supersedes(o, i, k) =>
                 \/ Supersedes(p, i, k)
                 \/ i < m /\ k \in o[m].sets \ x.sets /\ o[i].on = o[m].on
      <4>1. Replaced(t, o, m, x, p)
        BY <1>2, <2>1, <3>2, <3>3, <3>4, ReplaceKeeps, Zenon
      <4>2. QED
        BY <4>1, Zenon DEF Replaced
    <3>7. ASSUME NEW i \in 1 .. m - 1
          PROVE  p[i].time <= e.time /\ Owes(p, i, e)
      <4>1. i \in 1 .. Len(o) /\ i < m /\ i # m
        BY <1>6, <2>1
      <4>2. p[i] = o[i] /\ o[i].time <= o[m].time
        BY <1>2, <2>1, <3>6, <4>1, Zenon DEF Ordered
      <4>3. ASSUME NEW k \in p[i].stale
            PROVE  Supersedes(p, i, k) \/ (p[i].on = e.on /\ k \in e.sets)
        <5>1. k \in o[i].stale /\ k \in Keys
          BY <1>6, <4>1, <4>2, <4>3
        <5>2. CASE Supersedes(o, i, k)
          <6>1. \/ Supersedes(p, i, k)
                \/ k \in o[m].sets \ x.sets /\ o[i].on = o[m].on
            BY <3>6, <4>1, <5>1, <5>2, Zenon
          <6>2. k \in o[m].sets \ x.sets => k \in c.sets
            BY <3>2
          <6>3. QED
            BY <2>2, <2>5, <4>2, <6>1, <6>2, Zenon
        <5>3. CASE o[i].on = c.on /\ k \in c.sets
          BY <2>5, <4>2, <5>3, Zenon
        <5>4. QED
          BY <1>2, <4>1, <5>1, <5>2, <5>3, Zenon
      <4>4. QED
        BY <2>5, <4>2, <4>3, Zenon DEF Owes
    <3>8. ASSUME NEW i \in (m - 1) + 1 .. Len(p)
          PROVE  e.time <= p[i].time /\ \A k \in p[i].stale : Supersedes(p, i, k)
      <4>1. i \in 1 .. Len(o) /\ ~(i < m)
        BY <1>6, <2>1, <3>6
      <4>2. CASE i = m
        <5>1. p[i] = x /\ e.time <= p[i].time
          BY <1>6, <2>1, <2>5, <3>2, <3>6, <4>2
        <5>2. ASSUME NEW k \in p[i].stale PROVE Supersedes(p, i, k)
          <6>1. k \in o[m].stale /\ k \notin c.sets /\ k \in Keys
            BY <1>6, <2>1, <3>2, <5>1, <5>2
          <6>2. Supersedes(o, m, k)
            BY <1>2, <2>1, <6>1, Zenon
          <6>3. QED
            BY <3>6, <4>1, <4>2, <6>1, <6>2, Zenon
        <5>3. QED
          BY <5>1, <5>2, Zenon
      <4>3. CASE i # m
        <5>1. p[i] = o[i] /\ i > m
          BY <1>6, <2>1, <3>6, <4>1, <4>3
        <5>2. e.time <= p[i].time
          BY <1>2, <2>1, <2>5, <4>1, <5>1 DEF Ordered
        <5>3. ASSUME NEW k \in p[i].stale PROVE Supersedes(p, i, k)
          <6>1. k \in o[i].stale /\ k \in Keys
            BY <1>6, <4>1, <5>1, <5>3
          <6>2. Supersedes(o, i, k)
            BY <2>7, <4>1, <5>1, <6>1, Zenon
          <6>3. QED
            BY <3>6, <4>1, <6>1, <6>2, Zenon
        <5>4. QED
          BY <5>2, <5>3, Zenon
      <4>4. QED
        BY <4>2, <4>3
    <3>9. m - 1 \in 0 .. Len(p)
      BY <1>6, <2>1, <3>6
    <3>10. Good(t, r) /\ r # <<>>
      BY <2>5, <2>6, <3>5, <3>6, <3>7, <3>8, <3>9, InsertKeepsGood, Zenon
    <3>11. QED
      BY <2>3, <3>10, Zenon
  <2>10. QED
    BY <2>8, <2>9
<1>11. Good(t, r) /\ r # <<>> /\ (AllDue(q) /\ delay = 0 => AllDue(r))
  BY <1>9, <1>10
<1>12. QED
  BY <1>11, Zenon DEF Sent

(* A queue without its first command.                                      *)
LEMMA TailIsGood ==
  ASSUME NEW t \in Thread, NEW q \in Seq(Pending), Good(t, q), q # <<>>,
         NEW r, r = Tail(q)
  PROVE  Good(t, r) /\ (AllDue(q) => AllDue(r))
<1>1. /\ r \in Seq(Pending) /\ Len(r) = Len(q) - 1 /\ Len(q) \in Nat \ {0}
      /\ \A i \in 1 .. Len(q) - 1 : r[i] = q[i + 1]
  BY HeadTailProperties, EmptySeq
<1>2. ASSUME NEW i \in 1 .. Len(r)
      PROVE  i + 1 \in 1 .. Len(q) /\ r[i] = q[i + 1]
  BY <1>1
<1>3. Fits(t, r)
  BY <1>2, Zenon DEF Good, Fits
<1>4. ASSUME NEW i \in 1 .. Len(r), NEW j \in 1 .. Len(r), i < j
      PROVE  r[i].time <= r[j].time
  <2>1. i + 1 < j + 1
    BY <1>1, <1>4
  <2>2. QED
    BY <1>2, <2>1, Zenon DEF Good, Ordered
<1>5. ASSUME NEW i \in 1 .. Len(r), NEW k \in r[i].stale
      PROVE  Supersedes(r, i, k)
  <2>1. Supersedes(q, i + 1, k)
    BY <1>2, <1>5, Zenon DEF Good, Superseded
  <2>2. PICK j \in (i + 1) + 1 .. Len(q) :
          q[j].on = q[i + 1].on /\ k \in q[j].sets
    BY <2>1 DEF Supersedes
  <2>3. /\ j - 1 \in i + 1 .. Len(r) /\ j - 1 \in 1 .. Len(r)
        /\ (j - 1) + 1 = j
    BY <1>1, <2>2
  <2>4. r[j - 1] = q[j]
    BY <1>2, <2>3, Zenon
  <2>5. QED
    BY <1>2, <2>2, <2>3, <2>4, Zenon DEF Supersedes
<1>6. ASSUME AllDue(q) PROVE AllDue(r)
  BY <1>2, <1>6, Zenon DEF AllDue
<1>7. QED
  BY <1>1, <1>3, <1>4, <1>5, <1>6, Zenon DEF Good, Ordered, Superseded

(* A queue of the same commands, in other times or answered.               *)
LEMMA RetimedIsGood ==
  ASSUME NEW t \in Thread, NEW q \in Seq(Pending), Good(t, q),
         NEW p \in Seq(Pending), Len(p) = Len(q),
         \A i \in 1 .. Len(q) :
           /\ p[i].kind = q[i].kind /\ p[i].on = q[i].on
           /\ p[i].sets = q[i].sets /\ p[i].stale = q[i].stale,
         \A i, j \in 1 .. Len(q) :
           q[i].time <= q[j].time => p[i].time <= p[j].time
  PROVE  Good(t, p)
<1>1. Fits(t, p)
  BY Zenon DEF Good, Fits
<1>2. ASSUME NEW i \in 1 .. Len(p), NEW j \in 1 .. Len(p), i < j
      PROVE  p[i].time <= p[j].time
  <2>1. q[i].time <= q[j].time
    BY <1>2, Zenon DEF Good, Ordered
  <2>2. QED
    BY <2>1, Zenon
<1>3. ASSUME NEW i \in 1 .. Len(p), NEW k \in p[i].stale
      PROVE  Supersedes(p, i, k)
  <2>1. i \in 1 .. Len(q) /\ k \in q[i].stale
    BY <1>3, Zenon
  <2>2. Supersedes(q, i, k)
    BY <2>1, Zenon DEF Good, Superseded
  <2>3. PICK j \in i + 1 .. Len(q) : q[j].on = q[i].on /\ k \in q[j].sets
    BY <2>2 DEF Supersedes
  <2>4. j \in 1 .. Len(q) /\ j \in i + 1 .. Len(p)
    OBVIOUS
  <2>5. p[j].on = p[i].on /\ k \in p[j].sets
    BY <2>1, <2>3, <2>4, Zenon
  <2>6. QED
    BY <2>4, <2>5, Zenon DEF Supersedes
<1>4. QED
  BY <1>1, <1>2, <1>3, Zenon DEF Good, Ordered, Superseded
-----------------------------------------------------------------------------
(* The steps.                                                              *)
LEMMA InitIInv == Init => IInv
<1> SUFFICES ASSUME Init PROVE IInv
  OBVIOUS
<1>1. Threads /\ Service
  <2>1. Forever \in 0 .. Forever
    BY BoundAssumption DEF Forever
  <2>2. Threads
    BY <2>1 DEF Init, Threads
  <2>3. Service
    <3>1. waiting \in BOOLEAN /\ referenced \in BOOLEAN
      BY Zenon DEF Init
    <3>2. QED
      BY <3>1 DEF Init, Service
  <2>4. QED
    BY <2>2, <2>3
<1>2. <<>> \in Seq(Pending) /\ Len(<<>>) = 0
  OBVIOUS
<1>3. ASSUME NEW t \in Thread PROVE queue[t] = <<>> /\ Good(t, queue[t])
  BY <1>2 DEF Init, Good, Fits, Ordered, Superseded
<1>4. Queues
  BY <1>2, <1>3 DEF Init, Queues
<1>5. Awoken
  BY <1>3 DEF Init, Awoken, Woken
<1>6. AtOnce
  BY <1>2, <1>3 DEF AtOnce, AllDue, Thread
<1>7. Ending
  BY DEF Init, Ending, RefersToService, Thread, Nobody
<1>8. QED
  BY <1>1, <1>4, <1>5, <1>6, <1>7, Zenon DEF IInv

(* A command is sent: the thread is woken, and awake.                      *)
LEMMA Sending ==
  ASSUME IInv, NEW c \in Commands, NEW delay \in Delay, Send(c, delay)
  PROVE  Threads' /\ Queues' /\ Awoken' /\ AtOnce' /\ Ending'
<1>1. PICK t \in Thread : t = ThreadFor(c.kind)
  BY DEF ThreadFor, Thread
<1>2. PICK q \in Seq(Pending) : q = queue[t] /\ Good(t, q)
  BY <1>1, Zenon DEF IInv, Queues
<1>3. /\ delay > 0 => t = "ApmAudio"
      /\ queue' = [queue EXCEPT ![t] = Inserted(Outdated(q, c), c, delay)]
      /\ wakeLock' = [wakeLock EXCEPT ![t] = @ \/ q = <<>>]
      /\ tpc' = [tpc EXCEPT ![t] = IF @ = "asleep" THEN "run" ELSE @]
      /\ sleepFor' = [sleepFor EXCEPT ![t] = Forever]
      /\ UNCHANGED <<exitPending, referenced, destroying, exiting>>
  BY <1>1, <1>2, Zenon DEF Send, Awake, lifeVars
<1>4. c.kind \in Output => AllDue(q)
  <2>1. c.kind \in Output => t = "ApmOutput"
    BY <1>1 DEF ThreadFor
  <2>2. QED
    BY <1>2, <2>1, Zenon DEF IInv, AtOnce
<1>5. PICK r : r = Inserted(Outdated(q, c), c, delay)
  OBVIOUS
<1>6. Good(t, r) /\ r # <<>> /\ (AllDue(q) /\ delay = 0 => AllDue(r))
  <2>1. ThreadFor(c.kind) = t
    BY <1>1
  <2>2. QED
    <3>1. Sent(t, q, delay, r)
      BY <1>2, <1>4, <1>5, <2>1, InsertedIsGood, Zenon
    <3>2. QED
      BY <3>1, Zenon DEF Sent
<1>7. Threads'
  BY <1>3, BoundAssumption DEF IInv, Threads, Forever
<1>8. ASSUME NEW u \in Thread
      PROVE  queue'[u] = IF u = t THEN r ELSE queue[u]
  BY <1>3, <1>5, Zenon DEF IInv, Queues
<1>9. Queues'
  <2>1. r \in Seq(Pending) /\ queue \in [Thread -> Seq(Pending)]
    BY <1>6, Zenon DEF Good, IInv, Queues
  <2>2. queue' \in [Thread -> Seq(Pending)]
    BY <1>3, <1>5, <2>1, Zenon
  <2>3. ASSUME NEW u \in Thread PROVE Good(u, queue'[u])
    BY <1>6, <1>8, Zenon DEF IInv, Queues
  <2>4. QED
    BY <2>2, <2>3, Zenon DEF Queues
<1>10. ASSUME NEW u \in Thread
       PROVE  Woken(queue'[u], tpc'[u], sleepFor'[u], wakeLock'[u])
  <2>1. Woken(queue[u], tpc[u], sleepFor[u], wakeLock[u])
    BY DEF IInv, Awoken
  <2>2. CASE u = t
    <3>1. /\ tpc'[u] = IF tpc[u] = "asleep" THEN "run" ELSE tpc[u]
          /\ wakeLock'[u] = (wakeLock[u] \/ q = <<>>) /\ queue[u] = q
      BY <1>2, <1>3, <2>2 DEF IInv, Threads
    <3>2. QED
      BY <2>1, <3>1 DEF Woken
  <2>3. CASE u # t
    <3>1. /\ tpc'[u] = tpc[u] /\ wakeLock'[u] = wakeLock[u]
          /\ sleepFor'[u] = sleepFor[u] /\ queue'[u] = queue[u]
      BY <1>3, <1>8, <2>3 DEF IInv, Threads
    <3>2. QED
      BY <2>1, <3>1, Zenon
  <2>4. QED
    BY <2>2, <2>3
<1>11. AtOnce'
  <2>1. "ApmOutput" \in Thread
    BY DEF Thread
  <2>2. CASE t = "ApmOutput"
    <3>1. delay = 0 /\ AllDue(q)
      BY <1>2, <1>3, <2>2, BoundAssumption DEF IInv, AtOnce, Delay
    <3>2. QED
      BY <1>6, <1>8, <2>1, <2>2, <3>1, Zenon DEF AtOnce
  <2>3. CASE t # "ApmOutput"
    BY <1>8, <2>1, <2>3, Zenon DEF IInv, AtOnce
  <2>4. QED
    BY <2>2, <2>3
<1>12. Ending'
  <2>1. ASSUME NEW u \in Thread
        PROVE  /\ tpc[u] # "asleep" => tpc'[u] = tpc[u]
               /\ tpc[u] = "asleep" => tpc'[u] \in {"run", "asleep"}
    BY <1>3 DEF IInv, Threads
  <2>2. QED
    BY <1>3, <2>1 DEF IInv, Ending, RefersToService
<1>13. QED
  BY <1>7, <1>9, <1>10, <1>11, <1>12, Zenon DEF Awoken

LEMMA Names ==
  /\ \A t \in Thread : t # Nobody /\ t # Client
  /\ Client # Nobody
  /\ ExitOrder[1] \in Thread /\ ExitOrder[2] \in Thread
  /\ DOMAIN ExitOrder = {1, 2}
<1>1. /\ \A t \in Thread : t # Nobody /\ t # Client
      /\ Client # Nobody
  BY DEF Thread, Nobody, Client
<1>2. /\ ExitOrder[1] \in Thread /\ ExitOrder[2] \in Thread
      /\ DOMAIN ExitOrder = {1, 2}
  BY DEF ExitOrder, Thread
<1>3. QED
  BY <1>1, <1>2, Zenon

(* The steps that leave the queues alone.                                  *)
LEMMA QueuesKept ==
  ASSUME IInv, queue' = queue
  PROVE  Queues' /\ AtOnce'
BY Zenon DEF IInv, Queues, AtOnce

(* The first command leaves the queue of t.                                *)
LEMMA Popping ==
  ASSUME IInv, NEW t \in Thread, queue[t] # <<>>, Popped(t)
  PROVE  /\ Queues' /\ AtOnce' /\ wakeLock' = wakeLock
         /\ \A u \in Thread \ {t} : queue'[u] = queue[u]
<1>1. PICK q \in Seq(Pending) : q = queue[t] /\ Good(t, q) /\ q # <<>>
  BY Zenon DEF IInv, Queues
<1>2. PICK r : r = Tail(q)
  OBVIOUS
<1>3. Good(t, r) /\ (AllDue(q) => AllDue(r))
  BY <1>1, <1>2, TailIsGood, Zenon
<1>4. queue' = [queue EXCEPT ![t] = r] /\ wakeLock' = wakeLock
  BY <1>1, <1>2, Zenon DEF Popped
<1>5. ASSUME NEW u \in Thread
      PROVE  queue'[u] = IF u = t THEN r ELSE queue[u]
  BY <1>4, Zenon DEF IInv, Queues
<1>6. Queues'
  <2>1. r \in Seq(Pending) /\ queue \in [Thread -> Seq(Pending)]
    BY <1>3, Zenon DEF Good, IInv, Queues
  <2>2. queue' \in [Thread -> Seq(Pending)]
    BY <1>4, <2>1, Zenon
  <2>3. ASSUME NEW u \in Thread PROVE Good(u, queue'[u])
    BY <1>3, <1>5, Zenon DEF IInv, Queues
  <2>4. QED
    BY <2>2, <2>3, Zenon DEF Queues
<1>7. AtOnce'
  <2>1. "ApmOutput" \in Thread
    BY DEF Thread
  <2>2. QED
    BY <1>1, <1>3, <1>5, <2>1, Zenon DEF IInv, AtOnce
<1>8. ASSUME NEW u \in Thread \ {t} PROVE queue'[u] = queue[u]
  BY <1>5, Zenon
<1>9. QED
  BY <1>4, <1>6, <1>7, <1>8, Zenon

LEMMA ApplyKeeps ==
  ASSUME IInv, NEW t \in Thread, Apply(t)
  PROVE  IInv'
<1>1. /\ tpc[t] = "run" /\ queue[t] # <<>> /\ Popped(t)
      /\ UNCHANGED <<tpc, sleepFor, exitPending, referenced, destroying, exiting>>
      /\ waiting' = FALSE \/ waiting' = waiting
      /\ svcLock' = Nobody \/ svcLock' = svcLock
  BY Zenon DEF Apply, IsDue, WaitEnds, threadVars, lifeVars, lockVars
<1>2. /\ Queues' /\ AtOnce' /\ wakeLock' = wakeLock
      /\ \A u \in Thread \ {t} : queue'[u] = queue[u]
  BY <1>1, Popping, Zenon
<1>3. Threads' /\ Service'
  BY <1>1, <1>2, Zenon DEF IInv, Threads, Service
<1>4. Awoken'
  <2>1. ASSUME NEW u \in Thread
        PROVE  Woken(queue'[u], tpc'[u], sleepFor'[u], wakeLock'[u])
    <3>1. Woken(queue[u], tpc[u], sleepFor[u], wakeLock[u])
      BY DEF IInv, Awoken
    <3>2. CASE u = t
      BY <1>1, <1>2, <3>1, <3>2 DEF Woken
    <3>3. CASE u # t
      BY <1>1, <1>2, <3>1, <3>3, Zenon
    <3>4. QED
      BY <3>2, <3>3
  <2>2. QED
    BY <2>1, Zenon DEF Awoken
<1>5. Ending'
  BY <1>1 DEF IInv, Ending, RefersToService
<1>6. QED
  BY <1>2, <1>3, <1>4, <1>5, Zenon DEF IInv

LEMMA PromoteKeeps ==
  ASSUME IInv, NEW t \in Thread, Promote(t)
  PROVE  IInv'
<1>1. /\ tpc[t] = "run" /\ queue[t] # <<>> /\ Popped(t)
      /\ UNCHANGED <<sleepFor, exitPending, referenced, destroying, exiting>>
      /\ UNCHANGED <<svcLock, waiting>>
  BY Zenon DEF Promote, IsDue, lifeVars, lockVars
<1>2. /\ Queues' /\ AtOnce' /\ wakeLock' = wakeLock
      /\ \A u \in Thread \ {t} : queue'[u] = queue[u]
  BY <1>1, Popping, Zenon
<1>3. PICK x \in {"run", "serve", "clear"} :
        tpc' = [tpc EXCEPT ![t] = x] /\ (destroying # Nobody => x = "run")
  BY DEF Promote
<1>4. ASSUME NEW u \in Thread PROVE tpc'[u] = IF u = t THEN x ELSE tpc[u]
  BY <1>3 DEF IInv, Threads
<1>5. Threads' /\ Service'
  BY <1>1, <1>2, <1>3 DEF IInv, Threads, Service
<1>6. Awoken'
  <2>1. ASSUME NEW u \in Thread
        PROVE  Woken(queue'[u], tpc'[u], sleepFor'[u], wakeLock'[u])
    <3>1. Woken(queue[u], tpc[u], sleepFor[u], wakeLock[u])
      BY DEF IInv, Awoken
    <3>2. CASE u = t
      BY <1>1, <1>2, <1>4, <3>1, <3>2 DEF Woken
    <3>3. CASE u # t
      BY <1>1, <1>2, <1>4, <3>1, <3>3, Zenon
    <3>4. QED
      BY <3>2, <3>3
  <2>2. QED
    BY <2>1, Zenon DEF Awoken
<1>7. Ending'
  <2>1. destroying # Nobody => \A u \in Thread : tpc'[u] = tpc[u]
    BY <1>1, <1>3, <1>4
  <2>2. destroying \in Thread => destroying # Nobody
    BY Names
  <2>3. QED
    BY <1>1, <2>1, <2>2 DEF IInv, Ending, RefersToService
<1>8. QED
  BY <1>2, <1>5, <1>6, <1>7, Zenon DEF IInv

LEMMA SendKeeps ==
  ASSUME IInv, NEW c \in Commands, NEW delay \in Delay, Send(c, delay),
         waiting' \in BOOLEAN, svcLock' \in Thread \cup {Client, Nobody}
  PROVE  IInv'
<1>1. Threads' /\ Queues' /\ Awoken' /\ AtOnce' /\ Ending'
  BY Sending, Zenon
<1>2. UNCHANGED <<referenced, destroying, exiting>>
  BY Zenon DEF Send, lifeVars
<1>3. Service'
  BY <1>2, Zenon DEF IInv, Service
<1>4. QED
  BY <1>1, <1>3, Zenon DEF IInv

(* Every call that sends: the caller's lock and its wait.                  *)
LEMMA CallersKeep ==
  ASSUME IInv, NEW c \in Commands, NEW delay \in Delay, NEW t \in Thread,
         ClientStops(c) \/ ClientSets(c, delay) \/ ServeSets(t, c, delay)
  PROVE  IInv'
<1>1. /\ waiting \in BOOLEAN /\ svcLock \in Thread \cup {Client, Nobody}
  BY Zenon DEF IInv, Service
<1>2. MustWait(c, delay) \in BOOLEAN
  BY Zenon DEF MustWait, Waits, WantsStatus
<1>3. CASE ClientStops(c)
  <2>1. Send(c, 0) /\ waiting' = waiting /\ svcLock' = svcLock /\ 0 \in Delay
    <3>1. 0 \in Delay
      BY BoundAssumption DEF Delay
    <3>2. QED
      BY <1>3, <3>1, Zenon DEF ClientStops, lockVars
  <2>2. waiting' \in BOOLEAN /\ svcLock' \in Thread \cup {Client, Nobody}
    BY <1>1, <2>1, Zenon
  <2>3. QED
    BY <2>1, <2>2, SendKeeps, Zenon
<1>4. CASE ClientSets(c, delay)
  <2>1. Send(c, delay) /\ waiting' \in BOOLEAN
    BY <1>2, <1>4, Zenon DEF ClientSets
  <2>2. svcLock' \in Thread \cup {Client, Nobody}
    BY <1>4, Zenon DEF ClientSets
  <2>3. QED
    BY <2>1, <2>2, SendKeeps, Zenon
<1>5. CASE ServeSets(t, c, delay)
  <2>1. /\ Send(c, delay) /\ waiting' \in BOOLEAN
        /\ svcLock' \in Thread \cup {Client, Nobody}
    BY <1>1, <1>2, <1>5, Zenon DEF ServeSets
  <2>2. QED
    BY <2>1, SendKeeps, Zenon
<1>6. QED
  BY <1>3, <1>4, <1>5, Zenon

(* The times of the commands, and of the sleeps, get less.                 *)
LEMMA LessIsMonotone ==
  \A x, y \in Nat : /\ Less(x) \in Nat /\ Less(x) <= x
                    /\ x <= y => Less(x) <= Less(y)
BY DEF Less

LEMMA WaitTimesOutKeeps ==
  ASSUME IInv, WaitTimesOut
  PROVE  IInv'
<1>1. /\ queue' = [t \in Thread |-> Answer(queue[t])]
      /\ UNCHANGED <<wakeLock, tpc, sleepFor, exitPending, referenced,
                     destroying, exiting>>
      /\ waiting' = FALSE /\ (svcLock' = Nobody \/ svcLock' = svcLock)
  BY Zenon DEF WaitTimesOut, WaitEnds, threadVars, lifeVars
<1>2. ASSUME NEW t \in Thread, NEW q \in Seq(Pending), Good(t, q)
      PROVE  /\ Answer(q) \in Seq(Pending) /\ Len(Answer(q)) = Len(q)
             /\ \A i \in 1 .. Len(q) : Answer(q)[i].time = q[i].time
             /\ Good(t, Answer(q))
  <2>1. /\ DOMAIN q = 1 .. Len(q) /\ Len(q) \in Nat
        /\ \A i \in 1 .. Len(q) : q[i] \in Pending
    BY LenProperties, ElementOfSeq
  <2>2. PICK p : p = Answer(q)
    OBVIOUS
  <2>3. \A i \in 1 .. Len(q) : p[i] = [q[i] EXCEPT !.waits = FALSE]
    BY <2>1, <2>2, Zenon DEF Answer
  <2>4. ASSUME NEW i \in 1 .. Len(q)
        PROVE  /\ p[i] \in Pending /\ p[i].kind = q[i].kind /\ p[i].on = q[i].on
               /\ p[i].sets = q[i].sets /\ p[i].stale = q[i].stale
               /\ p[i].time = q[i].time
    <3>1. PICK d \in Pending : d = q[i]
      BY <2>1
    <3>2. p[i] = [d EXCEPT !.waits = FALSE]
      BY <2>3, <3>1
    <3>3. QED
      BY <3>1, <3>2 DEF Pending
  <2>5. p \in [1 .. Len(q) -> Pending]
    <3>1. p = [i \in 1 .. Len(q) |-> [q[i] EXCEPT !.waits = FALSE]]
      BY <2>1, <2>2, Zenon DEF Answer
    <3>2. \A i \in 1 .. Len(q) : [q[i] EXCEPT !.waits = FALSE] \in Pending
      BY <2>3, <2>4, Zenon
    <3>3. QED
      BY <3>1, <3>2, Zenon
  <2>6. p \in Seq(Pending) /\ Len(p) = Len(q)
    BY <2>1, <2>5
  <2>7. Good(t, p)
    <3>1. \A i \in 1 .. Len(q) :
            /\ p[i].kind = q[i].kind /\ p[i].on = q[i].on
            /\ p[i].sets = q[i].sets /\ p[i].stale = q[i].stale
      BY <2>4, Zenon
    <3>2. \A i, j \in 1 .. Len(q) :
            q[i].time <= q[j].time => p[i].time <= p[j].time
      BY <2>4, Zenon
    <3>3. QED
      BY <1>2, <2>6, <3>1, <3>2, RetimedIsGood, Zenon
  <2>8. QED
    BY <2>2, <2>4, <2>6, <2>7, Zenon
<1>3. ASSUME NEW t \in Thread
      PROVE  /\ Good(t, queue'[t]) /\ queue[t] \in Seq(Pending)
             /\ queue'[t] \in Seq(Pending) /\ Len(queue'[t]) = Len(queue[t])
             /\ \A i \in 1 .. Len(queue[t]) : queue'[t][i].time = queue[t][i].time
  <2>1. queue'[t] = Answer(queue[t])
    BY <1>1, Zenon
  <2>2. queue[t] \in Seq(Pending) /\ Good(t, queue[t])
    BY Zenon DEF IInv, Queues
  <2>3. QED
    BY <1>2, <2>1, <2>2, Zenon
<1>4. Queues'
  BY <1>1, <1>3, Zenon DEF Queues
<1>5. AtOnce'
  BY <1>3 DEF IInv, AtOnce, AllDue, Thread
<1>6. Awoken'
  <2>1. ASSUME NEW t \in Thread
        PROVE  Woken(queue'[t], tpc'[t], sleepFor'[t], wakeLock'[t])
    <3>1. Woken(queue[t], tpc[t], sleepFor[t], wakeLock[t])
      BY DEF IInv, Awoken
    <3>2. /\ queue'[t] = <<>> <=> queue[t] = <<>>
          /\ queue[t] # <<>> => queue'[t][1].time = queue[t][1].time
      <4>1. queue[t] \in Seq(Pending) /\ queue'[t] \in Seq(Pending)
            /\ Len(queue'[t]) = Len(queue[t])
        BY <1>3, Zenon
      <4>2. queue'[t] = <<>> <=> queue[t] = <<>>
        BY <4>1, EmptySeq
      <4>3. queue[t] # <<>> => 1 \in 1 .. Len(queue[t])
        BY <4>1, EmptySeq
      <4>4. QED
        BY <1>3, <4>2, <4>3, Zenon
    <3>3. QED
      BY <1>1, <3>1, <3>2 DEF Woken
  <2>2. QED
    BY <2>1, Zenon DEF Awoken
<1>7. Threads' /\ Service'
  BY <1>1, Zenon DEF IInv, Threads, Service
<1>8. Ending'
  BY <1>1 DEF IInv, Ending, RefersToService
<1>9. QED
  BY <1>4, <1>5, <1>6, <1>7, <1>8, Zenon DEF IInv

(* A queue one unit of time later.                                         *)
Later(q) == [i \in DOMAIN q |-> [q[i] EXCEPT !.time = Less(@)]]

LEMMA TickKeeps ==
  ASSUME IInv, Tick
  PROVE  IInv'
<1>1. /\ queue' = [t \in Thread |-> Later(queue[t])]
      /\ sleepFor' = [t \in Thread |-> IF sleepFor[t] = Forever THEN Forever
                                       ELSE Less(sleepFor[t])]
      /\ UNCHANGED <<wakeLock, tpc, exitPending, svcLock, waiting, referenced,
                     destroying, exiting>>
  BY Zenon DEF Tick, Later, lockVars, lifeVars
<1>2. ASSUME NEW t \in Thread, NEW q \in Seq(Pending), Good(t, q)
      PROVE  /\ Later(q) \in Seq(Pending) /\ Len(Later(q)) = Len(q)
             /\ \A i \in 1 .. Len(q) : Later(q)[i].time = Less(q[i].time)
             /\ Good(t, Later(q))
  <2>1. /\ DOMAIN q = 1 .. Len(q) /\ Len(q) \in Nat
        /\ \A i \in 1 .. Len(q) : q[i] \in Pending
    BY LenProperties, ElementOfSeq
  <2>2. PICK p : p = Later(q)
    OBVIOUS
  <2>3. \A i \in 1 .. Len(q) : p[i] = [q[i] EXCEPT !.time = Less(@)]
    BY <2>1, <2>2, Zenon DEF Later
  <2>4. ASSUME NEW i \in 1 .. Len(q)
        PROVE  /\ p[i] \in Pending /\ p[i].kind = q[i].kind /\ p[i].on = q[i].on
               /\ p[i].sets = q[i].sets /\ p[i].stale = q[i].stale
               /\ p[i].time = Less(q[i].time) /\ q[i].time \in Nat
    <3>1. PICK d \in Pending : d = q[i]
      BY <2>1
    <3>2. p[i] = [d EXCEPT !.time = Less(@)]
      BY <2>3, <3>1
    <3>3. Less(d.time) \in Delay /\ d.time \in Nat
      BY BoundAssumption DEF Pending, Delay, Less
    <3>4. QED
      BY <3>1, <3>2, <3>3 DEF Pending
  <2>5. p \in [1 .. Len(q) -> Pending]
    <3>1. p = [i \in 1 .. Len(q) |-> [q[i] EXCEPT !.time = Less(@)]]
      BY <2>1, <2>2, Zenon DEF Later
    <3>2. \A i \in 1 .. Len(q) : [q[i] EXCEPT !.time = Less(@)] \in Pending
      BY <2>3, <2>4, Zenon
    <3>3. QED
      BY <3>1, <3>2, Zenon
  <2>6. p \in Seq(Pending) /\ Len(p) = Len(q)
    BY <2>1, <2>5
  <2>7. Good(t, p)
    <3>1. \A i \in 1 .. Len(q) :
            /\ p[i].kind = q[i].kind /\ p[i].on = q[i].on
            /\ p[i].sets = q[i].sets /\ p[i].stale = q[i].stale
      BY <2>4, Zenon
    <3>2. \A i, j \in 1 .. Len(q) :
            q[i].time <= q[j].time => p[i].time <= p[j].time
      BY <2>4, LessIsMonotone, Zenon
    <3>3. QED
      BY <1>2, <2>6, <3>1, <3>2, RetimedIsGood, Zenon
  <2>8. QED
    BY <2>2, <2>4, <2>6, <2>7, Zenon
<1>3. ASSUME NEW t \in Thread
      PROVE  /\ Good(t, queue'[t]) /\ queue[t] \in Seq(Pending)
             /\ queue'[t] \in Seq(Pending) /\ Len(queue'[t]) = Len(queue[t])
             /\ \A i \in 1 .. Len(queue[t]) :
                  queue'[t][i].time = Less(queue[t][i].time)
  <2>1. queue'[t] = Later(queue[t])
    BY <1>1, Zenon
  <2>2. queue[t] \in Seq(Pending) /\ Good(t, queue[t])
    BY Zenon DEF IInv, Queues
  <2>3. QED
    BY <1>2, <2>1, <2>2, Zenon
<1>4. Queues'
  BY <1>1, <1>3, Zenon DEF Queues
<1>5. AtOnce'
  <2>1. Less(0) = 0 /\ "ApmOutput" \in Thread
    BY DEF Less, Thread
  <2>2. QED
    BY <1>3, <2>1, Zenon DEF IInv, AtOnce, AllDue
<1>6. Awoken'
  <2>1. ASSUME NEW t \in Thread
        PROVE  Woken(queue'[t], tpc'[t], sleepFor'[t], wakeLock'[t])
    <3>1. /\ Woken(queue[t], tpc[t], sleepFor[t], wakeLock[t])
          /\ sleepFor[t] \in 0 .. Forever
          /\ sleepFor'[t] = IF sleepFor[t] = Forever THEN Forever
                            ELSE Less(sleepFor[t])
      BY <1>1 DEF IInv, Awoken, Threads
    <3>2. queue'[t] = <<>> <=> queue[t] = <<>>
      BY <1>3, EmptySeq
    <3>3. ASSUME queue[t] # <<>>
          PROVE  /\ queue'[t][1].time = Less(queue[t][1].time)
                 /\ queue[t][1].time \in Delay
      <4>1. queue[t] \in Seq(Pending) /\ 1 \in 1 .. Len(queue[t])
        BY <1>3, <3>3, EmptySeq
      <4>2. queue[t][1] \in Pending
        BY <4>1, ElementOfSeq
      <4>3. QED
        BY <1>3, <4>1, <4>2, PendingFields, Zenon
    <3>4. CASE queue[t] = <<>>
      BY <1>1, <3>1, <3>2, <3>4 DEF Woken
    <3>5. CASE queue[t] # <<>>
      <4>1. ASSUME sleepFor[t] <= queue[t][1].time
            PROVE  sleepFor'[t] <= queue'[t][1].time
        <5>1. /\ sleepFor[t] \in Nat /\ queue[t][1].time \in Nat
              /\ sleepFor[t] # Forever
          BY <3>1, <3>3, <3>5, <4>1, BoundAssumption DEF Delay, Forever
        <5>2. Less(sleepFor[t]) <= Less(queue[t][1].time)
          BY <4>1, <5>1, LessIsMonotone, Zenon
        <5>3. QED
          BY <3>1, <3>3, <3>5, <5>1, <5>2, Zenon
      <4>2. QED
        BY <1>1, <3>1, <3>2, <3>5, <4>1, Zenon DEF Woken
    <3>6. QED
      BY <3>4, <3>5
  <2>2. QED
    BY <2>1, Zenon DEF Awoken
<1>7. Threads'
  <2>1. ASSUME NEW t \in Thread
        PROVE  (IF sleepFor[t] = Forever THEN Forever ELSE Less(sleepFor[t]))
                 \in 0 .. Forever
    BY BoundAssumption DEF IInv, Threads, Forever, Less
  <2>2. sleepFor' \in [Thread -> 0 .. Forever]
    BY <1>1, <2>1, Zenon
  <2>3. QED
    BY <1>1, <2>2, Zenon DEF IInv, Threads
<1>8. Service'
  BY <1>1, Zenon DEF IInv, Service
<1>9. Ending'
  BY <1>1 DEF IInv, Ending, RefersToService
<1>10. QED
  BY <1>4, <1>5, <1>6, <1>7, <1>8, <1>9, Zenon DEF IInv
-----------------------------------------------------------------------------
(* The steps that move a thread, or the service, and leave the queues.     *)
LEMMA MovesKeep ==
  ASSUME IInv, NEW t \in Thread,
         \/ ServeLock(t) \/ ServeUnlock(t) \/ Clear(t)
         \/ Sleep(t) \/ WakeUp(t) \/ Quit(t)
  PROVE  IInv'
<1>1. ASSUME NEW x, tpc' = [tpc EXCEPT ![t] = x], NEW u \in Thread
      PROVE  tpc'[u] = IF u = t THEN x ELSE tpc[u]
  BY <1>1 DEF IInv, Threads
<1>2. /\ tpc[t] \in {"serve", "locked", "clear"} => destroying = Nobody
      /\ tpc[t] \in {"run", "asleep"} =>
           ~(destroying = t /\ exiting \in {1, 2})
  BY DEF IInv, Ending, RefersToService
<1>3. destroying = Nobody => exiting = 0 /\ destroying \notin Thread
  BY Names DEF IInv, Ending
<1>4. CASE ServeLock(t) \/ ServeUnlock(t)
  <2>1. PICK x \in {"locked", "clear"} :
          /\ tpc[t] \in {"serve", "locked"} /\ tpc' = [tpc EXCEPT ![t] = x]
          /\ svcLock' = t \/ svcLock' = Nobody
          /\ UNCHANGED <<queue, wakeLock, sleepFor, exitPending, waiting,
                         referenced, destroying, exiting>>
    BY <1>4 DEF ServeLock, ServeUnlock, queueVars, lifeVars
  <2>2. Queues' /\ AtOnce'
    BY <2>1, QueuesKept, Zenon
  <2>3. Threads' /\ Service'
    BY <2>1 DEF IInv, Threads, Service
  <2>4. Awoken'
    <3>1. \A u \in Thread : tpc'[u] = IF u = t THEN x ELSE tpc[u]
      BY <1>1, <2>1, Zenon
    <3>2. QED
      BY <2>1, <3>1 DEF IInv, Awoken, Woken
  <2>5. Ending'
    BY <1>2, <1>3, <2>1 DEF Ending
  <2>6. QED
    BY <2>2, <2>3, <2>4, <2>5, Zenon DEF IInv
<1>5. CASE Clear(t)
  <2>1. /\ tpc[t] = "clear"
        /\ UNCHANGED <<queue, wakeLock, sleepFor, exitPending, svcLock, waiting,
                       referenced>>
    BY <1>5 DEF Clear, queueVars, lockVars
  <2>2. \/ tpc' = [tpc EXCEPT ![t] = "run"] /\ UNCHANGED <<destroying, exiting>>
        \/ /\ ~referenced /\ \A u \in Thread \ {t} : ~RefersToService(u)
           /\ tpc' = [tpc EXCEPT ![t] = "destroy"]
           /\ destroying' = t /\ exiting' = 1
    BY <1>5 DEF Clear
  <2>3. PICK x \in {"run", "destroy"} : tpc' = [tpc EXCEPT ![t] = x]
    BY <2>2
  <2>4. Queues' /\ AtOnce'
    BY <2>1, QueuesKept, Zenon
  <2>5. Threads' /\ Service'
    BY <2>1, <2>2 DEF IInv, Threads, Service
  <2>6. \A u \in Thread : tpc'[u] = IF u = t THEN x ELSE tpc[u]
    BY <1>1, <2>3, Zenon
  <2>7. Awoken'
    BY <2>1, <2>6 DEF IInv, Awoken, Woken
  <2>8. Ending'
    <3>1. CASE UNCHANGED <<destroying, exiting>>
      BY <1>2, <1>3, <2>1, <3>1 DEF Ending
    <3>2. CASE /\ ~referenced /\ \A u \in Thread \ {t} : ~RefersToService(u)
               /\ tpc' = [tpc EXCEPT ![t] = "destroy"]
               /\ destroying' = t /\ exiting' = 1
      <4>1. \A u \in Thread : tpc'[u] = IF u = t THEN "destroy" ELSE tpc[u]
        BY <1>1, <3>2, Zenon
      <4>2. QED
        BY <2>1, <3>2, <4>1, Names DEF Ending, RefersToService
    <3>3. QED
      BY <2>2, <3>1, <3>2
  <2>9. QED
    BY <2>4, <2>5, <2>7, <2>8, Zenon DEF IInv
<1>6. CASE Sleep(t)
  <2>1. /\ tpc[t] = "run" /\ tpc' = [tpc EXCEPT ![t] = "asleep"]
        /\ wakeLock' = [wakeLock EXCEPT ![t] = @ /\ queue[t] # <<>>]
        /\ sleepFor' = [sleepFor EXCEPT ![t] =
                          IF queue[t] = <<>> THEN Forever ELSE queue[t][1].time]
        /\ UNCHANGED <<queue, exitPending, svcLock, waiting, referenced,
                       destroying, exiting>>
    BY <1>6 DEF Sleep, lockVars, lifeVars
  <2>2. Queues' /\ AtOnce'
    BY <2>1, QueuesKept, Zenon
  <2>3. queue[t] # <<>> => queue[t][1].time \in 0 .. Forever
    <3>1. ASSUME queue[t] # <<>> PROVE queue[t][1].time \in 0 .. Forever
      <4>1. queue[t] \in Seq(Pending)
        BY DEF IInv, Queues
      <4>2. 1 \in 1 .. Len(queue[t])
        BY <3>1, <4>1, EmptySeq
      <4>3. queue[t][1] \in Pending
        BY <4>1, <4>2, ElementOfSeq
      <4>4. queue[t][1].time \in Delay
        BY <4>3, PendingFields, Zenon
      <4>5. QED
        BY <4>4, BoundAssumption DEF Delay, Forever
    <3>2. QED
      BY <3>1
  <2>4. Forever \in 0 .. Forever
    BY BoundAssumption DEF Forever
  <2>5. Threads' /\ Service'
    BY <2>1, <2>3, <2>4 DEF IInv, Threads, Service
  <2>6. \A u \in Thread : tpc'[u] = IF u = t THEN "asleep" ELSE tpc[u]
    BY <1>1, <2>1, Zenon
  <2>7. Awoken'
    <3>1. ASSUME NEW u \in Thread
          PROVE  Woken(queue'[u], tpc'[u], sleepFor'[u], wakeLock'[u])
      <4>1. Woken(queue[u], tpc[u], sleepFor[u], wakeLock[u])
        BY DEF IInv, Awoken
      <4>2. CASE u = t
        <5>1. /\ sleepFor'[u] = IF queue[u] = <<>> THEN Forever
                                ELSE queue[u][1].time
              /\ queue[u] = <<>> => ~wakeLock'[u]
              /\ queue[u] # <<>> /\ wakeLock[u] => wakeLock'[u]
              /\ queue'[u] = queue[u] /\ tpc[u] = "run" /\ tpc'[u] = "asleep"
          BY <2>1, <4>2 DEF IInv, Threads
        <5>2. CASE queue[u] = <<>>
          BY <5>1, <5>2 DEF Woken
        <5>3. CASE queue[u] # <<>>
          <6>1. sleepFor'[u] <= queue'[u][1].time
            BY <2>3, <4>2, <5>1, <5>3
          <6>2. wakeLock'[u]
            BY <4>1, <5>1, <5>3 DEF Woken
          <6>3. QED
            BY <5>1, <5>3, <6>1, <6>2, Zenon DEF Woken
        <5>4. QED
          BY <5>2, <5>3
      <4>3. CASE u # t
        <5>1. /\ tpc'[u] = tpc[u] /\ sleepFor'[u] = sleepFor[u]
              /\ wakeLock'[u] = wakeLock[u] /\ queue'[u] = queue[u]
          BY <2>1, <2>6, <4>3 DEF IInv, Threads
        <5>2. QED
          BY <4>1, <5>1, Zenon
      <4>4. QED
        BY <4>2, <4>3
    <3>2. QED
      BY <3>1, Zenon DEF Awoken
  <2>8. Ending'
    BY <1>2, <2>1, <2>6 DEF IInv, Ending, RefersToService
  <2>9. QED
    BY <2>2, <2>5, <2>7, <2>8, Zenon DEF IInv
<1>7. CASE WakeUp(t)
  <2>1. /\ tpc[t] = "asleep" /\ tpc' = [tpc EXCEPT ![t] = "run"]
        /\ sleepFor' = [sleepFor EXCEPT ![t] = Forever]
        /\ UNCHANGED <<queue, wakeLock, exitPending, svcLock, waiting, referenced,
                       destroying, exiting>>
    BY <1>7 DEF WakeUp, Awake, queueVars, lockVars, lifeVars, IInv, Threads
  <2>2. Queues' /\ AtOnce'
    BY <2>1, QueuesKept, Zenon
  <2>3. Forever \in 0 .. Forever
    BY BoundAssumption DEF Forever
  <2>4. Threads' /\ Service'
    BY <2>1, <2>3 DEF IInv, Threads, Service
  <2>5. \A u \in Thread : tpc'[u] = IF u = t THEN "run" ELSE tpc[u]
    BY <1>1, <2>1, Zenon
  <2>6. Awoken'
    <3>1. \A u \in Thread \ {t} : sleepFor'[u] = sleepFor[u]
      BY <2>1 DEF IInv, Threads
    <3>2. QED
      BY <2>1, <2>5, <3>1 DEF IInv, Awoken, Woken
  <2>7. Ending'
    BY <1>2, <2>1, <2>5 DEF IInv, Ending, RefersToService
  <2>8. QED
    BY <2>2, <2>4, <2>6, <2>7, Zenon DEF IInv
<1>8. CASE Quit(t)
  <2>1. /\ tpc[t] = "run" /\ tpc' = [tpc EXCEPT ![t] = "gone"]
        /\ wakeLock' = [wakeLock EXCEPT ![t] = FALSE]
        /\ UNCHANGED <<queue, sleepFor, exitPending, svcLock, waiting, referenced,
                       destroying, exiting>>
    BY <1>8 DEF Quit, lockVars, lifeVars
  <2>2. Queues' /\ AtOnce'
    BY <2>1, QueuesKept, Zenon
  <2>3. Threads' /\ Service'
    BY <2>1 DEF IInv, Threads, Service
  <2>4. \A u \in Thread : tpc'[u] = IF u = t THEN "gone" ELSE tpc[u]
    BY <1>1, <2>1, Zenon
  <2>5. Awoken'
    <3>1. \A u \in Thread \ {t} : wakeLock'[u] = wakeLock[u]
      BY <2>1 DEF IInv, Threads
    <3>2. QED
      BY <2>1, <2>4, <3>1 DEF IInv, Awoken, Woken
  <2>6. Ending'
    BY <1>2, <2>1, <2>4 DEF IInv, Ending, RefersToService
  <2>7. QED
    BY <2>2, <2>3, <2>5, <2>6, Zenon DEF IInv
<1>9. QED
  BY <1>4, <1>5, <1>6, <1>7, <1>8, Zenon

(* The end of the service.                                                 *)
LEMMA ServiceEnds ==
  ASSUME IInv, Drop \/ RequestExit \/ Join
  PROVE  IInv'
<1>1. queue' = queue /\ wakeLock' = wakeLock
  BY DEF Drop, RequestExit, Join, queueVars
<1>2. Queues' /\ AtOnce'
  BY <1>1, QueuesKept, Zenon
<1>3. CASE Drop
  <2>1. /\ UNCHANGED <<tpc, sleepFor, exitPending, svcLock, waiting>>
        /\ referenced /\ referenced' = FALSE
        /\ \/ UNCHANGED <<destroying, exiting>>
           \/ /\ \A t \in Thread : ~RefersToService(t)
              /\ destroying' = Client /\ exiting' = 1
    BY <1>3 DEF Drop, threadVars, lockVars
  <2>2. destroying = Nobody /\ destroying \notin Thread
    BY <2>1, Names DEF IInv, Ending
  <2>3. Service'
    <3>1. referenced' \in BOOLEAN /\ waiting' \in BOOLEAN
      BY <2>1, Zenon DEF IInv, Service
    <3>2. QED
      BY <2>1, <3>1 DEF IInv, Service
  <2>4. Threads' /\ Awoken'
    BY <1>1, <2>1, Zenon DEF IInv, Threads, Awoken
  <2>5. Ending'
    BY <2>1, <2>2, Names DEF IInv, Ending, RefersToService
  <2>6. QED
    BY <1>2, <2>3, <2>4, <2>5, Zenon DEF IInv
<1>4. CASE RequestExit
  <2>1. PICK t \in Thread :
          /\ exitPending' = [exitPending EXCEPT ![t] = TRUE]
          /\ tpc' = [tpc EXCEPT ![t] = IF @ = "asleep" THEN "run" ELSE @]
          /\ sleepFor' = [sleepFor EXCEPT ![t] = Forever]
          /\ UNCHANGED <<svcLock, waiting, referenced, destroying, exiting>>
    <3>1. exiting = 1 \/ exiting = 2
      BY <1>4, Names DEF RequestExit
    <3>2. ExitOrder[exiting] \in Thread
      BY <3>1, Names
    <3>3. QED
      BY <1>4, <3>2, Zenon DEF RequestExit, Awake, lockVars, lifeVars
  <2>2. Forever \in 0 .. Forever
    BY BoundAssumption DEF Forever
  <2>3. Threads'
    BY <1>1, <2>1, <2>2 DEF IInv, Threads
  <2>4. Service'
    BY <2>1, Zenon DEF IInv, Service
  <2>5. \A u \in Thread :
          tpc'[u] = IF u = t /\ tpc[u] = "asleep" THEN "run" ELSE tpc[u]
    BY <2>1 DEF IInv, Threads
  <2>6. Awoken'
    <3>1. \A u \in Thread \ {t} : sleepFor'[u] = sleepFor[u]
      BY <2>1 DEF IInv, Threads
    <3>2. QED
      BY <1>1, <2>5, <3>1 DEF IInv, Awoken, Woken
  <2>7. Ending'
    BY <2>1, <2>5 DEF IInv, Ending, RefersToService
  <2>8. QED
    BY <1>2, <2>3, <2>4, <2>6, <2>7, Zenon DEF IInv
<1>5. CASE Join
  <2>1. /\ exiting \in {1, 2} /\ exiting' = exiting + 1
        /\ tpc' = IF exiting' \notin {1, 2} /\ destroying \in Thread
                  THEN [tpc EXCEPT ![destroying] = "run"] ELSE tpc
        /\ UNCHANGED <<sleepFor, exitPending, svcLock, waiting, referenced,
                       destroying>>
    BY <1>5, Names DEF Join, lockVars
  <2>2. exiting' \in {2, 3} /\ (exiting' = 2 => exiting = 1 /\ tpc' = tpc)
    BY <2>1
  <2>3. Threads'
    BY <1>1, <2>1 DEF IInv, Threads
  <2>4. Service'
    <3>1. referenced' \in BOOLEAN /\ waiting' \in BOOLEAN
      BY <2>1, Zenon DEF IInv, Service
    <3>2. QED
      BY <2>1, <2>2, <3>1 DEF IInv, Service
  <2>5. \A u \in Thread :
          \/ tpc'[u] = tpc[u]
          \/ u = destroying /\ tpc[u] = "destroy" /\ tpc'[u] = "run"
    BY <2>1 DEF IInv, Threads, Ending
  <2>6. Awoken'
    BY <1>1, <2>1, <2>5 DEF IInv, Awoken, Woken
  <2>7. Ending'
    BY <2>1, <2>2, <2>5 DEF IInv, Ending, RefersToService
  <2>8. QED
    BY <1>2, <2>3, <2>4, <2>6, <2>7, Zenon DEF IInv
<1>6. QED
  BY <1>3, <1>4, <1>5, Zenon
-----------------------------------------------------------------------------
(* Every step keeps the invariant.                                         *)
LEMMA NextKeeps == IInv /\ [Next]_vars => IInv'
<1> SUFFICES ASSUME IInv, [Next]_vars PROVE IInv'
  OBVIOUS
<1>1. CASE UNCHANGED vars
  <2>1. /\ UNCHANGED <<queue, wakeLock, tpc, sleepFor, exitPending, svcLock,
                       waiting, referenced, destroying, exiting>>
    BY <1>1, Zenon DEF vars, queueVars, threadVars, lockVars, lifeVars
  <2>2. Queues' /\ AtOnce'
    BY <2>1, QueuesKept, Zenon
  <2>3. Threads' /\ Service' /\ Awoken' /\ Ending'
    BY <2>1, Zenon
    DEF IInv, Threads, Service, Awoken, Ending, RefersToService
  <2>4. QED
    BY <2>2, <2>3, Zenon DEF IInv
<1>2. ASSUME NEW c \in Commands,
             ClientStops(c) \/ \E d \in Delay : ClientSets(c, d)
      PROVE  IInv'
  <2>1. "ApmAudio" \in Thread /\ 0 \in Delay
    BY BoundAssumption DEF Thread, Delay
  <2>2. QED
    BY <1>2, <2>1, CallersKeep, Zenon
<1>3. ASSUME NEW t \in Thread, NEW c \in Commands, NEW d \in Delay,
             ServeSets(t, c, d)
      PROVE  IInv'
  BY <1>3, CallersKeep, Zenon
<1>4. ASSUME NEW t \in Thread, ThreadStep(t) PROVE IInv'
  BY <1>4, ApplyKeeps, PromoteKeeps, MovesKeep, Zenon DEF ThreadStep
<1>5. CASE WaitTimesOut
  BY <1>5, WaitTimesOutKeeps, Zenon
<1>6. CASE Drop \/ RequestExit \/ Join
  BY <1>6, ServiceEnds, Zenon
<1>7. CASE Tick
  BY <1>7, TickKeeps, Zenon
<1>8. QED
  BY <1>1, <1>2, <1>3, <1>4, <1>5, <1>6, <1>7, Zenon DEF Next

(* Whatever is sent and however the threads run: the queues, the threads   *)
(* and the service are as IInv says.                                       *)
THEOREM Inductive == Spec => []IInv
BY InitIInv, NextKeeps, PTL DEF Spec

LEMMA IInvImplies == IInv => TypeOK /\ LastSentWins /\ WokenInTime
<1> SUFFICES ASSUME IInv PROVE TypeOK /\ LastSentWins /\ WokenInTime
  OBVIOUS
<1>1. ASSUME NEW t \in Thread
      PROVE  /\ queue[t] \in Seq(Pending) /\ Good(t, queue[t])
             /\ DOMAIN queue[t] = 1 .. Len(queue[t])
  <2>1. queue[t] \in Seq(Pending) /\ Good(t, queue[t])
    BY Zenon DEF IInv, Queues
  <2>2. QED
    BY <2>1, LenProperties
<1>2. TypeOK
  <2>1. \A t \in Thread : \A i \in DOMAIN queue[t] :
          /\ ThreadFor(queue[t][i].kind) = t /\ queue[t][i].sets # {}
          /\ queue[t][i].stale \subseteq queue[t][i].sets
    BY <1>1, Zenon DEF Good, Fits
  <2>2. {waiting, referenced} \subseteq BOOLEAN
    BY Zenon DEF IInv, Service
  <2>3. QED
    BY <2>1, <2>2, Zenon DEF TypeOK, IInv, Queues, Threads, Service
<1>3. LastSentWins
  BY <1>1, Zenon DEF LastSentWins, Good, Superseded, Supersedes
<1>4. WokenInTime
  <2>1. ASSUME NEW t \in Thread
        PROVE  /\ \A i, j \in DOMAIN queue[t] :
                    i < j => queue[t][i].time <= queue[t][j].time
               /\ Woken(queue[t], tpc[t], sleepFor[t], wakeLock[t])
               /\ queue[t] # <<>> => Head(queue[t]) = queue[t][1]
    <3>1. queue[t] # <<>> => Head(queue[t]) = queue[t][1]
      BY <1>1
    <3>2. QED
      BY <1>1, <3>1, Zenon DEF IInv, Awoken, Good, Ordered
  <2>2. QED
    BY <2>1, Zenon DEF WokenInTime, Woken
<1>5. QED
  BY <1>2, <1>3, <1>4

(* Every command that is pending is in the queue of its thread.            *)
THEOREM TypeCorrect == Spec => []TypeOK
BY Inductive, IInvImplies, PTL

(* Of the commands insertCommand_l() takes for the same, the last one sent *)
(* is the last to be applied, key by key, whatever the delays.             *)
THEOREM LastSentIsLast == Spec => []LastSentWins
BY Inductive, IInvImplies, PTL

(* No thread sleeps past its first command, nor lets the device sleep      *)
(* before that.                                                            *)
THEOREM NoneOversleeps == Spec => []WokenInTime
BY Inductive, IInvImplies, PTL
=============================================================================
