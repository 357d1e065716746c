---------------------------- MODULE LooperProofs ----------------------------
(***************************************************************************)
(* For every number of messages, threads and delays: a looper delivers in  *)
(* order what is due, and its thread sleeps no longer than it may.         *)
(***************************************************************************)
EXTENDS Looper, SequenceTheorems, TLAPS

(* A message is posted once, so the order of posting is an order.          *)
Posted(order, m) == \E a \in 1 .. Len(order) : order[a] = m

PostedOnce ==
  /\ \A a, b \in 1 .. Len(posted) : posted[a] = posted[b] => a = b
  /\ \A m \in Message : cpc[m] = "new" => ~Posted(posted, m)

(* The queue is sorted by when its messages are due, then as posted.       *)
Ahead(when, order, m, n) ==
  \/ when[m] < when[n]
  \/ /\ when[m] = when[n]
     /\ \E a, b \in 1 .. Len(order) : a < b /\ order[a] = m /\ order[b] = n

InOrder(queue, when, order) ==
  /\ \A i \in 1 .. Len(queue) : Posted(order, queue[i])
  /\ \A i, j \in 1 .. Len(queue) : i < j => Ahead(when, order, queue[i], queue[j])

Sorted == InOrder(mEventQueue, mWhenUs, posted)

IInv == TypeOK /\ PostedOnce /\ Sorted /\ SleepsUntilDue
-----------------------------------------------------------------------------
(* What InsertAt returns.                                                  *)
IsInserted(D, s, k, e, r) ==
  /\ r \in Seq(D)
  /\ Len(r) = Len(s) + 1
  /\ \A i \in 1 .. k : r[i] = s[i]
  /\ r[k + 1] = e
  /\ \A i \in k + 2 .. Len(s) + 1 : r[i] = s[i - 1]

LEMMA Insert ==
  ASSUME NEW D, NEW s \in Seq(D), NEW k \in 0 .. Len(s), NEW e \in D
  PROVE  IsInserted(D, s, k, e, InsertAt(s, k + 1, e))
<1> DEFINE a == SubSeq(s, 1, k)
           b == SubSeq(s, k + 1, Len(s))
<1>1. /\ Len(s) \in Nat /\ k \in Nat
      /\ \A i \in 1 .. Len(s) : s[i] \in D
  BY ElementOfSeq
<1>2. /\ a \in Seq(D) /\ Len(a) = k /\ \A i \in 1 .. k : a[i] = s[i]
  <2>1. \A i \in 1 .. k : s[i] \in D
    BY <1>1
  <2>2. /\ a \in Seq(D) /\ Len(a) = IF 1 <= k THEN k - 1 + 1 ELSE 0
        /\ \A i \in 1 .. k - 1 + 1 : a[i] = s[1 + i - 1]
    BY <1>1, <2>1, SubSeqProperties
  <2>3. QED
    BY <1>1, <2>2
<1>3. /\ b \in Seq(D) /\ Len(b) = Len(s) - k
      /\ \A i \in 1 .. Len(s) - k : b[i] = s[k + i]
  <2>1. \A i \in k + 1 .. Len(s) : s[i] \in D
    BY <1>1
  <2>2. /\ b \in Seq(D)
        /\ Len(b) = IF k + 1 <= Len(s) THEN Len(s) - (k + 1) + 1 ELSE 0
        /\ \A i \in 1 .. Len(s) - (k + 1) + 1 : b[i] = s[(k + 1) + i - 1]
    BY <1>1, <2>1, SubSeqProperties
  <2>3. QED
    BY <1>1, <2>2
<1>4. InsertAt(s, k + 1, e) = a \o <<e>> \o b
  <2>1. (k + 1) - 1 = k
    BY <1>1
  <2>2. QED
    BY <2>1, Zenon DEF InsertAt
<1> HIDE DEF a, b
<1>5. /\ a \o <<e>> \in Seq(D) /\ Len(a \o <<e>>) = k + 1
      /\ \A i \in 1 .. k + 1 : (a \o <<e>>)[i] = IF i <= k THEN s[i] ELSE e
  <2>1. <<e>> \in Seq(D) /\ Len(<<e>>) = 1 /\ <<e>>[1] = e
    OBVIOUS
  <2>2. /\ a \o <<e>> \in Seq(D) /\ Len(a \o <<e>>) = Len(a) + Len(<<e>>)
        /\ \A i \in 1 .. Len(a) + Len(<<e>>) :
             (a \o <<e>>)[i] = IF i <= Len(a) THEN a[i] ELSE <<e>>[i - Len(a)]
    BY <1>2, <2>1, ConcatProperties
  <2>3. QED
    BY <1>1, <1>2, <2>1, <2>2
<1> DEFINE c == a \o <<e>>
<1> HIDE DEF c
<1>6. /\ c \o b \in Seq(D) /\ Len(c \o b) = Len(s) + 1
      /\ \A i \in 1 .. Len(s) + 1 :
           (c \o b)[i] = IF i <= k + 1 THEN c[i] ELSE b[i - (k + 1)]
  <2>1. c \in Seq(D) /\ Len(c) = k + 1
    BY <1>5 DEF c
  <2>2. /\ c \o b \in Seq(D) /\ Len(c \o b) = Len(c) + Len(b)
        /\ \A i \in 1 .. Len(c) + Len(b) :
             (c \o b)[i] = IF i <= Len(c) THEN c[i] ELSE b[i - Len(c)]
    BY <1>3, <2>1, ConcatProperties
  <2>3. Len(b) = Len(s) - k /\ (k + 1) + (Len(s) - k) = Len(s) + 1
    BY <1>1, <1>3
  <2>4. QED
    BY <2>1, <2>2, <2>3, ZenonT(60)
<1>7. ASSUME NEW i \in 1 .. Len(s) + 1
      PROVE  (c \o b)[i] = IF i <= k THEN s[i] ELSE IF i = k + 1 THEN e
                                               ELSE s[i - 1]
  <2>1. CASE i <= k + 1
    BY <1>1, <1>5, <1>6, <2>1 DEF c
  <2>2. CASE ~(i <= k + 1)
    <3>1. /\ i - (k + 1) \in 1 .. Len(s) - k /\ k + (i - (k + 1)) = i - 1
          /\ ~(i <= k) /\ i # k + 1
      BY <1>1, <2>2
    <3>2. b[i - (k + 1)] = s[i - 1]
      BY <1>3, <3>1, Zenon
    <3>3. QED
      BY <1>6, <2>2, <3>1, <3>2, Zenon
  <2>3. QED
    BY <2>1, <2>2
<1>8. QED
  <2>1. InsertAt(s, k + 1, e) = c \o b
    BY <1>4, Zenon DEF c
  <2>2. /\ \A i \in 1 .. k : (c \o b)[i] = s[i]
        /\ (c \o b)[k + 1] = e
        /\ \A i \in k + 2 .. Len(s) + 1 : (c \o b)[i] = s[i - 1]
    <3>1. ASSUME NEW i \in 1 .. k PROVE (c \o b)[i] = s[i]
      <4>1. i \in 1 .. Len(s) + 1 /\ i <= k
        BY <1>1
      <4>2. QED
        BY <1>7, <4>1, Zenon
    <3>2. (c \o b)[k + 1] = e
      <4>1. k + 1 \in 1 .. Len(s) + 1 /\ ~(k + 1 <= k)
        BY <1>1
      <4>2. QED
        BY <1>7, <4>1, Zenon
    <3>3. ASSUME NEW i \in k + 2 .. Len(s) + 1 PROVE (c \o b)[i] = s[i - 1]
      <4>1. i \in 1 .. Len(s) + 1 /\ ~(i <= k) /\ i # k + 1
        BY <1>1
      <4>2. QED
        BY <1>7, <4>1, Zenon
    <3>4. QED
      BY <3>1, <3>2, <3>3, Zenon
  <2>3. QED
    BY <1>6, <2>1, <2>2, Zenon DEF IsInserted
-----------------------------------------------------------------------------
(* Behind those due earlier or at the same time, a message that was just   *)
(* posted is where it belongs.                                             *)
LEMMA InsertKeepsOrder ==
  ASSUME NEW q \in Seq(Message), NEW when \in [Message -> Nat],
         NEW order \in Seq(Message), InOrder(q, when, order),
         NEW m \in Message, ~Posted(order, m), NEW w \in Nat,
         NEW k \in 0 .. Len(q),
         \A i \in 1 .. k : when[q[i]] <= w,
         k < Len(q) => when[q[k + 1]] > w
  PROVE  InOrder(InsertAt(q, k + 1, m), [when EXCEPT ![m] = w], Append(order, m))
<1> DEFINE q2 == InsertAt(q, k + 1, m)
           when2 == [when EXCEPT ![m] = w]
           order2 == Append(order, m)
<1>1. /\ Len(q) \in Nat /\ k \in Nat /\ Len(order) \in Nat
      /\ \A i \in 1 .. Len(q) : q[i] \in Message
      /\ \A a \in 1 .. Len(order) : order[a] \in Message
  BY ElementOfSeq
<1>2. /\ Len(q2) = Len(q) + 1
      /\ \A i \in 1 .. k : q2[i] = q[i]
      /\ q2[k + 1] = m
      /\ \A i \in k + 2 .. Len(q) + 1 : q2[i] = q[i - 1]
  <2>1. IsInserted(Message, q, k, m, q2)
    BY Insert, Zenon
  <2> QED BY <2>1, Zenon DEF IsInserted
<1>3. /\ Len(order2) = Len(order) + 1 /\ order2[Len(order) + 1] = m
      /\ \A a \in 1 .. Len(order) : order2[a] = order[a]
  BY <1>1
<1>4. /\ when2[m] = w /\ when2 \in [Message -> Nat]
      /\ \A n \in Message \ {m} : when2[n] = when[n]
  OBVIOUS
<1> HIDE DEF q2, when2, order2
<1>5. \A i \in 1 .. Len(q) : q[i] # m /\ q[i] \in Message /\ Posted(order, q[i])
  BY <1>1, Zenon DEF InOrder
<1>6. ASSUME NEW n, Posted(order, n) PROVE Posted(order2, n)
  <2>1. PICK a \in 1 .. Len(order) : order[a] = n
    BY <1>6 DEF Posted
  <2>2. a \in 1 .. Len(order2) /\ order2[a] = n
    BY <1>1, <1>3, <2>1
  <2>3. QED
    BY <2>2 DEF Posted
<1>7. ASSUME NEW i \in 1 .. Len(q2) PROVE Posted(order2, q2[i])
  <2>1. CASE i = k + 1
    <3>1. q2[i] = m /\ Len(order) + 1 \in 1 .. Len(order2)
      BY <1>1, <1>2, <1>3, <2>1
    <3>2. QED
      BY <1>3, <3>1, Zenon DEF Posted
  <2>2. CASE i # k + 1
    <3>1. \E j \in 1 .. Len(q) : q2[i] = q[j]
      <4>1. CASE i <= k
        <5>1. i \in 1 .. k /\ i \in 1 .. Len(q)
          BY <1>1, <1>2, <4>1, SMTT(60)
        <5>2. QED
          BY <1>2, <5>1, ZenonT(60)
      <4>2. CASE ~(i <= k)
        <5>1. i - 1 \in 1 .. Len(q)
          BY <1>1, <1>2, <2>2, <4>2, SMTT(60)
        <5>2. QED
          BY <1>1, <1>2, <2>2, <4>2, <5>1, SMTT(60)
      <4>3. QED
        BY <4>1, <4>2
    <3>2. QED
      BY <1>5, <1>6, <3>1, Zenon
  <2>3. QED
    BY <2>1, <2>2
<1>8. ASSUME NEW i \in 1 .. Len(q), NEW j \in 1 .. Len(q), i < j
      PROVE  Ahead(when2, order2, q[i], q[j])
  <2>1. when2[q[i]] = when[q[i]] /\ when2[q[j]] = when[q[j]]
    BY <1>4, <1>5
  <2>2. Ahead(when, order, q[i], q[j])
    BY <1>8, Zenon DEF InOrder
  <2>3. CASE when[q[i]] < when[q[j]]
    BY <2>1, <2>3 DEF Ahead
  <2>4. CASE ~(when[q[i]] < when[q[j]])
    <3>1. PICK a \in 1 .. Len(order), b \in 1 .. Len(order) :
            a < b /\ order[a] = q[i] /\ order[b] = q[j]
      BY <2>2, <2>4, Zenon DEF Ahead
    <3>2. /\ a \in 1 .. Len(order2) /\ b \in 1 .. Len(order2)
          /\ order2[a] = q[i] /\ order2[b] = q[j]
      BY <1>1, <1>3, <3>1
    <3>3. when2[q[i]] = when2[q[j]]
      BY <2>1, <2>2, <2>4, Zenon DEF Ahead
    <3>4. QED
      BY <3>1, <3>2, <3>3, Zenon DEF Ahead
  <2>5. QED
    BY <2>3, <2>4
<1>9. ASSUME NEW i \in 1 .. k PROVE Ahead(when2, order2, q[i], m)
  <2>1. i \in 1 .. Len(q)
    BY <1>1
  <2>2. when2[q[i]] = when[q[i]] /\ when[q[i]] <= w /\ when[q[i]] \in Nat
    BY <1>4, <1>5, <2>1
  <2>3. PICK a \in 1 .. Len(order) : order[a] = q[i]
    BY <1>5, <2>1, Zenon DEF Posted
  <2>4. /\ a \in 1 .. Len(order2) /\ Len(order) + 1 \in 1 .. Len(order2)
        /\ a < Len(order) + 1 /\ order2[a] = q[i]
    BY <1>1, <1>3, <2>3, SMTT(60)
  <2>5. \E c, d \in 1 .. Len(order2) : c < d /\ order2[c] = q[i] /\ order2[d] = m
    BY <1>3, <2>4, Zenon
  <2>a. PICK v \in Nat : v = when2[q[i]] /\ v <= w
    BY <2>2, Zenon
  <2>b. v <= w
    BY <2>a, Zenon
  <2>c. v < w \/ v = w
    BY <2>b
  <2>6. when2[q[i]] < w \/ when2[q[i]] = w
    BY <2>a, <2>c, Zenon
  <2>7. QED
    BY <1>4, <2>5, <2>6, Zenon DEF Ahead
<1>10. ASSUME NEW j \in k + 1 .. Len(q) PROVE Ahead(when2, order2, m, q[j])
  <2>1. j \in 1 .. Len(q) /\ k + 1 \in 1 .. Len(q) /\ k < Len(q)
    BY <1>1
  <2>2. when[q[k + 1]] > w /\ when[q[k + 1]] \in Nat /\ when[q[j]] \in Nat
    BY <1>5, <2>1
  <2>3. when[q[k + 1]] <= when[q[j]]
    <3>1. CASE j = k + 1
      BY <2>2, <3>1
    <3>2. CASE j # k + 1
      <4>1. k + 1 < j
        BY <1>1, <3>2
      <4>2. Ahead(when, order, q[k + 1], q[j])
        BY <2>1, <4>1, Zenon DEF InOrder
      <4>3. when[q[k + 1]] < when[q[j]] \/ when[q[k + 1]] = when[q[j]]
        BY <4>2, Zenon DEF Ahead
      <4>4. QED
        BY <2>2, <4>3
    <3>3. QED
      BY <3>1, <3>2
  <2>4. when2[q[j]] = when[q[j]]
    BY <1>4, <1>5, <2>1
  <2>5. when2[m] < when2[q[j]]
    <3>1. w < when[q[j]]
      BY <2>2, <2>3
    <3>2. QED
      BY <1>4, <2>4, <3>1, Zenon
  <2>6. QED
    BY <2>5, Zenon DEF Ahead
<1>11. ASSUME NEW i \in 1 .. Len(q2), NEW j \in 1 .. Len(q2), i < j
       PROVE  Ahead(when2, order2, q2[i], q2[j])
  <2>1. CASE j <= k
    <3>1. /\ i \in 1 .. Len(q) /\ j \in 1 .. Len(q)
          /\ q2[i] = q[i] /\ q2[j] = q[j]
      BY <1>1, <1>2, <1>11, <2>1, SMTT(60)
    <3>2. QED
      BY <1>8, <1>11, <3>1, Zenon
  <2>2. CASE j = k + 1
    <3>1. i \in 1 .. k /\ q2[i] = q[i] /\ q2[j] = m
      BY <1>1, <1>2, <1>11, <2>2, SMTT(60)
    <3>2. QED
      BY <1>9, <3>1, Zenon
  <2>3. CASE j > k + 1
    <3>1. j - 1 \in k + 1 .. Len(q) /\ j - 1 \in 1 .. Len(q) /\ q2[j] = q[j - 1]
      BY <1>1, <1>2, <2>3, SMTT(60)
    <3>2. CASE i = k + 1
      <4>1. q2[i] = m
        BY <1>2, <3>2, Zenon
      <4>2. QED
        BY <1>10, <3>1, <4>1, Zenon
    <3>3. CASE i # k + 1
      <4>1. PICK h \in 1 .. Len(q) : h < j - 1 /\ q2[i] = q[h]
        <5>1. CASE i <= k
          <6>1. i \in 1 .. k /\ i \in 1 .. Len(q) /\ i < j - 1
            BY <1>1, <1>2, <2>3, <5>1, SMTT(60)
          <6>2. QED
            BY <1>2, <6>1, Zenon
        <5>2. CASE ~(i <= k)
          <6>1. i - 1 \in 1 .. Len(q) /\ i - 1 < j - 1 /\ q2[i] = q[i - 1]
            BY <1>1, <1>2, <1>11, <3>3, <5>2, SMTT(60)
          <6>2. QED
            BY <6>1, Zenon
        <5>3. QED
          BY <5>1, <5>2
      <4>2. QED
        BY <1>8, <3>1, <4>1, Zenon
    <3>4. QED
      BY <3>2, <3>3
  <2>4. QED
    BY <1>1, <1>2, <2>1, <2>2, <2>3
<1>12. QED
  BY <1>7, <1>11, Zenon DEF InOrder, q2, when2, order2
-----------------------------------------------------------------------------
LEMMA InitInv == Init => IInv
<1> SUFFICES ASSUME Init PROVE IInv
  OBVIOUS
<1>1. /\ MaxDelay \in Nat /\ LastPost \in Nat /\ 0 \in Time
      /\ Len(mEventQueue) = 0 /\ Len(posted) = 0
  BY MessageAssumption DEF Init, Time
<1>2. TypeOK
  <2>1. mEventQueue \in Seq(Message) /\ posted \in Seq(Message)
    BY EmptySeq DEF Init
  <2>2. mWhenUs \in [Message -> Time] /\ mReplied \in [Message -> BOOLEAN]
    BY <1>1 DEF Init
  <2>3. cpc \in [Message -> {"new", "done", "await", "tested", "asleep", "OK",
                             "ENOENT"}]
    BY DEF Init
  <2>4. /\ mThread \in BOOLEAN /\ mRunningLocally \in BOOLEAN
        /\ local \in BOOLEAN /\ exitPending \in BOOLEAN
    BY DEF Init
  <2>5. QED
    BY <1>1, <2>1, <2>2, <2>3, <2>4 DEF Init, TypeOK
<1>3. PostedOnce /\ Sorted
  BY <1>1 DEF Init, PostedOnce, Sorted, InOrder, Posted
<1>4. SleepsUntilDue
  BY DEF Init, SleepsUntilDue
<1>5. QED
  BY <1>2, <1>3, <1>4 DEF IInv

(* What post() does, for whoever calls it.                                 *)
LEMMA Posting ==
  ASSUME IInv, NEW m \in Message, NEW d \in 0 .. MaxDelay, cpc[m] = "new",
         post(m, d)
  PROVE  /\ now + d \in Time /\ now' = now
         /\ mWhenUs' = [mWhenUs EXCEPT ![m] = now + d]
         /\ mWhenUs' \in [Message -> Time]
         /\ mEventQueue' \in Seq(Message) /\ mEventQueue' # <<>>
         /\ \/ Head(mEventQueue') = m /\ Signal
            \/ /\ Head(mEventQueue') # m /\ UNCHANGED tpc
               /\ mEventQueue # <<>> /\ Head(mEventQueue') = Head(mEventQueue)
         /\ Len(mEventQueue') = Len(mEventQueue) + 1
         /\ posted' = Append(posted, m) /\ posted' \in Seq(Message)
         /\ Sorted'
         /\ UNCHANGED <<looperVars, until, local, exitPending, handling, stopVars>>
<1>1. /\ now + d \in Nat /\ now + d \in Time /\ now' = now /\ Time \subseteq Nat
      /\ mWhenUs' = [mWhenUs EXCEPT ![m] = now + d]
      /\ posted' = Append(posted, m)
  BY MessageAssumption DEF IInv, TypeOK, post, Time
<1>2. /\ mWhenUs \in [Message -> Nat] /\ mWhenUs' \in [Message -> Time]
      /\ mEventQueue \in Seq(Message) /\ posted \in Seq(Message)
      /\ posted' \in Seq(Message)
  <2>1. /\ mWhenUs \in [Message -> Time] /\ mEventQueue \in Seq(Message)
        /\ posted \in Seq(Message)
    BY DEF IInv, TypeOK
  <2>2. \A n \in Message : mWhenUs[n] \in Nat
    BY <1>1, <2>1
  <2>3. mWhenUs \in [Message -> Nat]
    BY <2>1, <2>2
  <2>4. mWhenUs' \in [Message -> Time] /\ posted' \in Seq(Message)
    BY <1>1, <2>1
  <2>5. QED
    BY <2>1, <2>3, <2>4
<1>3. PICK k \in 0 .. Len(mEventQueue) :
        /\ mEventQueue' = InsertAt(mEventQueue, k + 1, m)
        /\ \A i \in 1 .. k : mWhenUs[mEventQueue[i]] <= now + d
        /\ k < Len(mEventQueue) => mWhenUs[mEventQueue[k + 1]] > now + d
  BY Zenon DEF post, IsPlace
<1>4. /\ mEventQueue' \in Seq(Message)
      /\ Len(mEventQueue') = Len(mEventQueue) + 1
      /\ \A i \in 1 .. k : mEventQueue'[i] = mEventQueue[i]
      /\ mEventQueue'[k + 1] = m
  <2>1. mEventQueue \in Seq(Message) /\ k \in 0 .. Len(mEventQueue)
    BY <1>2
  <2>2. /\ InsertAt(mEventQueue, k + 1, m) \in Seq(Message)
        /\ Len(InsertAt(mEventQueue, k + 1, m)) = Len(mEventQueue) + 1
        /\ \A i \in 1 .. k : InsertAt(mEventQueue, k + 1, m)[i] = mEventQueue[i]
        /\ InsertAt(mEventQueue, k + 1, m)[k + 1] = m
    <3>1. IsInserted(Message, mEventQueue, k, m, InsertAt(mEventQueue, k + 1, m))
      BY <2>1, Insert, Zenon
    <3> QED BY <3>1, Zenon DEF IsInserted
  <2>3. QED
    BY <1>3, <2>2, Zenon
<1>5. /\ Posted(posted, m) = FALSE
      /\ InOrder(mEventQueue, mWhenUs, posted)
  BY DEF IInv, PostedOnce, Sorted
<1>6. Sorted'
  <2>1. InOrder(InsertAt(mEventQueue, k + 1, m),
                [mWhenUs EXCEPT ![m] = now + d], Append(posted, m))
    BY <1>1, <1>2, <1>3, <1>5, InsertKeepsOrder
  <2>2. QED
    BY <1>1, <1>3, <2>1, Zenon DEF Sorted
<1>7. mEventQueue' # <<>> /\ Head(mEventQueue') = mEventQueue'[1]
  BY <1>4
<1>8. \/ Head(mEventQueue') = m /\ Signal
      \/ /\ Head(mEventQueue') # m /\ UNCHANGED tpc
         /\ mEventQueue # <<>> /\ Head(mEventQueue') = Head(mEventQueue)
  <2>1. SignalIfFirst(m)
    BY Zenon DEF post
  <2>2. CASE Head(mEventQueue') = m
    BY <2>1, <2>2, Zenon DEF SignalIfFirst
  <2>3. CASE Head(mEventQueue') # m
    <3>1. UNCHANGED tpc
      BY <2>1, <2>3, Zenon DEF SignalIfFirst
    <3>2. 1 \in 1 .. k /\ mEventQueue # <<>>
      BY <1>2, <1>4, <1>7, <2>3
    <3>3. mEventQueue'[1] = mEventQueue[1] /\ Head(mEventQueue) = mEventQueue[1]
      BY <1>2, <1>4, <3>2
    <3>4. QED
      BY <1>7, <2>3, <3>1, <3>2, <3>3, Zenon
  <2>4. QED
    BY <2>2, <2>3
<1>9. UNCHANGED <<looperVars, until, local, exitPending, handling, stopVars>>
  BY DEF post
<1>10. QED
  BY <1>1, <1>2, <1>4, <1>6, <1>7, <1>8, <1>9, Zenon
-----------------------------------------------------------------------------
Posts(m, d) ==
  /\ cpc[m] = "new" /\ post(m, d)
  /\ \E s \in {"done", "await"} : cpc' = [cpc EXCEPT ![m] = s]
  /\ UNCHANGED <<mRepliesLock, mReplied, tokens>>

(* The steps of those who wait for replies or send them.                   *)
Replies(m) == AwaitStep(m) \/ postReply(m)

LEMMA Steps ==
  ASSUME [Next]_vars
  PROVE  \/ \E m \in Message, d \in 0 .. MaxDelay : Posts(m, d)
         \/ Tick \/ ThreadStep \/ StopStep
         \/ \E b \in BOOLEAN : start(b)
         \/ \E by \in {"handler", "other"} : stop(by)
         \/ \E m \in Message : Replies(m)
         \/ UNCHANGED vars
<1>1. ASSUME NEW m \in Message, NEW d \in Delays, Post(m, d)
      PROVE  \E e \in 0 .. MaxDelay : Posts(m, e)
  <2>1. d \in 0 .. MaxDelay
    BY MessageAssumption
  <2>2. Posts(m, d)
    BY <1>1, Zenon DEF Post, Posts
  <2>3. QED
    BY <2>1, <2>2, Zenon
<1>2. ASSUME NEW m \in Message, postAndAwaitResponse(m)
      PROVE  \E e \in 0 .. MaxDelay : Posts(m, e)
  <2>1. 0 \in 0 .. MaxDelay
    BY MessageAssumption
  <2>2. Posts(m, 0)
    BY <1>2, Zenon DEF postAndAwaitResponse, Posts
  <2>3. QED
    BY <2>1, <2>2, Zenon
<1>3. QED
  BY <1>1, <1>2, Zenon DEF Next, Replies

LEMMA NextType == IInv /\ [Next]_vars => TypeOK'
<1> SUFFICES ASSUME IInv, [Next]_vars PROVE TypeOK'
  OBVIOUS
<1>0. TypeOK /\ Time \subseteq Nat /\ Awaited \subseteq Message
  BY MessageAssumption DEF IInv, Time
<1> USE DEF TypeOK
<1>1. ASSUME NEW m \in Message, NEW d \in 0 .. MaxDelay, Posts(m, d)
      PROVE  TypeOK'
  <2>1. /\ now' = now /\ mWhenUs' \in [Message -> Time]
        /\ mEventQueue' \in Seq(Message) /\ posted' \in Seq(Message)
        /\ Signal \/ UNCHANGED tpc
        /\ UNCHANGED <<looperVars, until, local, exitPending, handling, stopVars>>
    BY <1>1, Posting, Zenon DEF Posts
  <2>2. PICK s \in {"done", "await"} : cpc' = [cpc EXCEPT ![m] = s]
    BY <1>1, Zenon DEF Posts
  <2>3. UNCHANGED <<mRepliesLock, mReplied, tokens>>
    BY <1>1, Zenon DEF Posts
  <2>4. QED
    BY <1>0, <2>1, <2>2, <2>3 DEF Signal, looperVars, stopVars
<1>2. CASE Tick
  <2>1. now' \in Time
    BY <1>0, <1>2, MessageAssumption DEF Tick, Time
  <2>2. QED
    BY <1>0, <1>2, <2>1
    DEF Tick, looperVars, queueVars, threadVars, replyVars, stopVars
<1>3. CASE ThreadStep
  <2>1. CASE Leave
    BY <1>0, <2>1 DEF Leave, looperVars, queueVars, replyVars, stopVars
  <2>2. CASE Wait
    <3>1. until' \in Time \cup {Forever}
      <4>1. mEventQueue # <<>> => Head(mEventQueue) \in Message
        BY <1>0
      <4>2. QED
        BY <1>0, <2>2, <4>1 DEF Wait
    <3>2. QED
      BY <1>0, <2>2, <3>1 DEF Wait, looperVars, queueVars, replyVars, stopVars
  <2>3. CASE TimeOut
    BY <1>0, <2>3 DEF TimeOut, looperVars, queueVars, replyVars, stopVars
  <2>4. CASE Again
    BY <1>0, <2>4 DEF Again, looperVars, queueVars, replyVars, stopVars
  <2>5. CASE Deliver
    <3>1. /\ Head(mEventQueue) \in Message
          /\ mEventQueue' \in Seq(Message)
      BY <1>0, <2>5 DEF Deliver
    <3>2. /\ tpc' \in {"handle", "woken"} /\ handling' \in Message \cup {None}
          /\ tokens' \subseteq Awaited
      BY <1>0, <2>5, <3>1 DEF Deliver, senderAwaitsResponse
    <3>3. QED
      BY <1>0, <2>5, <3>1, <3>2 DEF Deliver, looperVars, stopVars
  <2>6. CASE HandlerReturns
    <3>1. tokens' \subseteq Awaited
      BY <1>0, <2>6 DEF HandlerReturns
    <3>2. QED
      BY <1>0, <2>6, <3>1 DEF HandlerReturns, looperVars, queueVars, stopVars
  <2>7. QED
    BY <1>3, <2>1, <2>2, <2>3, <2>4, <2>5, <2>6 DEF ThreadStep
<1>4. Woken(cpc) \in [Message -> {"new", "done", "await", "tested", "asleep",
                                  "OK", "ENOENT"}]
  BY <1>0 DEF Woken
<1>5. CASE StopStep
  <2>1. CASE StopRequestExit
    <3>1. exitPending' \in BOOLEAN
      BY <1>0, <2>1 DEF StopRequestExit
    <3>2. QED
      BY <1>0, <2>1, <3>1
      DEF StopRequestExit, looperVars, queueVars, replyVars
  <2>2. CASE StopSignal
    BY <1>0, <2>2 DEF StopSignal, Signal, looperVars, queueVars, replyVars
  <2>3. CASE StopBroadcast
    BY <1>0, <1>4, <2>3 DEF StopBroadcast, looperVars, queueVars
  <2>4. CASE StopJoin
    BY <1>0, <2>4 DEF StopJoin, looperVars, queueVars, threadVars, replyVars
  <2>5. QED
    BY <1>5, <2>1, <2>2, <2>3, <2>4 DEF StopStep
<1>6. ASSUME NEW b \in BOOLEAN, start(b) PROVE TypeOK'
  <2>1. /\ mThread' \in BOOLEAN /\ mRunningLocally' \in BOOLEAN
        /\ local' \in BOOLEAN /\ exitPending' \in BOOLEAN
    BY <1>6 DEF start
  <2>2. QED
    BY <1>0, <1>6, <2>1 DEF start, queueVars, replyVars, stopVars
<1>7. ASSUME NEW by \in {"handler", "other"}, stop(by) PROVE TypeOK'
  <2>1. mThread' \in BOOLEAN /\ mRunningLocally' \in BOOLEAN
    BY <1>7 DEF stop
  <2>2. QED
    BY <1>0, <1>7, <2>1 DEF stop, queueVars, replyVars
<1>8. ASSUME NEW m \in Message, Replies(m) PROVE TypeOK'
  <2>1. CASE RetrieveReply(m)
    <3>1. /\ cpc' \in [Message -> {"new", "done", "await", "tested", "asleep",
                                   "OK", "ENOENT"}]
          /\ mRepliesLock' \in Message \cup {None}
      BY <1>0, <2>1 DEF RetrieveReply
    <3>2. QED
      BY <1>0, <2>1, <3>1
      DEF RetrieveReply, looperVars, queueVars, threadVars, stopVars
  <2>2. CASE WaitForReply(m)
    BY <1>0, <2>2 DEF WaitForReply, looperVars, queueVars, threadVars, stopVars
  <2>3. CASE postReply(m)
    <3>1. mReplied' \in [Message -> BOOLEAN]
      BY <1>0, <2>3 DEF postReply
    <3>2. QED
      BY <1>0, <1>4, <2>3, <3>1
      DEF postReply, looperVars, queueVars, threadVars, stopVars
  <2>4. QED
    BY <1>8, <2>1, <2>2, <2>3 DEF Replies, AwaitStep
<1>9. CASE UNCHANGED vars
  BY <1>0, <1>9
  DEF vars, looperVars, queueVars, threadVars, replyVars, stopVars
<1>10. QED
  BY <1>1, <1>2, <1>3, <1>5, <1>6, <1>7, <1>8, <1>9, Steps, Zenon

(* Only post() and deliver() touch the queue, and nobody posts twice.      *)
LEMMA QueueKept ==
  ASSUME TypeOK, [Next]_vars, ~Deliver,
         \A m \in Message, d \in 0 .. MaxDelay : ~Posts(m, d)
  PROVE  /\ UNCHANGED queueVars
         /\ \A m \in Message : cpc'[m] = "new" => cpc[m] = "new"
<1>1. UNCHANGED queueVars
  BY Steps
  DEF Replies, AwaitStep, ThreadStep, StopStep, Tick, Leave, Wait, TimeOut,
      Again, HandlerReturns, StopRequestExit, StopSignal, StopBroadcast,
      StopJoin, start, stop, RetrieveReply, WaitForReply, postReply, vars
<1>2. \A m \in Message : Woken(cpc)[m] = "new" => cpc[m] = "new"
  BY DEF Woken
<1>3. ASSUME NEW n \in Message, Replies(n), NEW m \in Message, cpc'[m] = "new"
      PROVE  cpc[m] = "new"
  <2>1. cpc \in [Message -> {"new", "done", "await", "tested", "asleep", "OK",
                             "ENOENT"}]
    BY DEF TypeOK
  <2>2. CASE RetrieveReply(n) \/ WaitForReply(n)
    BY <1>3, <2>1, <2>2 DEF RetrieveReply, WaitForReply
  <2>3. CASE postReply(n)
    BY <1>2, <1>3, <2>3 DEF postReply
  <2>4. QED
    BY <1>3, <2>2, <2>3 DEF Replies, AwaitStep
<1>4. ASSUME ~StopBroadcast, \A m \in Message : ~Replies(m)
      PROVE  cpc' = cpc
  BY <1>4, Steps
  DEF ThreadStep, StopStep, Tick, Leave, Wait, TimeOut,
      Again, HandlerReturns, StopRequestExit, StopSignal,
      StopJoin, start, stop, vars, replyVars
<1>5. StopBroadcast => cpc' = Woken(cpc)
  BY DEF StopBroadcast
<1>6. QED
  BY <1>1, <1>2, <1>3, <1>4, <1>5, Zenon

LEMMA NextSorted == IInv /\ [Next]_vars => PostedOnce' /\ Sorted'
<1> SUFFICES ASSUME IInv, [Next]_vars PROVE PostedOnce' /\ Sorted'
  OBVIOUS
<1>0. TypeOK /\ PostedOnce /\ Sorted
  BY DEF IInv
<1>1. ASSUME NEW m \in Message, NEW d \in 0 .. MaxDelay, Posts(m, d)
      PROVE  PostedOnce' /\ Sorted'
  <2>1. posted' = Append(posted, m) /\ Sorted'
    BY <1>1, Posting, Zenon DEF Posts
  <2>2. posted \in Seq(Message)
    BY <1>0 DEF TypeOK
  <2>3. ~Posted(posted, m)
    BY <1>0, <1>1, Zenon DEF PostedOnce, Posts
  <2>4. /\ Len(posted') = Len(posted) + 1 /\ posted'[Len(posted) + 1] = m
        /\ \A a \in 1 .. Len(posted) : posted'[a] = posted[a] /\ posted[a] # m
    BY <2>1, <2>2, <2>3 DEF Posted
  <2>5. ASSUME NEW a \in 1 .. Len(posted'), NEW b \in 1 .. Len(posted'),
               posted'[a] = posted'[b]
        PROVE  a = b
    <3>1. Len(posted) \in Nat
      BY <2>2
    <3>2. CASE a \in 1 .. Len(posted) /\ b \in 1 .. Len(posted)
      BY <1>0, <2>4, <2>5, <3>2, Zenon DEF PostedOnce
    <3>3. CASE a = Len(posted) + 1 \/ b = Len(posted) + 1
      BY <2>4, <2>5, <3>1, <3>3
    <3>4. QED
      BY <2>4, <3>1, <3>2, <3>3
  <2>6. ASSUME NEW n \in Message, cpc'[n] = "new" PROVE ~Posted(posted', n)
    <3>1. cpc[n] = "new" /\ n # m
      <4>1. cpc \in [Message -> {"new", "done", "await", "tested", "asleep",
                                 "OK", "ENOENT"}]
        BY <1>0 DEF TypeOK
      <4>2. QED
        BY <1>1, <2>6, <4>1 DEF Posts
    <3>2. ~Posted(posted, n)
      BY <1>0, <3>1, Zenon DEF PostedOnce
    <3>3. QED
      BY <2>2, <2>4, <3>1, <3>2 DEF Posted
  <2>7. QED
    BY <2>1, <2>5, <2>6, Zenon DEF PostedOnce
<1>2. CASE Deliver
  <2>1. /\ mEventQueue \in Seq(Message) /\ mEventQueue # <<>>
        /\ mEventQueue' = Tail(mEventQueue)
        /\ UNCHANGED <<mWhenUs, posted, cpc>>
    BY <1>0, <1>2 DEF TypeOK, Deliver
  <2>2. PostedOnce'
    BY <1>0, <2>1 DEF PostedOnce
  <2>3. /\ Len(mEventQueue) \in Nat /\ Len(mEventQueue') = Len(mEventQueue) - 1
        /\ \A i \in 1 .. Len(mEventQueue') : mEventQueue'[i] = mEventQueue[i + 1]
    BY <2>1, HeadTailProperties
  <2>4. ASSUME NEW i \in 1 .. Len(mEventQueue')
        PROVE  Posted(posted', mEventQueue'[i])
    <3>1. i + 1 \in 1 .. Len(mEventQueue) /\ mEventQueue'[i] = mEventQueue[i + 1]
      BY <2>3
    <3>2. QED
      BY <1>0, <2>1, <3>1 DEF Sorted, InOrder
  <2>5. ASSUME NEW i \in 1 .. Len(mEventQueue'),
               NEW j \in 1 .. Len(mEventQueue'), i < j
        PROVE  Ahead(mWhenUs', posted', mEventQueue'[i], mEventQueue'[j])
    <3>1. /\ i + 1 \in 1 .. Len(mEventQueue) /\ j + 1 \in 1 .. Len(mEventQueue)
          /\ i + 1 < j + 1 /\ mEventQueue'[i] = mEventQueue[i + 1]
          /\ mEventQueue'[j] = mEventQueue[j + 1]
      BY <2>3, <2>5
    <3>2. QED
      BY <1>0, <2>1, <3>1 DEF Sorted, InOrder
  <2>6. QED
    BY <2>2, <2>4, <2>5, Zenon DEF Sorted, InOrder
<1>3. CASE /\ ~Deliver
           /\ \A m \in Message, d \in 0 .. MaxDelay : ~Posts(m, d)
  BY <1>0, <1>3, QueueKept DEF queueVars, PostedOnce, Sorted
<1>4. QED
  BY <1>1, <1>2, <1>3, Zenon

(* The thread is signalled whenever it must not sleep on.                  *)
LEMMA NextSleeps == IInv /\ [Next]_vars => SleepsUntilDue'
<1> SUFFICES ASSUME IInv, [Next]_vars, tpc' = "waiting"
             PROVE  SleepsUntilDue'
  BY DEF SleepsUntilDue
<1>0. /\ TypeOK /\ SleepsUntilDue /\ Time \subseteq Nat
      /\ Forever \notin Nat
  BY MessageAssumption DEF IInv, Time
<1>1. ASSUME NEW m \in Message, NEW d \in 0 .. MaxDelay, Posts(m, d)
      PROVE  SleepsUntilDue'
  <2>1. /\ mWhenUs' = [mWhenUs EXCEPT ![m] = now + d]
        /\ \/ Head(mEventQueue') = m /\ Signal
           \/ /\ Head(mEventQueue') # m /\ UNCHANGED tpc
              /\ mEventQueue # <<>> /\ Head(mEventQueue') = Head(mEventQueue)
        /\ UNCHANGED <<looperVars, until, stopVars>>
    BY <1>1, Posting, Zenon DEF Posts
  <2>2. /\ tpc = "waiting" /\ mEventQueue # <<>>
        /\ Head(mEventQueue') = Head(mEventQueue) /\ Head(mEventQueue) # m
    BY <2>1 DEF Signal
  <2>3. mWhenUs \in [Message -> Time] /\ Head(mEventQueue) \in Message
    BY <1>0, <2>2 DEF TypeOK
  <2>4. mWhenUs'[Head(mEventQueue')] = mWhenUs[Head(mEventQueue)]
    BY <2>1, <2>2, <2>3
  <2>5. QED
    BY <1>0, <2>1, <2>2, <2>4 DEF SleepsUntilDue, looperVars, stopVars
<1>2. CASE Wait
  <2>1. ASSUME mEventQueue # <<>>
        PROVE  until' = mWhenUs[Head(mEventQueue)] /\ until' \in Nat
    <3>1. Head(mEventQueue) \in Message /\ mWhenUs \in [Message -> Time]
      BY <1>0, <2>1 DEF TypeOK
    <3>2. QED
      BY <1>0, <1>2, <2>1, <3>1 DEF Wait
  <2>2. QED
    BY <1>0, <1>2, <2>1 DEF SleepsUntilDue, Wait, looperVars, queueVars
<1>3. CASE Tick \/ UNCHANGED vars \/ \E m \in Message : Replies(m)
  <2>1. UNCHANGED <<tpc, until, looperVars, mEventQueue, mWhenUs, spc>>
    BY <1>3
    DEF Tick, vars, Replies, AwaitStep, RetrieveReply, WaitForReply, postReply,
        queueVars, threadVars, stopVars
  <2>2. QED
    BY <1>0, <2>1 DEF SleepsUntilDue, looperVars
<1>4. CASE StopStep
  BY <1>0, <1>4
  DEF StopStep, StopRequestExit, StopSignal, StopBroadcast, StopJoin, Signal,
      SleepsUntilDue, looperVars, queueVars, threadVars
<1>5. ASSUME NEW by \in {"handler", "other"}, stop(by) PROVE SleepsUntilDue'
  BY <1>0, <1>5 DEF stop, SleepsUntilDue, queueVars
<1>6. CASE (ThreadStep /\ ~Wait) \/ \E b \in BOOLEAN : start(b)
  <2>1. FALSE
    BY <1>0, <1>6
    DEF ThreadStep, Leave, TimeOut, Again, Deliver, HandlerReturns, start
  <2>2. QED
    BY <2>1
<1>7. QED
  BY <1>1, <1>2, <1>3, <1>4, <1>5, <1>6, Steps, Zenon
-----------------------------------------------------------------------------
(* The queue is always sorted by when its messages are due and, of those   *)
(* due at the same time, as they were posted.                              *)
THEOREM Inductive == Spec => []IInv
<1>1. IInv /\ [Next]_vars => IInv'
  BY NextType, NextSorted, NextSleeps DEF IInv
<1>2. QED
  BY InitInv, <1>1, PTL DEF Spec

(* Whatever is posted, awaited and stopped, the looper, its thread and its *)
(* callers keep their types.                                               *)
THEOREM TypeCorrect == Spec => []TypeOK
<1>1. IInv => TypeOK
  BY DEF IInv
<1>2. QED
  BY Inductive, <1>1, PTL

(* Whoever posts a message that is due before the others, or stops the     *)
(* looper, wakes its thread.                                               *)
THEOREM NeverOversleeps == Spec => []SleepsUntilDue
<1>1. IInv => SleepsUntilDue
  BY DEF IInv
<1>2. QED
  BY Inductive, <1>1, PTL

(* A message that was posted earlier has the lower rank.                   *)
LEMMA Ranks ==
  ASSUME PostedOnce, NEW a \in 1 .. Len(posted), posted \in Seq(Message)
  PROVE  Rank(posted[a]) = a
<1>1. DOMAIN posted = 1 .. Len(posted)
  BY LenProperties
<1>2. \A b \in DOMAIN posted : posted[b] = posted[a] => b = a
  BY <1>1 DEF PostedOnce
<1>3. QED
  BY <1>1, <1>2 DEF Rank

(* Messages are delivered when they are due, in the order of their times   *)
(* and, of those due at the same time, as they were posted, whatever stops *)
(* and starts come between.                                                *)
THEOREM InOrderDelivered == Spec => DeliversInOrder
<1>1. ASSUME IInv, [Next]_vars, Len(mEventQueue') < Len(mEventQueue)
      PROVE  /\ mWhenUs[Head(mEventQueue)] <= now
             /\ \A n \in ToSet(mEventQueue) \ {Head(mEventQueue)} :
                  \/ mWhenUs[Head(mEventQueue)] < mWhenUs[n]
                  \/ /\ mWhenUs[Head(mEventQueue)] = mWhenUs[n]
                     /\ Rank(Head(mEventQueue)) < Rank(n)
  <2>0. /\ TypeOK /\ PostedOnce /\ Sorted
        /\ mEventQueue \in Seq(Message) /\ Len(mEventQueue) \in Nat
        /\ posted \in Seq(Message)
        /\ DOMAIN mEventQueue = 1 .. Len(mEventQueue)
    <3>1. /\ TypeOK /\ PostedOnce /\ Sorted
          /\ mEventQueue \in Seq(Message) /\ posted \in Seq(Message)
      BY <1>1 DEF IInv, TypeOK
    <3>2. QED
      BY <3>1, LenProperties
  <2>1. Deliver
    <3>1. ASSUME NEW m \in Message, NEW d \in 0 .. MaxDelay, Posts(m, d)
          PROVE  FALSE
      <4>1. Len(mEventQueue') = Len(mEventQueue) + 1
        BY <1>1, <3>1, Posting, Zenon DEF Posts
      <4>2. QED
        BY <1>1, <2>0, <4>1
    <3>2. ASSUME ~Deliver PROVE UNCHANGED queueVars
      BY <1>1, <2>0, <3>1, <3>2, QueueKept, Zenon
    <3>3. QED
      BY <1>1, <2>0, <3>2 DEF queueVars
  <2>2. mEventQueue # <<>> /\ mWhenUs[Head(mEventQueue)] <= now
    BY <2>1 DEF Deliver
  <2>3. 1 \in 1 .. Len(mEventQueue) /\ Head(mEventQueue) = mEventQueue[1]
    BY <2>0, <2>2
  <2>4. ASSUME NEW n \in ToSet(mEventQueue) \ {Head(mEventQueue)}
        PROVE  \/ mWhenUs[Head(mEventQueue)] < mWhenUs[n]
               \/ /\ mWhenUs[Head(mEventQueue)] = mWhenUs[n]
                  /\ Rank(Head(mEventQueue)) < Rank(n)
    <3>1. PICK j \in 1 .. Len(mEventQueue) : n = mEventQueue[j]
      BY <2>0, <2>4 DEF ToSet
    <3>2. 1 < j
      BY <2>3, <2>4, <3>1
    <3>3. Ahead(mWhenUs, posted, Head(mEventQueue), n)
      BY <2>0, <2>3, <3>1, <3>2, Zenon DEF Sorted, InOrder
    <3>4. ASSUME NEW a \in 1 .. Len(posted), NEW b \in 1 .. Len(posted),
                 a < b, posted[a] = Head(mEventQueue), posted[b] = n
          PROVE  Rank(Head(mEventQueue)) < Rank(n)
      <4>1. Rank(posted[a]) = a /\ Rank(posted[b]) = b
        BY <2>0, Ranks, Zenon
      <4>2. QED
        BY <3>4, <4>1, Zenon
    <3>5. QED
      BY <3>3, <3>4, Zenon DEF Ahead
  <2>5. QED
    BY <2>2, <2>4, Zenon
<1>2. IInv /\ [Next]_vars =>
        [Len(mEventQueue') < Len(mEventQueue) =>
           LET m == Head(mEventQueue)
           IN  /\ mWhenUs[m] <= now
               /\ \A n \in ToSet(mEventQueue) \ {m} :
                    \/ mWhenUs[m] < mWhenUs[n]
                    \/ mWhenUs[m] = mWhenUs[n] /\ Rank(m) < Rank(n)]_vars
  BY <1>1, Zenon
<1>3. QED
  BY Inductive, <1>2, PTL DEF Spec, DeliversInOrder
=============================================================================
