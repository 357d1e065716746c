----------------------- MODULE SingleStateQueueProofs -----------------------
(***************************************************************************)
(* Proofs about SingleStateQueue, for any words, any wrap of the sequence  *)
(* numbers, any number of tries and of pushes.                             *)
(***************************************************************************)
EXTENDS SingleStateQueue, TLAPS

-----------------------------------------------------------------------------
(* Sequence numbers *)

(* Numbers less than W apart with equal images are equal.                  *)
LEMMA SameIsEqual ==
  ASSUME NEW a \in Nat, NEW b \in Nat, b <= a, a - b < W, Same(a, b)
  PROVE  a = b
<1> DEFINE qa == a \div W
           qb == b \div W
<1>1. W \in Nat /\ W > 0
  BY SizeAssumption
<1>2. /\ qa \in Int /\ qb \in Int
      /\ a = W * qa + (a % W) /\ b = W * qb + (b % W)
  BY <1>1
<1>3. a - b = W * (qa - qb)
  BY <1>1, <1>2 DEF Same
<1>4. qa - qb < 1
  BY <1>1, <1>2, <1>3
<1>5. qa - qb >= 0
  BY <1>1, <1>2, <1>3
<1>6. qa = qb
  BY <1>2, <1>4, <1>5
<1> QED BY <1>1, <1>2, <1>3, <1>6

(* A number that is smaller, by less than half of them all, looks smaller. *)
LEMMA SmallerIsNotAtLeast ==
  ASSUME NEW a \in Nat, NEW b \in Nat, a < b, 2 * (b - a) < W
  PROVE  ~AtLeast(a, b)
<1> DEFINE d == a - b
           q == d \div W
<1>1. W \in Nat /\ W > 0
  BY SizeAssumption
<1>2. d \in Int /\ d < 0 /\ 2 * d > -W
  BY <1>1
<1>3. q \in Int /\ d % W \in 0 .. W - 1 /\ d = W * q + (d % W)
  BY <1>1, <1>2
<1> HIDE DEF d, q
<1>4. q = -1
  <2>1. q < 0
    BY <1>1, <1>2, <1>3
  <2>2. q > -2
    BY <1>1, <1>2, <1>3
  <2> QED BY <1>3, <2>1, <2>2
<1>5. d % W = d + W
  BY <1>1, <1>2, <1>3, <1>4
<1>6. 2 * (d % W) > W
  BY <1>1, <1>2, <1>5
<1>7. W \div 2 \in Int /\ 2 * (W \div 2) <= W
  BY <1>1
<1>8. ~((d % W) < W \div 2)
  BY <1>1, <1>2, <1>5, <1>6, <1>7
<1> QED BY <1>8 DEF AtLeast, d

(* Sequence numbers of whole values are even, and there is a next one.     *)
LEMMA PushedIsEven ==
  /\ 0 \in Pushed
  /\ \A s \in Pushed : s \in Nat /\ s + 1 \notin Pushed
  /\ \A s \in Pushed : s < 2 * MaxPushes => s + 2 \in Pushed
<1>1. MaxPushes \in Nat
  BY SizeAssumption
<1>2. 0 \in Pushed
  <2>1. 0 \in 0 .. MaxPushes /\ 0 = 2 * 0
    BY <1>1
  <2> QED BY <2>1 DEF Pushed
<1>3. ASSUME NEW s \in Pushed
      PROVE  /\ s \in Nat /\ s + 1 \notin Pushed
             /\ s < 2 * MaxPushes => s + 2 \in Pushed
  <2>1. PICK n \in 0 .. MaxPushes : s = 2 * n
    BY DEF Pushed
  <2>2. s \in Nat
    BY <1>1, <2>1
  <2>3. s + 1 \notin Pushed
    BY <1>1, <2>1 DEF Pushed
  <2>4. ASSUME s < 2 * MaxPushes PROVE s + 2 \in Pushed
    <3>1. n + 1 \in 0 .. MaxPushes /\ s + 2 = 2 * (n + 1)
      BY <1>1, <2>1, <2>4
    <3> QED BY <3>1 DEF Pushed
  <2> QED BY <2>2, <2>3, <2>4
<1> QED BY <1>2, <1>3
-----------------------------------------------------------------------------
(* The inductive invariant *)

(* Push: while mSequence is even the value is whole; during a push a word  *)
(* is that of the new value once it is stored.                             *)
PushInv ==
  /\ mSequence = (IF mpc = "idle" THEN mutator ELSE mutator + 1)
  /\ mpc = "idle" => mValue = Whole(mutator)
  /\ mpc = "write" =>
       /\ mutator + 2 \in Pushed
       /\ \A w \in Word \ unwritten : mValue[w] = mutator + 2

(* The window that NeverLaps keeps open.                                   *)
WindowInv ==
  /\ observer <= mutator
  /\ 2 * ((IF mpc = "idle" THEN mutator ELSE mutator + 2) - observer) < W

(* Poll: as long as mSequence is what it was when the words read so far    *)
(* were read, they are the words of that value.                            *)
PollInv ==
  /\ opc = "try" =>
       /\ tries < MAX_TRIES
       /\ observer <= before /\ before <= mSequence
       /\ before \in Pushed /\ before = mSequence
            => \A w \in Word \ unread : temp[w] = before
  /\ opc = "ack" => before \in Pushed /\ observer <= before /\ before <= mutator

AckInv ==
  /\ mAck \in {observer, observer + 1}
  /\ mAck = observer + 1 => doneWith = Whole(observer)

IInv == TypeOK /\ PushInv /\ WindowInv /\ PollInv /\ ReadIsWhole /\ AckInv
-----------------------------------------------------------------------------
LEMMA InitHolds == Init => IInv
<1> SUFFICES ASSUME Init PROVE IInv
  OBVIOUS
<1> USE PushedIsEven, SizeAssumption DEF Init, Whole
<1>1. TypeOK
  BY DEF TypeOK
<1>2. PushInv /\ WindowInv /\ PollInv /\ AckInv
  BY DEF PushInv, WindowInv, PollInv, AckInv
<1>3. ReadIsWhole
  BY DEF ReadIsWhole
<1> QED BY <1>1, <1>2, <1>3 DEF IInv

LEMMA NumbersAreNat ==
  IInv => /\ mutator \in Nat /\ observer \in Nat /\ before \in Nat
          /\ mSequence \in Nat /\ mAck \in Nat /\ tries \in Nat
          /\ mutator \in Pushed /\ mutator + 1 \notin Pushed
BY PushedIsEven, SizeAssumption DEF IInv, TypeOK

(* A push leaves the observer's side alone, and moves mSequence on.        *)
LEMMA PushKeeps == IInv /\ Mutator => IInv'
<1> SUFFICES ASSUME IInv, Mutator PROVE IInv'
  OBVIOUS
<1> USE PushedIsEven, SizeAssumption, NumbersAreNat
<1>1. UNCHANGED <<observerVars, mAck>>
  BY DEF Mutator, PushStep, PushBegin, PushWord, PushEnd
<1>2. ReadIsWhole' /\ AckInv'
  BY <1>1 DEF IInv, ReadIsWhole, AckInv, observerVars
<1>3. CASE PushBegin
  <2> USE <1>1, <1>3 DEF PushBegin, observerVars
  <2>1. TypeOK' /\ PushInv'
    BY DEF IInv, TypeOK, PushInv
  <2>2. WindowInv'
    BY DEF IInv, TypeOK, WindowInv, NeverLaps
  <2>3. PollInv'
    <3>1. mSequence = mutator /\ mSequence' = mutator + 1
      BY DEF IInv, PushInv
    <3>2. ASSUME opc = "try" PROVE before <= mSequence'
      BY <3>1, <3>2 DEF IInv, PollInv
    <3>3. before \in Pushed => before # mSequence'
      BY <3>1
    <3> QED BY <3>2, <3>3 DEF IInv, PollInv
  <2> QED BY <1>2, <2>1, <2>2, <2>3 DEF IInv
<1>4. ASSUME NEW w \in Word, PushWord(w) PROVE IInv'
  <2> USE <1>1, <1>4 DEF PushWord, observerVars
  <2>1. TypeOK'
    BY DEF IInv, TypeOK, PushInv
  <2>2. PushInv' /\ WindowInv'
    BY DEF IInv, TypeOK, PushInv, WindowInv
  <2>3. PollInv'
    BY DEF IInv, PollInv
  <2> QED BY <1>2, <2>1, <2>2, <2>3 DEF IInv
<1>5. CASE PushEnd
  <2> USE <1>1, <1>5 DEF PushEnd, observerVars
  <2>1. TypeOK'
    BY DEF IInv, TypeOK, PushInv
  <2>2. PushInv'
    <3>1. mValue = Whole(mutator + 2)
      BY DEF IInv, TypeOK, PushInv, Whole
    <3> QED BY <3>1 DEF PushInv
  <2>3. WindowInv'
    BY DEF IInv, WindowInv
  <2>4. PollInv'
    <3>1. mSequence = mutator + 1 /\ mSequence' = mutator + 2
      BY DEF IInv, PushInv
    <3>2. ASSUME opc = "try" PROVE before <= mSequence' /\ before # mSequence'
      BY <3>1, <3>2 DEF IInv, PollInv
    <3>3. ASSUME opc = "ack" PROVE before <= mutator'
      BY <3>3 DEF IInv, PollInv
    <3> QED BY <3>2, <3>3 DEF IInv, PollInv
  <2> QED BY <1>2, <2>1, <2>2, <2>3, <2>4 DEF IInv
<1> QED BY <1>3, <1>4, <1>5 DEF Mutator, PushStep

(* When poll() finds its sequence number unchanged, no push intervened and *)
(* none is going on: what it read is the last value.                       *)
LEMMA UnchangedIsWhole ==
  ASSUME IInv, opc = "try", before \in Pushed, unread = {},
         Same(mSequence, before)
  PROVE  mpc = "idle" /\ before = mutator /\ temp = Whole(mutator)
<1> USE NumbersAreNat, SizeAssumption
<1>1. mSequence = (IF mpc = "idle" THEN mutator ELSE mutator + 1)
  BY DEF IInv, PushInv
<1>2. observer <= before /\ before <= mSequence
  BY DEF IInv, PollInv
<1>3. mSequence - before < W
  BY <1>1, <1>2 DEF IInv, WindowInv
<1>4. mSequence = before
  BY <1>2, <1>3, SameIsEqual
<1>5. mpc = "idle" /\ before = mutator
  BY <1>1, <1>4
<1>6. \A w \in Word : temp[w] = before
  BY <1>4 DEF IInv, PollInv
<1> QED BY <1>5, <1>6 DEF IInv, TypeOK, Whole

LEMMA RetryKeeps ==
  ASSUME IInv, opc = "try", Retry, UNCHANGED <<sharedVars, mutatorVars, temp>>
  PROVE  IInv'
<1> USE NumbersAreNat, SizeAssumption DEF Retry, sharedVars, mutatorVars
<1>1. TypeOK'
  BY DEF IInv, TypeOK, PollInv
<1>2. PushInv' /\ WindowInv' /\ AckInv'
  BY DEF IInv, PushInv, WindowInv, AckInv
<1>3. PollInv'
  <2>1. observer <= mSequence
    BY DEF IInv, PushInv, WindowInv
  <2> QED BY <2>1 DEF IInv, PollInv
<1>4. ReadIsWhole'
  BY DEF IInv, ReadIsWhole
<1> QED BY <1>1, <1>2, <1>3, <1>4 DEF IInv

(* A poll leaves the value alone; what it returns is whole.                *)
LEMMA ObserverKeeps == IInv /\ Observer => IInv'
<1> SUFFICES ASSUME IInv, Observer PROVE IInv'
  OBVIOUS
<1> USE PushedIsEven, SizeAssumption, NumbersAreNat
<1>1. UNCHANGED <<mSequence, mValue, mutatorVars>>
  BY DEF Observer, PollStep, Poll, PollOdd, PollWord, PollAfter, PollAck,
         Done, sharedVars
<1>2. PushInv'
  BY <1>1 DEF IInv, PushInv, mutatorVars
<1>3. CASE Poll
  <2> USE <1>1, <1>3 DEF Poll, sharedVars, mutatorVars
  <2>1. TypeOK' /\ WindowInv' /\ AckInv' /\ ReadIsWhole'
    BY DEF IInv, TypeOK, WindowInv, AckInv, ReadIsWhole
  <2>2. PollInv'
    <3>1. observer <= mSequence
      BY DEF IInv, PushInv, WindowInv
    <3> QED BY <3>1 DEF PollInv
  <2> QED BY <1>2, <2>1, <2>2 DEF IInv
<1>4. CASE PollOdd
  BY <1>4, RetryKeeps DEF PollOdd
<1>5. ASSUME NEW w \in Word, PollWord(w) PROVE IInv'
  <2> USE <1>1, <1>5 DEF PollWord, sharedVars, mutatorVars
  <2>1. TypeOK' /\ WindowInv' /\ AckInv' /\ ReadIsWhole'
    BY DEF IInv, TypeOK, WindowInv, AckInv, ReadIsWhole
  <2>2. ASSUME before = mSequence PROVE mValue[w] = before
    <3>1. mpc = "idle" /\ before = mutator
      BY <2>2 DEF IInv, TypeOK, PushInv
    <3> QED BY <3>1 DEF IInv, PushInv, Whole
  <2>3. PollInv'
    BY <2>2 DEF IInv, TypeOK, PollInv
  <2> QED BY <1>2, <2>1, <2>3 DEF IInv
<1>6. CASE PollAfter
  <2>1. CASE Same(mSequence, before)
    <3> USE <1>1, <1>6, <2>1 DEF PollAfter, sharedVars, mutatorVars
    <3>1. before = mutator /\ temp = Whole(mutator)
      BY UnchangedIsWhole
    <3>2. TypeOK' /\ WindowInv' /\ AckInv'
      BY DEF IInv, TypeOK, WindowInv, AckInv
    <3>3. ReadIsWhole'
      BY <3>1 DEF ReadIsWhole, Whole
    <3>4. PollInv'
      BY <3>1 DEF IInv, PollInv
    <3> QED BY <1>2, <3>2, <3>3, <3>4 DEF IInv
  <2>2. CASE ~Same(mSequence, before)
    BY <1>6, <2>2, RetryKeeps DEF PollAfter
  <2> QED BY <2>1, <2>2
<1>7. CASE PollAck
  <2> USE <1>1, <1>7 DEF PollAck, mutatorVars
  <2>1. before \in Pushed /\ observer <= before /\ before <= mutator
    BY DEF IInv, PollInv
  <2>2. TypeOK'
    BY <2>1 DEF IInv, TypeOK
  <2>3. WindowInv'
    BY <2>1 DEF IInv, WindowInv
  <2>4. PollInv' /\ AckInv' /\ ReadIsWhole'
    BY <2>1 DEF IInv, PollInv, AckInv, ReadIsWhole
  <2> QED BY <1>2, <2>2, <2>3, <2>4 DEF IInv
<1>8. CASE Done
  <2> USE <1>1, <1>8 DEF Done, mutatorVars
  <2>1. TypeOK' /\ WindowInv' /\ PollInv' /\ ReadIsWhole'
    BY DEF IInv, TypeOK, WindowInv, PollInv, ReadIsWhole
  <2>2. AckInv'
    BY DEF IInv, AckInv, ReadIsWhole
  <2> QED BY <1>2, <2>1, <2>2 DEF IInv
<1> QED BY <1>3, <1>4, <1>5, <1>6, <1>7, <1>8 DEF Observer, PollStep

LEMMA StutterKeeps == IInv /\ UNCHANGED vars => IInv'
BY DEF IInv, TypeOK, PushInv, WindowInv, PollInv, ReadIsWhole, AckInv,
       vars, sharedVars, mutatorVars, observerVars

(* In every state of every push and poll, IInv holds.                      *)
LEMMA Inductive == Spec => []IInv
<1>1. IInv /\ [Next]_vars => IInv'
  BY PushKeeps, ObserverKeeps, StutterKeeps DEF Next
<1> QED BY <1>1, InitHolds, PTL DEF Spec
-----------------------------------------------------------------------------
(* Theorems *)

(* Both sides of Mutator and Observer keep their types: among them, poll() *)
(* never starts a try beyond its limit, and only numbers of whole values   *)
(* are ever remembered by either side.                                     *)
THEOREM TypeCorrect == Spec => []TypeOK
BY Inductive, PTL DEF IInv

(* poll() never returns a mixture of two values, in whatever order the     *)
(* words are stored and loaded, and returns the value its number names.    *)
THEOREM PollReturnsWholeValue == Spec => []ReadIsWhole
BY Inductive, PTL DEF IInv

LEMMA AckIsSound == IInv => AckNeverLies
<1> SUFFICES ASSUME IInv PROVE AckNeverLies
  OBVIOUS
<1> USE NumbersAreNat, PushedIsEven, SizeAssumption
<1>1. /\ mAck \in {observer, observer + 1} /\ observer <= mutator
      /\ 2 * (mutator - observer) < W
  BY DEF IInv, AckInv, WindowInv
<1>2. observer \in Pushed /\ observer + 1 \notin Pushed
  BY DEF IInv, TypeOK
<1>3. observer < mutator => observer + 2 <= mutator
  <2>1. MaxPushes \in Nat
    OBVIOUS
  <2>2. PICK m \in 0 .. MaxPushes : mutator = 2 * m
    BY DEF Pushed
  <2>3. PICK k \in 0 .. MaxPushes : observer = 2 * k
    BY <1>2 DEF Pushed
  <2> QED BY <2>1, <2>2, <2>3
<1>4. ASSUME mpc = "idle", Acked = "READ" PROVE value = Whole(mutator)
  <2>1. Same(mAck, mutator)
    BY <1>4 DEF Acked
  <2>2. mAck <= mutator
    <3>1. SUFFICES ASSUME mAck > mutator PROVE FALSE
      OBVIOUS
    <3>2. mAck = mutator + 1
      BY <1>1, <3>1
    <3> QED BY <2>1, <3>2, SameIsEqual
  <2>3. Same(mutator, mAck) /\ mutator - mAck < W
    BY <1>1, <2>1, <2>2 DEF Same
  <2>4. mAck = mutator
    BY <2>2, <2>3, SameIsEqual
  <2>5. observer = mutator
    BY <1>1, <1>2, <2>4
  <2>6. opc = "ack" => before = mutator
    BY <2>5 DEF IInv, PollInv
  <2> QED BY <2>5, <2>6 DEF IInv, ReadIsWhole
<1>5. ASSUME mpc = "idle", Acked = "DONE" PROVE doneWith = Whole(mutator)
  <2>1. Same(mutator + 1, mAck)
    BY <1>5 DEF Acked, Same
  <2>2. mAck <= mutator + 1 /\ mutator + 1 - mAck < W
    BY <1>1
  <2>3. mAck = mutator + 1
    BY <2>1, <2>2, SameIsEqual
  <2>4. mAck = observer + 1 /\ observer = mutator
    BY <1>1, <2>3
  <2> QED BY <2>4 DEF IInv, AckInv
<1>6. ASSUME NEW n \in 1 .. MaxPushes, 2 * n <= mutator, AckedUpTo(2 * n)
      PROVE  observer >= 2 * n
  <2>1. SUFFICES ASSUME observer < 2 * n PROVE FALSE
    OBVIOUS
  <2>2. MaxPushes \in Nat /\ n \in Nat
    OBVIOUS
  <2>3. PICK k \in 0 .. MaxPushes : observer = 2 * k
    BY <1>2 DEF Pushed
  <2>4. mAck < 2 * n
    BY <1>1, <2>1, <2>2, <2>3
  <2>5. 2 * (2 * n - mAck) < W
    BY <1>1, <1>6, <2>2
  <2>6. ~AtLeast(mAck, 2 * n)
    BY <2>2, <2>4, <2>5, SmallerIsNotAtLeast
  <2> QED BY <1>6, <2>6 DEF AckedUpTo
<1> QED BY <1>4, <1>5, <1>6 DEF AckNeverLies

(* Mutator::ack() and ack(sequence), read between pushes, never claim of a *)
(* value that it was read, or acted upon, when it was not, although they   *)
(* compare numbers that wrap.                                              *)
THEOREM AcksAreTrue == Spec => []AckNeverLies
BY Inductive, AckIsSound, PTL

(* The queue implements the atomic cell of LatestValue: the store that     *)
(* ends a push() publishes, the last load of a successful poll() observes, *)
(* and no other access can be noticed.                                     *)
THEOREM QueueImplementsCell == Spec => ImplementsLatestValue
<1>1. Init => Cell!Init
  BY DEF Init, Cell!Init
<1>2. IInv /\ [Next]_vars => [Cell!Publish \/ Cell!Observe]_(Cell!vars)
  <2> SUFFICES ASSUME IInv, [Next]_vars
               PROVE  [Cell!Publish \/ Cell!Observe]_(Cell!vars)
    OBVIOUS
  <2> USE DEF Cell!vars
  <2>1. CASE PushEnd
    <3>1. mutator + 2 \in Pushed
      BY <2>1 DEF PushEnd, IInv, PushInv
    <3>2. Whole(mutator)' = Whole(mutator + 2) /\ value' = value
      BY <2>1 DEF PushEnd, Whole, observerVars
    <3> QED BY <3>1, <3>2 DEF Cell!Publish
  <2>2. CASE PollAfter
    <3>1. mutator' = mutator /\ Whole(mutator)' = Whole(mutator)
      BY <2>2 DEF PollAfter, mutatorVars, Whole
    <3>2. CASE Same(mSequence, before)
      <4>1. value' = Whole(mutator)
        BY <2>2, <3>2, UnchangedIsWhole DEF PollAfter
      <4> QED BY <3>1, <4>1 DEF Cell!Observe
    <3>3. CASE ~Same(mSequence, before)
      BY <2>2, <3>1, <3>3 DEF PollAfter, Retry
    <3> QED BY <3>2, <3>3
  <2>3. ASSUME mutator' = mutator, value' = value
        PROVE  UNCHANGED Cell!vars
    BY <2>3 DEF Whole
  <2>4. CASE PushBegin \/ \E w \in Word : PushWord(w)
    BY <2>3, <2>4 DEF PushBegin, PushWord, observerVars
  <2>5. CASE Poll \/ PollOdd \/ (\E w \in Word : PollWord(w)) \/ PollAck \/ Done
    BY <2>3, <2>5 DEF Poll, PollOdd, Retry, PollWord, PollAck, Done,
                      mutatorVars
  <2>6. CASE UNCHANGED vars
    BY <2>3, <2>6 DEF vars, mutatorVars, observerVars
  <2> QED BY <2>1, <2>2, <2>4, <2>5, <2>6
             DEF Next, Mutator, PushStep, Observer, PollStep
<1> QED BY <1>1, <1>2, Inductive, PTL DEF Spec, Cell!Spec, ImplementsLatestValue
=============================================================================
