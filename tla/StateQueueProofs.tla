-------------------------- MODULE StateQueueProofs --------------------------
(***************************************************************************)
(* For every number of slots kN >= 4 and every set of states: the mutator  *)
(* never touches what the observer may be reading, an acknowledged push    *)
(* means the observer works with the latest state, nothing modified is     *)
(* lost, and the queue implements StateChannel.                            *)
(***************************************************************************)
EXTENDS StateQueue, TLAPS

Pred(s) == IF s = 0 THEN kN - 1 ELSE s - 1

(* The pointers follow each other round the array: previous, mCurrent,     *)
(* mNext, mMutating, where mCurrent lags mNext by at most one slot because *)
(* a publication waits for the acknowledgement of the prior one.           *)
Chained ==
  /\ mAck = mCurrent
  /\ mNext = NULL => mMutating = 0 /\ mCurrent = NULL
  /\ mNext # NULL => mMutating = Succ(mNext)
  /\ mNext # NULL => mCurrent \in {NULL, mNext, Pred(mNext)}
  /\ mNext # NULL /\ mCurrent = NULL => mNext = 0
  /\ mCurrent = NULL => previous = NULL
  /\ previous \in {NULL, Pred(mCurrent)}

(* What each side knows at each point of poll() and push().                *)
Knowledge ==
  /\ opc = "ack" => polled = mNext /\ mNext # NULL /\ mCurrent # mNext
  /\ mExpecting \in {NULL, mNext}
  /\ mExpecting = NULL => mCurrent = mNext
  /\ mpc = "publish" => mCurrent = mNext
  /\ mpc \in {"wait", "copy", "ack"} => mExpecting = mNext /\ mNext # NULL
  /\ mpc \in {"wait", "publish", "copy"} => mIsDirty /\ ~mInMutation
  /\ mIsDirty => mIsInitialized

IInv == TypeOK /\ Chained /\ Knowledge /\ CleanMeansPublished

(* Going round the array.                                                  *)
LEMMA Circular ==
  \A s \in Slot : /\ Succ(s) \in Slot
                  /\ Pred(s) \in Slot
                  /\ Pred(Succ(s)) = s
                  /\ Succ(s) \notin {s, Pred(s), Pred(Pred(s)), NULL}
                  /\ Pred(s) # s
BY kNAssumption DEF Slot, Succ, Pred, NULL

LEMMA NullIsNoSlot == NULL \notin Slot
BY DEF NULL, Slot

LEMMA InitInv == Init => IInv
<1> SUFFICES ASSUME Init PROVE IInv
  OBVIOUS
<1>0. 0 \in Slot /\ NULL \in Pointer
  BY kNAssumption DEF Slot, Pointer
<1>1. TypeOK
  BY <1>0 DEF Init, TypeOK, Block
<1>2. Chained /\ Knowledge /\ CleanMeansPublished
  BY DEF Init, Chained, Knowledge, CleanMeansPublished
<1>3. QED
  BY <1>1, <1>2 DEF IInv

LEMMA NextType == IInv /\ [Next]_vars => TypeOK'
<1> SUFFICES ASSUME IInv, [Next]_vars PROVE TypeOK'
  OBVIOUS
<1>0. TypeOK
  BY DEF IInv
<1> USE <1>0 DEF TypeOK
<1>1. CASE Observer
  BY <1>1 DEF Observer, PollLoad, PollAck, mutatorVars
<1>2. CASE Begin
  BY <1>2 DEF Begin, observerVars
<1>3. ASSUME NEW v \in Value, Modify(v) PROVE TypeOK'
  BY <1>3 DEF Modify, observerVars
<1>4. ASSUME NEW did \in BOOLEAN, End(did) PROVE TypeOK'
  BY <1>4 DEF End, observerVars
<1>5. ASSUME NEW b \in Block, Push(b) PROVE TypeOK'
  BY <1>5 DEF Push, AfterPublish, observerVars, mutationVars
<1>6. CASE WaitForPrior
  BY <1>6 DEF WaitForPrior, observerVars, mutationVars
<1>7. CASE Publish
  BY <1>7, Circular DEF Publish, Pointer, observerVars, mutationVars
<1>8. CASE CopyForward
  <2>1. mExpecting \in Slot
    BY <1>8 DEF IInv, Knowledge, CopyForward, Pointer
  <2>2. QED
    BY <1>8, <2>1 DEF CopyForward, AfterPublish, observerVars, mutationVars
<1>9. CASE WaitForAck
  BY <1>9 DEF WaitForAck, Pointer, observerVars, mutationVars
<1>10. CASE UNCHANGED vars
  BY <1>10 DEF vars, observerVars, mutatorVars
<1>11. QED
  BY <1>1, <1>2, <1>3, <1>4, <1>5, <1>6, <1>7, <1>8, <1>9, <1>10
  DEF Next, Mutator, PushStep

(* One step keeps the pointers in their circular order.                    *)
LEMMA NextChained == IInv /\ [Next]_vars => Chained'
<1> SUFFICES ASSUME IInv, [Next]_vars PROVE Chained'
  OBVIOUS
<1> USE NullIsNoSlot DEF IInv, Chained
<1>1. CASE PollLoad
  BY <1>1 DEF PollLoad, mutatorVars
<1>2. CASE PollAck
  BY <1>2 DEF PollAck, mutatorVars, Knowledge
<1>3. CASE Publish
  <2>1. mMutating # NULL /\ mCurrent = mNext
    BY <1>3 DEF Publish, Knowledge, TypeOK
  <2>2. mNext # NULL => mNext \in Slot /\ mNext = Pred(mMutating)
    BY Circular DEF TypeOK, Pointer
  <2>3. QED
    BY <1>3, <2>1, <2>2 DEF Publish, observerVars
<1>4. CASE Begin \/ CopyForward \/ WaitForPrior \/ WaitForAck
  BY <1>4 DEF Begin, CopyForward, WaitForPrior, WaitForAck, observerVars
<1>5. ASSUME NEW v \in Value, Modify(v) PROVE Chained'
  BY <1>5 DEF Modify, observerVars
<1>6. ASSUME NEW did \in BOOLEAN, End(did) PROVE Chained'
  BY <1>6 DEF End, observerVars
<1>7. ASSUME NEW b \in Block, Push(b) PROVE Chained'
  BY <1>7 DEF Push, observerVars
<1>8. CASE UNCHANGED vars
  BY <1>8 DEF vars, observerVars, mutatorVars
<1>9. QED
  BY <1>1, <1>2, <1>3, <1>4, <1>5, <1>6, <1>7, <1>8
  DEF Next, Observer, Mutator, PushStep

(* One step keeps what each side knows of the other.                       *)
LEMMA NextKnowledge == IInv /\ [Next]_vars => Knowledge'
<1> SUFFICES ASSUME IInv, [Next]_vars PROVE Knowledge'
  OBVIOUS
<1> USE DEF IInv, Knowledge
<1>0. mMutating # NULL
  BY NullIsNoSlot DEF TypeOK
<1>1. CASE PollLoad
  <2>1. mNext # NULL
    BY <1>1, NullIsNoSlot DEF PollLoad, Chained, TypeOK
  <2>2. QED
    BY <1>1, <2>1 DEF PollLoad, mutatorVars
<1>2. CASE PollAck
  BY <1>2 DEF PollAck, mutatorVars
<1>3. CASE Begin \/ CopyForward \/ WaitForAck
  BY <1>3 DEF Begin, CopyForward, WaitForAck, AfterPublish, Chained,
              observerVars, mutationVars
<1>4. CASE WaitForPrior
  BY <1>4 DEF WaitForPrior, PriorAcked, Chained, observerVars, mutationVars
<1>5. CASE Publish
  BY <1>0, <1>5 DEF Publish, observerVars, mutationVars
<1>6. ASSUME NEW v \in Value, Modify(v) PROVE Knowledge'
  BY <1>6 DEF Modify, observerVars
<1>7. ASSUME NEW did \in BOOLEAN, End(did) PROVE Knowledge'
  BY <1>7 DEF End, observerVars
<1>8. ASSUME NEW b \in Block, Push(b) PROVE Knowledge'
  BY <1>8 DEF Push, AfterPublish, observerVars, mutationVars
<1>9. CASE UNCHANGED vars
  BY <1>9 DEF vars, observerVars, mutatorVars
<1>10. QED
  BY <1>1, <1>2, <1>3, <1>4, <1>5, <1>6, <1>7, <1>8, <1>9
  DEF Next, Observer, Mutator, PushStep

(* A slot to edit is always outside the observer's reach.                  *)
LEMMA PrivateSlot == IInv => MutatingIsPrivate
<1> SUFFICES ASSUME IInv PROVE MutatingIsPrivate
  OBVIOUS
<1> USE Circular, NullIsNoSlot DEF IInv, TypeOK, Pointer, Chained
<1>1. mMutating # mNext
  OBVIOUS
<1>2. mCurrent # NULL => mMutating # mCurrent
  OBVIOUS
<1>3. previous # NULL => mMutating # previous
  OBVIOUS
<1>4. QED
  BY <1>1, <1>2, <1>3 DEF MutatingIsPrivate, Readable, Knowledge

(* One step changes no slot the observer may be reading.                   *)
LEMMA NextReadable ==
  IInv /\ [Next]_vars => \A s \in Readable : mStates'[s] = mStates[s]
<1> SUFFICES ASSUME IInv, [Next]_vars, NEW s \in Readable
             PROVE  mStates'[s] = mStates[s]
  OBVIOUS
<1>1. s # mMutating /\ s \in Slot
  BY PrivateSlot DEF MutatingIsPrivate, Readable, IInv, TypeOK, Pointer
<1>2. mStates' # mStates =>
        \E v \in Value : mStates' = [mStates EXCEPT ![mMutating] = v]
  <2>1. CASE CopyForward
    <3>1. mStates[mExpecting] \in Value
      BY <2>1 DEF IInv, TypeOK, Knowledge, CopyForward, Pointer
    <3>2. QED
      BY <2>1, <3>1 DEF CopyForward
  <2>2. CASE \E v \in Value : Modify(v)
    BY <2>2 DEF Modify
  <2>3. QED
    BY <2>1, <2>2 DEF Next, Observer, PollLoad, PollAck, Mutator, Begin, End,
       Push, PushStep, WaitForPrior, Publish, WaitForAck, vars
<1>3. QED
  BY <1>1, <1>2 DEF IInv, TypeOK

(* One step loses none of the caller's edits.                              *)
LEMMA NextClean == IInv /\ [Next]_vars => CleanMeansPublished'
<1> SUFFICES ASSUME IInv, [Next]_vars PROVE CleanMeansPublished'
  OBVIOUS
<1> USE DEF IInv, CleanMeansPublished
<1>1. CASE PollLoad \/ PollAck
  BY <1>1 DEF PollLoad, PollAck, mutatorVars
<1>2. CASE Begin \/ WaitForPrior \/ WaitForAck
  BY <1>2 DEF Begin, WaitForPrior, WaitForAck, observerVars, mutationVars
<1>3. CASE Publish
  BY <1>3 DEF Publish, Knowledge, observerVars, mutationVars
<1>4. CASE CopyForward
  <2>1. mExpecting = mNext /\ mNext # NULL /\ mNext \in Slot /\ mMutating # mNext
    BY <1>4, PrivateSlot
    DEF CopyForward, Knowledge, TypeOK, Pointer, MutatingIsPrivate
  <2>2. QED
    BY <1>4, <2>1 DEF CopyForward, TypeOK, observerVars, mutationVars
<1>5. ASSUME NEW v \in Value, Modify(v) PROVE CleanMeansPublished'
  BY <1>5 DEF Modify, observerVars
<1>6. ASSUME NEW did \in BOOLEAN, End(did) PROVE CleanMeansPublished'
  BY <1>6 DEF End, observerVars
<1>7. ASSUME NEW b \in Block, Push(b) PROVE CleanMeansPublished'
  BY <1>7 DEF Push, Knowledge, TypeOK, observerVars, mutationVars
<1>8. CASE UNCHANGED vars
  BY <1>8 DEF vars, observerVars, mutatorVars
<1>9. QED
  BY <1>1, <1>2, <1>3, <1>4, <1>5, <1>6, <1>7, <1>8
  DEF Next, Observer, Mutator, PushStep

(* The pointers of mutator and observer follow each other round the slots, *)
(* whatever push() waits for.                                              *)
THEOREM Inductive == Spec => []IInv
<1>1. IInv /\ [Next]_vars => IInv'
  BY NextType, NextChained, NextKnowledge, NextClean DEF IInv
<1>2. QED
  BY InitInv, <1>1, PTL DEF Spec

(* Every reachable state of the queue is well typed.                       *)
THEOREM TypeCorrect == Spec => []TypeOK
BY Inductive, PTL DEF IInv

(* The mutator never edits a slot the observer may be reading: "the        *)
(* previous state pointer is guaranteed to still be valid".                *)
THEOREM MutatorKeepsOut == Spec => []MutatingIsPrivate
BY Inductive, PrivateSlot, PTL

(* Once push(BLOCK_UNTIL_ACKED) returned, the observer works with the      *)
(* latest state and is not on its way to an older one.                     *)
THEOREM AckIsReal == Spec => []AckedMeansCurrent
<1>1. IInv => AckedMeansCurrent
  BY DEF IInv, TypeOK, Knowledge, AckedMeansCurrent
<1>2. QED
  BY Inductive, <1>1, PTL

(* A state that is not dirty is the one last published.                    *)
THEOREM NothingLost == Spec => []CleanMeansPublished
BY Inductive, PTL DEF IInv

(* No step of either thread changes what the observer may be reading.      *)
THEOREM ReadsAreStable == Spec => ReadableIsStable
<1> DEFINE Stable == \A s \in Readable : mStates'[s] = mStates[s]
<1>1. IInv /\ [Next]_vars => [Stable]_vars
  BY NextReadable
<1>2. QED
  BY Inductive, <1>1, PTL DEF Spec, ReadableIsStable

(* Each step of the queue is a step of the abstract channel: the store to  *)
(* mNext publishes, the acknowledgement observes, an edit edits, and all   *)
(* the rest is invisible.                                                  *)
THEOREM QueueImplementsChannel == Spec => ImplementsChannel
<1> USE NullIsNoSlot DEF ValueAt
<1>1. Init => Channel!Init
  <2> SUFFICES ASSUME Init PROVE Channel!Init
    OBVIOUS
  <2>1. 0 \in Slot
    BY kNAssumption DEF Slot
  <2>2. QED
    BY <2>1 DEF Init, Channel!Init
<1>2. IInv /\ IInv' /\ [Next]_vars => [Channel!Next]_(Channel!vars)
  <2> SUFFICES ASSUME IInv, IInv', [Next]_vars
               PROVE  Channel!Next \/ UNCHANGED Channel!vars
    BY DEF Channel!vars
  <2> USE DEF Channel!Next, Channel!vars
  <2>0. /\ TypeOK /\ Chained /\ Knowledge
        /\ mMutating \notin Readable \cup {mNext}
    BY PrivateSlot DEF IInv, MutatingIsPrivate
  <2>1. mCurrent # mMutating /\ previous # mMutating /\ mNext # mMutating
    BY <2>0 DEF Readable, TypeOK
  <2>2. CASE PollLoad
    BY <2>2 DEF PollLoad, mutatorVars
  <2>3. CASE PollAck
    BY <2>0, <2>3 DEF PollAck, mutatorVars, Knowledge, Channel!Observe
  <2>4. ASSUME NEW v \in Value, Modify(v)
        PROVE  Channel!Next \/ UNCHANGED Channel!vars
    BY <2>0, <2>1, <2>4 DEF Modify, observerVars, TypeOK, Pointer, Channel!Edit
  <2>5. CASE Publish
    <3>1. mMutating \in Slot /\ mMutating # NULL /\ mCurrent = mNext
      BY <2>0, <2>5 DEF TypeOK, Knowledge, Publish
    <3>2. QED
      BY <2>1, <2>5, <3>1 DEF Publish, observerVars, Channel!Publish
  <2>6. CASE CopyForward
    <3>1. mExpecting \in Slot /\ mMutating \in Slot /\ mpc' # "copy"
      BY <2>0, <2>6 DEF TypeOK, Knowledge, CopyForward, Pointer, AfterPublish
    <3>2. mStates'[mMutating] = mStates[mExpecting]
      BY <2>0, <2>6, <3>1 DEF CopyForward, TypeOK
    <3>3. \A s \in Slot \ {mMutating} : mStates'[s] = mStates[s]
      BY <2>0, <2>6 DEF CopyForward, TypeOK
    <3>4. QED
      BY <2>0, <2>1, <2>6, <3>1, <3>2, <3>3
      DEF CopyForward, observerVars, TypeOK, Pointer
  <2>7. CASE Begin \/ WaitForPrior \/ WaitForAck
    BY <2>7 DEF Begin, WaitForPrior, WaitForAck, observerVars
  <2>8. ASSUME NEW did \in BOOLEAN, End(did) PROVE UNCHANGED Channel!vars
    BY <2>8 DEF End, observerVars
  <2>9. ASSUME NEW b \in Block, Push(b) PROVE UNCHANGED Channel!vars
    BY <2>9 DEF Push, AfterPublish, observerVars
  <2>10. CASE UNCHANGED vars
    BY <2>10 DEF vars, observerVars, mutatorVars
  <2>11. QED
    BY <2>2, <2>3, <2>4, <2>5, <2>6, <2>7, <2>8, <2>9, <2>10
    DEF Next, Observer, Mutator, PushStep
<1>3. QED
  BY <1>1, <1>2, Inductive, PTL DEF Spec, ImplementsChannel, Channel!Spec
=============================================================================
