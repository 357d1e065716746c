----------------------------- MODULE StateQueue -----------------------------
(***************************************************************************)
(* services/audioflinger/StateQueue.{h,cpp}: a lock-free queue of kN slots *)
(* through which one mutator thread (the normal mixer) hands states of     *)
(* type T to one observer thread (the fast mixer or fast capture thread).  *)
(*                                                                         *)
(* A pointer to mStates[i] is the slot number i, the null pointer is NULL. *)
(* Each action is one access to memory the other thread reads (mNext,      *)
(* mAck, a slot) with the private assignments around it.  The store and    *)
(* load of mNext are release and acquire, which is what lets the model use *)
(* one sequentially consistent memory.                                     *)
(***************************************************************************)
EXTENDS Integers

CONSTANTS kN,       \* number of slots
          Value,    \* the values of type T
          Nothing   \* used by the abstraction only: no state at all

(* "values < 4 are not supported by this code" *)
ASSUME kNAssumption == kN \in Nat /\ kN >= 4

Slot == 0 .. kN - 1
NULL == -1
Pointer == Slot \cup {NULL}

VARIABLES
  mStates,         \* the slots
  mNext,           \* latest published slot: written by mutator, read by observer
  mAck,            \* written by observer, read by mutator
  mCurrent,        \* observer: slot the last poll() returned
  previous,        \* observer: slot it held before mCurrent; it may still read it
  polled,          \* observer: inside poll(), the value loaded from mNext
  opc,             \* observer: where it is in poll()
  mMutating,       \* mutator: slot edited in place
  mExpecting,      \* mutator: what it expects mAck to become
  mInMutation,     \* mutator: between begin() and end()
  mIsDirty,        \* mutator: edited since the last push
  mIsInitialized,  \* mutator: a first edit was made
  didModify,       \* mutator: the caller's edits of this mutation
  block,           \* mutator: the argument of push()
  mpc              \* mutator: where it is in push()

observerVars == <<mAck, mCurrent, previous, polled, opc>>
mutationVars == <<mInMutation, mIsInitialized, didModify>>
mutatorVars == <<mMutating, mExpecting, mInMutation, mIsDirty, mIsInitialized,
                 didModify, block, mpc>>
vars == <<mStates, mNext, observerVars, mutatorVars>>

Block == {"NEVER", "UNTIL_PUSHED", "UNTIL_ACKED"}

(* Faulty variant: wraps one slot late.                                    *)
SuccLate(s) == IF s + 1 > kN THEN 0 ELSE s + 1

Succ(s) == IF s + 1 >= kN THEN 0 ELSE s + 1

Init ==
  /\ mStates \in [Slot -> Value]
  /\ mNext = NULL
  /\ mAck = NULL /\ mCurrent = NULL /\ previous = NULL
  /\ polled = NULL /\ opc = "idle"
  /\ mMutating = 0 /\ mExpecting = NULL
  /\ mInMutation = FALSE /\ mIsDirty = FALSE /\ mIsInitialized = FALSE
  /\ didModify = FALSE /\ block = "NEVER" /\ mpc = "idle"
-----------------------------------------------------------------------------
(* Observer *)

(* poll(): load mNext.  Nothing happens unless it moved.                   *)
PollLoad ==
  /\ opc = "idle"
  /\ mNext # mCurrent
  /\ polled' = mNext
  /\ opc' = "ack"
  /\ UNCHANGED <<mStates, mNext, mAck, mCurrent, previous, mutatorVars>>

(* Faulty variant: the acknowledgement is forgotten.                       *)
PollNoAck ==
  /\ opc = "ack"
  /\ mCurrent' = polled
  /\ previous' = mCurrent
  /\ opc' = "idle"
  /\ UNCHANGED <<mStates, mNext, mAck, polled, mutatorVars>>

(* Faulty variant: the new state is returned once and not kept.            *)
PollKeepsCurrent ==
  /\ opc = "ack"
  /\ mAck' = polled
  /\ opc' = "idle"
  /\ UNCHANGED <<mStates, mNext, mCurrent, previous, polled, mutatorVars>>

(* poll(): acknowledge, and return the new state.  The caller's previous   *)
(* state is the one it worked with until now.                              *)
PollAck ==
  /\ opc = "ack"
  /\ mAck' = polled
  /\ mCurrent' = polled
  /\ previous' = mCurrent
  /\ opc' = "idle"
  /\ UNCHANGED <<mStates, mNext, polled, mutatorVars>>

Observer == PollLoad \/ PollAck
-----------------------------------------------------------------------------
(* Mutator *)

Begin ==
  /\ mpc = "idle" /\ ~mInMutation
  /\ mInMutation' = TRUE
  /\ didModify' = FALSE
  /\ UNCHANGED <<mStates, mNext, observerVars, mMutating, mExpecting, mIsDirty,
                 mIsInitialized, block, mpc>>

(* The caller writes through the pointer begin() returned.                 *)
Modify(v) ==
  /\ mpc = "idle" /\ mInMutation
  /\ mStates' = [mStates EXCEPT ![mMutating] = v]
  /\ didModify' = TRUE
  /\ UNCHANGED <<mNext, observerVars, mMutating, mExpecting, mInMutation,
                 mIsDirty, mIsInitialized, block, mpc>>

(* end(did): a caller may say it modified when it did not, never the       *)
(* reverse, and the first end() must initialize.                           *)
End(did) ==
  /\ mpc = "idle" /\ mInMutation
  /\ didModify => did
  /\ mIsInitialized \/ (did /\ didModify)
  /\ mIsDirty' = (mIsDirty \/ did)
  /\ mIsInitialized' = (mIsInitialized \/ did)
  /\ mInMutation' = FALSE
  /\ UNCHANGED <<mStates, mNext, observerVars, mMutating, mExpecting, didModify,
                 block, mpc>>

(* Where push() goes once nothing is left to publish.                      *)
AfterPublish(b) ==
  IF b = "UNTIL_ACKED" /\ mExpecting # NULL THEN "ack" ELSE "idle"

Push(b) ==
  /\ mpc = "idle" /\ ~mInMutation
  /\ block' = b
  /\ mpc' = IF mIsDirty
            THEN IF mExpecting # NULL THEN "wait" ELSE "publish"
            ELSE AfterPublish(b)
  /\ UNCHANGED <<mStates, mNext, observerVars, mMutating, mExpecting,
                 mutationVars, mIsDirty>>

(* Faulty variant: publishes over a state the observer has not taken.      *)
PriorIgnored == TRUE

(* The prior push must have been acknowledged before the next one.         *)
PriorAcked == mAck = mExpecting

(* Faulty variant: BLOCK_NEVER waits like the others.                      *)
WaitAlways ==
  /\ mpc = "wait" /\ PriorAcked
  /\ mpc' = "publish"
  /\ UNCHANGED <<mStates, mNext, observerVars, mMutating, mExpecting,
                 mutationVars, mIsDirty, block>>

WaitForPrior ==
  /\ mpc = "wait"
  /\ \/ PriorAcked /\ mpc' = "publish"
     \/ ~PriorAcked /\ block = "NEVER" /\ mpc' = "idle"    \* returns false
  /\ UNCHANGED <<mStates, mNext, observerVars, mMutating, mExpecting,
                 mutationVars, mIsDirty, block>>

(* Faulty variant: goes on editing the published slot.                     *)
PublishInPlace ==
  /\ mpc = "publish"
  /\ mNext' = mMutating
  /\ mExpecting' = mMutating
  /\ mpc' = "copy"
  /\ UNCHANGED <<mStates, observerVars, mutationVars, mMutating, mIsDirty, block>>

Publish ==
  /\ mpc = "publish"
  /\ mNext' = mMutating
  /\ mExpecting' = mMutating
  /\ mMutating' = Succ(mMutating)
  /\ mpc' = "copy"
  /\ UNCHANGED <<mStates, observerVars, mutationVars, mIsDirty, block>>

(* Faulty variant: the new slot keeps what it held kN publications ago.    *)
NoCopyForward ==
  /\ mpc = "copy"
  /\ mIsDirty' = FALSE
  /\ mpc' = AfterPublish(block)
  /\ UNCHANGED <<mStates, mNext, observerVars, mMutating, mExpecting,
                 mutationVars, block>>

(* The new slot starts as a copy of the published one, which the observer  *)
(* may already be reading.                                                 *)
CopyForward ==
  /\ mpc = "copy"
  /\ mStates' = [mStates EXCEPT ![mMutating] = mStates[mExpecting]]
  /\ mIsDirty' = FALSE
  /\ mpc' = AfterPublish(block)
  /\ UNCHANGED <<mNext, observerVars, mMutating, mExpecting, mutationVars, block>>

(* Faulty variant: returns as soon as the state is published.              *)
AckAssumed ==
  /\ mpc = "ack"
  /\ mExpecting' = NULL
  /\ mpc' = "idle"
  /\ UNCHANGED <<mStates, mNext, observerVars, mMutating, mutationVars, mIsDirty,
                 block>>

WaitForAck ==
  /\ mpc = "ack"
  /\ mAck = mExpecting
  /\ mExpecting' = NULL
  /\ mpc' = "idle"
  /\ UNCHANGED <<mStates, mNext, observerVars, mMutating, mutationVars, mIsDirty,
                 block>>

PushStep == WaitForPrior \/ Publish \/ CopyForward \/ WaitForAck

Mutator == \/ Begin
           \/ \E v \in Value : Modify(v)
           \/ \E did \in BOOLEAN : End(did)
           \/ \E b \in Block : Push(b)
           \/ PushStep

Next == Observer \/ Mutator

Spec == Init /\ [][Next]_vars

(* push() never stops in the middle of its own code: it polls mAck every   *)
(* 3 ms.  The observer is a periodic thread that polls every cycle.        *)
MutatorFairness == WF_vars(PushStep)
ObserverFairness == WF_vars(Observer)

MutatorSpec == Spec /\ MutatorFairness
-----------------------------------------------------------------------------
(* Properties *)

TypeOK ==
  /\ mStates \in [Slot -> Value]
  /\ mNext \in Pointer /\ mAck \in Pointer /\ mExpecting \in Pointer
  /\ mCurrent \in Pointer /\ previous \in Pointer /\ polled \in Pointer
  /\ mMutating \in Slot
  /\ opc \in {"idle", "ack"}
  /\ mpc \in {"idle", "wait", "publish", "copy", "ack"}
  /\ block \in Block
  /\ mInMutation \in BOOLEAN /\ mIsDirty \in BOOLEAN
  /\ mIsInitialized \in BOOLEAN /\ didModify \in BOOLEAN

(* The slots the observer has a pointer to.                                *)
Readable == {mCurrent, previous, IF opc = "ack" THEN polled ELSE NULL} \ {NULL}

(* "The previous state pointer is guaranteed to still be valid": the slot  *)
(* the mutator edits, or copies into, is never one the observer may be     *)
(* reading, nor the one its next poll() will return.                       *)
MutatingIsPrivate == mMutating \notin Readable \cup {mNext}

(* Nor does any step change what the observer may be reading.              *)
ReadableIsStable == [][\A s \in Readable : mStates'[s] = mStates[s]]_vars

(* mExpecting is cleared only by a push(BLOCK_UNTIL_ACKED) that returned:  *)
(* from then until the next publication the observer works with the latest *)
(* state and with no older one.  The normal mixer relies on it to stop the *)
(* fast mixer's I/O and to free what a removed track used.                 *)
AckedMeansCurrent ==
  mNext # NULL /\ mExpecting = NULL => mCurrent = mNext /\ opc = "idle"

(* Nothing the caller modified is lost: a state that is not dirty is what  *)
(* the observer will get, or has.                                          *)
CleanMeansPublished ==
  (~mIsDirty /\ mIsInitialized /\ ~(mInMutation /\ didModify))
     => mNext # NULL /\ mStates[mMutating] = mStates[mNext]

(* The abstract channel: a publication is the store to mNext.              *)
ValueAt(s) == IF s = NULL THEN Nothing ELSE mStates[s]

Channel == INSTANCE StateChannel WITH
  draft     <- IF mpc = "copy" THEN mStates[mExpecting] ELSE mStates[mMutating],
  published <- ValueAt(mNext),
  fresh     <- mNext # mCurrent,
  current   <- ValueAt(mCurrent),
  previous  <- ValueAt(previous)

ImplementsChannel == Channel!Spec

(* The observer gets every published state, if it keeps polling.           *)
PublishedIsSeen == ObserverFairness => Channel!PublishedIsSeen

(* push() returns, whatever it blocks on, if the observer keeps polling;   *)
(* and push(BLOCK_NEVER) even if the observer never polls.                 *)
PushReturns ==
  /\ ObserverFairness => (mpc # "idle" ~> mpc = "idle")
  /\ mpc # "idle" /\ block = "NEVER" ~> mpc = "idle"
=============================================================================
