-------------------------- MODULE FastMixerProofs ---------------------------
(***************************************************************************)
(* For every set of tracks and slots and every bound: the normal mixer and *)
(* the fast mixer never use the HAL at once, and an output in standby is   *)
(* not written to (if the HAL takes parameters without going to standby).  *)
(* The fast mixer mixes exactly the tracks of its current state, whatever  *)
(* states it skipped, none of them has been released, and the futex of     *)
(* cold idle stays between -1 and 1.                                       *)
(*                                                                         *)
(* The queue between the threads is an instance of StateQueue, in which    *)
(* each of their steps is a step or a stutter, so that what                *)
(* StateQueueProofs shows of one step holds here.                          *)
(***************************************************************************)
EXTENDS FastMixer, TLAPS

Queue == INSTANCE StateQueueProofs WITH Value <- FastMixerState

NULL == Queue!NULL

(* StateQueue.h sets kN to 4.                                              *)
LEMMA FourSlots == Queue!kNAssumption
BY DEF Queue!kNAssumption, kN

(* FastMixer's instance of the queue and the one proved about have the same *)
(* steps.                                                                  *)
LEMMA SameQueue ==
  /\ SQ!Observer <=> Queue!Observer
  /\ SQ!Mutator <=> Queue!Mutator
  /\ SQ!Next <=> Queue!Next
<1>1. SQ!PollLoad <=> Queue!PollLoad
  BY DEF SQ!PollLoad, Queue!PollLoad, SQ!mutatorVars, Queue!mutatorVars
<1>2. SQ!PollAck <=> Queue!PollAck
  BY DEF SQ!PollAck, Queue!PollAck, SQ!mutatorVars, Queue!mutatorVars
<1>3. SQ!Begin <=> Queue!Begin
  BY DEF SQ!Begin, Queue!Begin, SQ!observerVars, Queue!observerVars
<1>4. \A v \in FastMixerState : SQ!Modify(v) <=> Queue!Modify(v)
  BY DEF SQ!Modify, Queue!Modify, SQ!observerVars, Queue!observerVars
<1>5. \A did \in BOOLEAN : SQ!End(did) <=> Queue!End(did)
  BY DEF SQ!End, Queue!End, SQ!observerVars, Queue!observerVars
<1> USE DEF SQ!NULL, Queue!NULL, SQ!AfterPublish, Queue!AfterPublish,
            SQ!observerVars, Queue!observerVars,
            SQ!mutationVars, Queue!mutationVars
<1>6. \A b \in SQ!Block : SQ!Push(b) <=> Queue!Push(b)
  BY DEF SQ!Push, Queue!Push
<1>7. SQ!WaitForPrior <=> Queue!WaitForPrior
  BY DEF SQ!WaitForPrior, Queue!WaitForPrior, SQ!PriorAcked, Queue!PriorAcked
<1>8. SQ!Publish <=> Queue!Publish
  BY DEF SQ!Publish, Queue!Publish, SQ!Succ, Queue!Succ
<1>9. SQ!CopyForward <=> Queue!CopyForward
  BY DEF SQ!CopyForward, Queue!CopyForward
<1>10. SQ!WaitForAck <=> Queue!WaitForAck
  BY DEF SQ!WaitForAck, Queue!WaitForAck
<1>11. SQ!Block = Queue!Block
  BY DEF SQ!Block, Queue!Block
<1>12. QED
  BY <1>1, <1>2, <1>3, <1>4, <1>5, <1>6, <1>7, <1>8, <1>9, <1>10, <1>11
  DEF SQ!Next, SQ!Observer, SQ!Mutator, SQ!PushStep,
      Queue!Next, Queue!Observer, Queue!Mutator, Queue!PushStep

(* What StateQueueProofs proves of a queue holds of this one.              *)
LEMMA QueueInductive ==
  Queue!IInv /\ (SQ!Next \/ UNCHANGED queueVars) => Queue!IInv'
<1> SUFFICES ASSUME Queue!IInv, SQ!Next \/ UNCHANGED queueVars
             PROVE  Queue!IInv'
  OBVIOUS
<1>1. [Queue!Next]_(Queue!vars)
  BY SameQueue DEF queueVars, Queue!vars, Queue!observerVars, Queue!mutatorVars
<1>2. QED
  BY <1>1, FourSlots, Queue!NextType, Queue!NextChained, Queue!NextKnowledge,
     Queue!NextClean DEF Queue!IInv

(* The slot the normal mixer edits is out of the fast mixer's reach.       *)
LEMMA QueuePrivate == Queue!IInv => Queue!MutatingIsPrivate
BY FourSlots, Queue!PrivateSlot

-----------------------------------------------------------------------------
(* What the normal mixer has decided, published or not.                    *)
Draft == IF mpc = "copy" THEN mStates[mExpecting] ELSE mStates[mMutating]

(* The mutations that take the HAL away from the fast mixer, until the     *)
(* fast mixer has acknowledged them.                                       *)
Taking == {"standby", "lastStandby", "params"}
Stopping == job \in Taking /\ npc \in {"end", "push", "pushing"}

HalUser == {"halStandby", "halWarmup", "setParameters", "setParametersIdle"}

(* No state the fast mixer has, or will get next, tells it to write.       *)
Quiet == \A s \in {mNext, mCurrent} \ {NULL} : mStates[s].mCommand # "MIX_WRITE"

CurrentState == IF mCurrent = NULL THEN sInitial ELSE mStates[mCurrent]

(* The fast mixer obeys the state it acknowledged.                         *)
Follows ==
  /\ fpc = "adopt" => mCurrent # NULL
  /\ fpc # "adopt" => current = IF mCurrent = NULL THEN INITIAL ELSE mCurrent
  /\ fpc = "dispatch" => mCommand = CurrentState.mCommand
  /\ fpc = "work" => CurrentState.mCommand = "MIX_WRITE"

Mutation == {"params", "restore", "standby", "lastStandby", "prepare", "write",
             "exit"}
Mutating == {"edit", "halWarmup", "increment", "wake", "command", "end", "push",
             "pushing"}

(* Where push() is, and what it established when it returned.              *)
Pushes ==
  /\ mIsInitialized
  /\ npc \in Mutating => job \in Mutation
  /\ npc \in {"halWarmup", "increment", "wake", "command"}
       => job \in {"write", "exit"}
  /\ mpc # "idle" => npc = "pushing"
  /\ npc = "pushing" => ~mInMutation /\ block = BlockFor(job)
  /\ npc = "pushing" /\ mpc \in {"ack", "idle"} => ~mIsDirty
  /\ npc = "pushing" /\ mpc = "idle" /\ block = "UNTIL_ACKED"
       => mExpecting = NULL

(* An idle draft was acknowledged, unless the push that publishes it is    *)
(* still under way; the normal mixer uses the HAL with an idle draft only. *)
Yields ==
  /\ npc \in HalUser \/ Stopping => Draft.mCommand \in Idle
  /\ Draft.mCommand \in Idle /\ ~Stopping => Quiet

IInv == /\ Queue!IInv
        /\ active \subseteq Track
        /\ Follows /\ Pushes /\ Yields

(* Every edit leaves a well-formed state with the command it asks for.     *)
Gives(v, command) == v \in FastMixerState /\ v.mCommand = command

(* The operands of the edits of EditStandby, EditPrepare and the others.   *)
LEMMA Edits ==
  ASSUME Queue!TypeOK, active \subseteq Track
  PROVE  /\ draft \in FastMixerState
         /\ \A c \in Command : Gives([draft EXCEPT !.mCommand = c], c)
         /\ Gives([draft EXCEPT !.mCommand = "COLD_IDLE", !.mColdGen = @ + 1],
                  "COLD_IDLE")
         /\ Gives([draft EXCEPT
                     !.provider = [i \in FastIndex |-> Prepared(i)],
                     !.mGeneration = [i \in FastIndex |-> NextGeneration(i)],
                     !.mFastTracksGen = NextTracksGen], draft.mCommand)
<1>1. draft \in FastMixerState
  BY DEF draft, Queue!TypeOK
<1>2. \A i \in FastIndex : Prepared(i) \in Track \cup {NoTrack}
  BY <1>1 DEF Prepared, FastMixerState
<1>3. \A i \in FastIndex : NextGeneration(i) \in Nat
  BY <1>1 DEF NextGeneration, FastMixerState
<1>4. NextTracksGen \in Nat
  BY <1>1 DEF NextTracksGen, FastMixerState
<1>5. \A c \in Command : Gives([draft EXCEPT !.mCommand = c], c)
  BY <1>1 DEF FastMixerState, Gives
<1>6. Gives([draft EXCEPT !.mCommand = "COLD_IDLE", !.mColdGen = @ + 1],
            "COLD_IDLE")
  <2>1. draft.mColdGen + 1 \in Nat /\ "COLD_IDLE" \in Command
    BY <1>1 DEF FastMixerState, Command, Idle
  <2>2. \A c \in Command, n \in Nat :
          Gives([draft EXCEPT !.mCommand = c, !.mColdGen = n], c)
    BY <1>1 DEF FastMixerState, Gives
  <2>3. QED
    BY <2>1, <2>2
<1>7. ASSUME NEW p \in [FastIndex -> Track \cup {NoTrack}],
             NEW g \in [FastIndex -> Nat], NEW n \in Nat
      PROVE  Gives([draft EXCEPT !.provider = p, !.mGeneration = g,
                                 !.mFastTracksGen = n], draft.mCommand)
  BY <1>1 DEF FastMixerState, Gives
<1>8. QED
  BY <1>1, <1>2, <1>3, <1>4, <1>5, <1>6, <1>7

(* Both threads use the queue as its protocol requires.                    *)
LEMMA QueueStep ==
  IInv /\ [Next]_vars => SQ!Next \/ UNCHANGED queueVars
<1> SUFFICES ASSUME IInv, [Next]_vars PROVE SQ!Next \/ UNCHANGED queueVars
  OBVIOUS
<1>0. Queue!TypeOK /\ active \subseteq Track
  BY DEF IInv, Queue!IInv
<1>1. CASE Fast
  BY <1>1 DEF Fast, FastPoll, FastPollSame, FastAdopt, FastCold, FastFutexWait,
     FastColdDone, FastHot, FastExit, FastStateChange, FastWork,
     SQ!Next, SQ!Observer
<1>2. CASE Binder \/ UNCHANGED vars
  BY <1>2 DEF Binder, Start, NormalTracks, Suspend, RequestExit, vars
<1>3. ASSUME NEW v \in FastMixerState, ChangeTo(v) PROVE SQ!Next
  BY <1>3 DEF ChangeTo, SQ!Next, SQ!Mutator
<1>4. CASE EditParams \/ EditRestore \/ EditStandby \/ EditPrepare \/ EditCommand
  BY <1>0, <1>3, <1>4, Edits
  DEF EditParams, EditRestore, EditStandby, EditPrepare, EditCommand, Leave,
      Gives, Command, Idle, SQ!Next, SQ!Mutator
<1>5. CASE Config \/ RestoreCommand \/ Standby \/ Prepare \/ Write \/ Destroy
  BY <1>5 DEF Config, RestoreCommand, Standby, Prepare, Write, Destroy, Mutate,
     SQ!Next, SQ!Mutator
<1>6. CASE EndMutation \/ EditRunOrExit
  BY <1>6 DEF EndMutation, EditRunOrExit, Leave, SQ!Next, SQ!Mutator
<1>7. CASE PushState \/ Pushing
  BY <1>7 DEF PushState, Pushing, BlockFor, SQ!Block, SQ!Next, SQ!Mutator
<1>8. QED
  BY <1>1, <1>2, <1>4, <1>5, <1>6, <1>7
  DEF Next, Normal, Top, SetParameters, Check, WakeUp, HalStandby, Release,
      Mix, HalWarmup, IncrementFutex, WakeFast, Submix, CycleEnd, Join, Pushed

(* One step of the queue keeps the states the fast mixer may look at.      *)
LEMMA CurrentKept ==
  IInv /\ [Next]_vars /\ mCurrent # NULL
    => mStates'[mCurrent] = mStates[mCurrent]
<1> SUFFICES ASSUME IInv, [Next]_vars, mCurrent # NULL
             PROVE  mStates'[mCurrent] = mStates[mCurrent]
  OBVIOUS
<1>1. [Queue!Next]_(Queue!vars)
  BY QueueStep, SameQueue
  DEF queueVars, Queue!vars, Queue!observerVars, Queue!mutatorVars
<1>2. mCurrent \in Queue!Readable
  BY DEF Queue!Readable, NULL
<1>3. QED
  BY <1>1, <1>2, FourSlots, Queue!NextReadable DEF IInv

(* Only a poll that finds a new state changes what the fast mixer obeys.   *)
LEMMA NextFollows == IInv /\ [Next]_vars => Follows'
<1> SUFFICES ASSUME IInv, [Next]_vars PROVE Follows'
  OBVIOUS
<1> USE DEF Follows
<1>0. Follows /\ Queue!TypeOK
  BY DEF IInv, Queue!IInv
<1>1. /\ mCurrent' = mCurrent => CurrentState' = CurrentState
      /\ fpc # "adopt" => StateAt(current) = CurrentState
  <2>1. mCurrent' = mCurrent => CurrentState' = CurrentState
    BY CurrentKept DEF CurrentState, NULL, Queue!NULL
  <2>2. mCurrent \notin {INITIAL, PREIDLE}
    BY <1>0 DEF Queue!TypeOK, Queue!Pointer, Queue!Slot, Queue!NULL,
                INITIAL, PREIDLE, kN
  <2>3. QED
    BY <1>0, <2>1, <2>2 DEF StateAt, CurrentState, INITIAL, PREIDLE
<1>2. CASE FastPoll
  <2>1. CASE SQ!PollLoad
    BY <1>0, <1>1, <1>2, <2>1 DEF FastPoll, SQ!PollLoad, SQ!PollAck
  <2>2. CASE SQ!PollAck /\ fpc' = "adopt"
    <3>1. polled # NULL
      BY <2>2 DEF IInv, Queue!IInv, Queue!Knowledge, SQ!PollAck, NULL
    <3>2. QED
      BY <2>2, <3>1 DEF SQ!PollAck
  <2>3. QED
    BY <1>2, <2>1, <2>2 DEF FastPoll
<1>3. CASE FastPollSame \/ FastStateChange \/ FastCold \/ FastFutexWait
           \/ FastColdDone \/ FastHot \/ FastExit \/ FastWork
  BY <1>0, <1>1, <1>3
  DEF FastPollSame, FastStateChange, FastCold, FastFutexWait, FastColdDone,
      FastHot, FastExit, FastWork, queueVars
<1>4. CASE FastAdopt
  BY <1>0, <1>1, <1>4 DEF FastAdopt, CurrentState, queueVars
<1>5. CASE Normal \/ Binder \/ UNCHANGED vars
  <2>1. mCurrent' = mCurrent
    BY <1>5 DEF Normal, Binder, vars, queueVars,
       Top, SetParameters, Check, WakeUp, HalStandby, Release, Mix, HalWarmup,
       IncrementFutex, WakeFast, Submix, CycleEnd, Join, Pushed,
       Config, RestoreCommand, Standby, Prepare, Write, Destroy, Mutate,
       EditParams, EditRestore, EditStandby, EditPrepare, EditCommand,
       EditRunOrExit, EndMutation, Leave, ChangeTo, PushState, Pushing,
       SQ!Begin, SQ!Modify, SQ!End, SQ!Push, SQ!PushStep, SQ!WaitForPrior,
       SQ!Publish, SQ!CopyForward, SQ!WaitForAck, SQ!observerVars,
       Start, NormalTracks, Suspend, RequestExit
  <2>2. /\ UNCHANGED <<current, mCommand>>
        /\ fpc' = fpc \/ (fpc = "asleep" /\ fpc' = "coldDone")
    BY <1>5 DEF Normal, Binder, vars, fastVars,
       Top, SetParameters, Check, WakeUp, HalStandby, Release, Mix, HalWarmup,
       IncrementFutex, WakeFast, Submix, CycleEnd, Join, Pushed,
       Config, RestoreCommand, Standby, Prepare, Write, Destroy, Mutate,
       EditParams, EditRestore, EditStandby, EditPrepare, EditCommand,
       EditRunOrExit, EndMutation, Leave, PushState, Pushing,
       Start, NormalTracks, Suspend, RequestExit
  <2>3. QED
    BY <1>0, <1>1, <2>1, <2>2
<1>6. QED
  BY <1>2, <1>3, <1>4, <1>5 DEF Next, Fast

(* The draft changes with edits only; what is published comes from it.     *)
LEMMA QueueDraft ==
  ASSUME Queue!IInv,
         \/ SQ!Observer \/ SQ!Begin \/ SQ!PushStep \/ UNCHANGED queueVars
         \/ \E did \in BOOLEAN : SQ!End(did)
         \/ \E b \in SQ!Block : SQ!Push(b)
  PROVE  /\ Draft' = Draft
         /\ Quiet /\ Draft.mCommand \in Idle => Quiet'
<1> USE DEF Draft, Quiet, Idle
<1>0. /\ Queue!TypeOK /\ Queue!Chained /\ Queue!Knowledge
      /\ mMutating \notin Queue!Readable \cup {mNext}
  BY QueuePrivate DEF Queue!IInv, Queue!MutatingIsPrivate
<1>1. CASE SQ!PollLoad
  BY <1>1 DEF SQ!PollLoad, SQ!mutatorVars
<1>2. CASE SQ!PollAck
  BY <1>0, <1>2 DEF SQ!PollAck, SQ!mutatorVars, Queue!Knowledge
<1>3. CASE SQ!Begin \/ SQ!WaitForPrior \/ SQ!WaitForAck
  BY <1>3 DEF SQ!Begin, SQ!WaitForPrior, SQ!WaitForAck, SQ!observerVars
<1>4. ASSUME NEW did \in BOOLEAN, SQ!End(did)
      PROVE UNCHANGED <<Draft, mNext, mCurrent, mStates>>
  BY <1>4 DEF SQ!End, SQ!observerVars
<1>5. ASSUME NEW b \in SQ!Block, SQ!Push(b)
      PROVE UNCHANGED <<Draft, mNext, mCurrent, mStates>>
  BY <1>5 DEF SQ!Push, SQ!AfterPublish, SQ!observerVars
<1>6. CASE SQ!Publish
  BY <1>6 DEF SQ!Publish, SQ!observerVars
<1>7. CASE SQ!CopyForward
  <2>1. /\ mpc = "copy" /\ mpc' # "copy" /\ mMutating \in Queue!Slot
        /\ mStates' = [mStates EXCEPT ![mMutating] = mStates[mExpecting]]
        /\ UNCHANGED <<mNext, mCurrent, mMutating>>
    BY <1>0, <1>7 DEF SQ!CopyForward, SQ!AfterPublish, SQ!observerVars,
                      Queue!TypeOK
  <2>2. mMutating # mNext /\ mMutating # mCurrent
    BY <1>0 DEF Queue!Readable, Queue!TypeOK, Queue!Slot, Queue!NULL
  <2>3. \A s \in {mNext, mCurrent} \ {NULL} : s \in Queue!Slot
    BY <1>0 DEF Queue!TypeOK, Queue!Pointer, NULL
  <2>4. QED
    BY <1>0, <2>1, <2>2, <2>3 DEF Queue!TypeOK
<1>8. CASE UNCHANGED queueVars
  BY <1>8 DEF queueVars
<1>9. QED
  BY <1>1, <1>2, <1>3, <1>4, <1>5, <1>6, <1>7, <1>8
  DEF SQ!Observer, SQ!PushStep

(* An edit is what the normal mixer decides; it publishes nothing.         *)
LEMMA QueueEdit ==
  ASSUME Queue!IInv, NEW v \in FastMixerState, SQ!Modify(v)
  PROVE  Draft' = v /\ Quiet' = Quiet
<1>0. Queue!TypeOK /\ mMutating \notin Queue!Readable \cup {mNext}
  BY QueuePrivate DEF Queue!IInv, Queue!MutatingIsPrivate
<1>1. /\ mpc = "idle" /\ mpc' = mpc
      /\ mStates' = [mStates EXCEPT ![mMutating] = v]
      /\ UNCHANGED <<mNext, mCurrent, mMutating>>
  BY DEF SQ!Modify, SQ!observerVars
<1>2. mMutating # mNext /\ mMutating # mCurrent /\ mMutating \in Queue!Slot
  BY <1>0 DEF Queue!Readable, Queue!TypeOK, Queue!Slot, Queue!NULL
<1>3. \A s \in {mNext, mCurrent} \ {NULL} : s \in Queue!Slot
  BY <1>0 DEF Queue!TypeOK, Queue!Pointer, NULL
<1>4. QED
  BY <1>0, <1>1, <1>2, <1>3 DEF Queue!TypeOK, Draft, Quiet

(* One step keeps what push() establishes.                                 *)
LEMMA NextPushes == IInv /\ [Next]_vars => Pushes'
<1> SUFFICES ASSUME IInv, [Next]_vars PROVE Pushes'
  OBVIOUS
<1> USE DEF Pushes, Mutating, Mutation
<1>0. Pushes
  BY DEF IInv
<1>1. CASE Fast \/ Binder \/ UNCHANGED vars
  <2>1. UNCHANGED <<SQ!mutatorVars, npc, job, toRemove>>
    BY <1>1 DEF Fast, FastPoll, FastPollSame, FastAdopt, FastCold,
       FastFutexWait, FastColdDone, FastHot, FastExit, FastStateChange,
       FastWork, SQ!PollLoad, SQ!PollAck, SQ!mutatorVars, queueVars,
       Binder, Start, NormalTracks, Suspend, RequestExit, vars, normalVars,
       loopVars
  <2>2. QED
    BY <1>0, <2>1 DEF BlockFor, SQ!mutatorVars
<1>2. CASE Top \/ SetParameters \/ Check \/ WakeUp \/ HalStandby \/ Release
           \/ Mix \/ HalWarmup \/ IncrementFutex \/ WakeFast \/ Submix
           \/ CycleEnd \/ Join \/ Pushed
  BY <1>0, <1>2
  DEF Top, SetParameters, Check, WakeUp, HalStandby, Release, Mix, HalWarmup,
      IncrementFutex, WakeFast, Submix, CycleEnd, Join, Pushed, queueVars,
      loopVars
<1>3. CASE Config \/ RestoreCommand \/ Standby \/ Prepare \/ Write \/ Destroy
  BY <1>0, <1>3
  DEF Config, RestoreCommand, Standby, Prepare, Write, Destroy, Mutate,
      SQ!Begin, SQ!observerVars
<1>4. CASE EditParams \/ EditRestore \/ EditStandby \/ EditPrepare
           \/ EditCommand \/ EditRunOrExit \/ EndMutation
  BY <1>0, <1>4
  DEF EditParams, EditRestore, EditStandby, EditPrepare, EditCommand,
      EditRunOrExit, EndMutation, Leave, ChangeTo, SQ!Modify, SQ!End,
      SQ!observerVars, queueVars, loopVars
<1>5. CASE PushState
  BY <1>0, <1>5
  DEF PushState, SQ!Push, SQ!AfterPublish, SQ!NULL, Queue!NULL, NULL,
      SQ!mutationVars, SQ!observerVars, loopVars, BlockFor
<1>6. CASE Pushing
  <2>1. UNCHANGED <<npc, job, toRemove, block, mInMutation, mIsInitialized>>
    BY <1>6 DEF Pushing, normalVars, loopVars, SQ!PushStep, SQ!WaitForPrior,
       SQ!Publish, SQ!CopyForward, SQ!WaitForAck, SQ!mutationVars
  <2>2. block # "NEVER"
    BY <1>0, <1>6 DEF Pushing, BlockFor
  <2>3. mpc' \in {"ack", "idle"} => ~mIsDirty'
    BY <1>0, <1>6, <2>2 DEF Pushing, SQ!PushStep, SQ!WaitForPrior,
       SQ!Publish, SQ!CopyForward, SQ!WaitForAck
  <2>4. mpc' = "idle" /\ block = "UNTIL_ACKED" => mExpecting' = NULL
    BY <1>6, <2>2 DEF Pushing, SQ!PushStep, SQ!WaitForPrior, SQ!Publish,
       SQ!CopyForward, SQ!WaitForAck, SQ!AfterPublish, SQ!NULL, Queue!NULL, NULL
  <2>5. QED
    BY <1>0, <1>6, <2>1, <2>3, <2>4 DEF Pushing, BlockFor
<1>7. QED
  BY <1>1, <1>2, <1>3, <1>4, <1>5, <1>6 DEF Next, Normal

(* push(BLOCK_UNTIL_ACKED) returned: the fast mixer has the draft.         *)
LEMMA AckedDraft ==
  ASSUME IInv, npc = "pushing", mpc = "idle", job \in Taking
  PROVE  Quiet
<1>1. block = "UNTIL_ACKED" /\ ~mIsDirty /\ mExpecting = NULL
      /\ mIsInitialized /\ ~mInMutation
  BY DEF IInv, Pushes, BlockFor, Taking
<1>2. mNext # NULL /\ mStates[mMutating] = mStates[mNext] /\ mCurrent = mNext
  BY <1>1 DEF IInv, Queue!IInv, Queue!CleanMeansPublished, Queue!Knowledge,
              Queue!Chained, NULL
<1>3. Draft.mCommand \in Idle
  BY DEF IInv, Yields, Stopping
<1>4. QED
  BY <1>2, <1>3 DEF Draft, Quiet, Idle

(* One step keeps the HAL with its user.                                   *)
LEMMA NextYields == IInv /\ [Next]_vars => Yields'
<1> SUFFICES ASSUME IInv, [Next]_vars PROVE Yields'
  OBVIOUS
<1> USE DEF Yields
<1>0. Yields /\ Queue!IInv
  BY DEF IInv
<1>a. npc # "pushing" => Draft = draft
  BY DEF IInv, Pushes, Draft, draft
<1>1. CASE Fast \/ Binder \/ UNCHANGED vars
  <2>1. UNCHANGED <<npc, job>> /\ (SQ!Observer \/ UNCHANGED queueVars)
    BY <1>1 DEF Fast, FastPoll, FastPollSame, FastAdopt, FastCold,
       FastFutexWait, FastColdDone, FastHot, FastExit, FastStateChange,
       FastWork, SQ!Observer, Binder, Start, NormalTracks, Suspend,
       RequestExit, vars, normalVars, loopVars
  <2>2. QED
    BY <1>0, <2>1, QueueDraft DEF Stopping
<1>2. CASE Top \/ SetParameters \/ Check \/ WakeUp \/ HalStandby \/ Release
           \/ Mix \/ HalWarmup \/ IncrementFutex \/ WakeFast \/ Submix
           \/ CycleEnd \/ Join
  <2>1. /\ UNCHANGED queueVars
        /\ npc' \notin HalUser \cup {"end", "push", "pushing"}
        /\ npc \notin {"end", "push", "pushing"}
    BY <1>2
    DEF Top, SetParameters, Check, WakeUp, HalStandby, Release, Mix, HalWarmup,
        IncrementFutex, WakeFast, Submix, CycleEnd, Join, HalUser
  <2>2. QED
    BY <1>0, <2>1, QueueDraft DEF Stopping
<1>3. CASE Config \/ RestoreCommand \/ Standby \/ Prepare \/ Write \/ Destroy
  <2>1. SQ!Begin /\ npc' = "edit" /\ npc \notin {"end", "push", "pushing"}
    BY <1>3 DEF Config, RestoreCommand, Standby, Prepare, Write, Destroy, Mutate
  <2>2. QED
    BY <1>0, <2>1, QueueDraft DEF Stopping, HalUser
<1>4. ASSUME NEW where, Leave(where), npc = "edit",
             where \in HalUser => draft.mCommand \in Idle,
             where \notin {"end", "push", "pushing"} \/ job \notin Taking
      PROVE  Yields'
  <2>1. SQ!End(FALSE) /\ npc' = where /\ job' = job
    BY <1>4 DEF Leave, loopVars
  <2>2. QED
    BY <1>0, <1>4, <1>a, <2>1, QueueDraft DEF Stopping
<1>5. ASSUME NEW v, NEW c, Gives(v, c), ChangeTo(v), job' = job,
             npc \in {"edit", "command"},
             job \in Taking => c \in Idle,
             c \in Idle => draft.mCommand \in Idle \/ job \in Taking
      PROVE  Yields'
  <2>1. v \in FastMixerState /\ SQ!Modify(v) /\ npc' = "end"
    BY <1>5 DEF ChangeTo, Gives
  <2>2. Draft' = v /\ Quiet' = Quiet
    BY <1>0, <2>1, QueueEdit
  <2>3. QED
    BY <1>0, <1>5, <1>a, <2>1, <2>2 DEF Stopping, HalUser, Gives
<1>b. Queue!TypeOK /\ active \subseteq Track
  BY DEF IInv, Queue!IInv
<1>c. npc = "command" => job \notin Taking
  BY DEF IInv, Pushes, Taking
<1> USE DEF Command, Idle, Taking, HalUser
<1>6. CASE EditParams
  BY <1>4, <1>5, <1>b, <1>6, Edits DEF EditParams, loopVars
<1>7. CASE EditRestore \/ EditCommand
  BY <1>5, <1>b, <1>7, <1>c, Edits DEF EditRestore, EditCommand, loopVars
<1>8. CASE EditStandby
  BY <1>4, <1>5, <1>b, <1>8, Edits DEF EditStandby
<1>9. CASE EditPrepare
  <2> DEFINE v == [draft EXCEPT
                     !.provider = [i \in FastIndex |-> Prepared(i)],
                     !.mGeneration = [i \in FastIndex |-> NextGeneration(i)],
                     !.mFastTracksGen = NextTracksGen]
  <2>1. npc = "edit" /\ job = "prepare"
        /\ (Leave("push") \/ (ChangeTo(v) /\ job' = job))
    BY <1>9 DEF EditPrepare, loopVars
  <2>2. Gives(v, draft.mCommand)
    BY <1>b, Edits
  <2> HIDE DEF v
  <2>3. QED
    BY <1>4, <1>5, <2>1, <2>2
<1>10. CASE EditRunOrExit
  <2> DEFINE running == job = "write" /\ draft.mCommand = "MIX_WRITE"
  <2>1. CASE running
    BY <1>4, <1>10, <2>1 DEF EditRunOrExit
  <2>2. CASE ~running
    <3>1. UNCHANGED queueVars /\ job' = job /\ npc = "edit"
      BY <1>10, <2>2 DEF EditRunOrExit, loopVars
    <3>2. /\ npc' \in {"command", "halWarmup", "increment"}
          /\ npc' = "halWarmup" => draft.mCommand \in Idle
      BY <1>10, <2>2 DEF EditRunOrExit
    <3>3. QED
      BY <1>0, <1>a, <3>1, <3>2, QueueDraft DEF Stopping
  <2>3. QED
    BY <2>1, <2>2
<1>11. CASE EndMutation \/ PushState \/ Pushing
  <2>1. /\ job' = job
        /\ {npc, npc'} \subseteq {"end", "push", "pushing"}
        /\ \/ \E did \in BOOLEAN : SQ!End(did)
           \/ \E b \in SQ!Block : SQ!Push(b)
           \/ SQ!PushStep
    BY <1>11 DEF EndMutation, PushState, Pushing, normalVars, loopVars, BlockFor,
                SQ!Block
  <2>2. QED
    BY <1>0, <2>1, QueueDraft DEF Stopping, HalUser
<1>12. CASE Pushed
  <2>1. /\ UNCHANGED queueVars /\ npc = "pushing" /\ mpc = "idle"
        /\ npc' \notin {"end", "push", "pushing"}
        /\ npc' \in HalUser => job \in Taking
    BY <1>12 DEF IInv, Pushes, Mutating, Mutation, Pushed, Taking, HalUser
  <2>2. Stopping => Quiet
    BY <2>1, AckedDraft DEF Stopping
  <2>3. QED
    BY <1>0, <2>1, <2>2, QueueDraft DEF Stopping
<1>13. QED
  BY <1>1, <1>2, <1>3, <1>6, <1>7, <1>8, <1>9, <1>10, <1>11, <1>12
  DEF Next, Normal

(* The constructor's first state is published and idle.                    *)
LEMMA InitInv == Init => IInv
<1> SUFFICES ASSUME Init PROVE IInv
  OBVIOUS
<1> USE DEF Init, SQ!NULL, Queue!NULL, NULL
<1>1. FirstState \in FastMixerState /\ sInitial \in FastMixerState
  BY DEF FirstState, sInitial, FastMixerState, Command, Idle
<1>2. /\ Queue!Slot = 0 .. 3 /\ SQ!Slot = 0 .. 3
      /\ FirstState.mCommand = "COLD_IDLE"
  BY DEF Queue!Slot, SQ!Slot, kN, FirstState, sInitial
<1>3. Queue!TypeOK
  <2>1. mStates \in [Queue!Slot -> FastMixerState]
    BY <1>1, <1>2
  <2>2. /\ mNext = 0 /\ mAck = -1 /\ mExpecting = 0 /\ mMutating = 1
        /\ mCurrent = -1 /\ previous = -1 /\ polled = -1
        /\ opc = "idle" /\ mpc = "idle" /\ block = "UNTIL_PUSHED"
    OBVIOUS
  <2>3. /\ mInMutation \in BOOLEAN /\ mIsDirty \in BOOLEAN
        /\ mIsInitialized \in BOOLEAN /\ didModify \in BOOLEAN
    OBVIOUS
  <2> HIDE DEF Init
  <2>4. QED
    BY <1>2, <2>1, <2>2, <2>3 DEF Queue!TypeOK, Queue!Pointer, Queue!Block
<1>4. Queue!Chained /\ Queue!Knowledge /\ Queue!CleanMeansPublished
  BY <1>2 DEF Queue!Chained, Queue!Knowledge, Queue!CleanMeansPublished,
              Queue!Succ, kN
<1>5. active \subseteq Track /\ Follows /\ Pushes
  BY DEF Follows, Pushes, Mutating
<1>6. Yields
  BY <1>2 DEF Yields, Stopping, HalUser, Quiet, Draft
<1>7. QED
  BY <1>3, <1>4, <1>5, <1>6 DEF IInv, Queue!IInv

(* Only tracks of the output become active.                                *)
LEMMA NextActive == IInv /\ [Next]_vars => (active \subseteq Track)'
  BY DEF IInv, Next, Normal, Fast, Binder, vars, binderVars,
     FastPoll, FastPollSame, FastAdopt, FastCold, FastFutexWait,
     FastColdDone, FastHot, FastExit, FastStateChange, FastWork,
     Top, SetParameters, Check, WakeUp, HalStandby, Release, Mix, HalWarmup,
     IncrementFutex, WakeFast, Submix, CycleEnd, Join, Pushed,
     Config, RestoreCommand, Standby, Prepare, Write, Destroy, Mutate,
     EditParams, EditRestore, EditStandby, EditPrepare, EditCommand,
     EditRunOrExit, EndMutation, Leave, PushState, Pushing,
     Start, NormalTracks, Suspend, RequestExit

(* The invariant holds in every reachable state.                           *)
THEOREM Inductive == Spec => []IInv
<1>1. IInv /\ [Next]_vars => IInv'
  <2> SUFFICES ASSUME IInv, [Next]_vars PROVE IInv'
    OBVIOUS
  <2>1. Queue!IInv'
    BY QueueStep, QueueInductive DEF IInv
  <2>2. QED
    BY <2>1, NextActive, NextFollows, NextPushes, NextYields DEF IInv
<1>2. QED
  BY InitInv, <1>1, PTL DEF Spec

(* While the normal mixer uses the HAL (standby, an empty write, new       *)
(* parameters) the fast mixer does not write to it.                        *)
THEOREM OneHalUser == Spec => []HalHasOneUser
<1>1. IInv => HalHasOneUser
  BY DEF IInv, Follows, Yields, Quiet, Stopping, HalUser, CurrentState,
         HalHasOneUser, sInitial, Idle
<1>2. QED
  BY Inductive, <1>1, PTL

-----------------------------------------------------------------------------
(* In standby the draft is idle, until the mutation that starts the fast   *)
(* mixer again, in the cycle that leaves standby.  A HAL that puts itself  *)
(* in standby to accept parameters would break this.                       *)
StaysIdle ==
  /\ mStandby => \/ Draft.mCommand \in Idle
                 \/ job = "exit"
                 \/ job = "write" /\ npc \in {"end", "push", "pushing", "submix"}
  /\ job = "exit" => npc \in {"edit", "increment", "wake", "command", "end",
                              "push", "pushing", "join", "gone"}
  /\ npc \in {"setParameters", "restore"} => ~mStandby
  /\ job = "params" /\ npc \in {"end", "push", "pushing"} => ~mStandby
  /\ job = "restore" /\ npc \in {"edit", "end", "push", "pushing"} => ~mStandby

(* One step keeps an output in standby idle.                               *)
LEMMA NextStaysIdle ==
  ASSUME ~MayRefuse, IInv, StaysIdle, [Next]_vars PROVE StaysIdle'
<1> USE DEF StaysIdle, Idle
<1>0. Queue!IInv /\ Queue!TypeOK /\ active \subseteq Track
  BY DEF IInv, Queue!IInv
<1>a. npc # "pushing" => Draft = draft
  BY DEF IInv, Pushes, Draft, draft
<1>1. CASE Fast \/ Binder \/ UNCHANGED vars
  <2>1. UNCHANGED <<npc, job, mStandby>> /\ (SQ!Observer \/ UNCHANGED queueVars)
    BY <1>1 DEF Fast, FastPoll, FastPollSame, FastAdopt, FastCold,
       FastFutexWait, FastColdDone, FastHot, FastExit, FastStateChange,
       FastWork, SQ!Observer, Binder, Start, NormalTracks, Suspend,
       RequestExit, vars, normalVars, loopVars
  <2>2. QED
    BY <1>0, <2>1, QueueDraft
<1>2. CASE Top \/ SetParameters \/ Check \/ WakeUp \/ Release \/ Mix
           \/ HalWarmup \/ IncrementFutex \/ WakeFast \/ CycleEnd \/ Join
  <2>1. /\ UNCHANGED <<queueVars, job, mStandby>>
        /\ npc' \notin {"end", "push", "pushing", "submix", "edit"}
        /\ npc \notin {"end", "push", "pushing", "submix", "edit"}
        /\ npc' \in {"setParameters", "restore"} => npc = "setParameters"
        /\ npc \in {"increment", "wake", "command", "join", "gone"}
              => npc' \in {"increment", "wake", "command", "join", "gone"}
    BY <1>2 DEF Top, SetParameters, Check, WakeUp, Release, Mix, HalWarmup,
       IncrementFutex, WakeFast, CycleEnd, Join, loopVars
  <2>2. Draft' = Draft
    BY <1>0, <2>1, QueueDraft
  <2>3. QED
    BY <2>1, <2>2
<1>3. CASE HalStandby
  <2>1. Draft' = Draft /\ Draft.mCommand \in Idle
    BY <1>0, <1>3, QueueDraft DEF HalStandby, IInv, Yields, HalUser
  <2>2. QED
    BY <1>3, <2>1 DEF HalStandby
<1>4. CASE Submix
  BY <1>4 DEF Submix
<1>5. CASE Config \/ RestoreCommand \/ Standby \/ Prepare \/ Write \/ Destroy
  <2>1. /\ SQ!Begin /\ npc' = "edit" /\ mStandby' = mStandby
        /\ npc \notin {"end", "push", "pushing", "submix"}
        /\ job' = "exit" \/ npc \notin {"edit", "increment", "wake", "command",
                                        "join", "gone"}
        /\ job' = "restore" => npc = "restore"
    BY <1>5 DEF Config, RestoreCommand, Standby, Prepare, Write, Destroy, Mutate
  <2>2. Draft' = Draft
    BY <1>0, <2>1, QueueDraft
  <2>3. QED
    BY <2>1, <2>2
<1>6. ASSUME NEW where, Leave(where), npc = "edit",
             \/ where \in {"setParametersIdle", "halStandby"}
             \/ where = "push" /\ job = "prepare"
             \/ where = "submix" /\ job = "write",
             job # "exit"
      PROVE  StaysIdle'
  <2>1. SQ!End(FALSE) /\ npc' = where /\ UNCHANGED <<job, mStandby>>
    BY <1>6 DEF Leave, loopVars
  <2>2. Draft' = Draft
    BY <1>0, <2>1, QueueDraft
  <2>3. QED
    BY <1>6, <2>1, <2>2
<1>7. ASSUME NEW v, NEW c, Gives(v, c), ChangeTo(v), UNCHANGED <<job, mStandby>>,
             npc = "edit" \/ (npc = "command" /\ job \in {"write", "exit"}),
             job = "params" => draft.mCommand \notin Idle,
             \/ c \in Idle
             \/ job = "restore"
             \/ job \in {"write", "exit"}
             \/ job = "prepare" /\ c = draft.mCommand
      PROVE  StaysIdle'
  <2>1. v \in FastMixerState /\ SQ!Modify(v) /\ npc' = "end"
    BY <1>7 DEF ChangeTo, Gives
  <2>2. Draft' = v
    BY <1>0, <2>1, QueueEdit
  <2>3. QED
    BY <1>7, <1>a, <2>1, <2>2 DEF Gives
<1> USE DEF Command
<1>8. CASE EditParams
  BY <1>0, <1>6, <1>7, <1>8, Edits DEF EditParams, loopVars
<1>9. CASE EditRestore \/ EditCommand
  <2>1. npc = "command" => job \in {"write", "exit"}
    BY DEF IInv, Pushes
  <2>2. QED
    BY <1>0, <1>7, <1>9, <2>1, Edits DEF EditRestore, EditCommand, loopVars
<1>10. CASE EditStandby
  BY <1>0, <1>6, <1>7, <1>10, Edits DEF EditStandby
<1>11. CASE EditPrepare
  <2> DEFINE v == [draft EXCEPT
                     !.provider = [i \in FastIndex |-> Prepared(i)],
                     !.mGeneration = [i \in FastIndex |-> NextGeneration(i)],
                     !.mFastTracksGen = NextTracksGen]
  <2>1. npc = "edit" /\ job = "prepare"
        /\ (Leave("push") \/ (ChangeTo(v) /\ UNCHANGED <<job, mStandby>>))
    BY <1>11 DEF EditPrepare, loopVars
  <2>2. Gives(v, draft.mCommand)
    BY <1>0, Edits
  <2> HIDE DEF v
  <2>3. QED
    BY <1>6, <1>7, <2>1, <2>2
<1>12. CASE EditRunOrExit
  <2> DEFINE running == job = "write" /\ draft.mCommand = "MIX_WRITE"
  <2>1. CASE running
    BY <1>6, <1>12, <2>1 DEF EditRunOrExit
  <2>2. CASE ~running
    <3>1. /\ UNCHANGED <<queueVars, job, mStandby>> /\ npc = "edit"
      BY <1>12, <2>2 DEF EditRunOrExit, loopVars
    <3>2. /\ npc' \in {"command", "halWarmup", "increment"}
          /\ npc' = "halWarmup" => job # "exit"
      BY <1>12, <2>2 DEF EditRunOrExit
    <3>3. Draft' = Draft
      BY <1>0, <3>1, QueueDraft
    <3>4. QED
      BY <3>1, <3>2, <3>3
  <2>3. QED
    BY <2>1, <2>2
<1>13. CASE EndMutation \/ PushState \/ Pushing
  <2>1. /\ UNCHANGED <<job, mStandby>>
        /\ {npc, npc'} \subseteq {"end", "push", "pushing"}
        /\ \/ \E did \in BOOLEAN : SQ!End(did)
           \/ \E b \in SQ!Block : SQ!Push(b)
           \/ SQ!PushStep
    BY <1>13 DEF EndMutation, PushState, Pushing, normalVars, loopVars,
                 BlockFor, SQ!Block
  <2>2. Draft' = Draft
    BY <1>0, <2>1, QueueDraft
  <2>3. QED
    BY <2>1, <2>2
<1>14. CASE Pushed
  <2>1. /\ UNCHANGED <<queueVars, job, mStandby>> /\ npc = "pushing"
        /\ npc' = CASE job \in {"standby", "lastStandby"} -> "halStandby"
                    [] job = "prepare" -> "release"
                    [] job = "write"   -> "submix"
                    [] job = "params"  -> "setParameters"
                    [] job = "restore" -> "check"
                    [] job = "exit"    -> "join"
        /\ job \in Mutation
    BY <1>14 DEF Pushed, loopVars, IInv, Pushes, Mutating
  <2>2. Draft' = Draft
    BY <1>0, <2>1, QueueDraft
  <2>3. QED
    BY <2>1, <2>2 DEF Mutation
<1>15. QED
  BY <1>1, <1>2, <1>3, <1>4, <1>5, <1>8, <1>9, <1>10, <1>11, <1>12, <1>13,
     <1>14 DEF Next, Normal

(* Where the HAL takes parameters without going to standby, an output in   *)
(* standby between two cycles is not written to.                           *)
THEOREM QuietInStandby ==
  ASSUME ~MayRefuse PROVE Spec => []StandbyIsQuiet
<1>1. Init => StaysIdle
  BY DEF Init, StaysIdle
<1>2. IInv /\ StaysIdle /\ [Next]_vars => StaysIdle'
  BY NextStaysIdle
<1>3. IInv /\ StaysIdle => StandbyIsQuiet
  BY DEF StaysIdle, StandbyIsQuiet, Unlocked, IInv, Follows, Yields, Quiet,
         Stopping, CurrentState, sInitial, Idle
<1>4. QED
  BY Inductive, <1>1, <1>2, <1>3, PTL DEF Spec
-----------------------------------------------------------------------------
(* Tracks: from one published state to the next.                           *)

Published == mStates[mNext]

(* The edits of the normal mixer only ever increase generations, and no    *)
(* generation stands for two things.                                       *)
Precedes(s, t) ==
  /\ s.mColdGen <= t.mColdGen
  /\ s.mFastTracksGen <= t.mFastTracksGen
  /\ s.mFastTracksGen = t.mFastTracksGen
       => s.provider = t.provider /\ s.mGeneration = t.mGeneration
  /\ \A i \in FastIndex :
       /\ s.mGeneration[i] <= t.mGeneration[i]
       /\ s.mGeneration[i] = t.mGeneration[i] => s.provider[i] = t.provider[i]

(* The states in the order in which the normal mixer decided them.         *)
Ordered ==
  /\ mNext # NULL
  /\ Precedes(StateAt(mPrevious), StateAt(current))
  /\ Precedes(StateAt(current), CurrentState)
  /\ Precedes(CurrentState, Published)
  /\ Precedes(Published, Draft)

(* The initial state is never published.                                   *)
Started ==
  /\ Draft.mCommand # "INITIAL" /\ Published.mCommand # "INITIAL"
  /\ mCurrent # NULL => CurrentState.mCommand # "INITIAL"

(* Which state the fast mixer compares the next one with: the one it       *)
(* worked with last, of which it made a copy before it went idle.          *)
Remembers ==
  /\ fpc = "adopt" => current = IF previous = NULL THEN INITIAL ELSE previous
  /\ current = INITIAL => mPrevious = INITIAL
  /\ StateAt(current).mCommand \in Idle => mPrevious = PREIDLE
  /\ StateAt(current).mCommand \notin Idle /\ fpc \notin {"dispatch", "exited"}
       => mPrevious = current
  /\ \/ mPrevious \in {INITIAL, PREIDLE, current}
     \/ fpc \in {"dispatch", "exited"} /\ mPrevious = previous /\ previous # NULL

(* The names of the mixer are the tracks of that state.                    *)
Mixes ==
  /\ mixing = StateAt(mPrevious).provider
  /\ mFastTracksGen = StateAt(mPrevious).mFastTracksGen
  /\ \A i \in Mask(StateAt(mPrevious)) :
       mGenerations[i] = StateAt(mPrevious).mGeneration[i]

(* Every state the fast mixer has, or will get, has active tracks only,    *)
(* and none of those that are about to be released.                        *)
Live(s) == \A i \in FastIndex : s.provider[i] \in active \cup {NoTrack}
Spares(s) == \A i \in FastIndex : s.provider[i] \notin toRemove
InPlace(s) ==
  \A i \in FastIndex : s.provider[i] # NoTrack => mFastIndex[s.provider[i]] = i

Keeps ==
  /\ Live(CurrentState) /\ Live(Published) /\ Live(Draft) /\ InPlace(Draft)
  /\ toRemove \subseteq Track
  /\ job = "prepare" /\ npc \in {"end", "push", "pushing"} => Spares(Draft)
  /\ npc = "release"
       => Spares(Draft) /\ Spares(Published) /\ Spares(CurrentState)

(* The fast mixer decrements the futex at most once for each reset of the  *)
(* normal mixer, which increments it at most once; a late decrement of a   *)
(* former cold idle is followed by no other.                               *)
InCold == {"futexWait", "asleep", "coldDone"}
DoneWith(gen) ==
  mColdGen = gen \/ (fpc \in InCold /\ CurrentState.mColdGen = gen)

Futex ==
  /\ mFastMixerFutex \in -1 .. 1
  /\ Draft.mCommand = "COLD_IDLE" /\ npc \notin {"wake", "command"}
       => mFastMixerFutex <= 0
  /\ mFastMixerFutex = -1
       => fpc \in {"futexWait", "asleep"} \/ DoneWith(Draft.mColdGen)
  /\ npc = "wake" => mFastMixerFutex = 0 /\ DoneWith(Draft.mColdGen)
  /\ npc \in {"halWarmup", "increment", "wake"} => Draft.mCommand = "COLD_IDLE"
  /\ Draft.mCommand = "COLD_IDLE" /\ ~Stopping
       => /\ Published.mColdGen = Draft.mColdGen
          /\ mCurrent = NULL \/ CurrentState.mColdGen = Draft.mColdGen
  /\ mColdGen <= StateAt(current).mColdGen
  /\ fpc \in InCold => CurrentState.mCommand = "COLD_IDLE"

Types ==
  /\ mPreIdle \in FastMixerState /\ mColdGen \in Nat
  /\ mGenerations \in [FastIndex -> Nat]
  /\ mPrevious \in SQ!Slot \cup {INITIAL, PREIDLE}
  /\ current \in SQ!Slot \cup {INITIAL}

TInv == Ordered /\ Started /\ Remembers /\ Mixes /\ Keeps /\ Futex /\ Types
-----------------------------------------------------------------------------
(* How states are ordered.                                                 *)
LEMMA Reflexive == ASSUME NEW s \in FastMixerState PROVE Precedes(s, s)
BY DEF Precedes, FastMixerState

LEMMA Transitive ==
  ASSUME NEW s \in FastMixerState, NEW t \in FastMixerState,
         NEW u \in FastMixerState, Precedes(s, t), Precedes(t, u)
  PROVE  Precedes(s, u)
<1>1. ASSUME NEW i \in FastIndex
      PROVE  /\ s.mGeneration[i] <= u.mGeneration[i]
             /\ s.mGeneration[i] = u.mGeneration[i]
                  => s.provider[i] = u.provider[i]
  BY <1>1 DEF Precedes, FastMixerState
<1>2. /\ s.mColdGen <= u.mColdGen
      /\ s.mFastTracksGen <= u.mFastTracksGen
      /\ s.mFastTracksGen = u.mFastTracksGen
           => s.provider = u.provider /\ s.mGeneration = u.mGeneration
  BY DEF Precedes, FastMixerState
<1>3. QED
  BY <1>1, <1>2 DEF Precedes

(* Every edit leaves a state that comes after the one it edits.            *)
LEMMA EditsFollow ==
  ASSUME draft \in FastMixerState, active \subseteq Track
  PROVE  /\ \A c \in Command : Precedes(draft, [draft EXCEPT !.mCommand = c])
         /\ Precedes(draft, [draft EXCEPT !.mCommand = "COLD_IDLE",
                                          !.mColdGen = @ + 1])
         /\ Precedes(draft, [draft EXCEPT
                     !.provider = [i \in FastIndex |-> Prepared(i)],
                     !.mGeneration = [i \in FastIndex |-> NextGeneration(i)],
                     !.mFastTracksGen = NextTracksGen])
<1>1. \A c \in Command : Precedes(draft, [draft EXCEPT !.mCommand = c])
  BY DEF Precedes, FastMixerState
<1>2. Precedes(draft, [draft EXCEPT !.mCommand = "COLD_IDLE", !.mColdGen = @ + 1])
  BY DEF Precedes, FastMixerState
<1>3. ASSUME NEW p, NEW g, NEW n \in Nat, n > draft.mFastTracksGen,
             \A i \in FastIndex : /\ draft.mGeneration[i] <= g[i]
                                  /\ draft.mGeneration[i] = g[i]
                                       => draft.provider[i] = p[i]
      PROVE  Precedes(draft, [draft EXCEPT !.provider = p, !.mGeneration = g,
                                           !.mFastTracksGen = n])
  BY <1>3 DEF Precedes, FastMixerState
<1>4. NextTracksGen \in Nat /\ NextTracksGen > draft.mFastTracksGen
  BY DEF NextTracksGen, FastMixerState
<1>5. ASSUME NEW i \in FastIndex
      PROVE  /\ draft.mGeneration[i] <= NextGeneration(i)
             /\ draft.mGeneration[i] = NextGeneration(i)
                  => draft.provider[i] = Prepared(i)
  <2>1. draft.mGeneration[i] \in Nat
    BY DEF FastMixerState
  <2>2. QED
    BY <2>1 DEF NextGeneration
<1>6. QED
  BY <1>1, <1>2, <1>3, <1>4, <1>5

(* The states involved are states.                                         *)
LEMMA StatesTyped ==
  ASSUME Queue!TypeOK, Queue!Knowledge, mNext # NULL, Types
  PROVE  /\ {Draft, Published, CurrentState, StateAt(current),
             StateAt(mPrevious)} \subseteq FastMixerState
         /\ draft \in FastMixerState
<1>1. sInitial \in FastMixerState
  BY DEF sInitial, FastMixerState, Command
<1>2. \A s \in Queue!Slot : mStates[s] \in FastMixerState
  BY DEF Queue!TypeOK
<1>3. /\ mNext \in Queue!Slot /\ mMutating \in Queue!Slot
      /\ mCurrent # NULL => mCurrent \in Queue!Slot
      /\ mpc = "copy" => mExpecting \in Queue!Slot
  BY DEF Queue!TypeOK, Queue!Knowledge, Queue!Pointer, NULL
<1>4. SQ!Slot = Queue!Slot
  BY DEF SQ!Slot, Queue!Slot
<1>5. QED
  BY <1>1, <1>2, <1>3, <1>4
  DEF Draft, Published, CurrentState, draft, StateAt, Types

(* What a step of the queue does to the states.                            *)
Stays == UNCHANGED <<Draft, Published, CurrentState, mCurrent, previous>>
Adopts == /\ mCurrent' = mNext /\ mCurrent' # NULL /\ previous' = mCurrent
          /\ CurrentState' = Published
          /\ UNCHANGED <<Draft, Published>>
Publishes == /\ Published' = Draft
             /\ UNCHANGED <<Draft, CurrentState, mCurrent, previous>>
Drafts(v) == /\ Draft' = v
             /\ UNCHANGED <<Published, CurrentState, mCurrent, previous>>

LEMMA QueueEffects ==
  ASSUME Queue!IInv, mNext # NULL, SQ!Next \/ UNCHANGED queueVars
  PROVE  /\ mNext' # NULL
         /\ SQ!PollAck => Adopts
         /\ SQ!Publish => Publishes
         /\ \A v \in FastMixerState : SQ!Modify(v) => Drafts(v)
         /\ \/ SQ!PollLoad \/ SQ!Begin \/ SQ!WaitForPrior \/ SQ!CopyForward
            \/ SQ!WaitForAck \/ UNCHANGED queueVars
            \/ \E did \in BOOLEAN : SQ!End(did)
            \/ \E b \in SQ!Block : SQ!Push(b)
            => Stays
<1>0. /\ Queue!TypeOK /\ Queue!Chained /\ Queue!Knowledge
      /\ mMutating \notin Queue!Readable \cup {mNext}
  BY QueuePrivate DEF Queue!IInv, Queue!MutatingIsPrivate
<1>a. /\ mMutating # mNext /\ mMutating # mCurrent
      /\ mMutating \in Queue!Slot /\ mNext \in Queue!Slot
      /\ mCurrent # NULL => mCurrent \in Queue!Slot
      /\ mMutating # NULL
  BY <1>0 DEF Queue!Readable, Queue!TypeOK, Queue!Pointer, Queue!Slot,
              Queue!NULL, NULL
<1>b. mNext' # NULL
  BY <1>a DEF SQ!Next, SQ!Observer, SQ!Mutator, SQ!PollLoad, SQ!PollAck,
     SQ!Begin, SQ!Modify, SQ!End, SQ!Push, SQ!PushStep, SQ!WaitForPrior,
     SQ!Publish, SQ!CopyForward, SQ!WaitForAck, queueVars
<1> USE DEF Stays, Draft, Published, CurrentState
<1>1. ASSUME SQ!PollAck PROVE Adopts
  BY <1>0, <1>1 DEF SQ!PollAck, SQ!mutatorVars, Queue!Knowledge, Adopts, NULL
<1>2. ASSUME SQ!Publish PROVE Publishes
  BY <1>2 DEF SQ!Publish, SQ!observerVars, Publishes
<1>3. ASSUME NEW v \in FastMixerState, SQ!Modify(v) PROVE Drafts(v)
  <2>1. /\ mpc' = mpc /\ mpc = "idle"
        /\ mStates' = [mStates EXCEPT ![mMutating] = v]
        /\ UNCHANGED <<mNext, mCurrent, previous, mMutating>>
    BY <1>3 DEF SQ!Modify, SQ!observerVars
  <2>2. QED
    BY <1>0, <1>a, <2>1 DEF Drafts, Queue!TypeOK
<1>4. ASSUME SQ!CopyForward PROVE Stays
  <2>1. /\ mpc = "copy" /\ mpc' # "copy"
        /\ mStates' = [mStates EXCEPT ![mMutating] = mStates[mExpecting]]
        /\ UNCHANGED <<mNext, mCurrent, previous, mMutating>>
    BY <1>4 DEF SQ!CopyForward, SQ!AfterPublish, SQ!observerVars
  <2>2. QED
    BY <1>0, <1>a, <2>1 DEF Queue!TypeOK
<1>5. ASSUME SQ!PollLoad \/ SQ!Begin \/ SQ!WaitForPrior \/ SQ!WaitForAck
      PROVE  Stays
  BY <1>5 DEF SQ!PollLoad, SQ!Begin, SQ!WaitForPrior, SQ!WaitForAck,
              SQ!observerVars, SQ!mutatorVars
<1>6. ASSUME NEW did \in BOOLEAN, SQ!End(did) PROVE Stays
  BY <1>6 DEF SQ!End, SQ!observerVars
<1>7. ASSUME NEW b \in SQ!Block, SQ!Push(b) PROVE Stays
  BY <1>7 DEF SQ!Push, SQ!AfterPublish, SQ!observerVars
<1>8. ASSUME UNCHANGED queueVars PROVE Stays
  BY <1>8 DEF queueVars
<1> HIDE DEF Stays
<1>9. QED
  BY <1>b, <1>1, <1>2, <1>3, <1>4, <1>5, <1>6, <1>7, <1>8

(* What each thread does to the states.                                    *)
NewTracks == [draft EXCEPT
                !.provider = [i \in FastIndex |-> Prepared(i)],
                !.mGeneration = [i \in FastIndex |-> NextGeneration(i)],
                !.mFastTracksGen = NextTracksGen]
NewCold == [draft EXCEPT !.mCommand = "COLD_IDLE", !.mColdGen = @ + 1]
NewCommands ==
  {[draft EXCEPT !.mCommand = c] : c \in Command \ {"INITIAL", "COLD_IDLE"}}

LEMMA StepEffects ==
  ASSUME IInv, mNext # NULL, [Next]_vars
  PROVE  /\ mNext' # NULL
         /\ \/ Stays
            \/ Adopts /\ FastPoll /\ fpc' = "adopt"
            \/ Publishes /\ Pushing
            \/ Drafts(NewTracks) /\ EditPrepare
            \/ Drafts(NewCold) /\ EditStandby
            \/ \E v \in NewCommands :
                 Drafts(v) /\ (EditParams \/ EditRestore \/ EditCommand)
<1>0. Queue!IInv /\ Queue!TypeOK /\ active \subseteq Track
  BY DEF IInv, Queue!IInv
<1>a. SQ!Next \/ UNCHANGED queueVars
  BY QueueStep
<1>b. mNext' # NULL
  BY <1>0, <1>a, QueueEffects
<1>c. /\ NewTracks \in FastMixerState /\ NewCold \in FastMixerState
      /\ NewCommands \subseteq FastMixerState
  BY <1>0, Edits DEF Gives, NewTracks, NewCold, NewCommands
<1>d. ASSUME NEW where, Leave(where) PROVE Stays
  BY <1>0, <1>a, <1>d, QueueEffects DEF Leave
<1>1. ASSUME FastPoll PROVE Stays \/ (Adopts /\ fpc' = "adopt")
  BY <1>0, <1>1, <1>a, QueueEffects DEF FastPoll
<1>2. ASSUME Pushing PROVE Stays \/ Publishes
  BY <1>0, <1>2, <1>a, QueueEffects DEF Pushing, SQ!PushStep
<1>3. ASSUME EditPrepare PROVE Stays \/ Drafts(NewTracks)
  <2>1. Leave("push") \/ SQ!Modify(NewTracks)
    BY <1>3 DEF EditPrepare, ChangeTo, NewTracks
  <2>2. QED
    BY <1>0, <1>a, <1>c, <1>d, <2>1, QueueEffects
<1>4. ASSUME EditStandby PROVE Stays \/ Drafts(NewCold)
  <2>1. Leave("halStandby") \/ SQ!Modify(NewCold)
    BY <1>4 DEF EditStandby, ChangeTo, NewCold
  <2>2. QED
    BY <1>0, <1>a, <1>c, <1>d, <2>1, QueueEffects
<1>5. ASSUME EditParams \/ EditRestore \/ EditCommand
      PROVE  Stays \/ \E v \in NewCommands : Drafts(v)
  <2>1. \/ Leave("setParametersIdle")
        \/ \E c \in {"HOT_IDLE", "MIX_WRITE", "EXIT"} :
             SQ!Modify([draft EXCEPT !.mCommand = c])
    BY <1>5 DEF EditParams, EditRestore, EditCommand, ChangeTo
  <2>2. \/ Leave("setParametersIdle")
        \/ \E v \in NewCommands : SQ!Modify(v)
    BY <2>1 DEF NewCommands, Command, Idle
  <2>3. QED
    BY <1>0, <1>a, <1>c, <1>d, <2>2, QueueEffects
<1>6. ASSUME Config \/ RestoreCommand \/ Standby \/ Prepare \/ Write \/ Destroy
      PROVE  Stays
  <2>1. SQ!Begin
    BY <1>6 DEF Config, RestoreCommand, Standby, Prepare, Write, Destroy, Mutate
  <2>2. QED
    BY <1>0, <1>a, <2>1, QueueEffects
<1>7. ASSUME EndMutation \/ EditRunOrExit \/ PushState PROVE Stays
  <2>1. \/ \E did \in BOOLEAN : SQ!End(did)
        \/ \E b \in SQ!Block : SQ!Push(b)
        \/ UNCHANGED queueVars
    BY <1>7 DEF EndMutation, EditRunOrExit, Leave, PushState, BlockFor, SQ!Block
  <2>2. QED
    BY <1>0, <1>a, <2>1, QueueEffects
<1>8. ASSUME \/ FastPollSame \/ FastAdopt \/ FastCold \/ FastFutexWait
             \/ FastColdDone \/ FastHot \/ FastExit \/ FastStateChange
             \/ FastWork \/ Binder \/ UNCHANGED vars
             \/ Top \/ SetParameters \/ Check \/ WakeUp \/ HalStandby \/ Release
             \/ Mix \/ HalWarmup \/ IncrementFutex \/ WakeFast \/ Submix
             \/ CycleEnd \/ Join \/ Pushed
      PROVE  Stays
  <2>1. UNCHANGED queueVars
    BY <1>8 DEF FastPollSame, FastAdopt, FastCold, FastFutexWait,
       FastColdDone, FastHot, FastExit, FastStateChange, FastWork, Binder,
       Start, NormalTracks, Suspend, RequestExit, vars,
       Top, SetParameters, Check, WakeUp, HalStandby, Release, Mix, HalWarmup,
       IncrementFutex, WakeFast, Submix, CycleEnd, Join, Pushed
  <2>2. QED
    BY <1>0, <1>a, <2>1, QueueEffects
<1>9. QED
  BY <1>b, <1>1, <1>2, <1>3, <1>4, <1>5, <1>6, <1>7, <1>8
  DEF Next, Normal, Fast

(* Which steps change what the fast mixer compares.                        *)
LEMMA PointerSteps ==
  ASSUME IInv, Remembers, Types, [Next]_vars
  PROVE  \/ FastAdopt \/ FastStateChange
         \/ /\ UNCHANGED <<current, mPrevious, mPreIdle, mixVars>>
            /\ StateAt(current)' = StateAt(current)
            /\ StateAt(mPrevious)' = StateAt(mPrevious)
<1> SUFFICES ASSUME ~FastAdopt, ~FastStateChange
             PROVE  /\ UNCHANGED <<current, mPrevious, mPreIdle, mixVars>>
                    /\ StateAt(current)' = StateAt(current)
                    /\ StateAt(mPrevious)' = StateAt(mPrevious)
  OBVIOUS
<1>1. UNCHANGED <<current, mPrevious, mPreIdle, mixVars>>
  BY DEF Next, Fast, Normal, Binder, vars, fastVars,
     FastPoll, FastPollSame, FastCold, FastFutexWait, FastColdDone, FastHot,
     FastExit, FastWork,
     Top, SetParameters, Check, WakeUp, HalStandby, Release, Mix, HalWarmup,
     IncrementFutex, WakeFast, Submix, CycleEnd, Join, Pushed,
     Config, RestoreCommand, Standby, Prepare, Write, Destroy, Mutate,
     EditParams, EditRestore, EditStandby, EditPrepare, EditCommand,
     EditRunOrExit, EndMutation, Leave, PushState, Pushing,
     Start, NormalTracks, Suspend, RequestExit
<1>2. [Queue!Next]_(Queue!vars)
  BY QueueStep, SameQueue
  DEF queueVars, Queue!vars, Queue!observerVars, Queue!mutatorVars
<1>3. \A s \in Queue!Readable : mStates'[s] = mStates[s]
  BY <1>2, FourSlots, Queue!NextReadable DEF IInv
<1>4. \A p \in {current, mPrevious} \ {INITIAL, PREIDLE} : p \in Queue!Readable
  BY DEF IInv, Follows, Remembers, Queue!Readable, NULL
<1>5. \A p \in {current, mPrevious} \ {INITIAL, PREIDLE} :
        mStates'[p] = mStates[p]
  BY <1>3, <1>4
<1>6. QED
  BY <1>1, <1>5 DEF StateAt

(* Adopting a new state, the fast mixer keeps the one it worked with.      *)
LEMMA Adopted ==
  ASSUME IInv, Remembers, Types, FastAdopt
  PROVE  /\ StateAt(current)' = CurrentState /\ current' # INITIAL
         /\ current' = mCurrent /\ mCurrent # NULL
         /\ KeepPrevious(CurrentState)
         /\ StateAt(mPrevious)' = StateAt(mPrevious)
<1>1. /\ mCurrent # NULL /\ mCurrent \in Queue!Slot
      /\ mCurrent \notin {INITIAL, PREIDLE}
      /\ current # PREIDLE /\ fpc = "adopt"
  BY DEF IInv, Follows, Queue!IInv, Queue!TypeOK, Queue!Pointer, Queue!Slot,
         SQ!Slot, Queue!NULL, FastAdopt, NULL, INITIAL, PREIDLE, kN, Types
<1>2. UNCHANGED mStates /\ current' = mCurrent /\ KeepPrevious(CurrentState)
  BY <1>1 DEF FastAdopt, queueVars, CurrentState
<1>3. StateAt(current)' = CurrentState
  BY <1>1, <1>2 DEF StateAt, CurrentState
<1>4. ASSUME StateAt(current).mCommand \notin Idle, mPreIdle' = StateAt(current),
             mPrevious' = PREIDLE
      PROVE  StateAt(mPrevious)' = StateAt(mPrevious)
  <2>1. mPrevious = current
    BY <1>1, <1>4 DEF Remembers
  <2>2. StateAt(mPrevious)' = mPreIdle'
    BY <1>4 DEF StateAt, INITIAL, PREIDLE
  <2>3. QED
    BY <1>4, <2>1, <2>2
<1>5. ASSUME StateAt(current).mCommand \notin Idle, mPrevious' = current,
             UNCHANGED mPreIdle
      PROVE  StateAt(mPrevious)' = StateAt(mPrevious)
  BY <1>1, <1>2, <1>5 DEF Remembers, StateAt
<1>6. ASSUME UNCHANGED <<mPrevious, mPreIdle>>
      PROVE  StateAt(mPrevious)' = StateAt(mPrevious)
  BY <1>2, <1>6 DEF StateAt
<1>7. QED
  BY <1>1, <1>2, <1>3, <1>4, <1>5, <1>6 DEF KeepPrevious

(* Working with its current state, the fast mixer compares the next one    *)
(* with this.                                                              *)
LEMMA Worked ==
  ASSUME IInv, Types, FastStateChange
  PROVE  /\ StateAt(current)' = StateAt(current)
         /\ StateAt(mPrevious)' = StateAt(current)
         /\ StateAt(current) = CurrentState
         /\ CurrentState.mCommand = "MIX_WRITE"
<1>1. UNCHANGED <<mStates, mPreIdle, current>> /\ mPrevious' = current
  BY DEF FastStateChange, queueVars
<1>2. /\ CurrentState.mCommand = "MIX_WRITE"
      /\ current = IF mCurrent = NULL THEN INITIAL ELSE mCurrent
      /\ mCurrent \notin {INITIAL, PREIDLE}
  BY DEF FastStateChange, IInv, Follows, Queue!IInv, Queue!TypeOK,
         Queue!Pointer, Queue!Slot, Queue!NULL, NULL, INITIAL, PREIDLE, kN
<1>3. QED
  BY <1>1, <1>2 DEF StateAt, CurrentState, INITIAL, PREIDLE

(* The other threads touch nothing of the fast mixer; they may wake it.    *)
LEMMA OthersLeave ==
  ASSUME IInv, Remembers, Types, Normal \/ Binder \/ UNCHANGED vars
  PROVE  /\ UNCHANGED <<mCurrent, previous, current, mPrevious, mPreIdle,
                         mCommand, mColdGen, mixVars>>
         /\ fpc' = fpc \/ (WakeFast /\ fpc = "asleep" /\ fpc' = "coldDone")
         /\ StateAt(current)' = StateAt(current)
         /\ StateAt(mPrevious)' = StateAt(mPrevious)
<1>1. UNCHANGED <<mCurrent, previous>>
  BY DEF Normal, Binder, vars, queueVars,
     Top, SetParameters, Check, WakeUp, HalStandby, Release, Mix, HalWarmup,
     IncrementFutex, WakeFast, Submix, CycleEnd, Join, Pushed,
     Config, RestoreCommand, Standby, Prepare, Write, Destroy, Mutate,
     EditParams, EditRestore, EditStandby, EditPrepare, EditCommand,
     EditRunOrExit, EndMutation, Leave, ChangeTo, PushState, Pushing,
     SQ!Begin, SQ!Modify, SQ!End, SQ!Push, SQ!PushStep, SQ!WaitForPrior,
     SQ!Publish, SQ!CopyForward, SQ!WaitForAck, SQ!observerVars,
     Start, NormalTracks, Suspend, RequestExit
<1>2. /\ UNCHANGED <<current, mPrevious, mPreIdle, mCommand, mColdGen, mixVars>>
      /\ fpc' = fpc \/ (WakeFast /\ fpc = "asleep" /\ fpc' = "coldDone")
  BY DEF Normal, Binder, vars, fastVars,
     Top, SetParameters, Check, WakeUp, HalStandby, Release, Mix, HalWarmup,
     IncrementFutex, WakeFast, Submix, CycleEnd, Join, Pushed,
     Config, RestoreCommand, Standby, Prepare, Write, Destroy, Mutate,
     EditParams, EditRestore, EditStandby, EditPrepare, EditCommand,
     EditRunOrExit, EndMutation, Leave, PushState, Pushing,
     Start, NormalTracks, Suspend, RequestExit
<1>3. ~FastAdopt /\ ~FastStateChange
  BY <1>2 DEF FastAdopt, FastStateChange
<1>4. [Next]_vars
  BY DEF Next
<1>5. QED
  BY <1>1, <1>2, <1>3, <1>4, PointerSteps

LEMMA NextRemembers ==
  ASSUME IInv, mNext # NULL, Started, Remembers, Futex, Types, [Next]_vars
  PROVE  Remembers'
<1> USE DEF Remembers
<1>a. /\ INITIAL # PREIDLE /\ INITIAL # NULL
      /\ Follows /\ current # PREIDLE
  BY DEF INITIAL, PREIDLE, NULL, Queue!NULL, IInv, Types, SQ!Slot
<1>b. fpc # "adopt" => StateAt(current) = CurrentState
  BY <1>a DEF IInv, Follows, Queue!IInv, Queue!TypeOK, Queue!Pointer, Queue!Slot,
         Queue!NULL, NULL, INITIAL, PREIDLE, kN, StateAt, CurrentState
<1>1. CASE FastAdopt
  <2>1. /\ fpc' = "dispatch" /\ UNCHANGED <<previous, mCurrent>>
        /\ fpc = "adopt"
    BY <1>1 DEF FastAdopt, queueVars
  <2>2. KeepPrevious(CurrentState) /\ StateAt(current)' = CurrentState
        /\ current' # INITIAL
    BY <1>1, Adopted
  <2>3. QED
    BY <1>a, <2>1, <2>2 DEF KeepPrevious
<1>2. CASE FastStateChange
  BY <1>a, <1>2, Worked DEF FastStateChange, Idle
<1>3. CASE FastHot \/ FastColdDone
  <2>1. /\ UNCHANGED <<current, mPrevious, previous>> /\ fpc' = "poll"
        /\ StateAt(current)' = StateAt(current)
        /\ fpc # "adopt"
    BY <1>3 DEF FastHot, FastColdDone, queueVars, StateAt
  <2>2. /\ CurrentState.mCommand \in Idle \cup {"INITIAL"}
        /\ CurrentState.mCommand = "INITIAL" => current = INITIAL
    BY <1>3, <1>a DEF FastHot, FastColdDone, Follows, Futex, InCold, Started, Idle
  <2>3. QED
    BY <1>b, <2>1, <2>2 DEF Idle
<1>4. CASE FastPoll
  <2>1. /\ UNCHANGED <<current, mPrevious>> /\ fpc = "poll"
        /\ StateAt(current)' = StateAt(current)
        /\ \/ UNCHANGED <<fpc, previous>>
           \/ fpc' = "adopt" /\ previous' = mCurrent
    BY <1>4 DEF FastPoll, SQ!PollLoad, SQ!PollAck, StateAt
  <2>2. QED
    BY <1>a, <2>1 DEF Follows
<1>5. CASE \/ FastPollSame \/ FastCold \/ FastFutexWait \/ FastExit \/ FastWork
  <2>1. /\ UNCHANGED <<current, mPrevious, previous, mStates, mPreIdle>>
        /\ fpc # "adopt" /\ fpc' # "adopt"
    BY <1>5 DEF FastPollSame, FastCold, FastFutexWait, FastExit, FastWork,
                queueVars
  <2>2. StateAt(current)' = StateAt(current)
    BY <2>1 DEF StateAt
  <2>3. fpc' = fpc \/ (fpc' \in {"dispatch", "exited"} /\ fpc \in {"poll", "dispatch"})
        \/ fpc \in {"work", "futexWait", "asleep"}
        \/ CurrentState.mCommand = "COLD_IDLE"
    BY <1>5, <1>a
    DEF FastPollSame, FastCold, FastFutexWait, FastExit, FastWork, Follows
  <2>4. QED
    BY <1>b, <2>1, <2>2, <2>3 DEF Idle
<1>6. CASE Normal \/ Binder \/ UNCHANGED vars
  BY <1>6, OthersLeave
<1>7. QED
  BY <1>1, <1>2, <1>3, <1>4, <1>5, <1>6 DEF Next, Fast

(* An edit follows the draft it edits.                                     *)
LEMMA DraftIsDraft == ASSUME IInv, npc # "pushing" PROVE Draft = draft
BY DEF IInv, Pushes, Draft, draft

LEMMA NextOrdered ==
  ASSUME IInv, Ordered, Remembers, Types, [Next]_vars
  PROVE  Ordered'
<1> USE DEF Ordered
<1>0. Queue!IInv /\ Queue!TypeOK /\ Queue!Knowledge /\ active \subseteq Track
  BY DEF IInv, Queue!IInv
<1>a. /\ {Draft, Published, CurrentState, StateAt(current),
          StateAt(mPrevious)} \subseteq FastMixerState
      /\ draft \in FastMixerState
  BY <1>0, StatesTyped
<1>b. mNext' # NULL
  BY StepEffects
<1>1. ASSUME FastAdopt \/ FastStateChange PROVE Ordered'
  <2>1. Stays
    BY <1>0, <1>1, QueueEffects DEF FastAdopt, FastStateChange
  <2>2. CASE FastAdopt
    <3>1. StateAt(current)' = CurrentState /\ StateAt(mPrevious)' = StateAt(mPrevious)
      BY <2>2, Adopted
    <3>2. Precedes(StateAt(mPrevious), CurrentState)
      BY <1>a, Transitive
    <3>3. QED
      BY <1>a, <1>b, <2>1, <3>1, <3>2, Reflexive DEF Stays
  <2>3. CASE FastStateChange
    <3>1. StateAt(current)' = StateAt(current) /\ StateAt(mPrevious)' = StateAt(current)
      BY <2>3, Worked
    <3>2. QED
      BY <1>a, <1>b, <2>1, <3>1, Reflexive DEF Stays
  <2>4. QED
    BY <1>1, <2>2, <2>3
<1>2. ASSUME StateAt(current)' = StateAt(current),
             StateAt(mPrevious)' = StateAt(mPrevious)
      PROVE  Ordered'
  <2>1. CASE Stays
    BY <1>b, <1>2, <2>1 DEF Stays
  <2>2. CASE Adopts
    <3>1. Precedes(StateAt(current), Published)
      BY <1>a, Transitive
    <3>2. QED
      BY <1>a, <1>b, <1>2, <2>2, <3>1, Reflexive DEF Adopts
  <2>3. CASE Publishes
    <3>1. Precedes(CurrentState, Draft)
      BY <1>a, Transitive
    <3>2. QED
      BY <1>a, <1>b, <1>2, <2>3, <3>1, Reflexive DEF Publishes
  <2>4. ASSUME NEW v \in FastMixerState, Drafts(v), Precedes(draft, v),
               npc # "pushing"
        PROVE  Ordered'
    <3>1. Precedes(Published, v)
      BY <1>a, <2>4, DraftIsDraft, Transitive
    <3>2. QED
      BY <1>b, <1>2, <2>4, <3>1 DEF Drafts
  <2>5. ASSUME Drafts(NewTracks) /\ EditPrepare PROVE Ordered'
    <3>1. /\ NewTracks \in FastMixerState /\ Precedes(draft, NewTracks)
      BY <1>0, <1>a, Edits, EditsFollow DEF NewTracks, Gives
    <3>2. QED
      BY <2>4, <2>5, <3>1 DEF EditPrepare
  <2>6. ASSUME Drafts(NewCold) /\ EditStandby PROVE Ordered'
    <3>1. /\ NewCold \in FastMixerState /\ Precedes(draft, NewCold)
      BY <1>0, <1>a, Edits, EditsFollow DEF NewCold, Gives
    <3>2. QED
      BY <2>4, <2>6, <3>1 DEF EditStandby
  <2>7. ASSUME NEW v \in NewCommands, Drafts(v),
               EditParams \/ EditRestore \/ EditCommand
        PROVE  Ordered'
    <3>1. /\ v \in FastMixerState /\ Precedes(draft, v)
      BY <1>0, <1>a, Edits, EditsFollow DEF NewCommands, Gives
    <3>2. QED
      BY <2>4, <2>7, <3>1 DEF EditParams, EditRestore, EditCommand
  <2>8. QED
    BY <2>1, <2>2, <2>3, <2>5, <2>6, <2>7, StepEffects
<1>3. QED
  BY <1>1, <1>2, PointerSteps

(* No edit asks for the initial command.                                   *)
LEMMA NextStarted ==
  ASSUME IInv, mNext # NULL, Started, [Next]_vars
  PROVE  Started'
<1> USE DEF Started
<1>0. draft \in FastMixerState
  BY DEF IInv, Queue!IInv, Queue!TypeOK, draft
<1>1. CASE Stays
  BY <1>1 DEF Stays
<1>2. CASE Adopts
  BY <1>2 DEF Adopts
<1>3. CASE Publishes
  BY <1>3 DEF Publishes
<1>4. ASSUME NEW v, Drafts(v), v.mCommand # "INITIAL" PROVE Started'
  BY <1>4 DEF Drafts
<1>5. ASSUME Drafts(NewTracks), EditPrepare PROVE Started'
  <2>1. NewTracks.mCommand = draft.mCommand /\ Draft = draft
    BY <1>0, <1>5, DraftIsDraft DEF NewTracks, FastMixerState, EditPrepare
  <2>2. QED
    BY <1>4, <1>5, <2>1
<1>6. NewCold.mCommand = "COLD_IDLE"
  BY <1>0 DEF NewCold, FastMixerState
<1>7. \A v \in NewCommands : v.mCommand # "INITIAL"
  BY <1>0 DEF NewCommands, FastMixerState
<1>8. QED
  BY <1>1, <1>2, <1>3, <1>4, <1>5, <1>6, <1>7, StepEffects

(* A new state's tracks replace the former ones where they differ, although *)
(* only generations are compared.                                          *)
LEMMA Reconfigures ==
  ASSUME NEW cur \in FastMixerState, NEW prev \in FastMixerState,
         Precedes(prev, cur),
         mixing = prev.provider, mFastTracksGen = prev.mFastTracksGen,
         mGenerations \in [FastIndex -> Nat],
         \A i \in Mask(prev) : mGenerations[i] = prev.mGeneration[i],
         Reconfigured(cur, prev)
  PROVE  /\ mixing' = cur.provider
         /\ mGenerations' \in [FastIndex -> Nat]
         /\ \A i \in Mask(cur) : mGenerations'[i] = cur.mGeneration[i]
<1>0. /\ cur.provider \in [FastIndex -> Track \cup {NoTrack}]
      /\ prev.provider \in [FastIndex -> Track \cup {NoTrack}]
      /\ cur.mGeneration \in [FastIndex -> Nat]
      /\ prev.mGeneration \in [FastIndex -> Nat]
  BY DEF FastMixerState
<1>1. CASE cur.mFrameCount # prev.mFrameCount
  BY <1>0, <1>1 DEF Reconfigured, Mask
<1>2. CASE cur.mFrameCount = prev.mFrameCount
              /\ cur.mFastTracksGen = mFastTracksGen
  BY <1>0, <1>2 DEF Reconfigured, Mask, Precedes
<1>3. CASE cur.mFrameCount = prev.mFrameCount
              /\ cur.mFastTracksGen # mFastTracksGen
  <2> DEFINE touched == {i \in FastIndex :
                           \/ i \in Mask(prev) \ Mask(cur)
                           \/ i \in Mask(cur) \ Mask(prev)
                           \/ /\ i \in Mask(cur) \cap Mask(prev)
                              /\ cur.mGeneration[i] # mGenerations[i]}
  <2>1. /\ mixing' = [i \in FastIndex |-> IF i \in touched
                        THEN cur.provider[i] ELSE mixing[i]]
        /\ mGenerations' = [i \in FastIndex |-> IF i \in touched
                        THEN cur.mGeneration[i] ELSE mGenerations[i]]
    BY <1>3 DEF Reconfigured
  <2>2. ASSUME NEW i \in FastIndex, i \notin touched
        PROVE  /\ cur.provider[i] = prev.provider[i]
               /\ i \in Mask(cur) => cur.mGeneration[i] = mGenerations[i]
    BY <1>0, <2>2 DEF Mask, Precedes
  <2> HIDE DEF touched
  <2>3. mixing' = cur.provider
    BY <1>0, <2>1, <2>2
  <2>4. /\ mGenerations' \in [FastIndex -> Nat]
        /\ \A i \in Mask(cur) : mGenerations'[i] = cur.mGeneration[i]
    BY <1>0, <2>1, <2>2 DEF Mask
  <2>5. QED
    BY <2>3, <2>4
<1>4. QED
  BY <1>1, <1>2, <1>3

(* The names of the mixer follow the state the fast mixer worked with.     *)
LEMMA NextMixes ==
  ASSUME IInv, Ordered, Remembers, Mixes, Types, [Next]_vars
  PROVE  Mixes' /\ (mGenerations \in [FastIndex -> Nat])'
<1>0. Queue!TypeOK /\ Queue!Knowledge
  BY DEF IInv, Queue!IInv
<1>a. {StateAt(current), StateAt(mPrevious)} \subseteq FastMixerState
  BY <1>0, StatesTyped DEF Ordered
<1> USE DEF Mixes, Types
<1>1. CASE FastStateChange
  <2>1. StateAt(mPrevious)' = StateAt(current)
    BY <1>1, Worked DEF Types
  <2>2. CASE current = mPrevious
    BY <1>1, <2>1, <2>2 DEF FastStateChange, mixVars, Mask
  <2>3. CASE current # mPrevious
    <3>1. /\ Reconfigured(StateAt(current), StateAt(mPrevious))
          /\ mFastTracksGen' = StateAt(current).mFastTracksGen
      BY <1>1, <2>3 DEF FastStateChange
    <3>2. /\ mixing' = StateAt(current).provider
          /\ mGenerations' \in [FastIndex -> Nat]
          /\ \A i \in Mask(StateAt(current)) :
               mGenerations'[i] = StateAt(current).mGeneration[i]
      BY <1>a, <3>1, Reconfigures DEF Ordered
    <3>3. QED
      BY <2>1, <3>1, <3>2 DEF Mask
  <2>4. QED
    BY <2>2, <2>3
<1>2. CASE ~FastStateChange
  <2>1. StateAt(mPrevious)' = StateAt(mPrevious) /\ UNCHANGED mixVars
    BY <1>2, Adopted, PointerSteps DEF FastAdopt, mixVars
  <2>2. QED
    BY <2>1 DEF mixVars, Mask
<1>3. QED
  BY <1>1, <1>2

(* The fast mixer's own variables keep their types.                        *)
LEMMA NextTypes ==
  ASSUME IInv, Ordered, Remembers, Mixes, Types, [Next]_vars
  PROVE  Types'
<1>0. Queue!TypeOK /\ Queue!Knowledge
  BY DEF IInv, Queue!IInv
<1>a. StateAt(current) \in FastMixerState
  BY <1>0, StatesTyped DEF Ordered
<1>b. (mGenerations \in [FastIndex -> Nat])'
  BY NextMixes
<1> USE DEF Types
<1>1. CASE FastAdopt
  <2>1. /\ current' = mCurrent /\ mCurrent # NULL /\ UNCHANGED mColdGen
        /\ KeepPrevious(CurrentState)
    BY <1>1, Adopted DEF FastAdopt
  <2>2. mCurrent \in SQ!Slot
    BY <1>0, <2>1 DEF Queue!TypeOK, Queue!Pointer, Queue!Slot, SQ!Slot, NULL
  <2>3. QED
    BY <1>a, <1>b, <2>1, <2>2 DEF KeepPrevious
<1>2. CASE FastStateChange
  BY <1>b, <1>2 DEF FastStateChange
<1>3. CASE FastColdDone
  BY <1>a, <1>b, <1>3 DEF FastColdDone, FastMixerState
<1>4. CASE \/ FastPoll \/ FastPollSame \/ FastCold \/ FastFutexWait \/ FastHot
           \/ FastExit \/ FastWork
  BY <1>b, <1>4 DEF FastPoll, FastPollSame, FastCold, FastFutexWait, FastHot,
     FastExit, FastWork
<1>5. CASE Normal \/ Binder \/ UNCHANGED vars
  BY <1>b, <1>5, OthersLeave
<1>6. QED
  BY <1>1, <1>2, <1>3, <1>4, <1>5 DEF Next, Fast

(* What the normal mixer makes of the tracks of the draft.                 *)
LEMMA NewTracksFit ==
  ASSUME draft \in FastMixerState, toRemove \subseteq Track,
         Live(draft), InPlace(draft)
  PROVE  /\ Live(NewTracks) /\ InPlace(NewTracks) /\ Spares(NewTracks)
         /\ (\A i \in FastIndex : Prepared(i) = draft.provider[i]) => Spares(draft)
         /\ NewTracks.mCommand = draft.mCommand
         /\ NewTracks.mColdGen = draft.mColdGen
<1>0. NoTrack \notin toRemove
  BY TrackAssumption
<1>1. ASSUME NEW i \in FastIndex
      PROVE  /\ Prepared(i) \in active \cup {NoTrack}
             /\ Prepared(i) # NoTrack => mFastIndex[Prepared(i)] = i
             /\ Prepared(i) \notin toRemove
  <2>1. CASE \E t \in toRemove : mFastIndex[t] = i
    BY <1>0, <2>1 DEF Prepared
  <2>2. CASE /\ ~\E t \in toRemove : mFastIndex[t] = i
             /\ draft.provider[i] = NoTrack /\ \E t \in active : mFastIndex[t] = i
    <3>1. Prepared(i) = CHOOSE t \in active : mFastIndex[t] = i
      BY <2>2 DEF Prepared
    <3>2. QED
      BY <1>0, <2>2, <3>1
  <2>3. CASE /\ ~\E t \in toRemove : mFastIndex[t] = i
             /\ ~(draft.provider[i] = NoTrack /\ \E t \in active : mFastIndex[t] = i)
    <3>1. Prepared(i) = draft.provider[i]
      BY <2>3 DEF Prepared
    <3>2. QED
      BY <1>0, <2>3, <3>1 DEF Live, InPlace
  <2>4. QED
    BY <2>1, <2>2, <2>3
<1>2. /\ NewTracks.provider = [i \in FastIndex |-> Prepared(i)]
      /\ NewTracks.mCommand = draft.mCommand
      /\ NewTracks.mColdGen = draft.mColdGen
  BY DEF NewTracks, FastMixerState
<1>3. QED
  BY <1>1, <1>2 DEF Live, InPlace, Spares

(* Which steps concern the tracks that are active or about to be released. *)
LEMMA TrackSteps ==
  ASSUME IInv, [Next]_vars
  PROVE  \/ Release \/ Prepare \/ EditPrepare \/ CycleEnd
         \/ (\E t \in Track : Start(t))
         \/ Pushed /\ job = "prepare"
         \/ /\ UNCHANGED <<active, toRemove>>
            /\ job' = "prepare" /\ npc' \in {"end", "push", "pushing"}
                 => job = "prepare" /\ npc \in {"end", "push", "pushing"}
            /\ npc' = "release" => npc = "release"
<1> SUFFICES ASSUME ~Release, ~Prepare, ~EditPrepare, ~CycleEnd,
                    ~\E t \in Track : Start(t), ~(Pushed /\ job = "prepare")
             PROVE  /\ UNCHANGED <<active, toRemove>>
                    /\ job' = "prepare" /\ npc' \in {"end", "push", "pushing"}
                         => job = "prepare" /\ npc \in {"end", "push", "pushing"}
                    /\ npc' = "release" => npc = "release"
  OBVIOUS
<1>1. CASE Fast \/ Binder \/ UNCHANGED vars
  BY <1>1 DEF Fast, Binder, vars, normalVars, loopVars, binderVars,
     FastPoll, FastPollSame, FastAdopt, FastCold, FastFutexWait, FastColdDone,
     FastHot, FastExit, FastStateChange, FastWork,
     NormalTracks, Suspend, RequestExit
<1>2. CASE Top \/ SetParameters \/ Check \/ WakeUp \/ HalStandby
           \/ Mix \/ HalWarmup \/ IncrementFutex \/ WakeFast \/ Submix
           \/ Join \/ Config \/ RestoreCommand \/ Standby \/ Write \/ Destroy
  BY <1>2 DEF Top, SetParameters, Check, WakeUp, HalStandby, Mix, HalWarmup,
     IncrementFutex, WakeFast, Submix, Join, Config, RestoreCommand, Standby,
     Write, Destroy, Mutate, loopVars, binderVars
<1>3. CASE Pushed
  BY <1>3 DEF Pushed, IInv, Pushes, Mutating, Mutation, loopVars, binderVars
<1>4. CASE EditParams \/ EditRestore \/ EditStandby \/ EditCommand
           \/ EditRunOrExit
  BY <1>4 DEF EditParams, EditRestore, EditStandby, EditCommand, EditRunOrExit,
     Leave, ChangeTo, loopVars, binderVars, IInv, Pushes
<1>5. CASE EndMutation \/ PushState \/ Pushing
  BY <1>5 DEF EndMutation, PushState, Pushing, normalVars, loopVars, binderVars
<1>6. QED
  BY <1>1, <1>2, <1>3, <1>4, <1>5 DEF Next, Normal

(* A push that had to be acknowledged returned: the fast mixer has the     *)
(* draft.                                                                  *)
LEMMA AckedStates ==
  ASSUME IInv, npc = "pushing", mpc = "idle", BlockFor(job) = "UNTIL_ACKED"
  PROVE  /\ mNext # NULL /\ mCurrent = mNext
         /\ Published = Draft /\ CurrentState = Draft
<1>1. ~mIsDirty /\ mExpecting = NULL /\ mIsInitialized /\ ~mInMutation
  BY DEF IInv, Pushes
<1>2. mNext # NULL /\ mStates[mMutating] = mStates[mNext] /\ mCurrent = mNext
  BY <1>1 DEF IInv, Queue!IInv, Queue!CleanMeansPublished, Queue!Knowledge,
              Queue!Chained, NULL
<1>3. QED
  BY <1>2 DEF Draft, Published, CurrentState

(* No step leaves the fast mixer with a track that was released.           *)
LEMMA NextKeeps ==
  ASSUME IInv, mNext # NULL, Keeps, [Next]_vars
  PROVE  Keeps'
<1>0. draft \in FastMixerState /\ active \subseteq Track /\ toRemove \subseteq Track
  BY DEF IInv, Queue!IInv, Queue!TypeOK, draft, Keeps
<1>1. CASE Stays
  <2>a. UNCHANGED <<Draft, Published, CurrentState>>
    BY <1>1 DEF Stays
  <2> USE DEF Keeps, Live, InPlace, Spares
  <2>1. CASE Release
    BY <2>1, <2>a DEF Release, loopVars
  <2>2. CASE Prepare
    BY <1>0, <2>2, <2>a DEF Prepare, Mutate, binderVars
  <2>3. CASE EditPrepare
    <3>1. /\ Draft = draft /\ UNCHANGED <<active, toRemove, job>>
          /\ npc' \in {"end", "push"}
      BY <2>3, DraftIsDraft
      DEF EditPrepare, Leave, ChangeTo, loopVars, binderVars
    <3>2. CASE \A i \in FastIndex : Prepared(i) = draft.provider[i]
      BY <1>0, <2>a, <3>1, <3>2, NewTracksFit
    <3>3. CASE ~\A i \in FastIndex : Prepared(i) = draft.provider[i]
      <4>1. Draft' = NewTracks
        <5>1. SQ!Modify(NewTracks)
          BY <2>3, <3>3 DEF EditPrepare, ChangeTo, NewTracks
        <5>2. NewTracks \in FastMixerState
          BY <1>0, Edits DEF IInv, Queue!IInv, NewTracks, Gives
        <5>3. QED
          BY <5>1, <5>2, QueueEdit DEF IInv
      <4>2. QED
        BY <1>0, <2>a, <3>1, <4>1, NewTracksFit
    <3>4. QED
      BY <3>2, <3>3
  <2>4. CASE CycleEnd
    BY <2>4, <2>a DEF CycleEnd, binderVars
  <2>5. ASSUME NEW t \in Track, Start(t) PROVE Keeps'
    BY <2>5, <2>a DEF Start, normalVars, loopVars
  <2>6. CASE Pushed /\ job = "prepare"
    <3>1. UNCHANGED <<active, toRemove, job>> /\ npc' = "release"
          /\ npc = "pushing" /\ mpc = "idle"
      BY <2>6 DEF Pushed, loopVars, binderVars
    <3>2. CASE toRemove = {}
      BY <2>a, <3>1, <3>2
    <3>3. CASE toRemove # {}
      <4>1. Published = Draft /\ CurrentState = Draft
        BY <2>6, <3>1, <3>3, AckedStates DEF BlockFor
      <4>2. QED
        BY <2>6, <2>a, <3>1, <4>1
    <3>4. QED
      BY <3>2, <3>3
  <2>7. QED
    BY <2>1, <2>2, <2>3, <2>4, <2>5, <2>6, <2>a, TrackSteps
<1>2. CASE Adopts /\ FastPoll
  BY <1>2 DEF Adopts, FastPoll, normalVars, loopVars, binderVars, Keeps, Live,
     InPlace, Spares
<1>3. CASE Publishes /\ Pushing
  BY <1>3 DEF Publishes, Pushing, normalVars, loopVars, binderVars, Keeps, Live,
     InPlace, Spares
<1>4. CASE Drafts(NewTracks) /\ EditPrepare
  <2>1. /\ Draft = draft /\ UNCHANGED <<active, toRemove, job>>
        /\ npc' \in {"end", "push"}
    BY <1>4, DraftIsDraft
    DEF EditPrepare, Leave, ChangeTo, loopVars, binderVars
  <2>2. Live(NewTracks) /\ InPlace(NewTracks) /\ Spares(NewTracks)
    BY <1>0, <2>1, NewTracksFit DEF Keeps
  <2>3. QED
    BY <1>4, <2>1, <2>2 DEF Drafts, Keeps, Live, InPlace, Spares
<1>5. ASSUME NEW v, Drafts(v), v.provider = draft.provider, job # "prepare",
             UNCHANGED <<active, toRemove, job>>, npc' # "release",
             npc # "pushing"
      PROVE  Keeps'
  BY <1>5, DraftIsDraft DEF Drafts, Keeps, Live, InPlace, Spares
<1>6. CASE Drafts(NewCold) /\ EditStandby
  <2>1. NewCold.provider = draft.provider
    BY <1>0 DEF NewCold, FastMixerState
  <2>2. QED
    BY <1>5, <1>6, <2>1 DEF EditStandby, Leave, ChangeTo, loopVars, binderVars
<1>7. ASSUME NEW v \in NewCommands, Drafts(v),
             EditParams \/ EditRestore \/ EditCommand
      PROVE  Keeps'
  <2>1. v.provider = draft.provider
    BY <1>0 DEF NewCommands, FastMixerState
  <2>2. QED
    BY <1>5, <1>7, <2>1 DEF EditParams, EditRestore, EditCommand, Leave,
       ChangeTo, loopVars, binderVars, IInv, Pushes
<1>8. QED
  BY <1>1, <1>2, <1>3, <1>4, <1>6, <1>7, StepEffects

(* The fast mixer's part in the futex protocol: a request it has not done  *)
(* with finds the futex at 0 or 1.                                         *)
LEMMA FastFutex ==
  ASSUME IInv, Ordered, Remembers, Futex, Types, Fast
  PROVE  Futex'
<1>0. Queue!IInv /\ Queue!TypeOK /\ Queue!Knowledge /\ Follows /\ mNext # NULL
  BY DEF IInv, Queue!IInv, Ordered
<1>a. /\ Draft.mColdGen \in Nat /\ Published.mColdGen \in Nat
      /\ CurrentState.mColdGen \in Nat /\ StateAt(current).mColdGen \in Nat
      /\ mColdGen \in Nat
  BY <1>0, StatesTyped DEF FastMixerState, Types
<1>b. fpc # "adopt" => StateAt(current) = CurrentState
  BY <1>0 DEF Follows, Queue!TypeOK, Queue!Pointer, Queue!Slot,
         Queue!NULL, NULL, INITIAL, PREIDLE, kN, StateAt, CurrentState
<1>c. /\ StateAt(current).mColdGen <= CurrentState.mColdGen
      /\ CurrentState.mColdGen <= Draft.mColdGen
      /\ mColdGen <= StateAt(current).mColdGen
  <2>1. /\ StateAt(current).mColdGen <= CurrentState.mColdGen
        /\ CurrentState.mColdGen <= Published.mColdGen
        /\ Published.mColdGen <= Draft.mColdGen
    BY DEF Ordered, Precedes
  <2>2. QED
    BY <1>a, <2>1 DEF Futex
<1>d. Stopping' = Stopping /\ UNCHANGED <<npc, job>>
  BY DEF Fast, FastPoll, FastPollSame, FastAdopt, FastCold, FastFutexWait,
     FastColdDone, FastHot, FastExit, FastStateChange, FastWork, Stopping,
     normalVars, loopVars
<1>e. [Next]_vars
  BY DEF Next
<1> USE DEF Futex, DoneWith, InCold
<1>1. CASE FastPoll
  <2>1. /\ fpc = "poll" /\ fpc' \in {"poll", "adopt"}
        /\ UNCHANGED <<mFastMixerFutex, mColdGen>>
    BY <1>1 DEF FastPoll, normalVars, loopVars
  <2>2. StateAt(current)' = StateAt(current)
    BY <1>e, <2>1, PointerSteps DEF FastAdopt, FastStateChange
  <2>3. Stays \/ Adopts
    BY <1>0, <1>1, QueueEffects DEF FastPoll, SQ!Next, SQ!Observer
  <2>4. CASE Stays
    BY <1>d, <2>1, <2>2, <2>4 DEF Stays
  <2>5. CASE Adopts
    BY <1>d, <2>1, <2>2, <2>5 DEF Adopts
  <2>6. QED
    BY <2>3, <2>4, <2>5
<1>2. CASE ~FastPoll
  <2>1. Stays
    <3>1. UNCHANGED queueVars
      BY <1>2 DEF Fast, FastPollSame, FastAdopt, FastCold, FastFutexWait,
         FastColdDone, FastHot, FastExit, FastStateChange, FastWork
    <3>2. QED
      BY <1>0, <3>1, QueueEffects
  <2> USE <2>1 DEF Stays
  <2>2. CASE FastAdopt
    <3>1. StateAt(current)' = CurrentState
      BY <2>2, Adopted
    <3>2. /\ UNCHANGED <<mFastMixerFutex, mColdGen>>
          /\ fpc = "adopt" /\ fpc' = "dispatch"
      BY <2>2 DEF FastAdopt, normalVars, loopVars
    <3>3. QED
      BY <1>a, <1>c, <1>d, <3>1, <3>2
  <2>3. CASE ~FastAdopt
    <3>1. StateAt(current)' = StateAt(current)
      BY <1>e, <2>3, PointerSteps, Worked
    <3>2. CASE FastCold
      <4>1. /\ fpc = "dispatch" /\ CurrentState.mCommand = "COLD_IDLE"
            /\ mColdGen # CurrentState.mColdGen
            /\ mFastMixerFutex' = mFastMixerFutex - 1
            /\ fpc' = IF mFastMixerFutex <= 0 THEN "futexWait" ELSE "coldDone"
            /\ UNCHANGED mColdGen
        BY <1>b, <1>0, <3>2 DEF FastCold, Follows
      <4>2. mColdGen # Draft.mColdGen
        BY <1>a, <1>b, <1>c, <4>1
      <4>3. mFastMixerFutex \in 0 .. 1 /\ npc # "wake"
        BY <4>1, <4>2
      <4>4. QED
        BY <1>d, <3>1, <4>1, <4>3
    <3>3. CASE FastFutexWait
      BY <1>d, <3>1, <3>3 DEF FastFutexWait, normalVars, loopVars
    <3>4. CASE FastColdDone
      BY <1>a, <1>b, <1>c, <1>d, <3>1, <3>4
      DEF FastColdDone, normalVars, loopVars
    <3>5. CASE \/ FastPollSame \/ FastHot \/ FastExit \/ FastStateChange
               \/ FastWork
      <4>1. /\ UNCHANGED <<mFastMixerFutex, mColdGen>>
            /\ fpc \notin InCold /\ fpc' \notin InCold
        BY <3>5 DEF FastPollSame, FastHot, FastExit, FastStateChange, FastWork,
           normalVars, loopVars
      <4>2. QED
        BY <1>d, <3>1, <4>1
    <3>6. QED
      BY <1>2, <2>3, <3>2, <3>3, <3>4, <3>5 DEF Fast
  <2>4. QED
    BY <2>2, <2>3
<1>3. QED
  BY <1>1, <1>2

(* The normal mixer's part: it resets the futex with each request, and     *)
(* increments it once before it takes the request back.                    *)
LEMMA NormalFutex ==
  ASSUME IInv, Ordered, Remembers, Futex, Types,
         Normal \/ Binder \/ UNCHANGED vars
  PROVE  Futex'
<1>0. /\ Queue!IInv /\ Queue!TypeOK /\ Pushes /\ mNext # NULL /\ [Next]_vars
      /\ draft \in FastMixerState
  BY DEF IInv, Queue!IInv, Ordered, Next, Queue!TypeOK, draft
<1>a. /\ UNCHANGED <<mCurrent, mColdGen>>
      /\ StateAt(current)' = StateAt(current)
      /\ fpc' = fpc \/ (WakeFast /\ fpc = "asleep" /\ fpc' = "coldDone")
  BY OthersLeave
<1>b. npc # "pushing" => Draft = draft
  BY DraftIsDraft
<1> USE DEF Futex, DoneWith, InCold
<1>1. ASSUME Stays, UNCHANGED <<mFastMixerFutex, fpc>>,
             Stopping => Stopping',
             npc \in {"wake", "command"} => npc' \in {"wake", "command"},
             npc' # "wake",
             npc' \in {"halWarmup", "increment"} => Draft.mCommand = "COLD_IDLE"
      PROVE  Futex'
  BY <1>1, <1>a DEF Stays
<1>2. CASE \/ Binder \/ UNCHANGED vars
  <2>1. UNCHANGED <<queueVars, npc, job, mFastMixerFutex>>
    BY <1>2 DEF Binder, Start, NormalTracks, Suspend, RequestExit, vars,
       normalVars, loopVars
  <2>2. Stays
    BY <1>0, <2>1, QueueEffects
  <2>3. UNCHANGED fpc
    BY <1>2 DEF Binder, Start, NormalTracks, Suspend, RequestExit, vars, fastVars
  <2>4. QED
    BY <1>a, <2>1, <2>2, <2>3 DEF Stays, Stopping
<1>3. CASE \/ Top \/ SetParameters \/ Check \/ WakeUp \/ HalStandby \/ Release
           \/ Mix \/ HalWarmup \/ Submix \/ CycleEnd \/ Join
  <2>1. /\ UNCHANGED <<queueVars, mFastMixerFutex, fpc>>
        /\ npc \notin {"wake", "command", "end", "push", "pushing"}
        /\ npc' # "wake"
        /\ npc' \in {"halWarmup", "increment"} => npc = "halWarmup"
    BY <1>3 DEF Top, SetParameters, Check, WakeUp, HalStandby, Release, Mix,
       HalWarmup, Submix, CycleEnd, Join, loopVars, fastVars
  <2>2. Stays
    BY <1>0, <2>1, QueueEffects
  <2>3. QED
    BY <1>1, <2>1, <2>2 DEF Stopping
<1>4. CASE Config \/ RestoreCommand \/ Standby \/ Prepare \/ Write \/ Destroy
  <2>1. /\ SQ!Begin /\ UNCHANGED <<mFastMixerFutex, fpc>> /\ npc' = "edit"
        /\ npc \notin {"wake", "command", "end", "push", "pushing"}
    BY <1>4 DEF Config, RestoreCommand, Standby, Prepare, Write, Destroy,
       Mutate, fastVars
  <2>2. Stays
    BY <1>0, <2>1, QueueEffects DEF SQ!Next, SQ!Mutator
  <2>3. QED
    BY <1>1, <2>1, <2>2 DEF Stopping
<1>5. CASE EndMutation \/ PushState
  <2>1. /\ UNCHANGED <<mFastMixerFutex, fpc, job>>
        /\ npc \in {"end", "push"} /\ npc' \in {"push", "pushing"}
        /\ \/ \E did \in BOOLEAN : SQ!End(did)
           \/ \E b \in SQ!Block : SQ!Push(b)
    BY <1>5 DEF EndMutation, PushState, BlockFor, SQ!Block, loopVars, fastVars
  <2>2. Stays
    BY <1>0, <2>1, QueueEffects DEF SQ!Next, SQ!Mutator
  <2>3. QED
    BY <1>1, <2>1, <2>2 DEF Stopping
<1>6. CASE Pushing
  <2>1. /\ UNCHANGED <<mFastMixerFutex, fpc, job, npc>> /\ npc = "pushing"
        /\ SQ!PushStep
    BY <1>6 DEF Pushing, normalVars, loopVars, fastVars
  <2>2. Stays \/ Publishes
    BY <1>0, <2>1, QueueEffects DEF SQ!PushStep, SQ!Next, SQ!Mutator
  <2>3. QED
    BY <1>1, <1>a, <2>1, <2>2 DEF Stays, Publishes, Stopping
<1>7. CASE Pushed
  <2>1. /\ UNCHANGED <<queueVars, mFastMixerFutex, fpc, job>>
        /\ npc = "pushing" /\ mpc = "idle"
        /\ npc' \notin {"end", "push", "pushing", "wake", "halWarmup",
                        "increment"}
    BY <1>0, <1>7 DEF Pushed, Pushes, Mutating, Mutation, loopVars, fastVars
  <2>2. Stays
    BY <1>0, <2>1, QueueEffects
  <2>3. Stopping => Published = Draft /\ CurrentState = Draft
    BY <2>1, AckedStates DEF Stopping, Taking, BlockFor
  <2>4. QED
    BY <1>a, <2>1, <2>2, <2>3 DEF Stays, Stopping
<1>8. ASSUME NEW v, Drafts(v), npc # "pushing", UNCHANGED fpc, ~Stopping,
             npc' = "end", v.mColdGen = draft.mColdGen,
             v.mCommand = "COLD_IDLE"
               => draft.mCommand = "COLD_IDLE" /\ npc = "edit",
             UNCHANGED mFastMixerFutex
      PROVE  Futex'
  BY <1>8, <1>a, <1>b DEF Drafts
<1>9. ASSUME NEW where, Leave(where), npc = "edit", where # "wake",
             where \notin {"halWarmup", "increment"}
      PROVE  Futex'
  <2>1. SQ!End(FALSE) /\ npc' = where /\ UNCHANGED <<mFastMixerFutex, fpc>>
    BY <1>9 DEF Leave, loopVars, fastVars
  <2>2. Stays
    BY <1>0, <2>1, QueueEffects DEF SQ!Next, SQ!Mutator
  <2>3. QED
    BY <1>1, <1>9, <2>1, <2>2 DEF Stopping
<1>10. CASE EditParams \/ EditRestore \/ EditCommand
  <2>1. ASSUME NEW c \in {"HOT_IDLE", "MIX_WRITE", "EXIT"},
               SQ!Modify([draft EXCEPT !.mCommand = c]), npc' = "end",
               UNCHANGED <<mFastMixerFutex, fpc>>, npc \in {"edit", "command"}
        PROVE  Futex'
    <3>1. LET v == [draft EXCEPT !.mCommand = c]
          IN  v.mCommand = c /\ v.mColdGen = draft.mColdGen
      BY <1>0 DEF FastMixerState
    <3>2. Drafts([draft EXCEPT !.mCommand = c])
      <4>1. [draft EXCEPT !.mCommand = c] \in FastMixerState
        BY <1>0, Edits DEF Gives, Command, Idle, IInv
      <4>2. SQ!Next
        BY <4>1, <2>1 DEF SQ!Next, SQ!Mutator
      <4>3. QED
        BY <1>0, <2>1, <4>1, <4>2, QueueEffects
    <3>3. QED
      BY <1>8, <2>1, <3>1, <3>2 DEF Stopping
  <2>2. \/ npc = "edit" /\ Leave("setParametersIdle")
        \/ /\ \E c \in {"HOT_IDLE", "MIX_WRITE", "EXIT"} :
                SQ!Modify([draft EXCEPT !.mCommand = c])
           /\ npc' = "end" /\ npc \in {"edit", "command"}
           /\ UNCHANGED <<mFastMixerFutex, fpc>>
    BY <1>10 DEF EditParams, EditRestore, EditCommand, ChangeTo, loopVars,
       fastVars
  <2>3. QED
    BY <1>9, <2>1, <2>2
<1>11. CASE EditPrepare
  <2>1. \/ npc = "edit" /\ Leave("push")
        \/ /\ SQ!Modify(NewTracks) /\ npc' = "end" /\ npc = "edit"
           /\ UNCHANGED <<mFastMixerFutex, fpc>>
    BY <1>11 DEF EditPrepare, ChangeTo, NewTracks, loopVars, fastVars
  <2>2. NewTracks \in FastMixerState
    BY <1>0, Edits DEF IInv, Gives, NewTracks
  <2>3. SQ!Modify(NewTracks) => Drafts(NewTracks)
    BY <1>0, <2>2, QueueEffects DEF SQ!Next, SQ!Mutator
  <2>4. /\ NewTracks.mCommand = draft.mCommand
        /\ NewTracks.mColdGen = draft.mColdGen
    BY <1>0 DEF NewTracks, FastMixerState
  <2>5. QED
    BY <1>8, <1>9, <2>1, <2>3, <2>4 DEF Stopping
<1>12. CASE EditStandby
  <2>1. \/ npc = "edit" /\ Leave("halStandby")
        \/ /\ SQ!Modify(NewCold) /\ npc' = "end" /\ npc = "edit"
           /\ job' = job /\ job \in Taking
           /\ mFastMixerFutex' = 0 /\ UNCHANGED fpc
    BY <1>12 DEF EditStandby, ChangeTo, NewCold, fastVars, Taking
  <2>2. NewCold \in FastMixerState
    BY <1>0, Edits DEF IInv, Gives, NewCold
  <2>3. SQ!Modify(NewCold) => Drafts(NewCold)
    BY <1>0, <2>2, QueueEffects DEF SQ!Next, SQ!Mutator
  <2>4. QED
    BY <1>9, <1>a, <2>1, <2>3 DEF Drafts, Stopping
<1>13. CASE EditRunOrExit
  <2>1. \/ npc = "edit" /\ Leave("submix")
        \/ /\ UNCHANGED <<queueVars, mFastMixerFutex, fpc>> /\ npc = "edit"
           /\ npc' \in {"command", "halWarmup", "increment"}
           /\ npc' # "command" => draft.mCommand = "COLD_IDLE"
    BY <1>13 DEF EditRunOrExit, loopVars, fastVars
  <2>2. UNCHANGED queueVars => Stays
    BY <1>0, QueueEffects
  <2>3. QED
    BY <1>1, <1>9, <1>b, <2>1, <2>2 DEF Stopping
<1>14. CASE IncrementFutex \/ WakeFast
  <2>1. UNCHANGED queueVars /\ npc \in {"increment", "wake"}
    BY <1>14 DEF IncrementFutex, WakeFast
  <2>2. Stays
    BY <1>0, <2>1, QueueEffects
  <2>3. /\ ~Stopping /\ Draft.mCommand = "COLD_IDLE"
        /\ fpc \in InCold => CurrentState.mColdGen = Draft.mColdGen
    BY <2>1 DEF Stopping, CurrentState, sInitial
  <2>4. CASE IncrementFutex
    BY <1>a, <2>2, <2>3, <2>4 DEF IncrementFutex, WakeFast, Stays, Stopping
  <2>5. CASE WakeFast
    BY <1>a, <2>2, <2>3, <2>5 DEF WakeFast, Stays, Stopping, loopVars
  <2>6. QED
    BY <1>14, <2>4, <2>5
<1>15. QED
  BY <1>2, <1>3, <1>4, <1>5, <1>6, <1>7, <1>10, <1>11, <1>12, <1>13, <1>14
  DEF Normal

-----------------------------------------------------------------------------
(* The places the threads can be at, and the flags.                        *)
Control ==
  /\ npc \in {"top", "config", "edit", "end", "push", "pushing",
             "setParameters", "setParametersIdle", "restore", "check", "sleep",
             "standby", "lastStandby", "halStandby", "prepare", "release", "mix",
             "write", "dtor", "halWarmup", "increment", "wake", "command",
             "submix", "cycleEnd", "join", "gone"}
  /\ job \in {"none", "params", "restore", "standby", "lastStandby", "prepare",
             "write", "exit"}
  /\ fpc \in {"poll", "adopt", "dispatch", "futexWait", "asleep", "coldDone",
             "work", "exited"}
  /\ {mStandby, mBytesWritten, normalActive, suspended, exitPending}
       \subseteq BOOLEAN

LEMMA NextControl ==
  ASSUME IInv, Control, [Next]_vars PROVE Control'
<1> USE DEF Control
<1>1. CASE Fast
  BY <1>1 DEF Fast, FastPoll, FastPollSame, FastAdopt, FastCold, FastFutexWait,
     FastColdDone, FastHot, FastExit, FastStateChange, FastWork, normalVars,
     loopVars, binderVars
<1>2. CASE Binder \/ UNCHANGED vars
  BY <1>2 DEF Binder, Start, NormalTracks, Suspend, RequestExit, vars,
     normalVars, loopVars, binderVars, fastVars
<1>3. CASE Top \/ SetParameters \/ Check \/ WakeUp \/ HalStandby \/ Release
           \/ Mix \/ HalWarmup \/ IncrementFutex \/ WakeFast \/ Submix
           \/ CycleEnd \/ Join
  BY <1>3 DEF Top, SetParameters, Check, WakeUp, HalStandby, Release, Mix,
     HalWarmup, IncrementFutex, WakeFast, Submix, CycleEnd, Join, loopVars,
     binderVars, fastVars
<1>4. CASE Config \/ RestoreCommand \/ Standby \/ Prepare \/ Write \/ Destroy
  BY <1>4 DEF Config, RestoreCommand, Standby, Prepare, Write, Destroy, Mutate,
     binderVars, fastVars
<1>5. CASE \/ EditParams \/ EditRestore \/ EditStandby \/ EditPrepare
           \/ EditCommand \/ EditRunOrExit \/ EndMutation \/ PushState \/ Pushing
  BY <1>5 DEF EditParams, EditRestore, EditStandby, EditPrepare, EditCommand,
     EditRunOrExit, EndMutation, PushState, Pushing, Leave, ChangeTo, normalVars,
     loopVars, binderVars, fastVars
<1>6. CASE Pushed
  BY <1>6 DEF Pushed, IInv, Pushes, Mutating, Mutation, loopVars, binderVars,
     fastVars
<1>7. QED
  BY <1>1, <1>2, <1>3, <1>4, <1>5, <1>6 DEF Next, Normal

(* The command the fast mixer obeys is that of a state.                    *)
LEMMA NextCommand ==
  ASSUME IInv, Ordered, Remembers, Types, mCommand \in Command, [Next]_vars
  PROVE  mCommand' \in Command
<1>0. Queue!TypeOK /\ Queue!Knowledge /\ mNext # NULL
  BY DEF IInv, Queue!IInv, Ordered
<1>1. /\ StateAt(current).mCommand \in Command
      /\ CurrentState.mCommand \in Command
  BY <1>0, StatesTyped DEF FastMixerState
<1>2. CASE FastPollSame
  BY <1>1, <1>2 DEF FastPollSame
<1>3. CASE FastAdopt
  BY <1>1, <1>3, Adopted DEF FastAdopt, CurrentState
<1>4. CASE \/ FastPoll \/ FastCold \/ FastFutexWait \/ FastColdDone \/ FastHot
           \/ FastExit \/ FastStateChange \/ FastWork
  BY <1>4 DEF FastPoll, FastCold, FastFutexWait, FastColdDone, FastHot,
     FastExit, FastStateChange, FastWork
<1>5. CASE Normal \/ Binder \/ UNCHANGED vars
  BY <1>5, OthersLeave
<1>6. QED
  BY <1>2, <1>3, <1>4, <1>5 DEF Next, Fast

(* All of it holds when the normal mixer has published its first state.    *)
LEMMA InitTracks == Init => TInv /\ Control /\ mCommand \in Command
<1> SUFFICES ASSUME Init PROVE TInv /\ Control /\ mCommand \in Command
  OBVIOUS
<1>0. IInv /\ Queue!TypeOK
  BY InitInv DEF IInv, Queue!IInv
<1>1. sInitial \in FastMixerState /\ FirstState \in FastMixerState
  BY DEF FirstState, sInitial, FastMixerState, Command, Idle
<1>2. /\ sInitial.mColdGen = 0 /\ sInitial.mFastTracksGen = 0
      /\ sInitial.mCommand = "INITIAL"
      /\ sInitial.provider = [i \in FastIndex |-> NoTrack]
      /\ sInitial.mGeneration = [i \in FastIndex |-> 0]
      /\ FirstState.mColdGen = 1 /\ FirstState.mFastTracksGen = 1
      /\ FirstState.mCommand = "COLD_IDLE"
      /\ FirstState.provider = [i \in FastIndex |-> NoTrack]
      /\ FirstState.mGeneration = [i \in FastIndex |-> 0]
  BY DEF FirstState, sInitial
<1>3. /\ Draft = FirstState /\ Published = FirstState /\ CurrentState = sInitial
      /\ StateAt(current) = sInitial /\ StateAt(mPrevious) = sInitial
  BY DEF Init, Draft, Published, CurrentState, StateAt, SQ!Slot, SQ!NULL, NULL,
         Queue!NULL, kN, INITIAL
<1>4. Precedes(sInitial, FirstState)
  BY <1>2 DEF Precedes
<1>5. Ordered /\ Started
  BY <1>1, <1>2, <1>3, <1>4, Reflexive
  DEF Ordered, Started, Init, NULL, Queue!NULL, SQ!NULL
<1>6. Remembers
  BY <1>2, <1>3 DEF Remembers, Init, Idle
<1>7. Mixes /\ Types
  BY <1>1, <1>2, <1>3 DEF Mixes, Types, Init, Mask
<1>8. Keeps
  BY <1>2, <1>3 DEF Keeps, Init, Live, InPlace, Spares
<1>9. Futex
  BY <1>2, <1>3 DEF Futex, Init, Stopping, DoneWith, InCold, SQ!NULL, NULL,
                   Queue!NULL
<1>10. Control /\ mCommand \in Command
  BY DEF Init, Control, Command
<1>11. QED
  BY <1>5, <1>6, <1>7, <1>8, <1>9, <1>10 DEF TInv

(* What the threads know of each other is kept by every step.              *)
THEOREM TracksInductive ==
  Spec => [](TInv /\ Control /\ mCommand \in Command)
<1>1. IInv /\ TInv /\ Control /\ mCommand \in Command /\ [Next]_vars
        => (TInv /\ Control /\ mCommand \in Command)'
  <2> SUFFICES ASSUME IInv, TInv, Control, mCommand \in Command, [Next]_vars
               PROVE  TInv' /\ Control' /\ mCommand' \in Command
    OBVIOUS
  <2>1. /\ Ordered /\ mNext # NULL /\ Started /\ Remembers /\ Mixes /\ Keeps
        /\ Futex /\ Types
    BY DEF TInv, Ordered
  <2>2. Ordered' /\ Started' /\ Remembers' /\ Mixes' /\ Types'
    BY <2>1, NextOrdered, NextStarted, NextRemembers, NextMixes, NextTypes
  <2>3. Keeps'
    BY <2>1, NextKeeps
  <2>4. Futex'
    BY <2>1, FastFutex, NormalFutex DEF Next
  <2>5. Control' /\ mCommand' \in Command
    BY <2>1, NextControl, NextCommand
  <2>6. QED
    BY <2>2, <2>3, <2>4, <2>5 DEF TInv
<1>2. QED
  BY Inductive, InitTracks, <1>1, PTL DEF Spec

(* Every variable of the two threads, and of the queue between them, has   *)
(* its type; above all the futex never leaves -1 .. 1: no cold idle request *)
(* is performed twice, and none is cancelled twice.                        *)
THEOREM TypeCorrect == Spec => []TypeOK
<1>1. IInv /\ TInv /\ Control /\ mCommand \in Command => TypeOK
  <2> SUFFICES ASSUME IInv, TInv, Control, mCommand \in Command PROVE TypeOK
    OBVIOUS
  <2>0. Queue!TypeOK /\ Queue!Knowledge /\ mNext # NULL /\ Types /\ active \subseteq Track
    BY DEF IInv, Queue!IInv, TInv, Ordered
  <2>1. SQ!TypeOK
    BY <2>0 DEF Queue!TypeOK, SQ!TypeOK, Queue!Slot, SQ!Slot, Queue!Pointer,
                SQ!Pointer, Queue!NULL, SQ!NULL, Queue!Block, SQ!Block
  <2>2. StateAt(mPrevious) \in FastMixerState
    BY <2>0, StatesTyped
  <2>3. mixing \in [FastIndex -> Track \cup {NoTrack}] /\ mFastTracksGen \in Nat
    BY <2>2 DEF TInv, Mixes, FastMixerState
  <2>4. toRemove \subseteq Track /\ mFastMixerFutex \in -1 .. 1
    BY DEF TInv, Keeps, Futex
  <2>5. /\ {current, mPrevious} \subseteq SQ!Slot \cup {INITIAL, PREIDLE}
        /\ mPreIdle \in FastMixerState /\ mColdGen \in Nat
        /\ mGenerations \in [FastIndex -> Nat]
    BY <2>0 DEF Types
  <2>6. QED
    BY <2>0, <2>1, <2>3, <2>4, <2>5 DEF TypeOK, Control
<1>2. QED
  BY Inductive, TracksInductive, <1>1, PTL

(* onStateChange() compares generations only, and with a state it may have *)
(* had to copy: what is mixed are the tracks of the current state.         *)
THEOREM MixesCurrent == Spec => []MixesCurrentTracks
<1>1. IInv /\ TInv => MixesCurrentTracks
  <2> SUFFICES ASSUME IInv, TInv, fpc = "work" PROVE mixing = StateAt(current).provider
    BY DEF MixesCurrentTracks
  <2>1. CurrentState.mCommand = "MIX_WRITE" /\ StateAt(current) = CurrentState
    BY DEF IInv, Follows, Queue!IInv, Queue!TypeOK, Queue!Pointer, Queue!Slot,
       Queue!NULL, NULL, INITIAL, PREIDLE, kN, StateAt, CurrentState
  <2>2. mPrevious = current
    BY <2>1 DEF TInv, Remembers, Idle
  <2>3. QED
    BY <2>2 DEF TInv, Mixes
<1>2. QED
  BY Inductive, TracksInductive, <1>1, PTL

(* The normal mixer releases a track only after the fast mixer             *)
(* acknowledged a state without it: what is mixed still exists.            *)
THEOREM ReleasedIsNotMixed == Spec => []NoMixAfterRelease
<1>1. IInv /\ TInv /\ MixesCurrentTracks => NoMixAfterRelease
  <2> SUFFICES ASSUME IInv, TInv, MixesCurrentTracks, fpc = "work",
                      NEW i \in FastIndex
               PROVE  {mixing[i], StateAt(current).provider[i]}
                        \subseteq active \cup toRemove \cup {NoTrack}
    BY DEF NoMixAfterRelease
  <2>1. StateAt(current) = CurrentState
    BY DEF IInv, Follows, Queue!IInv, Queue!TypeOK, Queue!Pointer, Queue!Slot,
       Queue!NULL, NULL, INITIAL, PREIDLE, kN, StateAt, CurrentState
  <2>2. QED
    BY <2>1 DEF MixesCurrentTracks, TInv, Keeps, Live
<1>2. QED
  BY Inductive, TracksInductive, MixesCurrent, <1>1, PTL
=============================================================================
