----------------------------- MODULE FastMixer ------------------------------
(***************************************************************************)
(* The fast mixer thread (FastThread.cpp, FastMixer.cpp) and the normal    *)
(* mixer thread that drives it (MixerThread in Threads.cpp), joined by a   *)
(* StateQueue and by the futex of cold idle, in the configuration the code *)
(* selects (kUseFastMixer = FastMixer_Static).                             *)
(*                                                                         *)
(* The normal mixer edits a FastMixerState in the queue: the command, the  *)
(* fast tracks and their generations.  Each access of either thread to     *)
(* what they share is a step.  Left out: samples, warmup and timing,       *)
(* volumes, statistics, the HAL's buffers, and normal tracks except that   *)
(* one may be active.                                                      *)
(***************************************************************************)
EXTENDS Integers

CONSTANTS
  Nothing,      \* the queue's abstraction: no state
  Track,        \* fast track objects
  NoTrack,      \* the null buffer provider
  FastIndex,    \* fast mixer slots, other than the submix's slot 0
  mFastIndex,   \* the slot of each track
  MaxCold,      \* bound: cold idle requests
  MaxGen,       \* bound: changes of the fast track set
  MaySuspend,   \* the output may be suspended (A2DP) and restored
  MayRefuse,    \* the HAL may refuse parameters unless in standby
  MayDawdle     \* the fast thread may stop for long between ack and futex

ASSUME TrackAssumption ==
  mFastIndex \in [Track -> FastIndex] /\ NoTrack \notin Track

kN == 4
INITIAL == -2   \* the address of sInitial
PREIDLE == -3   \* the address of mPreIdle

Idle == {"HOT_IDLE", "COLD_IDLE"}
Command == {"INITIAL", "EXIT", "MIX_WRITE"} \cup Idle

FastMixerState ==
  [mCommand : Command, mColdGen : Nat, mFrameCount : {0, 1},
   provider : [FastIndex -> Track \cup {NoTrack}],
   mGeneration : [FastIndex -> Nat], mFastTracksGen : Nat]

sInitial ==
  [mCommand |-> "INITIAL", mColdGen |-> 0, mFrameCount |-> 0,
   provider |-> [i \in FastIndex |-> NoTrack],
   mGeneration |-> [i \in FastIndex |-> 0], mFastTracksGen |-> 0]

VARIABLES
  mStates, mNext, mAck, mCurrent, previous, polled, opc, mMutating, mExpecting,
  mInMutation, mIsDirty, mIsInitialized, didModify, block, mpc,
  \* normal mixer
  npc,              \* where it is in threadLoop()
  job,              \* which mutation of the queue is under way
  mStandby,
  mBytesWritten,    \* is not 0
  toRemove,         \* tracksToRemove of this cycle
  mFastMixerFutex,
  \* what binder threads set
  active,           \* fast tracks in mActiveTracks
  normalActive,     \* some normal track is in mActiveTracks
  suspended, exitPending,
  \* fast mixer
  fpc,              \* where it is in FastThread::threadLoop()
  current,          \* FastThread::mCurrent
  mPrevious, mPreIdle, mCommand, mColdGen,
  mixing,           \* the buffer provider of each name of mMixer
  mGenerations, mFastTracksGen

SQ == INSTANCE StateQueue WITH Value <- FastMixerState

queueVars == <<mStates, mNext, mAck, mCurrent, previous, polled, opc, mMutating,
               mExpecting, mInMutation, mIsDirty, mIsInitialized, didModify,
               block, mpc>>
loopVars == <<job, mStandby, mBytesWritten, toRemove, mFastMixerFutex>>
normalVars == <<npc, loopVars>>
binderVars == <<active, normalActive, suspended, exitPending>>
mixVars == <<mixing, mGenerations, mFastTracksGen>>
fastVars == <<fpc, current, mPrevious, mPreIdle, mCommand, mColdGen, mixVars>>
vars == <<queueVars, normalVars, binderVars, fastVars>>

(* The constructor publishes the first state before it starts the thread:  *)
(* cold idle, generation 1, one submix track, and the HAL's frame count.   *)
FirstState == [sInitial EXCEPT !.mCommand = "COLD_IDLE", !.mColdGen = 1,
                               !.mFrameCount = 1, !.mFastTracksGen = 1]

Init ==
  /\ mStates = [s \in SQ!Slot |-> IF s \in {0, 1} THEN FirstState ELSE sInitial]
  /\ mNext = 0 /\ mAck = SQ!NULL /\ mCurrent = SQ!NULL /\ previous = SQ!NULL
  /\ polled = SQ!NULL /\ opc = "idle"
  /\ mMutating = 1 /\ mExpecting = 0
  /\ mInMutation = FALSE /\ mIsDirty = FALSE /\ mIsInitialized = TRUE
  /\ didModify = TRUE /\ block = "UNTIL_PUSHED" /\ mpc = "idle"
  /\ npc = "top" /\ job = "none" /\ mStandby = FALSE /\ mBytesWritten = FALSE
  /\ toRemove = {}
  /\ mFastMixerFutex = 0
  /\ active = {} /\ normalActive = FALSE /\ suspended = FALSE
  /\ exitPending = FALSE
  /\ fpc = "poll" /\ current = INITIAL /\ mPrevious = INITIAL
  /\ mPreIdle = sInitial /\ mCommand = "INITIAL" /\ mColdGen = 0
  /\ mixing = [i \in FastIndex |-> NoTrack]
  /\ mGenerations = [i \in FastIndex |-> 0] /\ mFastTracksGen = 0
-----------------------------------------------------------------------------
(* Fast mixer: FastThread::threadLoop() *)

StateAt(p) == CASE p = INITIAL -> sInitial
                [] p = PREIDLE -> mPreIdle
                [] OTHER -> mStates[p]

Mask(s) == {i \in FastIndex : s.provider[i] # NoTrack}

(* poll() finds a new state; it is acknowledged before it is looked at.    *)
FastPoll ==
  /\ fpc = "poll"
  /\ \/ SQ!PollLoad /\ UNCHANGED fpc
     \/ SQ!PollAck /\ fpc' = "adopt"
  /\ UNCHANGED <<normalVars, binderVars, current, mPrevious, mPreIdle,
                 mCommand, mColdGen, mixVars>>

(* poll() finds none: keep the current one, the initial one if need be.    *)
FastPollSame ==
  /\ fpc = "poll" /\ opc = "idle" /\ mNext = mCurrent
  /\ mCommand' = StateAt(current).mCommand
  /\ fpc' = "dispatch"
  /\ UNCHANGED <<queueVars, normalVars, binderVars, current, mPrevious,
                 mPreIdle, mColdGen, mixVars>>

(* onIdle(): the queue only keeps the current and the previous state, so a *)
(* non-idle state is copied before an idle one takes its place.            *)
KeepPrevious(next) ==
  \/ /\ StateAt(current).mCommand \in Idle
     /\ UNCHANGED <<mPrevious, mPreIdle>>
  \/ /\ StateAt(current).mCommand \notin Idle /\ next.mCommand \in Idle
     /\ mPreIdle' = StateAt(current) /\ mPrevious' = PREIDLE
  \/ /\ {StateAt(current).mCommand, next.mCommand} \cap Idle = {}
     /\ mPrevious' = current /\ UNCHANGED mPreIdle

FastAdopt ==
  /\ fpc = "adopt"
  /\ mCommand' = mStates[mCurrent].mCommand
  /\ KeepPrevious(mStates[mCurrent])
  /\ current' = mCurrent
  /\ fpc' = "dispatch"
  /\ UNCHANGED <<queueVars, normalVars, binderVars, mColdGen, mixVars>>

(* Cold idle is performed once per generation: decrement the futex, and    *)
(* wait on it unless the normal mixer already incremented it.              *)
FastCold ==
  /\ fpc = "dispatch" /\ mCommand = "COLD_IDLE"
  /\ mColdGen # StateAt(current).mColdGen
  /\ mFastMixerFutex' = mFastMixerFutex - 1
  /\ fpc' = IF mFastMixerFutex <= 0 THEN "futexWait" ELSE "coldDone"
  /\ UNCHANGED <<queueVars, npc, job, mStandby, mBytesWritten, toRemove,
                 binderVars, current, mPrevious, mPreIdle, mCommand, mColdGen,
                 mixVars>>

(* FUTEX_WAIT sleeps only if the value is still the one just written,      *)
(* which is -1: cold idle requests reset the futex to 0.                   *)
FastFutexWait ==
  /\ fpc = "futexWait"
  /\ fpc' = IF mFastMixerFutex = -1 THEN "asleep" ELSE "coldDone"
  /\ UNCHANGED <<queueVars, normalVars, binderVars, current, mPrevious,
                 mPreIdle, mCommand, mColdGen, mixVars>>

FastColdDone ==
  /\ fpc = "coldDone"
  /\ mColdGen' = StateAt(current).mColdGen
  /\ fpc' = "poll"
  /\ UNCHANGED <<queueVars, normalVars, binderVars, current, mPrevious,
                 mPreIdle, mCommand, mixVars>>

(* INITIAL and HOT_IDLE sleep and poll again, as a repeated COLD_IDLE does.*)
FastHot ==
  /\ fpc = "dispatch"
  /\ \/ mCommand \in {"INITIAL", "HOT_IDLE"}
     \/ mCommand = "COLD_IDLE" /\ mColdGen = StateAt(current).mColdGen
  /\ fpc' = "poll"
  /\ UNCHANGED <<queueVars, normalVars, binderVars, current, mPrevious,
                 mPreIdle, mCommand, mColdGen, mixVars>>

FastExit ==
  /\ fpc = "dispatch" /\ mCommand = "EXIT"
  /\ fpc' = "exited"
  /\ UNCHANGED <<queueVars, normalVars, binderVars, current, mPrevious,
                 mPreIdle, mCommand, mColdGen, mixVars>>

(* onStateChange(): bring the mixer's names from the previous state to the *)
(* current one.  A new frame count makes a new mixer, with no names.       *)
Reconfigured(cur, prev) ==
  IF cur.mFrameCount # prev.mFrameCount
  THEN /\ mixing' = cur.provider
       /\ mGenerations' = [i \in FastIndex |-> IF i \in Mask(cur)
                                               THEN cur.mGeneration[i]
                                               ELSE mGenerations[i]]
  ELSE LET touched == {i \in FastIndex :
                        \/ i \in Mask(prev) \ Mask(cur)
                        \/ i \in Mask(cur) \ Mask(prev)
                        \/ /\ i \in Mask(cur) \cap Mask(prev)
                           /\ cur.mGeneration[i] # mGenerations[i]}
       IN  IF cur.mFastTracksGen = mFastTracksGen
           THEN UNCHANGED <<mixing, mGenerations>>
           ELSE /\ mixing' = [i \in FastIndex |-> IF i \in touched
                                 THEN cur.provider[i] ELSE mixing[i]]
                /\ mGenerations' = [i \in FastIndex |-> IF i \in touched
                                 THEN cur.mGeneration[i] ELSE mGenerations[i]]

FastStateChange ==
  /\ fpc = "dispatch" /\ mCommand = "MIX_WRITE"
  /\ fpc' = "work"
  /\ IF current = mPrevious
     THEN UNCHANGED mixVars
     ELSE /\ Reconfigured(StateAt(current), StateAt(mPrevious))
          /\ mFastTracksGen' = StateAt(current).mFastTracksGen
  /\ mPrevious' = current
  /\ UNCHANGED <<queueVars, normalVars, binderVars, current, mPreIdle,
                 mCommand, mColdGen>>

(* onWork(): pull from the tracks, mix, and write to the HAL, all while    *)
(* fpc is "work".                                                          *)
FastWork ==
  /\ fpc = "work"
  /\ fpc' = "poll"
  /\ UNCHANGED <<queueVars, normalVars, binderVars, current, mPrevious,
                 mPreIdle, mCommand, mColdGen, mixVars>>

Fast == \/ FastPoll \/ FastPollSame \/ FastAdopt \/ FastCold \/ FastFutexWait
        \/ FastColdDone \/ FastHot \/ FastExit \/ FastStateChange \/ FastWork
-----------------------------------------------------------------------------
(* Normal mixer: MixerThread *)

draft == mStates[mMutating]

(* begin() a mutation of the queue for one purpose.                        *)
Mutate(purpose) ==
  /\ SQ!Begin
  /\ job' = purpose
  /\ npc' = "edit"
  /\ UNCHANGED <<mStandby, mBytesWritten, mFastMixerFutex, binderVars,
                 fastVars>>

(* Nothing to modify: end(false).                                          *)
Leave(where) ==
  /\ SQ!End(FALSE)
  /\ npc' = where
  /\ UNCHANGED <<loopVars, binderVars, fastVars>>

ChangeTo(state) == SQ!Modify(state) /\ npc' = "end"

EndMutation ==
  /\ npc = "end"
  /\ SQ!End(TRUE)
  /\ npc' = "push"
  /\ UNCHANGED <<loopVars, binderVars, fastVars>>

(* Faulty variants: an acknowledgement is not asked for.                   *)
BlockForStandbyPushed(purpose) ==
  IF \/ purpose = "params"
     \/ (purpose = "prepare" /\ toRemove # {})
  THEN "UNTIL_ACKED" ELSE "UNTIL_PUSHED"
BlockForRemovalPushed(purpose) ==
  IF purpose \in {"standby", "lastStandby", "params"}
  THEN "UNTIL_ACKED" ELSE "UNTIL_PUSHED"

(* What each mutation asks of push(): a command that takes the HAL away    *)
(* from the fast mixer, and a removed track, must be acknowledged.         *)
BlockFor(purpose) ==
  IF \/ purpose \in {"standby", "lastStandby", "params"}
     \/ (purpose = "prepare" /\ toRemove # {})
  THEN "UNTIL_ACKED" ELSE "UNTIL_PUSHED"

PushState ==
  /\ npc = "push"
  /\ SQ!Push(BlockFor(job))
  /\ npc' = "pushing"
  /\ UNCHANGED <<loopVars, binderVars, fastVars>>

Pushing ==
  /\ npc = "pushing"
  /\ SQ!PushStep
  /\ UNCHANGED <<normalVars, binderVars, fastVars>>

(* push() returned: go on with the function that called it.                *)
Pushed ==
  /\ npc = "pushing" /\ mpc = "idle"
  /\ npc' = CASE job \in {"standby", "lastStandby"} -> "halStandby"
              [] job = "prepare" -> "release"
              [] job = "write"   -> "submix"
              [] job = "params"  -> "setParameters"
              [] job = "restore" -> "check"
              [] job = "exit"    -> "join"
  /\ UNCHANGED <<queueVars, loopVars, binderVars, fastVars>>

(* The loop's top, under mLock from here: a config event, or none.         *)
Top ==
  /\ npc = "top"
  /\ IF exitPending
     THEN npc' = IF mStandby THEN "dtor" ELSE "lastStandby"
     ELSE npc' \in {"check", "config"}
  /\ UNCHANGED <<queueVars, loopVars, binderVars, fastVars>>

(* checkForNewParameter_l(), createAudioPatch_l(), releaseAudioPatch_l():  *)
(* hot idle while the HAL is reconfigured, then back.                      *)
Config == npc = "config" /\ Mutate("params") /\ UNCHANGED toRemove

EditParams ==
  /\ npc = "edit" /\ job = "params"
  /\ IF draft.mCommand \in Idle
     THEN Leave("setParametersIdle")
     ELSE /\ ChangeTo([draft EXCEPT !.mCommand = "HOT_IDLE"])
          /\ UNCHANGED <<loopVars, binderVars, fastVars>>

SetParameters ==
  /\ npc \in {"setParameters", "setParametersIdle"}
  /\ \/ UNCHANGED <<mStandby, mBytesWritten>>
     \/ /\ MayRefuse /\ ~mStandby     \* mOutput->standby(), and try again
        /\ mStandby' = TRUE /\ mBytesWritten' = FALSE
  /\ npc' = IF npc = "setParameters" THEN "restore" ELSE "check"
  /\ UNCHANGED <<queueVars, job, toRemove, mFastMixerFutex, binderVars,
                 fastVars>>

RestoreCommand == npc = "restore" /\ Mutate("restore") /\ UNCHANGED toRemove

EditRestore ==
  /\ npc = "edit" /\ job = "restore"
  /\ ChangeTo([draft EXCEPT !.mCommand = "MIX_WRITE"])
  /\ UNCHANGED <<loopVars, binderVars, fastVars>>

(* Standby when suspended, or some time after the last track became        *)
(* inactive; then wait for work if there is none.                          *)
Idling == active = {} /\ ~normalActive

Check ==
  /\ npc = "check"
  /\ \/ ~suspended /\ npc' = "prepare"
     \/ /\ suspended \/ Idling
        /\ IF ~mStandby
           THEN (suspended \/ draft.mColdGen < MaxCold) /\ npc' = "standby"
           ELSE npc' = IF Idling THEN "sleep" ELSE "prepare"
  /\ UNCHANGED <<queueVars, loopVars, binderVars, fastVars>>

WakeUp ==
  /\ npc = "sleep"
  /\ npc' = "top" /\ mBytesWritten' = FALSE
  /\ UNCHANGED <<queueVars, job, mStandby, toRemove, mFastMixerFutex,
                 binderVars, fastVars>>

(* Between acknowledging a cold idle request and decrementing the futex.   *)
EnteringCold ==
  /\ fpc \in {"adopt", "dispatch"}
  /\ mStates[mCurrent].mCommand = "COLD_IDLE"
  /\ mStates[mCurrent].mColdGen # mColdGen

(* threadLoop_standby(): cold idle, acknowledged, before HAL standby.      *)
Standby ==
  /\ npc \in {"standby", "lastStandby"}
  /\ MayDawdle \/ ~EnteringCold
  /\ Mutate(npc)
  /\ UNCHANGED toRemove

EditStandby ==
  /\ npc = "edit" /\ job \in {"standby", "lastStandby"}
  /\ IF draft.mCommand \in Idle
     THEN Leave("halStandby")
     ELSE /\ ChangeTo([draft EXCEPT !.mCommand = "COLD_IDLE",
                                    !.mColdGen = @ + 1])
          /\ mFastMixerFutex' = 0
          /\ UNCHANGED <<job, mStandby, mBytesWritten, toRemove, binderVars,
                         fastVars>>

HalStandby ==
  /\ npc = "halStandby"
  /\ mStandby' = TRUE
  /\ UNCHANGED mBytesWritten
  /\ npc' = IF job = "lastStandby" THEN "dtor"
            ELSE IF Idling THEN "sleep" ELSE "prepare"
  /\ UNCHANGED <<queueVars, job, toRemove, mFastMixerFutex, binderVars,
                 fastVars>>

(* prepareTracks_l(): newly active tracks enter the state; some of those   *)
(* in it stopped, paused or underran, and leave it.                        *)
Prepare ==
  /\ npc = "prepare"
  /\ Mutate("prepare")
  /\ toRemove' \in SUBSET {t \in active : draft.provider[mFastIndex[t]] = t}

Prepared(i) ==
  IF \E t \in toRemove : mFastIndex[t] = i THEN NoTrack
  ELSE IF draft.provider[i] = NoTrack /\ (\E t \in active : mFastIndex[t] = i)
       THEN CHOOSE t \in active : mFastIndex[t] = i
       ELSE draft.provider[i]

NextGeneration(i) ==
  IF Prepared(i) # draft.provider[i] THEN draft.mGeneration[i] + 1
  ELSE draft.mGeneration[i]

(* Faulty variant: tracks change unannounced.                              *)
SameTracksGen == draft.mFastTracksGen

(* The fast mixer compares tracks only if this generation changed.         *)
NextTracksGen == draft.mFastTracksGen + 1

EditPrepare ==
  /\ npc = "edit" /\ job = "prepare"
  /\ IF \A i \in FastIndex : Prepared(i) = draft.provider[i]
     THEN Leave("push")
     ELSE /\ ChangeTo([draft EXCEPT
                 !.provider = [i \in FastIndex |-> Prepared(i)],
                 !.mGeneration = [i \in FastIndex |-> NextGeneration(i)],
                 !.mFastTracksGen = NextTracksGen])
          /\ UNCHANGED <<loopVars, binderVars, fastVars>>

(* The removed tracks leave mActiveTracks; the last references to them go  *)
(* with tracksToRemove at the end of the cycle.                            *)
Release ==
  /\ npc = "release"
  /\ active' = active \ toRemove
  /\ npc' = "mix"
  /\ UNCHANGED <<queueVars, loopVars, normalActive, suspended, exitPending,
                 fastVars>>

(* A suspended output only simulates the write; with active fast tracks    *)
(* there always is something to write.                                     *)
Mix ==
  /\ npc = "mix"
  /\ \/ suspended /\ npc' = "cycleEnd" /\ mBytesWritten' = TRUE
     \/ active = {} /\ npc' = "cycleEnd" /\ UNCHANGED mBytesWritten
     \/ /\ ~suspended
        /\ ~Idling \/ mBytesWritten
        /\ npc' = "write" /\ UNCHANGED mBytesWritten
  /\ UNCHANGED <<queueVars, job, mStandby, toRemove, mFastMixerFutex,
                 binderVars, fastVars>>

(* threadLoop_write(): start the fast mixer if it is not running.          *)
Write == npc = "write" /\ Mutate("write") /\ UNCHANGED toRemove

(* ~MixerThread(): tell it to exit.                                        *)
Destroy == npc = "dtor" /\ Mutate("exit") /\ UNCHANGED toRemove

EditRunOrExit ==
  /\ npc = "edit" /\ job \in {"write", "exit"}
  /\ IF job = "write" /\ draft.mCommand = "MIX_WRITE"
     THEN Leave("submix")
     ELSE /\ npc' = IF draft.mCommand # "COLD_IDLE" THEN "command"
                    ELSE IF job = "write" THEN "halWarmup" ELSE "increment"
          /\ UNCHANGED <<queueVars, loopVars, binderVars, fastVars>>

(* An empty write to the HAL, from the normal mixer, before the fast one.  *)
HalWarmup ==
  /\ npc = "halWarmup"
  /\ npc' = "increment"
  /\ UNCHANGED <<queueVars, loopVars, binderVars, fastVars>>

(* Faulty variants: one increment too many; nobody is woken.               *)
IncrementTwice ==
  /\ npc = "increment"
  /\ mFastMixerFutex' = mFastMixerFutex + 2
  /\ npc' = IF mFastMixerFutex = -1 THEN "wake" ELSE "command"
  /\ UNCHANGED <<queueVars, job, mStandby, mBytesWritten, toRemove, binderVars,
                 fastVars>>
IncrementOnly ==
  /\ npc = "increment"
  /\ mFastMixerFutex' = mFastMixerFutex + 1
  /\ npc' = "command"
  /\ UNCHANGED <<queueVars, job, mStandby, mBytesWritten, toRemove, binderVars,
                 fastVars>>

(* Leave cold idle: increment the futex, and wake if someone waits on it.  *)
IncrementFutex ==
  /\ npc = "increment"
  /\ mFastMixerFutex' = mFastMixerFutex + 1
  /\ npc' = IF mFastMixerFutex = -1 THEN "wake" ELSE "command"
  /\ UNCHANGED <<queueVars, job, mStandby, mBytesWritten, toRemove, binderVars,
                 fastVars>>

WakeFast ==
  /\ npc = "wake"
  /\ fpc' = IF fpc = "asleep" THEN "coldDone" ELSE fpc
  /\ npc' = "command"
  /\ UNCHANGED <<queueVars, loopVars, binderVars, current, mPrevious, mPreIdle,
                 mCommand, mColdGen, mixVars>>

EditCommand ==
  /\ npc = "command"
  /\ ChangeTo([draft EXCEPT !.mCommand = IF job = "exit" THEN "EXIT"
                                         ELSE "MIX_WRITE"])
  /\ UNCHANGED <<loopVars, binderVars, fastVars>>

(* PlaybackThread::threadLoop_write(): the submix goes to the pipe.        *)
Submix ==
  /\ npc = "submix"
  /\ mStandby' = FALSE /\ mBytesWritten' = TRUE
  /\ npc' = "cycleEnd"
  /\ UNCHANGED <<queueVars, job, toRemove, mFastMixerFutex, binderVars,
                 fastVars>>

CycleEnd ==
  /\ npc = "cycleEnd"
  /\ toRemove' = {}
  /\ npc' = "top"
  /\ UNCHANGED <<queueVars, job, mStandby, mBytesWritten, mFastMixerFutex,
                 binderVars, fastVars>>

Join ==
  /\ npc = "join" /\ fpc = "exited"
  /\ npc' = "gone"
  /\ UNCHANGED <<queueVars, loopVars, binderVars, fastVars>>

Normal ==
  \/ Top \/ Config \/ EditParams \/ SetParameters \/ RestoreCommand
  \/ EditRestore
  \/ Check \/ WakeUp \/ Standby \/ EditStandby \/ HalStandby
  \/ Prepare \/ EditPrepare \/ Release \/ Mix
  \/ Write \/ Destroy \/ EditRunOrExit \/ HalWarmup \/ IncrementFutex
  \/ WakeFast \/ EditCommand \/ Submix \/ CycleEnd \/ Join
  \/ EndMutation \/ PushState \/ Pushing \/ Pushed
-----------------------------------------------------------------------------
(* Binder threads.  Tracks start under mLock, which the normal mixer holds *)
(* except between cycles, asleep, and while it mixes and writes; it does   *)
(* not look at them in the latter case.                                    *)

Unlocked == npc \in {"top", "sleep"}

Start(t) ==
  /\ Unlocked /\ ~exitPending
  /\ \A u \in active : mFastIndex[u] # mFastIndex[t]
  /\ draft.mFastTracksGen + 2 <= MaxGen
  /\ active' = active \cup {t}
  /\ UNCHANGED <<queueVars, normalVars, normalActive, suspended, exitPending,
                 fastVars>>

NormalTracks ==
  /\ Unlocked /\ ~exitPending
  /\ normalActive' = ~normalActive
  /\ UNCHANGED <<queueVars, normalVars, active, suspended, exitPending,
                 fastVars>>

Suspend ==
  /\ MaySuspend
  /\ suspended \/ (mpc # "copy" /\ draft.mColdGen < MaxCold)
  /\ suspended' = ~suspended
  /\ UNCHANGED <<queueVars, normalVars, active, normalActive, exitPending,
                 fastVars>>

RequestExit ==
  /\ Unlocked /\ ~exitPending
  /\ exitPending' = TRUE
  /\ UNCHANGED <<queueVars, normalVars, active, normalActive, suspended,
                 fastVars>>

Binder == (\E t \in Track : Start(t)) \/ NormalTracks \/ Suspend \/ RequestExit

Next == Fast \/ Normal \/ Binder

Spec == Init /\ [][Next]_vars

(* Both threads are scheduled and loop for ever; nobody owes a binder call.*)
FairSpec == Spec /\ WF_vars(Fast) /\ WF_vars(Normal)
-----------------------------------------------------------------------------
(* Properties *)

TypeOK ==
  /\ SQ!TypeOK
  /\ npc \in {"top", "config", "edit", "end", "push", "pushing",
             "setParameters", "setParametersIdle", "restore", "check", "sleep",
             "standby", "lastStandby", "halStandby", "prepare", "release", "mix", "write",
             "dtor", "halWarmup", "increment", "wake", "command", "submix",
             "cycleEnd", "join", "gone"}
  /\ job \in {"none", "params", "restore", "standby", "lastStandby", "prepare",
             "write", "exit"}
  /\ mStandby \in BOOLEAN /\ mBytesWritten \in BOOLEAN
  /\ toRemove \subseteq Track /\ active \subseteq Track
  /\ mFastMixerFutex \in -1 .. 1
  /\ normalActive \in BOOLEAN /\ suspended \in BOOLEAN
  /\ exitPending \in BOOLEAN
  /\ fpc \in {"poll", "adopt", "dispatch", "futexWait", "asleep", "coldDone",
             "work", "exited"}
  /\ {current, mPrevious} \subseteq SQ!Slot \cup {INITIAL, PREIDLE}
  /\ mPreIdle \in FastMixerState /\ mCommand \in Command
  /\ mColdGen \in Nat /\ mFastTracksGen \in Nat
  /\ mixing \in [FastIndex -> Track \cup {NoTrack}]
  /\ mGenerations \in [FastIndex -> Nat]

(* "BLOCK_UNTIL_PUSHED would be insufficient, as we need it to stop doing  *)
(* I/O now": while the normal mixer uses the HAL, the fast one does not.   *)
HalHasOneUser ==
  npc \in {"halStandby", "halWarmup", "setParameters", "setParametersIdle"}
    => fpc # "work"

(* Between cycles in standby, the fast mixer writes nothing.               *)
StandbyIsQuiet == Unlocked /\ mStandby => fpc # "work"

(* While it mixes, the fast mixer has exactly the tracks of its current    *)
(* state, whatever states it skipped or idled through.                     *)
MixesCurrentTracks == fpc = "work" => mixing = StateAt(current).provider

(* "We must wait for acknowledgement because we're about to decrement the  *)
(* last sp<> on those tracks": what is mixed still exists.                 *)
NoMixAfterRelease ==
  fpc = "work" => \A i \in FastIndex :
    {mixing[i], StateAt(current).provider[i]}
      \subseteq active \cup toRemove \cup {NoTrack}

(* push() returns: the normal mixer, which holds mLock, is never stuck.    *)
PushReturns == mpc # "idle" ~> mpc = "idle"

(* Nobody sleeps for ever: push() returns, although the fast mixer may be  *)
(* in cold idle, and the destructor wakes it from there and joins it.      *)
BothComeBack == PushReturns /\ (npc = "dtor" ~> npc = "gone")
=============================================================================
