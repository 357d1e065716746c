------------------------------- MODULE Looper -------------------------------
(***************************************************************************)
(* ALooper, with the parts of AMessage, AReplyToken and AHandler it works  *)
(* with (media/libstagefright/foundation): messages are posted with a      *)
(* delay, a thread delivers them when they are due, and some callers wait  *)
(* for a reply, which the handler, or whoever it gives the token to, posts *)
(* later or never.                                                         *)
(*                                                                         *)
(* mLock is held from the beginning to the end of a step, mRepliesLock     *)
(* also between steps of a caller that waits for a reply.  Every message   *)
(* is posted by a thread of its own.  One thread at a time starts a looper *)
(* or stops it, besides the handlers, and it does not start it again       *)
(* before the old thread has ended.                                        *)
(***************************************************************************)
EXTENDS Integers, Sequences, SequencesExt

CONSTANTS
  Message,
  Awaited,     \* the messages of postAndAwaitResponse()
  Delays, MaxDelay,   \* delays of the others, and a bound on them
  LastPost     \* nobody posts later

CONSTANTS None, Forever

ASSUME MessageAssumption ==
  /\ Awaited \subseteq Message
  /\ MaxDelay \in Nat /\ Delays \subseteq 0 .. MaxDelay /\ LastPost \in Nat
  /\ Forever \notin Nat

VARIABLES
  now,
  mThread,          \* mThread # NULL
  mRunningLocally,
  mEventQueue,      \* the messages to deliver
  mWhenUs,          \* when each is due
  \* looper thread
  tpc, until,       \* what it waits for besides a signal
  local, exitPending,
  handling,         \* the message it delivers
  \* threads that wait for replies
  cpc, mRepliesLock, mReplied,
  tokens,           \* messages whose reply somebody may still post
  \* stop()
  spc, stopper,
  posted            \* history: the messages in the order they were posted

looperVars == <<mThread, mRunningLocally>>
queueVars == <<mEventQueue, mWhenUs, posted>>
threadVars == <<tpc, until, local, exitPending, handling>>
replyVars == <<cpc, mRepliesLock, mReplied, tokens>>
stopVars == <<spc, stopper>>
vars == <<now, looperVars, queueVars, threadVars, replyVars, stopVars>>

Init ==
  /\ now = 0 /\ mThread = FALSE /\ mRunningLocally = FALSE
  /\ mEventQueue = <<>> /\ mWhenUs = [m \in Message |-> 0] /\ posted = <<>>
  /\ tpc = "none" /\ until = Forever /\ local = FALSE /\ exitPending = FALSE
  /\ handling = None
  /\ cpc = [m \in Message |-> "new"] /\ mRepliesLock = None
  /\ mReplied = [m \in Message |-> FALSE] /\ tokens = {}
  /\ spc = "idle" /\ stopper = "other"

Tick ==
  /\ now < LastPost + MaxDelay /\ now' = now + 1
  /\ UNCHANGED <<looperVars, queueVars, threadVars, replyVars, stopVars>>

(* mQueueChangedCondition.signal(): nobody but the looper's thread waits.  *)
Signal == tpc' = IF tpc = "waiting" THEN "woken" ELSE tpc

(* mRepliesCondition.broadcast(): the callers compete for mRepliesLock.    *)
Woken(c) == [m \in Message |-> IF c[m] = "asleep" THEN "await" ELSE c[m]]
-----------------------------------------------------------------------------
(* start() and stop() *)

(* An error of Thread::run() undoes it, a looper that runs refuses.        *)
start(runOnCallingThread) ==
  /\ tpc = "none" /\ spc = "idle" /\ ~mThread /\ ~mRunningLocally
  /\ mThread' = ~runOnCallingThread /\ mRunningLocally' = runOnCallingThread
  /\ tpc' = "loop" /\ local' = runOnCallingThread /\ exitPending' = FALSE
  /\ UNCHANGED <<now, queueVars, until, handling, replyVars, stopVars>>

(* By the handler of a message, or by another thread.                      *)
stop(by) ==
  /\ spc = "idle" /\ (mThread \/ mRunningLocally)
  /\ (by = "handler") => tpc = "handle"
  /\ mThread' = FALSE /\ mRunningLocally' = FALSE
  /\ spc' = "requestExit" /\ stopper' = by
  /\ tpc' = IF by = "handler" THEN "stopping" ELSE tpc
  /\ UNCHANGED <<now, queueVars, until, local, exitPending, handling, replyVars>>

StopRequestExit ==
  /\ spc = "requestExit" /\ spc' = "signal"
  /\ exitPending' = ~local
  /\ UNCHANGED <<now, looperVars, queueVars, tpc, until, local, handling,
                 replyVars, stopper>>

StopSignal ==
  /\ spc = "signal" /\ spc' = "broadcast"
  /\ Signal
  /\ UNCHANGED <<now, looperVars, queueVars, until, local, exitPending, handling,
                 replyVars, stopper>>

(* Faulty variant: without the lock, between a caller's test and its wait. *)
StopBroadcastUnlocked ==
  /\ spc = "broadcast"
  /\ cpc' = Woken(cpc)
  /\ spc' = IF local \/ stopper = "handler" THEN "idle" ELSE "join"
  /\ tpc' = IF stopper = "handler" THEN "handle" ELSE tpc
  /\ UNCHANGED <<now, looperVars, queueVars, until, local, exitPending, handling,
                 mRepliesLock, mReplied, tokens, stopper>>

(* Neither a local looper nor its own thread is waited for.                *)
StopBroadcast ==
  /\ spc = "broadcast" /\ mRepliesLock = None
  /\ cpc' = Woken(cpc)
  /\ spc' = IF local \/ stopper = "handler" THEN "idle" ELSE "join"
  /\ tpc' = IF stopper = "handler" THEN "handle" ELSE tpc
  /\ UNCHANGED <<now, looperVars, queueVars, until, local, exitPending, handling,
                 mRepliesLock, mReplied, tokens, stopper>>

StopJoin ==
  /\ spc = "join" /\ tpc = "none" /\ spc' = "idle"
  /\ UNCHANGED <<now, looperVars, queueVars, threadVars, replyVars, stopper>>
-----------------------------------------------------------------------------
(* post() *)

(* Faulty variant: in front of what is due at the same time.               *)
IsPlaceBefore(k, when) ==
  /\ \A i \in 1 .. k : mWhenUs[mEventQueue[i]] < when
  /\ k < Len(mEventQueue) => mWhenUs[mEventQueue[k + 1]] >= when

(* How many messages it comes behind: from the front, all that are due     *)
(* earlier or at the same time.                                            *)
IsPlace(k, when) ==
  /\ \A i \in 1 .. k : mWhenUs[mEventQueue[i]] <= when
  /\ k < Len(mEventQueue) => mWhenUs[mEventQueue[k + 1]] > when

(* Faulty variant: only the first message of all wakes the looper.         *)
SignalIfEmpty(m) ==
  tpc' = IF tpc = "waiting" /\ mEventQueue = <<>> THEN "woken" ELSE tpc

(* The new first message wakes the looper.                                 *)
SignalIfFirst(m) == IF Head(mEventQueue') = m THEN Signal ELSE UNCHANGED tpc

post(m, delayUs) ==
  /\ now <= LastPost
  /\ mWhenUs' = [mWhenUs EXCEPT ![m] = now + delayUs]
  /\ \E k \in 0 .. Len(mEventQueue) :
       IsPlace(k, now + delayUs) /\ mEventQueue' = InsertAt(mEventQueue, k + 1, m)
  /\ posted' = Append(posted, m)
  /\ SignalIfFirst(m)
  /\ UNCHANGED <<now, looperVars, until, local, exitPending, handling, stopVars>>

Post(m, delayUs) ==
  /\ m \notin Awaited /\ cpc[m] = "new"
  /\ post(m, delayUs)
  /\ cpc' = [cpc EXCEPT ![m] = "done"]
  /\ UNCHANGED <<mRepliesLock, mReplied, tokens>>

postAndAwaitResponse(m) ==
  /\ m \in Awaited /\ cpc[m] = "new"
  /\ post(m, 0)
  /\ cpc' = [cpc EXCEPT ![m] = "await"]
  /\ UNCHANGED <<mRepliesLock, mReplied, tokens>>
-----------------------------------------------------------------------------
(* awaitResponse() *)

(* Without a thread: -ENOENT.  A looper that runs locally has none.        *)
RetrieveReply(m) ==
  /\ cpc[m] = "await" /\ mRepliesLock = None
  /\ IF mReplied[m] \/ ~mThread
     THEN /\ cpc' = [cpc EXCEPT ![m] = IF mReplied[m] THEN "OK" ELSE "ENOENT"]
          /\ UNCHANGED mRepliesLock
     ELSE cpc' = [cpc EXCEPT ![m] = "tested"] /\ mRepliesLock' = m
  /\ UNCHANGED <<now, looperVars, queueVars, threadVars, mReplied, tokens,
                 stopVars>>

WaitForReply(m) ==
  /\ cpc[m] = "tested"
  /\ cpc' = [cpc EXCEPT ![m] = "asleep"]
  /\ mRepliesLock' = None
  /\ UNCHANGED <<now, looperVars, queueVars, threadVars, mReplied, tokens,
                 stopVars>>

(* postReply(): a second reply is refused.                                 *)
postReply(m) ==
  /\ m \in tokens /\ mRepliesLock = None /\ ~mReplied[m]
  /\ mReplied' = [mReplied EXCEPT ![m] = TRUE]
  /\ cpc' = Woken(cpc)
  /\ UNCHANGED <<now, looperVars, queueVars, threadVars, mRepliesLock, tokens,
                 stopVars>>
-----------------------------------------------------------------------------
(* Looper thread: loop(), and what Thread does between two of them.        *)

Leave ==
  /\ tpc = "loop" /\ ~mThread /\ ~mRunningLocally
  /\ tpc' = "none"
  /\ UNCHANGED <<now, looperVars, queueVars, until, local, exitPending, handling,
                 replyVars, stopVars>>

Wait ==
  /\ tpc = "loop" /\ (mThread \/ mRunningLocally)
  /\ mEventQueue # <<>> => mWhenUs[Head(mEventQueue)] > now
  /\ tpc' = "waiting"
  /\ until' = IF mEventQueue = <<>> THEN Forever ELSE mWhenUs[Head(mEventQueue)]
  /\ UNCHANGED <<now, looperVars, queueVars, local, exitPending, handling,
                 replyVars, stopVars>>

TimeOut ==
  /\ tpc = "waiting" /\ until # Forever /\ now >= until
  /\ tpc' = "woken"
  /\ UNCHANGED <<now, looperVars, queueVars, until, local, exitPending, handling,
                 replyVars, stopVars>>

Again ==
  /\ tpc = "woken"
  /\ tpc' = IF exitPending THEN "none" ELSE "loop"
  /\ until' = Forever
  /\ UNCHANGED <<now, looperVars, queueVars, local, exitPending, handling,
                 replyVars, stopVars>>

(* Faulty variant: any message seems to carry a token.                     *)
senderAwaitsAnyway(m) == {m}

senderAwaitsResponse(m) == {m} \cap Awaited

(* deliver(), to a handler that is still there or not.                     *)
Deliver ==
  /\ tpc = "loop" /\ (mThread \/ mRunningLocally)
  /\ mEventQueue # <<>> /\ mWhenUs[Head(mEventQueue)] <= now
  /\ mEventQueue' = Tail(mEventQueue)
  /\ \/ /\ tpc' = "handle" /\ handling' = Head(mEventQueue)
        /\ tokens' = tokens \cup senderAwaitsResponse(handling')
     \/ tpc' = "woken" /\ UNCHANGED <<handling, tokens>>
  /\ UNCHANGED <<now, looperVars, mWhenUs, posted, until, local, exitPending, cpc,
                 mRepliesLock, mReplied, stopVars>>

(* The handler is done; it answered, keeps the token, or lets it go.       *)
HandlerReturns ==
  /\ tpc = "handle" /\ tpc' = "woken" /\ handling' = None
  /\ tokens' \in {tokens, tokens \ {handling}}
  /\ UNCHANGED <<now, looperVars, queueVars, until, local, exitPending, cpc,
                 mRepliesLock, mReplied, stopVars>>
-----------------------------------------------------------------------------
ThreadStep == Leave \/ Wait \/ TimeOut \/ Again \/ Deliver \/ HandlerReturns
StopStep == StopRequestExit \/ StopSignal \/ StopBroadcast \/ StopJoin
AwaitStep(m) == RetrieveReply(m) \/ WaitForReply(m)

Next ==
  \/ Tick \/ ThreadStep \/ StopStep
  \/ \E b \in BOOLEAN : start(b)
  \/ \E by \in {"handler", "other"} : stop(by)
  \/ \E m \in Message :
       \/ \E d \in Delays : Post(m, d)
       \/ postAndAwaitResponse(m) \/ AwaitStep(m) \/ postReply(m)

(* Threads are scheduled and handlers return, and whoever waits for a      *)
(* reply gets a lock that becomes free over and over.                      *)
Spec ==
  /\ Init /\ [][Next]_vars
  /\ WF_vars(ThreadStep) /\ WF_vars(StopStep)
  /\ \A m \in Awaited : SF_vars(AwaitStep(m))
-----------------------------------------------------------------------------
(* Properties *)

Time == 0 .. LastPost + MaxDelay

TypeOK ==
  /\ now \in Time /\ mThread \in BOOLEAN /\ mRunningLocally \in BOOLEAN
  /\ mEventQueue \in Seq(Message) /\ posted \in Seq(Message)
  /\ mWhenUs \in [Message -> Time]
  /\ tpc \in {"none", "loop", "waiting", "woken", "handle", "stopping"}
  /\ until \in Time \cup {Forever} /\ local \in BOOLEAN /\ exitPending \in BOOLEAN
  /\ handling \in Message \cup {None}
  /\ cpc \in [Message -> {"new", "done", "await", "tested", "asleep", "OK",
                          "ENOENT"}]
  /\ mRepliesLock \in Message \cup {None} /\ mReplied \in [Message -> BOOLEAN]
  /\ tokens \subseteq Awaited
  /\ spc \in {"idle", "requestExit", "signal", "broadcast", "join"}
  /\ stopper \in {"handler", "other"}

Rank(m) == CHOOSE k \in DOMAIN posted : posted[k] = m

(* A message is delivered when it is due and not before, after those due   *)
(* earlier and, of those due at the same time, after the ones posted       *)
(* earlier, across stops and restarts.                                     *)
DeliversInOrder ==
  [][Len(mEventQueue') < Len(mEventQueue) =>
       LET m == Head(mEventQueue)
       IN  /\ mWhenUs[m] <= now
           /\ \A n \in ToSet(mEventQueue) \ {m} :
                \/ mWhenUs[m] < mWhenUs[n]
                \/ mWhenUs[m] = mWhenUs[n] /\ Rank(m) < Rank(n)]_vars

(* The thread sleeps no longer than until the first message is due, and    *)
(* not at all once the looper was stopped, but for the signal that is      *)
(* about to wake it.                                                       *)
SleepsUntilDue ==
  tpc = "waiting" =>
    /\ mEventQueue # <<>> =>
         until # Forever /\ until <= mWhenUs[Head(mEventQueue)]
    /\ mThread \/ mRunningLocally \/ spc \in {"requestExit", "signal"}

(* Nobody waits for ever: a caller whose reply was posted, or whose looper *)
(* was stopped (and not started again), returns; so does stop().           *)
Waiting(m) == cpc[m] \in {"await", "tested", "asleep"}
CallersReturn ==
  /\ \A m \in Awaited :
       /\ Waiting(m) /\ mReplied[m] ~> ~Waiting(m)
       /\ Waiting(m) /\ ~mThread ~> ~Waiting(m) \/ mThread
  /\ spc # "idle" ~> spc = "idle"
=============================================================================
