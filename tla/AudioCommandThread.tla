------------------------- MODULE AudioCommandThread -------------------------
(***************************************************************************)
(* The threads to which the audio policy service leaves what it must not   *)
(* do itself (services/audiopolicy/service/AudioPolicyService.cpp,         *)
(* AudioPolicyInterfaceImpl.cpp): ApmAudio applies parameters, volumes and *)
(* patches to the audio flinger, now or after a delay; ApmOutput calls     *)
(* back into the service, under the lock (mLock) its clients hold while    *)
(* they wait for ApmAudio.                                                 *)
(*                                                                         *)
(* A thread holds the mutex of its queue but while it waits, or works for  *)
(* the service, so each step is what it does under that mutex.  Times are  *)
(* relative to now, in units of Tick, and 0 once they are past.            *)
(***************************************************************************)
EXTENDS Integers, Sequences, FiniteSets, SequencesExt, FiniteSetsExt

CONSTANTS
  Commands,     \* what may be sent, see CommandAssumption
  MaxDelay,     \* bound on the delays asked for
  MaxPending    \* bound on the commands in each queue

Patch == {"CREATE_AUDIO_PATCH", "RELEASE_AUDIO_PATCH"}
Output == {"STOP_OUTPUT", "RELEASE_OUTPUT"}
Update == {"UPDATE_AUDIOPORT_LIST", "UPDATE_AUDIOPATCH_LIST",
           "DYN_POLICY_MIX_STATE_UPDATE"}
Kind == Patch \cup Output \cup Update
          \cup {"SET_VOLUME", "SET_PARAMETERS", "SET_VOICE_VOLUME",
                "SET_AUDIOPORT_CONFIG"}

(* A command is on an output, stream or handle, of which it sets some keys *)
(* (parameters set several); a patch has a list of sources.                *)
ASSUME CommandAssumption ==
  \A c \in Commands :
    /\ DOMAIN c = {"kind", "on", "sets", "sources"} /\ c.kind \in Kind
    /\ c.sets # {} /\ IsFiniteSet(c.sets)
    /\ c.kind # "SET_PARAMETERS" => c.sets = {c.on}
    /\ c.sources \in Seq(Int)

Thread == {"ApmAudio", "ApmOutput"}

ASSUME BoundAssumption == MaxDelay \in Nat /\ MaxPending \in [Thread -> Nat]

Client == "client"
Nobody == "nobody"
Forever == MaxDelay + 1

VARIABLES
  queue,        \* mAudioCommands of each thread
  tpc,          \* where each thread is
  sleepFor,     \* what is left of its waitTime
  exitPending,
  wakeLock,     \* it keeps the device awake
  svcLock,      \* who holds AudioPolicyService::mLock
  waiting,      \* ... and waits in sendCommand()
  referenced,   \* somebody else than the threads refers to the service
  destroying,   \* who runs ~AudioPolicyService()
  exiting       \* the thread whose exit() it is in, 0 before

queueVars == <<queue, wakeLock>>
threadVars == <<tpc, sleepFor, exitPending>>
lockVars == <<svcLock, waiting>>
lifeVars == <<referenced, destroying, exiting>>
vars == <<queueVars, threadVars, lockVars, lifeVars>>

Init ==
  /\ queue = [t \in Thread |-> <<>>]
  /\ tpc = [t \in Thread |-> "run"] /\ sleepFor = [t \in Thread |-> Forever]
  /\ exitPending = [t \in Thread |-> FALSE]
  /\ wakeLock = [t \in Thread |-> FALSE]
  /\ svcLock = Nobody /\ waiting = FALSE
  /\ referenced = TRUE /\ destroying = Nobody /\ exiting = 0
-----------------------------------------------------------------------------
(* sendCommand() *)

(* Faulty variant: everything goes to one thread.                          *)
OneThreadFor(kind) == "ApmAudio"

ThreadFor(kind) == IF kind \in Output \cup Update THEN "ApmOutput"
                                                  ELSE "ApmAudio"

(* The service's calls that wait for a status when they are not delayed.   *)
WantsStatus(kind) == ThreadFor(kind) = "ApmAudio"

(* Commands the code takes for the same, "with regard to filtering".       *)
Same(c, d) ==
  /\ c.on = d.on
  /\ \/ c.kind = d.kind /\ c.kind \in {"SET_PARAMETERS", "SET_VOLUME"}
     \/ /\ {c.kind, d.kind} \subseteq Patch
        /\ ~ /\ c.kind = "CREATE_AUDIO_PATCH" /\ d.kind = c.kind
             /\ Len(c.sources) = Len(d.sources) /\ c.sources # d.sources

(* History: the keys of a pending command that were sent anew since.  What *)
(* is sent to an output is never to overtake.                              *)
Outdated(q, c) ==
  [i \in DOMAIN q |->
     IF Same(c, q[i]) \/ (c.kind \in Output /\ q[i].on = c.on)
     THEN [q[i] EXCEPT !.stale = @ \cup (c.sets \cap q[i].sets)] ELSE q[i]]

Entry(c, time, waits) ==
  [kind |-> c.kind, on |-> c.on, sets |-> c.sets, sources |-> c.sources,
   stale |-> {}, time |-> time, waits |-> waits]

(* Faulty variant: leaves a filtered command in the queue.                 *)
NeverFiltered(d, c) == FALSE

(* All the keys of a pending command are filtered out.                     *)
Filtered(d, c) == d.sets \subseteq c.sets

(* What is left of it otherwise.                                           *)
Rest(d, c) == [d EXCEPT !.sets = @ \ c.sets, !.stale = @ \ c.sets]

(* The last of these positions, 0 if there is none.                        *)
LastOf(positions) == Max(positions \cup {0})

(* Faulty variant: eliminates nothing.                                     *)
NoMatch(q, c, delay) == 0

(* The pending command the new one takes the place of: the last that is    *)
(* the same and due later.  Having taken its time, the scan goes no        *)
(* further.  0 if there is none.                                           *)
Match(q, c, delay) ==
  LastOf({i \in DOMAIN q : q[i].time > delay /\ Same(c, q[i])})

(* The new command waits for its status only if it neither is delayed nor  *)
(* takes the time of another; a patch always does, for its handle.         *)
Waits(c, delay, m) ==
  /\ WantsStatus(c.kind)
  /\ c.kind = "CREATE_AUDIO_PATCH" \/ (delay = 0 /\ m = 0)

(* insertCommand_l(): the queue stays sorted by time, then by arrival.     *)
Inserted(q, c, delay) ==
  LET m == Match(q, c, delay)
      n == LastOf({i \in DOMAIN q : q[i].time <= delay})
      e == Entry(c, IF m = 0 THEN delay ELSE q[m].time, Waits(c, delay, m))
  IN  IF m = 0 THEN InsertAt(q, n + 1, e)
      ELSE IF Filtered(q[m], c) THEN [q EXCEPT ![m] = e]
      ELSE InsertAt([q EXCEPT ![m] = Rest(q[m], c)], m, e)

Awake(t) == /\ tpc' = [tpc EXCEPT ![t] = IF @ = "asleep" THEN "run" ELSE @]
            /\ sleepFor' = [sleepFor EXCEPT ![t] = Forever]

(* Faulty variant: signals only a thread that has nothing to do.           *)
SendQuietly(c, delay) ==
  LET t == ThreadFor(c.kind)
      q == queue[t]
  IN  /\ Len(q) < MaxPending[t]
      /\ delay > 0 => t = "ApmAudio"
      /\ queue' = [queue EXCEPT ![t] = Inserted(Outdated(q, c), c, delay)]
      /\ wakeLock' = [wakeLock EXCEPT ![t] = @ \/ q = <<>>]
      /\ IF q = <<>> THEN Awake(t) ELSE UNCHANGED <<tpc, sleepFor>>
      /\ UNCHANGED <<exitPending, lifeVars>>

(* A caller inserts a command, wakes the thread and waits if it has to.    *)
Send(c, delay) ==
  LET t == ThreadFor(c.kind)
      q == queue[t]
  IN  /\ Len(q) < MaxPending[t]
      /\ delay > 0 => t = "ApmAudio"
      /\ queue' = [queue EXCEPT ![t] = Inserted(Outdated(q, c), c, delay)]
      /\ wakeLock' = [wakeLock EXCEPT ![t] = @ \/ q = <<>>]
      /\ Awake(t)
      /\ UNCHANGED <<exitPending, lifeVars>>

MustWait(c, delay) ==
  Waits(c, delay, Match(queue[ThreadFor(c.kind)], c, delay))

(* A client's call that sets something: under the service's lock, which it *)
(* keeps while it waits.                                                   *)
ClientSets(c, delay) ==
  /\ referenced /\ svcLock = Nobody /\ c.kind \notin Output
  /\ Send(c, delay)
  /\ waiting' = MustWait(c, delay)
  /\ svcLock' = IF waiting' THEN Client ELSE Nobody

(* stopOutput(), releaseOutput(): without the lock.                        *)
ClientStops(c) ==
  /\ referenced /\ c.kind \in Output
  /\ Send(c, 0)
  /\ UNCHANGED lockVars

(* The wait ends, with a status or with TIMED_OUT; the client returns.     *)
Answer(q) == [i \in DOMAIN q |-> [q[i] EXCEPT !.waits = FALSE]]
WaitEnds == /\ waiting' = FALSE
            /\ svcLock' = IF svcLock = Client THEN Nobody ELSE svcLock

WaitTimesOut ==
  /\ waiting /\ WaitEnds
  /\ queue' = [t \in Thread |-> Answer(queue[t])]
  /\ UNCHANGED <<wakeLock, threadVars, lifeVars>>
-----------------------------------------------------------------------------
(* threadLoop() *)

IsDue(t) == /\ tpc[t] = "run" /\ ~exitPending[t]
            /\ queue[t] # <<>> /\ Head(queue[t]).time = 0

Popped(t) == queue' = [queue EXCEPT ![t] = Tail(@)] /\ UNCHANGED wakeLock

(* A command for the audio flinger is applied, and its caller answered.    *)
Apply(t) ==
  /\ IsDue(t) /\ Head(queue[t]).kind \notin Output \cup Update
  /\ Popped(t)
  /\ IF Head(queue[t]).waits THEN WaitEnds ELSE UNCHANGED lockVars
  /\ UNCHANGED <<threadVars, lifeVars>>

(* A command for the service is for nothing once that is being destroyed;  *)
(* otherwise the thread refers to the service while it works for it,       *)
(* without its mutex.  Clients are notified without mLock.                 *)
Promote(t) ==
  /\ IsDue(t) /\ Head(queue[t]).kind \in Output \cup Update
  /\ Popped(t)
  /\ tpc' = [tpc EXCEPT ![t] =
               IF destroying # Nobody THEN "run"
               ELSE IF Head(queue[t]).kind \in Output THEN "serve" ELSE "clear"]
  /\ UNCHANGED <<sleepFor, exitPending, lockVars, lifeVars>>

(* doStopOutput(), doReleaseOutput(): under the lock, the policy manager   *)
(* sends what it has to.                                                   *)
ServeLock(t) ==
  /\ tpc[t] = "serve" /\ svcLock = Nobody
  /\ tpc' = [tpc EXCEPT ![t] = "locked"] /\ svcLock' = t
  /\ UNCHANGED <<queueVars, sleepFor, exitPending, waiting, lifeVars>>

ServeSets(t, c, delay) ==
  /\ tpc[t] = "locked" /\ ~waiting /\ c.kind \notin Output
  /\ Send(c, delay)
  /\ waiting' = MustWait(c, delay) /\ UNCHANGED svcLock

ServeUnlock(t) ==
  /\ tpc[t] = "locked" /\ ~waiting
  /\ tpc' = [tpc EXCEPT ![t] = "clear"] /\ svcLock' = Nobody
  /\ UNCHANGED <<queueVars, sleepFor, exitPending, waiting, lifeVars>>

RefersToService(t) == tpc[t] \in {"serve", "locked", "clear"}

(* svc.clear(): the last reference destroys the service, on this thread.   *)
Clear(t) ==
  /\ tpc[t] = "clear"
  /\ IF referenced \/ \E u \in Thread \ {t} : RefersToService(u)
     THEN tpc' = [tpc EXCEPT ![t] = "run"] /\ UNCHANGED <<destroying, exiting>>
     ELSE /\ tpc' = [tpc EXCEPT ![t] = "destroy"]
          /\ destroying' = t /\ exiting' = 1
  /\ UNCHANGED <<queueVars, sleepFor, exitPending, lockVars, referenced>>

(* Nothing is due: wait for the first command, if any.                     *)
Sleep(t) ==
  /\ tpc[t] = "run" /\ ~exitPending[t] /\ ~IsDue(t)
  /\ wakeLock' = [wakeLock EXCEPT ![t] = @ /\ queue[t] # <<>>]
  /\ tpc' = [tpc EXCEPT ![t] = "asleep"]
  /\ sleepFor' = [sleepFor EXCEPT ![t] =
                    IF queue[t] = <<>> THEN Forever ELSE Head(queue[t]).time]
  /\ UNCHANGED <<queue, exitPending, lockVars, lifeVars>>

WakeUp(t) ==
  /\ tpc[t] = "asleep" /\ sleepFor[t] = 0
  /\ Awake(t)
  /\ UNCHANGED <<queueVars, exitPending, lockVars, lifeVars>>

Quit(t) ==
  /\ tpc[t] = "run" /\ exitPending[t]
  /\ tpc' = [tpc EXCEPT ![t] = "gone"]
  /\ wakeLock' = [wakeLock EXCEPT ![t] = FALSE]
  /\ UNCHANGED <<queue, sleepFor, exitPending, lockVars, lifeVars>>
-----------------------------------------------------------------------------
(* The end of the service, and time *)

(* Clients drop their last reference, and destroy the service unless a     *)
(* thread still refers to it.                                              *)
Drop ==
  /\ referenced /\ svcLock # Client
  /\ referenced' = FALSE
  /\ IF \E t \in Thread : RefersToService(t)
     THEN UNCHANGED <<destroying, exiting>>
     ELSE destroying' = Client /\ exiting' = 1
  /\ UNCHANGED <<queueVars, threadVars, lockVars>>

ExitOrder == <<"ApmAudio", "ApmOutput">>

(* exit(): request, then wait for the thread, unless it is one's own.      *)
RequestExit ==
  /\ exiting \in DOMAIN ExitOrder
  /\ LET t == ExitOrder[exiting]
     IN  /\ ~exitPending[t]
         /\ exitPending' = [exitPending EXCEPT ![t] = TRUE]
         /\ Awake(t)
  /\ UNCHANGED <<queueVars, lockVars, lifeVars>>

Join ==
  /\ exiting \in DOMAIN ExitOrder
  /\ LET t == ExitOrder[exiting]
     IN  exitPending[t] /\ (tpc[t] = "gone" \/ t = destroying)
  /\ exiting' = exiting + 1
  /\ tpc' = IF exiting' \notin DOMAIN ExitOrder /\ destroying \in Thread
            THEN [tpc EXCEPT ![destroying] = "run"] ELSE tpc
  /\ UNCHANGED <<queueVars, sleepFor, exitPending, lockVars, referenced,
                 destroying>>

Less(n) == IF n = 0 THEN 0 ELSE n - 1

Tick ==
  /\ \E t \in Thread : \/ sleepFor[t] \in 1 .. MaxDelay
                       \/ \E i \in DOMAIN queue[t] : queue[t][i].time > 0
  /\ queue' = [t \in Thread |-> [i \in DOMAIN queue[t] |->
                 [queue[t][i] EXCEPT !.time = Less(@)]]]
  /\ sleepFor' = [t \in Thread |-> IF sleepFor[t] = Forever THEN Forever
                                   ELSE Less(sleepFor[t])]
  /\ UNCHANGED <<wakeLock, tpc, exitPending, lockVars, lifeVars>>
-----------------------------------------------------------------------------
Delay == 0 .. MaxDelay

ThreadStep(t) ==
  \/ Apply(t) \/ Promote(t) \/ ServeLock(t) \/ ServeUnlock(t) \/ Clear(t)
  \/ Sleep(t) \/ WakeUp(t) \/ Quit(t)

Next ==
  \/ \E c \in Commands : ClientStops(c) \/ \E d \in Delay : ClientSets(c, d)
  \/ \E t \in Thread, c \in Commands, d \in Delay : ServeSets(t, c, d)
  \/ \E t \in Thread : ThreadStep(t)
  \/ WaitTimesOut \/ Drop \/ RequestExit \/ Join \/ Tick

(* The threads run, time passes and the destructor goes on.  No wait is    *)
(* assumed to time out.                                                    *)
Spec == /\ Init /\ [][Next]_vars
        /\ \A t \in Thread : WF_vars(ThreadStep(t))
        /\ WF_vars(RequestExit) /\ WF_vars(Join) /\ WF_vars(Tick)
-----------------------------------------------------------------------------
(* Properties *)

Keys == UNION {c.sets : c \in Commands}

Pending ==
  [kind : Kind, on : {c.on : c \in Commands}, sets : SUBSET Keys,
   sources : Seq(Int), stale : SUBSET Keys, time : Delay, waits : BOOLEAN]

TypeOK ==
  /\ queue \in [Thread -> Seq(Pending)]
  /\ \A t \in Thread : \A i \in DOMAIN queue[t] :
       LET e == queue[t][i]
       IN  ThreadFor(e.kind) = t /\ e.sets # {} /\ e.stale \subseteq e.sets
  /\ tpc \in [Thread -> {"run", "asleep", "serve", "locked", "clear",
                         "destroy", "gone"}]
  /\ sleepFor \in [Thread -> 0 .. Forever]
  /\ exitPending \in [Thread -> BOOLEAN] /\ wakeLock \in [Thread -> BOOLEAN]
  /\ svcLock \in Thread \cup {Client, Nobody}
  /\ {waiting, referenced} \subseteq BOOLEAN
  /\ destroying \in Thread \cup {Client, Nobody} /\ exiting \in 0 .. 3

(* "check same pending commands with later time stamps and eliminate them":*)
(* whatever delays were asked for, of the commands the code takes for the  *)
(* same the last one sent is the last to be applied, key by key.           *)
LastSentWins ==
  \A t \in Thread : \A i \in DOMAIN queue[t] :
    \A k \in queue[t][i].stale :
      \E j \in i + 1 .. Len(queue[t]) :
        queue[t][j].on = queue[t][i].on /\ k \in queue[t][j].sets

(* A thread that sleeps will wake for its first command, which is first in *)
(* time, and the device cannot go to sleep before that; with nothing to do *)
(* it can.                                                                 *)
WokenInTime ==
  \A t \in Thread :
    /\ \A i, j \in DOMAIN queue[t] : i < j => queue[t][i].time <= queue[t][j].time
    /\ queue[t] # <<>> /\ tpc[t] # "gone" => wakeLock[t]
    /\ tpc[t] = "asleep" =>
         IF queue[t] = <<>> THEN ~wakeLock[t] /\ sleepFor[t] = Forever
                            ELSE sleepFor[t] <= Head(queue[t]).time

(* Whoever waits for a thread with the service's lock is answered without  *)
(* the help of a timeout, and the destructor ends both threads.            *)
CallersReturn ==
  /\ waiting ~> ~waiting
  /\ exiting # 0 ~> (exiting = 3 /\ \A t \in Thread : tpc[t] = "gone")
=============================================================================
