# A verification project for the media framework (`frameworks/av`)

The repository holds the native half of Android's media framework: the audio
server and its clients, the players and codecs of stagefright, the camera
service, DRM, and the drivers of all of these.  Most of it is code that moves
samples, parses files or marshals calls.  Its own core logic, and what is hard
to test in it, is *control shared by threads and processes*: lock-free queues
between real-time and normal threads, a ring of frames in memory shared by two
processes, message loops, state machines fed by callbacks, and services that
drop their lock in the middle of an operation.

This project models that control in TLA+, checks the models with TLC on small
instances, and proves what matters most with TLAPS for every instance.  It
starts with the audio path, where there are no locks to reason with and where
a wrong interleaving is heard as a glitch, or not at all for years.

1. [Inventory](#1-inventory)
2. [Modules](#2-modules)
3. [Runs](#3-runs)
4. [Fairness](#4-fairness)
5. [Proofs](#5-proofs)
6. [What the models say of the code](#6-what-the-models-say-of-the-code)
7. [Assumptions and limits](#7-assumptions-and-limits)
8. [Plan](#8-plan)

Paths are relative to the repository, `src/` here.

---------------------------------------------------------------------------

## 1. Inventory

### Modelled

**State queue** (`services/audioflinger/StateQueue.{h,cpp}`).
*State*: four slots, `mNext` (written by the mutator, read by the observer),
`mAck` (the reverse), and private variables of each side.  *Operations*:
`begin`, `end`, `push` in three blocking modes; `poll`.  *Users*: the normal
mixer is mutator and the fast mixer observer; the same for fast capture.
*Hard*: no lock; the observer may still look at the state before the current
one; the mutator spins on an acknowledgement with its caller's locks held.
*Correct if* the slot being edited is never one the observer can see, an
acknowledged push means that the observer works with the new state and with no
other, no edit is lost, and `push` returns.

**Fast mixer and normal mixer** (`FastThread.cpp`, `FastMixer.cpp`, and
`MixerThread` in `Threads.cpp`, all in `services/audioflinger`).  *State*: the
command (`MIX_WRITE`, `HOT_IDLE`, `COLD_IDLE`, ...), the fast tracks and their
generations, all in the state queue; the futex of cold idle; what the fast
mixer has made of the states it saw.  *Operations*: every mutation the normal
mixer makes (new parameters and patches, standby, track changes, starting to
write, exit) and the fast mixer's cycle.  *Interaction*: only the queue and the
futex; binder threads start tracks, suspend the output and request exit.
*Hard*: two threads take turns with one HAL stream; a track is destroyed after
an acknowledgement only; a futex counts requests the other thread has not seen
yet.  *Correct if* the HAL has one user at a time, a removed track is not mixed
after it is released, the mixer's names are those of the current state whatever
states were skipped, and both threads always come back.

**Audio track control block** (`include/private/media/AudioTrackShared.h`,
`media/libmedia/AudioTrackShared.cpp`, and the tracks' `invalidate()` in
`services/audioflinger/Tracks.cpp`), streaming mode.  *State*: `mFront`,
`mRear`, `mFlush`, `mFutex` and `mFlags` in shared memory, the buffer, and each
proxy's private fields.  *Operations*: both sides' `obtainBuffer` and
`releaseBuffer`, `flush`, `interrupt`, `binderDied`, `waitStreamEndDone`,
`setStreamEndDone`, `framesReady`, `invalidate`.  *Hard*: counters wrap at
2^32; a flush moves the reader's counter from the writer's side; deferred
wake-ups; several threads on each side.  *Correct if* it is a FIFO of frames,
neither side finds it corrupt, and no wake-up is lost.

**Single state queue** (`include/media/SingleStateQueue.h`).  *State*: a
sequence number, an acknowledgement and a value of several words.
*Operations*: `push`, `ack`, `poll`, `done`.  *Used by* static tracks for loop
and position requests and their answers, and by all tracks for the playback
rate.  *Hard*: the value is copied while it may be written; numbers wrap.
*Correct if* a poll returns one pushed value, an acknowledgement is true, and
the last value is seen.

**Static tracks** (`StaticAudioTrackClientProxy`, `StaticAudioTrackServerProxy`
in `AudioTrackShared.cpp`).  *State*: the client's request (loop, position and
a sequence number of each), where it believes the server to be; the server's
copy, the frames it counts as ready, the buffer it has out.  *Operations*:
`setLoop`, `setBufferPosition`, both at once, the getters, `flush` and the
restoration of a dead track; `pollPosition`, `obtainBuffer`, `releaseBuffer`.
*Interaction*: two single state queues.  *Hard*: one poll finds the result of
several calls and must act as if it had seen them in order; the client answers
its own getters until the server has acknowledged; frames ready are computed
from a loop count in one place and counted down in another.  *Correct if* the
last call wins, the getters keep up the illusion of a synchronous change, and
the server's assertions hold.

**Pipe** (`media/libnbaio/MonoPipe.cpp`, `MonoPipeReader.cpp`).  *State*: front
and rear, a sequence number with an "updating" bit, the time of the next read,
the shutdown flag.  *Operations*: `write` (which may block), `read`,
`shutdown`, `getNextWriteTimestamp`.  *Interaction*: the normal mixer writes its
submix, the fast mixer reads it.  *Hard*: front and time are two words the
writer must see as one; a blocked writer must notice the shutdown; a pipe that
is full at the wrap.  *Correct if* it is a FIFO, the time told is that of the
next frame written, and writes return.

**Looper** (`stagefright/foundation/ALooper.cpp`, with `AMessage::post`,
`postAndAwaitResponse` and `AReplyToken`).  *State*: messages by time, the
thread, tokens and replies.  *Operations*: `start`, `stop` (also by a handler),
`post`, `loop`, `awaitResponse`, `postReply`.  *Used by* every player, codec
and recorder.  *Hard*: two locks and two conditions; a stop races with posts and
with callers that wait for a reply.  *Correct if* messages are delivered when
due and in order, the thread does not oversleep, and nobody waits for ever.

**Audio policy command threads** (`AudioCommandThread` in
`services/audiopolicy/service/AudioPolicyService.cpp`, and the calls of
`AudioPolicyInterfaceImpl.cpp` that use it).  *State*: for each thread, commands
by time, a wake lock and where it is; who holds the service's lock; who still
refers to the service.  *Operations*: send with a delay and perhaps wait for the
status, merge with what is pending, apply, call back into the service, exit.
*Interaction*: clients wait for `ApmAudio` with the service's lock held; stops
and releases go to `ApmOutput`, which takes that lock and sends to `ApmAudio`
in its turn; the last reference may be dropped by a thread, which then destroys
the service and, with it, itself.  *Hard*: time, merging, and that circle of
waits.  *Correct if* the last value sent is the last applied, no thread
oversleeps, and every caller is answered.

### Not modelled yet

| Component | State and operations | What is hard, what makes it correct |
|---|---|---|
| Resource manager (`services/mediaresourcemanager`) | resources by process and client; reclaim | clients are chosen under the lock and asked after it is dropped; only lower priorities lose |
| Timed event queue (`stagefright/TimedEventQueue.cpp`) | events by time, a counted wake lock | cancellation while waiting; the lock is held while an event that asked for it is queued |
| Camera arbitration (`CameraService.cpp`, `utils/ClientManager.h`) | active clients by cost, priority and conflict | disconnections outside the lock; never two clients that conflict |
| Camera streams (`device3/Camera3Stream.cpp`, `StatusTracker.cpp`) | a stream's state machine, buffers handed out, idle tracking | idle reported once all components are, and in order |
| Media player client (`mediaplayer.cpp`), `NuPlayerDriver` | a player's states, notifications | callbacks against calls; synchronous waits end |
| `MediaCodec`, OMX components | state machines driven by messages | answers that arrive after a flush or a release |
| Other pipes (`Pipe`, `PipeReader`, `SourceAudioBufferProvider`) | a ring with several readers that may overrun | readers resynchronise; diagnostics (tee sink) only |
| Other audio threads, `AudioTrack`/`AudioRecord` | record, offload, direct, effects, restoration of dead tracks | many locks; large state |
| `NBLog`, common time, radio, sound trigger | small rings and services | diagnostics, or thin layers over a HAL |

Left out for good: signal processing (`AudioMixer`, resamplers, effects),
codecs and colour conversion (vendored or numerical, no concurrency of their
own), file formats and network protocols (byte-level data and peers outside the
repository), the audio policy manager (sequential decisions over large tables
read from configuration files), marshalling (calls are modelled as calls), MTP,
command-line tools.  `PROJECT.json` lists them all with their files.

### How the parts interact

    AudioTrack --control block--> server proxy --\
       |                                          >-- FastMixer --> HAL
       '-- SingleStateQueue (rate; loop, position)    ^   |
            '-- StaticTrack                           |   | mAck
    MixerThread ---- StateQueue, cold-idle futex -----'---'
       '-- MonoPipe (submix of the normal tracks) --> FastMixer

    AudioPolicyService --commands--> ApmOutput --commands--> ApmAudio
       '-- waits, with its lock, for ApmAudio                   '--> AudioFlinger

    MediaCodec, NuPlayer, recorders ... --messages--> ALooper --> handlers

---------------------------------------------------------------------------

## 2. Modules

| Module | Stands for |
|---|---|
| `StateChannel` | what `StateQueue.h` promises: a draft, the latest published state, whether it is fresh, the observer's current and previous state |
| `StateQueue` | the queue: one action per access to `mNext`, `mAck` or a slot |
| `StateQueueProofs` | proofs for every `kN >= 4` and every set of states |
| `FastMixer`, `MCFastMixer` | both mixer threads over an instance of `StateQueue`, and its TLC instance |
| `FastMixerProofs` | proofs for every set of tracks and every bound, which reuse those of the queue |
| `FrameFifo` | what a ring of frames promises: frames come out in order, once, at most `capacity` inside |
| `AudioCblk`, `MCAudioCblk` | the control block, both sides and the calls of other threads; the tracks TLC considers |
| `AudioCblkProofs` | proofs for every track, every size of its ring and every width of its counters |
| `LatestValue` | what `SingleStateQueue.h` promises: an atomic cell |
| `SingleStateQueue`, `SingleStateQueueProofs` | the sequence lock, word by word, and its proofs |
| `StaticTrack`, `MCStaticTrack` | a static track's two proxies, over two cells as `LatestValue` promises them; the loops TLC considers |
| `StaticTrackProofs` | proofs for every buffer, every set of loops and every `W` |
| `MonoPipe`, `MonoPipeProofs` | the pipe, access by access, and proofs for every size of it |
| `Looper`, `LooperProofs` | a looper, its thread, posters, callers that wait, and who stops it; proofs for every set of messages and delays |
| `AudioCommandThread`, `MCAudioCommandThread` | two command threads, the service's lock and its life; the commands TLC considers |
| `AudioCommandThreadProofs` | proofs for every set of commands, every delay and every bound on what is pending |

### StateQueue

A pointer to `mStates[i]` is the slot number `i`.  `poll` is two steps,
`PollLoad` (load `mNext`) and `PollAck` (store `mAck`, return); `push` is
`Push` (test `mIsDirty` and `mExpecting`), `WaitForPrior` (a turn of the first
waiting loop), `Publish` (the store to `mNext` with the private assignments
around it), `CopyForward` (copy the published state into the next slot, while
the observer may already be reading the former) and `WaitForAck`.  `Begin`,
`Modify` and `End` are what the caller does between.  `previous` is what the
observer's caller keeps: `StateQueue.h` promises that it stays valid.

`StateQueue` refines `StateChannel`: the draft is the slot being edited (the
published slot while the copy is outstanding), a publication is the store to
`mNext`, and the observer's view is the contents of the slots it points to.

### FastMixer

`SQ == INSTANCE StateQueue` with `kN == 4`; every action of either thread
contains at most one action of `SQ`.  `fpc` is the fast thread's place in
`FastThread::threadLoop`: `poll`, `adopt` (the state was acknowledged and not
looked at yet), `dispatch` on the command, `futexWait`/`asleep`/`coldDone` in
cold idle, `work` (pulling, mixing, writing to the HAL), `exited`.  `npc` is
the normal mixer's place in its loop, and `job` which mutation is under way.
Every mutation goes through `Mutate` (`begin`), an `Edit...` action, `end`, and
a `push` with the mode the code gives it (`BlockFor`).  `Reconfigured` is
`FastMixer::onStateChange` with its three groups of tracks and its generations;
`KeepPrevious` is the copy of the last non-idle state the fast thread makes
because the queue may reuse the slot.  Three switches name what the environment
may do:

- `MaySuspend`: the output may be suspended and restored (A2DP);
- `MayRefuse`: the HAL may refuse parameters unless it is in standby;
- `MayDawdle`: the fast thread may be delayed for long between acknowledging a
  cold idle request and decrementing the futex, long enough for the normal
  mixer to enter standby a second time.

Bounds: `MaxCold` cold idle requests, `MaxGen` changes of the set of tracks.

### AudioCblk

`track`, chosen at the start and fixed, says whether it is playback or record
(`mIsOut`), the size of the ring, and how the track is used: whether its client
flushes, whether the server releases in chunks, and which calls other threads
make.  One run so covers several tracks, one after the other.  Each step is one access to shared memory: the client takes flags, looks at the ring,
takes the deferred wake, waits (`FUTEX_WAIT` compares with the value it stored),
copies frames, releases; the server loads `mFlush`, then `mRear`, rebases
`mFront` after a flush, wakes, copies, releases.  `mFutex` is a set of bits,
`WAKE` and the `0x40000000` that `invalidate()` stores.  Frames are numbered by
the counter at which they were written, so what a reader holds says whether it
is the right one.  `obtainBuffer` ignores an interrupt from before it was called
(`ignoreInterrupt`); `waitStreamEndDone` ignores none (`EndFlags`,
`Interruptible`).  The configurations choose the tracks, which timeouts the
client uses (`Timeouts`), and:

- `FlushRaces`: a flush may fall between two loads of the server's poll;
- `AckWhileHolding`: `Track::start()` may acknowledge a flush while the mixer
  holds a buffer.

`W`, where counters wrap, is a small multiple of the ring instead of 2^32.

### SingleStateQueue

The value pushed with number `s` has `s` in each word, so a mixture of two
shows; words are stored and loaded one per step, in any order.  Numbers count
without bound and are compared through their `W`-wide images, as `int32_t`
differences are.  `NeverLaps` bounds the numbers in use: nobody pushes 2^30
times between two successful polls.  `MaxPushes` bounds the run.

### StaticTrack

`request` is the client's `mState`, which is also what its queue holds;
`mState` is the server's.  `setLoop`, `setBufferPosition` and
`setBufferPositionAndLoop` (two pushes) are the client's calls, with
`incrementSequence` as it is; `Restore` is what `AudioTrack` does with a new
track after the server died.  The server's `pollPosition` takes the latest
request (`Accepted` applies its loop and its position in the order their
sequences say), publishes where it is and acknowledges, in three steps;
`ObtainBuffer`, `ReleaseBuffer` and `Advanced` move on through loops.
`Remaining` is the reference for `mFramesReady`: what is left to play.
`lastCall`, `unreadLoops`, `unreadPositions` and `exact` are history.

`KeepsBuffer = FALSE` says that a mix releases the buffer it obtained before the
next `framesReady()`; see section 6.

### MonoPipe

One action per access to `mFront`, `mRear`, the sequence number or the flag.
`write` is `Write`, `Available` (tests the room left and the flag), `Copy`,
`Publish`, `Repeat` (sleeps and tries again); `getNextWriteTimestamp` is the
sequence number (`ObserveSequence`), the pair, and the sequence number again
(`ObserveDone`); `read` begins an update, stores front and time, and ends it.
Time is counted in frames and the reader passes a time or none.

### Looper

Each step is what happens under `mLock` or `mRepliesLock`.  `stop` is four
steps (`StopRequestExit`, `StopSignal`, `StopBroadcast`, `StopJoin`); the
thread's are `Leave`, `Wait`, `TimeOut`, `Again`, `Deliver` and
`HandlerReturns`; a caller's are `postAndAwaitResponse`, `RetrieveReply` (tests
the reply and the thread under the lock) and `WaitForReply`.  `tokens` are the
replies somebody may still post; `posted` is history.

### AudioCommandThread

A command sets some keys on an output, stream or handle; an entry of a queue is
a command with its time, whether its caller waits, and which of its keys were
sent anew since (`stale`, history).  Times are remaining delays, 0 once past,
which is all that comparisons with later commands can tell.  `Inserted` is
`insertCommand_l`: after the first match the new command has the match's time,
which ends the scan, so there is at most one (`Match`).  `Send` is the part of
`sendCommand` under the queue's lock; the wait is `waiting`, of whoever holds
`svcLock`: every call that sends to `ApmAudio` holds the service's lock, so there
is one at a time.  `Apply` executes a command for the audio flinger; `Promote`,
`ServeLock`, `ServeSets`, `ServeUnlock` and `Clear` are a command that calls back
into the service with a strong reference to it; `Sleep`, `WakeUp` and `Quit` end
the loop's turn.  `Drop`, `RequestExit` and `Join` are the end of the service,
on a client's thread or on a command thread.

---------------------------------------------------------------------------

## 3. Runs

| Run | Instance | What it shows |
|---|---|---|
| `state_queue` | `kN = 4`, 2 states | whatever the mutator edits, ends and pushes, in any mode: no slot is written while it may be read (`ReadableIsStable`), an acknowledgement is real (`AckedMeansCurrent`), nothing is lost (`CleanMeansPublished`, `ImplementsChannel`), published states are seen and `push` returns |
| `fast_mixer` | 2 tracks that use one fast slot; 2 cold idles; 5 track changes; suspension; dawdling | the safety of the pair of threads |
| `fast_mixer_live` | the same with a HAL that may refuse, no suspension, no dawdling | `push` returns and the destructor joins (`BothComeBack`) |
| `cblk` | playback and record, on a ring of 2 with flush and `Track::start()`, and on one of 3 in 4 slots with chunks on both sides, `invalidate()` and `framesReady()` of another thread; `W = 16` | counters that wrap, exact flushes, a FIFO, frames that stay put under the reader, a ring that is never corrupt |
| `cblk_live` | ring of 2, `W = 8`, blocking and timed waits, `interrupt()`, `binderDied()`, end of stream | no wait, of `obtainBuffer` or of `waitStreamEndDone`, outlives the first two, and `obtainBuffer` returns if the server serves |
| `single_state_queue` | 2 words, `W = 16`, 3 tries, 10 pushes | whole values, true acknowledgements, an atomic cell, polls that return, and the last value seen |
| `static_track` | buffer of 2, loops of one frame (two turns, or for ever), 2 calls between polls, `W = 8` | the last call wins whatever order one poll finds, the getters tell what the server does, its assertions hold |
| `mono_pipe` | pipe of 2, writes and reads of up to 3, `W = 4`, `S = 3` | a FIFO, times that belong to their fronts, writes that return |
| `looper` | 2 messages with delay 0 or 1 and 1 awaited | order, no oversleeping, no caller left behind across stops and restarts |
| `command_thread` | parameters with 1 or 2 keys, a patch from 2 sources, stops and updates; delays up to 2, 3 and 2 commands pending | of commands the code takes for the same the last value sent wins, wake-ups in time, callers answered, threads that end |
| `fast_mixer_suspend` | as `fast_mixer`, without dawdling | a push that never returns (section 6.1) |
| `cblk_invalidate` | ring of 1, `invalidate()` | a wake-up that is lost (6.2) |

Five more configurations are kept beside these runs for the reader who wants to
see what section 6 describes; TLC finds each of them violated within seconds:

| Configuration | Module | Instance | What fails |
|---|---|---|---|
| `AudioCblkChunks.cfg` | `MCAudioCblk` | ring of 4, released in chunks | `ObtainReturns` (6.3) |
| `AudioCblkPolled.cfg` | `MCAudioCblk` | ring of 2, `framesReady()` of another thread | `PeekApproximates` (6.4) |
| `AudioCblkFlushRaces.cfg` | `MCAudioCblk` | ring of 2, `FlushRaces = TRUE` | `ImplementsFifo` (6.5) |
| `StaticTrackResampled.cfg` | `MCStaticTrack` | as `static_track`, `KeepsBuffer = TRUE` | `NeverAborts` (6.6) |
| `MonoPipeFull.cfg` | `MonoPipe` | as `mono_pipe`, the reader passes one time | `CountsWhatWaits` (6.7) |

On two cores the runs take from a few seconds to two minutes each; the largest
is `cblk` with 2.4 million states.

Why these bounds are enough to be interesting:

- *Four slots* are what the code has.  With two values every stale read shows:
  the refinement mapping compares the contents of three slots with what the
  abstract channel says they hold.
- *Two tracks that share a slot* make every case of `onStateChange` happen: a
  track enters, leaves, and another takes its slot between two states the fast
  mixer looks at, so that only the generation tells them apart.  Two cold idles
  are needed for a request to meet the remains of the one before; five changes
  of tracks allow each of these around an idle period.
- *Rings of 2 and 3 frames*: full, empty, partly filled, and a buffer that ends
  at the end of memory; 3 in 4 slots is the smallest with a spare slot.  `W` of
  two or four times `2 * mFrameCountP2` makes the counters, and the overflow bit
  that `flush` uses, wrap in every long behaviour.
- *A static buffer of two frames* has a loop over each frame and the whole
  buffer; two calls between polls are every pair of kinds in either order, and
  `W = 8` makes both sequences wrap while they are compared.
- *A pipe of two* is full after two frames; writes of three must block in the
  middle; `W = 2 * mMaxFrames` is the smallest at which full and empty differ.
  Three numbers are what the observer must tell apart while an update is on.
- *Three messages*: two that are due at the same time or not, and a caller that
  waits.  Posts end at `LastPost`, not the stops and starts between them; the
  run checks for deadlock, since a looper can always be started or stopped.
- *Three commands pending with delays 0 to 2* are the fewest for a command that
  takes the time of one, keeps a rest of it behind and leaves another before it;
  sends and merges go on until the service ends.
- *Ten pushes with `W = 16`* go once round the sequence numbers and beyond.

The counters of the control block, the queue and the cell run for ever in these
models; only `MaxCold`, `MaxGen` and `MaxPushes` stop something, which is why
those runs say `CHECK_DEADLOCK FALSE` (the fast mixer's and the command threads'
also stop because a destructor finishes).

Each property of a passing run has a faulty variant of the code in its module
(an operator under a comment "Faulty variant", such as `SuccLate`,
`BlockForRemovalPushed` or `PollAfterEven`), and `PROJECT.json` records which
property catches which: a property that no plausible mistake breaks would say
nothing.

---------------------------------------------------------------------------

## 4. Fairness

- `StateQueue`: `push` does not stop in the middle of its code; it polls `mAck`
  in a loop with a sleep (`MutatorFairness`).  The observer is a periodic thread
  (`ObserverFairness`), but that is a hypothesis of `PublishedIsSeen` and
  `PushReturns`, not part of the specification, since the queue's contract
  allows it to stop.  `push(BLOCK_NEVER)` needs no such hypothesis: it is a
  conjunct of `PushReturns` of its own.
- `FastMixer`: `FairSpec` has weak fairness of each thread as a whole: both are
  loops without conditional waits except those in the model (the futex, sleep on
  the condition variable, `join`).  Binder threads owe nothing.
- `AudioCblk`: `CallSpec` has weak fairness of a call in progress, of finite
  timeouts and of `interrupt()`, `binderDied()` and `invalidate()` once begun.
  `ServerFairness`, that the mixer is periodic and serves an active track, is a
  hypothesis of `ObtainReturns` only.  Nothing makes the client call again, or
  the server call `setStreamEndDone()`.
- `SingleStateQueue`: only a poll in progress is fair; the mutator is a client
  that may die anywhere, so polls return without it.  That they find the last
  value takes both sides' fairness as hypotheses (`PollFinds`).
- `MonoPipe`: only the writer's calls go on (`WriterStep`).  `WriteReturns` has
  the alternatives of the header as its hypothesis: the pipe stays shut down, or
  the reader keeps reading.
- `Looper`: its thread and `stop` are scheduled and handlers return; a caller
  that waits for a reply gets `mRepliesLock`, which becomes free over and over,
  in the end (strong fairness of `AwaitStep`).  Posters, repliers and those who
  start and stop loopers owe nothing.
- `AudioCommandThread`: the threads run, time passes and a destructor goes on.
  No wait is assumed to time out, so `CallersReturn` shows that callers do not
  depend on the three seconds they allow.
- `StaticTrack` has no liveness: its polls are periodic and its queues are
  covered by `PollFinds`.

---------------------------------------------------------------------------

## 5. Proofs

Every safety property that a passing run checks, invariant, action property or
refinement, is a theorem of the specification, some of them under a hypothesis
that is named with the theorem and that the run's constants satisfy.  The theorems
hold for every value
of the constants that satisfies these named assumptions, which the modules of the
code declare and TLC evaluates in every run:

| Module | Assumption | Why the code satisfies it |
|---|---|---|
| `StateQueue` | `kNAssumption`: `kN >= 4` | `StateQueue.h` requires it |
| `FastMixer` | `TrackAssumption`: each fast track has one slot, and no track is the null provider | the track's constructor sets `mFastIndex`, its destruction returns it |
| `AudioCblk` | `WidthAssumption`, `TrackAssumption`: `mFrameCountP2` is `mFrameCount` rounded up, `W` a multiple of twice that, more than twice the ring, and more than four times `mFrameCountP2` if the client flushes | `roundup()`; counters are 32 bits wide, memory is smaller |
| `SingleStateQueue` | `SizeAssumption`: `W` a multiple of 4, at least 8, and at least one try | `int32_t`; `MAX_TRIES` |
| `StaticTrack` | `SizeAssumption`, `LoopsAssumption`: `W` is even, and fewer than `W / 2 - 1` calls fall between two polls | 2^31 calls do not |
| `MonoPipe` | `SizeAssumption`: `W` a multiple of the size, at least twice it | `mMaxFrames` is a power of two |
| `Looper` | `MessageAssumption`: delays do not exceed `MaxDelay`, and `Forever` is no time | a bound of the model; `Forever` stands for a wait without one |
| `AudioCommandThread` | `CommandAssumption`, `BoundAssumption`: a command sets some keys, and only parameters set keys of their own | `insertCommand_l`'s cases |

**StateQueueProofs.**  `TypeCorrect`, `MutatorKeepsOut` (`MutatingIsPrivate`),
`AckIsReal` (`AckedMeansCurrent`), `NothingLost` (`CleanMeansPublished`),
`ReadsAreStable` (`ReadableIsStable`), `QueueImplementsChannel`
(`ImplementsChannel`).

None of the invariants is inductive alone.  That the edited slot is private
follows from where all pointers are: `Chained` says that `previous`,
`mCurrent`, `mNext` and `mMutating` follow each other round the array, with
`mCurrent` at most one behind `mNext`.  To keep that when a slot is published,
one needs to know that the wait before it succeeded: `Knowledge` says what each
program counter implies about the other side.  `Circular` is where `kN >= 4` is
used: a slot, its two predecessors and the null pointer differ from its
successor.

**FastMixerProofs.**  `OneHalUser` (`HalHasOneUser`), `MixesCurrent`
(`MixesCurrentTracks`), `ReleasedIsNotMixed` (`NoMixAfterRelease`) and
`TypeCorrect` (`TypeOK`) hold with all switches and bounds free;
`QuietInStandby` (`StandbyIsQuiet`) under `~MayRefuse`.

`QueueStep` shows that each step of the two threads is a step of the queue or
leaves it alone, so that the inductive step of `StateQueueProofs`, cited
through an instance, applies.  On top of it: `Follows` (the fast mixer obeys
the state it acknowledged last; its command is that of the slot `mCurrent`, and
nobody edits that slot), `Pushes` (what `push` established when it returned)
and `Yields` (an idle draft is *quiet*, that is, neither the published state
nor the fast mixer's says `MIX_WRITE`, except while the push that makes it so
is under way; and the normal mixer touches the HAL with an idle draft only).
`AckedDraft` is the argument in the code's comment, that
"BLOCK_UNTIL_PUSHED would be insufficient, as we need it to stop doing I/O
now": after `push(BLOCK_UNTIL_ACKED)`, `mExpecting` is null, hence the fast
mixer's state is the published one, hence the draft.  `StaysIdle` adds for
standby that the draft stays idle until the mutation which leaves it.

The tracks need a second layer, `TInv`, about the states as data.  `Ordered`
puts the five states there may be at once (the one the mixer's names are from,
the one it works with, the one it acknowledged, the published one and the
draft) in the order of the normal mixer's decisions; between two of them each
generation grows or stands for the same thing.  That is what lets
`onStateChange` compare generations only, across states it never saw.
`Remembers` says which state it compares with, above all after idling
(`mPreIdle`); `Mixes` that the names are that state's; `Keeps` that every state
the fast mixer has or will get holds active tracks only, and none that is about
to be released.  `Futex` is why the futex stays within `-1 .. 1`: the fast thread
performs each cold idle once (`DoneWith`), and a decrement that is late by a whole
standby, which `MayDawdle` allows, is followed by no second one.

**SingleStateQueueProofs.**  `TypeCorrect`, `PollReturnsWholeValue`
(`ReadIsWhole`), `AcksAreTrue` (`AckNeverLies`), `QueueImplementsCell`
(`ImplementsLatestValue`).  The inductive invariant says what `mSequence` and
the words hold at each point of a push (`PushInv`), that the numbers in use fit
in half the range (`WindowInv`), that the words read so far are those of the
value named by `before` as long as `mSequence` has not moved (`PollInv`), and
what `mAck` stands for (`AckInv`).  The arithmetic of wrapping is in two
lemmas: numbers less than `W` apart with the same image are equal
(`SameIsEqual`), and a number that is smaller by less than `W / 2` looks
smaller (`SmallerIsNotAtLeast`).

**StaticTrackProofs.**  `TypeCorrect` (`TypeOK`), and `NeverAbortsIfReleased`
(`NeverAborts`), under `~KeepsBuffer`: whatever the client asks for and however
often it does, `LOG_ALWAYS_FATAL_IF` never fires.  The inductive invariant adds
that the server's state is *playable* (a loop is valid and the position lies
before its end), that `mFramesReady` is `Remaining(mState)`, and that a buffer
that is out ends within the loop.  The heart is that the two computations agree:
`RemainingIs` says what a state has left, case by case, and `AdvancedIs` what
remains after playing `n` frames of it, with the turn of a loop in between; the
product of turns and loop length is handled by lemmas of its own because the
solver does not multiply.

`IllusionIsAlwaysKept` (`IllusionIsKept`) and `LastCallAlwaysWins`
(`LastCallWins`) hold with `KeepsBuffer` as well.  Their invariant counts: how
far the client's sequence numbers are ahead of the server's is how many calls of
either kind are unread (`Sequences`, which is where `MaxUnread < W / 2 - 1`
comes in), `ack` is pending if any are (`Calls`), and, if at most one of each
kind is, what the client's getters return is where `Updated` would take the
server from where it is (`Exact`).  `UpdatedOnce` and `ViewIs` say what reading
two requests at once does.

**AudioCblkProofs.**  `TypeCorrect` (`TypeOK`) has no hypothesis.  `StaysSane`
(`NeverCorrupt`), `ReadsWhatWasWritten` (`ReadsFrames`), `FlushDiscardsAll`
(`FlushIsExact`) and `RingIsAFifo` (`ImplementsFifo`) are proved under
`Serialized`: on a track that is flushed, no flush falls between two loads of one
poll of the server, and `Track::start()` acknowledges none while the mixer holds
a buffer.  Without either, section 6 shows how they fail; tracks that are not
flushed need neither.

Counters are compared by how far they are ahead of `mFront` (`Gap`, `Ahead`),
and a few lemmas say what that is after `mFront` or the other counter moved,
whether or not one of them wrapped.  The invariant orders what is in the ring:
`Bounded` (never more than the ring), `ClientHolds` and `ServerHolds` (the writer
has room for what it may release, the reader has it), `Flushes` (the flush point
lies between what the mixer may release and `mRear`, and its offset is the low
part of `mFlush`), `Polls` (what the server loaded still lies so when it moves
`mFront`) and `Frames` (slots hold the frames they are numbered for).  The heart
is `Relocated`: a front with the offset of a flush in its low bits, moved on by
the modulus if it seems too far behind, is the flush point, for every position of
the counters, because the ring is at most half the modulus.  `RebasedIs` applies
it to the code.  The writer does not overwrite what is in the ring because less
than `mFrameCountP2` apart frames have different slots (`SlotsDiffer`), across
the wrap of the counters too, since `mFrameCountP2` divides `W`.  For the
refinement, `EndsMove` sums up all steps in three cases (the rear moves by what
there is room for, the front by what is inside, or neither), and `NumbersPut`
and `NumbersTake` say what that does to the sequence of frames.

**MonoPipeProofs.**  `TypeCorrect` (`TypeOK`), `TimeIsTold` (`TellsTheTime`),
`PipeIsAFifo` (`ImplementsFifo`).  The same counters without flushes, and with
one process less; the part of its own is `Observes`: what the writer has loaded
of front and time is from one update, unless the sequence number it began with
is not the present one, and an update in progress will still change it.

**LooperProofs.**  `TypeCorrect` (`TypeOK`), `NeverOversleeps`
(`SleepsUntilDue`), `InOrderDelivered` (`DeliversInOrder`).  `Sorted` says that
the queue is sorted by when messages are due and, among equals, by when they
were posted, from which delivery in order follows; and every post in front of
the others, and every stop, ends a wait.

**AudioCommandThreadProofs.**  `TypeCorrect` (`TypeOK`), `LastSentIsLast`
(`LastSentWins`), `NoneOversleeps` (`WokenInTime`).  The invariant says of every
queue that it is sorted by time and that what was sent anew is set by an entry
behind (`Good`), of a sleeping thread that it will wake for its first entry, that
nothing on `ApmOutput` is delayed, and that whoever destroys the service is the
last to refer to it (`Ending`), so that a thread that destroys the service and is
resumed by the end of the other was neither asleep nor gone.  Most of the proof is that `Inserted` keeps a queue good: the
scan from the end stops at the one match, the new entry goes behind entries that
are due no later, and an entry it empties is dropped.

**Only model-checked**: all liveness (`PublishedIsSeen`, `PushReturns`,
`BothComeBack`, `WaitsAreCut`, `ObtainReturns`, `PollFinds`, `WriteReturns` and
both `CallersReturn`), which is out of the prover's reach under fairness; and the
two runs that end in a violation, which are about liveness as well.

---------------------------------------------------------------------------

## 6. What the models say of the code

Two runs end in a violation, and so do five configurations kept beside the runs,
each of something a comment or an assertion of the code says.

1. `fast_mixer_suspend` (`services/audioflinger/Threads.cpp:4179`).  A suspended
   output puts the fast mixer to sleep on the cold futex and, with active
   tracks, goes on to prepare tracks and push their changes.  The second push
   waits for an acknowledgement that a sleeping thread cannot give, with `mLock`
   held.
2. `cblk_invalidate` (`services/audioflinger/Tracks.cpp:1076`).  `invalidate()`
   stores a bit other than the wake bit before it wakes; a client that has
   looked at the flags and not yet taken the futex down sleeps on.
3. `AudioCblkChunks.cfg` (`media/libmedia/AudioTrackShared.cpp:744`).  The server may
   release a buffer in chunks, but each is compared with the minimum as if it
   were the first; a client blocked on a full ring sleeps on over an empty one if
   no chunk alone reaches the minimum.  The ring has four frames, so that the
   minimum is two.  The playback callers in the repository release a buffer at
   once; `cblk_live` has tracks that do.
4. `AudioCblkPolled.cfg` (`AudioTrackShared.cpp:776`).  On another thread than the one
   that obtains, `framesReady()` loads two counters that do not belong together,
   takes their difference for corruption and shuts the track down, where
   `Tracks.cpp:613-616` expects an approximation.  `NeverCorrupt` therefore
   excepts the server of a track that makes this call; `ImplementsFifo` and
   `ReadsFrames` hold all the same.
5. `AudioCblkFlushRaces.cfg` (`AudioTrackShared.cpp:614`).  `obtainBuffer()` loads
   `mFlush` before `mRear`.  If a flush and a write fall in between, the server
   releases frames beyond the flush, and its next call moves `mFront` back to it,
   behind frames the client believes free.  The client flushes a track that is
   not active; the server may still be mixing it, in `PAUSING`.
6. `StaticTrackResampled.cfg` (`AudioTrackShared.cpp:982`).  With a buffer out,
   `framesReady()` polls a new position, and `releaseBuffer()` then finds more
   frames than it counts as ready, and aborts.  The mixer polls before it mixes
   (`Threads.cpp:3879-3882`), and a resampler that keeps its input buffer from one
   mix to the next (`AudioResampler.cpp:426-437`) is in that situation.
7. `MonoPipeFull.cfg` (`media/libnbaio/MonoPipe.cpp:246`).  The frames pending are
   taken modulo `mMaxFrames`, so a full pipe looks empty to
   `getNextWriteTimestamp`, although `MonoPipe.h:72-74` promises the time of the
   last read plus all that waits.  `TellsTheTime`, which `mono_pipe` checks,
   excepts the full pipe.

Others show when a switch is turned, or in no property at all:

- `MayDawdle = TRUE` breaks `PushReturns`, a part of `BothComeBack`: a normal
  mixer that enters cold idle twice resets the futex to 0 before the fast thread
  has decremented it for the first time.  The fast thread is real-time and would
  have to be delayed for a whole standby period, so `fast_mixer_live` excludes
  it; `fast_mixer`, the safety run, does not.
- `MayRefuse = TRUE` breaks `StandbyIsQuiet`: the HAL is put in standby to
  accept parameters, and the previous command, which may be `MIX_WRITE`, is
  restored.
- `AckWhileHolding = TRUE` breaks `ReadsFrames`: a buffer obtained before a
  flush is released after `Track::start()` acknowledged the flush, and moves
  `mFront` past frames that were written since.
- `setStreamEndDone()` wakes without the wake bit, like `invalidate()`; and
  `waitStreamEndDone()` never updates the total it compares with its timeout, so
  the `TIMED_OUT` that `media/libmedia/AudioTrack.cpp:1854` handles cannot
  happen.
- Two calls of the same kind between two polls merge in the queue.  The client
  has then seen itself, say, move to a position and loop, which the server never
  did; so `IllusionIsKept` promises equality (`exact`) only if the server read
  each of the calls.
- `MonoPipe.h:81-91` and `:99-111`: the observer spins while an update goes on,
  which requires the updater to have the higher priority if both share a
  processor.  No property here depends on it: an observer that spins is taken for
  one that has not started.
- A looper that runs on its caller's thread has no `mThread`, so a call that
  awaits a response from it returns `-ENOENT` at once, answered or not.
- Delayed voice volumes and port configurations are not merged, although
  `AudioPolicyService.cpp:855` says that the "same pending commands with later
  time stamps" are eliminated: an older one with the longer delay is applied
  last.  The same holds for patches of one handle from different sources, there
  on purpose (`:942`).  `LastSentWins` is about what the code takes for the same.
- A `CREATE_AUDIO_PATCH` that times out is still executed later, and nobody
  learns the handle.

---------------------------------------------------------------------------

## 7. Assumptions and limits

- *Memory is sequentially consistent.*  Each model has one step per access, in
  program order.  The code uses acquire and release operations on what it
  shares; that these suffice on weakly ordered machines is not shown here, in
  particular for the plain copies of `StateQueue` slots and of
  `SingleStateQueue` values between them.
- *Data is abstract.*  Samples, volumes, timestamps, statistics, dumps and
  logging are left out.  A frame is the counter at which it was written, a state
  of the queue a model value, or, in `FastMixer`, a record of the fields that
  steer control.
- *FastMixer* has the configuration the code selects (`kUseFastMixer` is
  `FastMixer_Static`, so a fast mixer exists from the start), one fast slot
  besides the submix's in its runs, no warmup cycles, and normal tracks only as
  "some are active".  The HAL's calls succeed, except for refused parameters.
  `Threads.cpp` has other threads, which are not modelled.
- *AudioCblk* is streaming mode.  The client and the server behave as these
  proxies do; a process that scribbles over the shared memory is not modelled.
  Underrun counts, volumes, send levels and rates do not steer anything here.
  Fewer than `W / M` flushes are unseen by the server.
- *SingleStateQueue* assumes `NeverLaps`.
- *StaticTrack* takes its queues for atomic cells, which is what
  `SingleStateQueue` implements; a poll that finds a push under way finds
  nothing.  The client makes fewer than `W / 2 - 1` calls between two polls,
  2^31 in the code.
- *MonoPipe*: the reader does not go once round the sequence numbers during one
  observation.  The throttling of `write` by time is a wait of any length.
- *Looper*: one thread at a time starts and stops a looper, and it is not
  started again before the old thread has ended.  Each message is posted once,
  and conditions are not signalled without cause.  Handlers and loopers are not
  destroyed.  One caller at a time waits for a reply in the run; two did not
  finish in reasonable time.
- *AudioCommandThread*: `ApmTone`, the third thread, is left out; it works for
  tone commands as `ApmOutput` does for stops.  Setting a value always returns.
  What the policy manager sends under the lock, and in what number, is open.
- *FastMixer* with a HAL that refuses parameters is model-checked for liveness
  only; its safety is proved with one that does.

---------------------------------------------------------------------------

## 8. Plan

Done, in this order: 1 `StateQueue` with `StateChannel` and its proofs; 2
`FastMixer` over it, with proofs; 3 `AudioCblk` with `FrameFifo`; 4
`SingleStateQueue` with `LatestValue` and its proofs; 5 `StaticTrack`, with
proofs; 6 `MonoPipe`, a second implementation of `FrameFifo`; 7 `Looper`; 8
`AudioCommandThread`.

Next:

9. `ResourceManager`: reclaim by priority, with clients that come and go while
   the lock is dropped; `DrmSessionManager` has the same policy.
10. `TimedEventQueue`, a looper with cancellation and a counted wake lock.
11. `CameraArbitration`, `CameraStream` with `StatusTracker`.
12. The player's and `MediaCodec`'s state machines, over `Looper`.

Proved: the safety of everything modelled so far (section 5).  To prove next: for
`AudioCblk`, what is left of the four theorems where `Serialized` does not hold;
that `StaticTrack`'s answers to the client are those of an abstract track without
queues; that `Looper` and the command threads implement abstract priority queues;
and the safety of the modules to come.
