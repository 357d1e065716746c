----------------------------- MODULE AudioCblk ------------------------------
(***************************************************************************)
(* The control block an AudioTrack or AudioRecord client shares with the   *)
(* audio server (include/private/media/AudioTrackShared.h,                 *)
(* media/libmedia/AudioTrackShared.cpp), in streaming mode: a ring of      *)
(* frames between two processes, without a lock, and a futex on which the  *)
(* client sleeps when it has nothing to do.                                *)
(*                                                                         *)
(* track, fixed when the track is created, says what it is and how it is   *)
(* used.  Counters are W wide instead of 2^32.                             *)
(* Each step is one access to shared memory with the private computation   *)
(* that follows; loads of a side's own counter are private.                *)
(***************************************************************************)
EXTENDS Integers

CONSTANTS
  Tracks,           \* the tracks to consider, see TrackAssumption
  W,                \* counters wrap at this power of two
  mMinimum,         \* setMinimum(): 0 for the default
  FlushRaces,       \* the client flushes between two loads of a server's poll
  AckWhileHolding,  \* Track::start() while the mixer still holds a buffer
  Timeouts          \* the timeouts the client asks for

VARIABLE track

Call == {"interrupt", "binderDied", "invalidate", "streamEnd", "framesReady",
         "start"}

(* For playback (mIsOut) the client writes and the server reads, for       *)
(* record it is the other way round.  mFrameCountP2 is mFrameCount rounded *)
(* up to a power of two.  The client may flush, the server may release a   *)
(* buffer in chunks, and other threads make some of the calls above.       *)
ASSUME WidthAssumption == W \in Nat

ASSUME TrackAssumption ==
  \A t \in Tracks :
    /\ DOMAIN t = {"mIsOut", "mFrameCount", "mFrameCountP2", "flushes",
                   "chunks", "calls"}
    /\ t.mFrameCountP2 \in Nat /\ t.mFrameCount \in 1 .. t.mFrameCountP2
    /\ 2 * t.mFrameCount > t.mFrameCountP2
    /\ W > 2 * t.mFrameCount /\ W % (2 * t.mFrameCountP2) = 0
    /\ t.flushes => W > 4 * t.mFrameCountP2
    /\ {t.mIsOut, t.flushes, t.chunks} \subseteq BOOLEAN /\ t.calls \subseteq Call

ASSUME TimeoutAssumption == Timeouts \subseteq {"ZERO", "INFINITE", "FINITE"}

mIsOut == track.mIsOut
mFrameCount == track.mFrameCount
mFrameCountP2 == track.mFrameCountP2
Makes(call) == call \in track.calls

M == 2 * mFrameCountP2    \* flush(): mask + 1, and obtainBuffer()'s overflowBit

None == -1
Counter == 0 .. W - 1
Add(a, n) == (a + n) % W
Diff(a, b) == LET d == (a - b) % W IN IF d < W \div 2 THEN d ELSE d - W
Slot(a) == a % mFrameCountP2
Least(a, b) == IF a < b THEN a ELSE b

VARIABLES
  \* shared memory
  mFront, mRear, mFlush, mFutex, mFlags,
  mBuffers,      \* for each slot, the counter of the frame written there
  \* client
  cpc, op, timeout, ignoreInterrupt, cUnreleased, cShutdown,
  expected,                \* the value FUTEX_WAIT compares with
  interrupting, dying,     \* interrupt() and binderDied() of other threads
  \* server
  spc, ackFlush,
  sFlush,        \* ServerProxy::mFlush
  flush,         \* obtainBuffer(): the value of mFlush it loaded
  rear, newFront,          \* obtainBuffer(): its other locals
  sUnreleased, sShutdown, mAvailToClient,
  sRaw,          \* the frame its Buffer::mRaw points to
  invalidating, peeked,
  \* history
  flushPoint     \* mRear at the latest flush, until it is acknowledged

indexVars == <<mFront, mRear>>
clientVars == <<cpc, op, timeout, ignoreInterrupt, cUnreleased, cShutdown,
                expected>>
callVars == <<interrupting, dying, invalidating, peeked>>
serverVars == <<spc, ackFlush, sFlush, flush, rear, newFront, sUnreleased,
                sShutdown, mAvailToClient, sRaw>>
vars == <<indexVars, mFlush, mFutex, mFlags, mBuffers, clientVars, callVars,
          serverVars, flushPoint>>

Bits == {"WAKE", "0x40000000"}    \* of mFutex
Flags == {"INTERRUPT", "INVALID", "STREAM_END_DONE", "OVERRUN"}
Timeout == {"ZERO", "INFINITE", "FINITE", "CONTINUE"}

Init ==
  /\ track \in Tracks
  /\ mFront = 0 /\ mRear = 0 /\ mFlush = 0 /\ mFutex = {} /\ mFlags = {}
  /\ mBuffers = [i \in 0 .. mFrameCountP2 - 1 |-> None]
  /\ cpc = "idle" /\ op = "obtain" /\ timeout = "ZERO"
  /\ ignoreInterrupt = TRUE /\ cUnreleased = 0 /\ cShutdown = FALSE
  /\ expected = {}
  /\ interrupting = FALSE /\ dying = FALSE /\ invalidating = "no"
  /\ spc = "idle" /\ ackFlush = FALSE /\ sFlush = 0 /\ flush = 0
  /\ rear = 0 /\ newFront = 0 /\ sUnreleased = 0 /\ sShutdown = FALSE
  /\ mAvailToClient = 0 /\ sRaw = None
  /\ peeked = None /\ flushPoint = None

(* Frames in the ring, as a signed difference; the check both sides make.  *)
Filled(r, front) == Diff(r, front)
Sane(filled) == 0 <= filled /\ filled <= mFrameCount

(* Counts a caller may get: contiguous, available, and what it asked for.  *)
Contiguous(index, avail) ==
  IF avail = 0 THEN {0}
  ELSE 1 .. Least(mFrameCountP2 - Slot(index), avail)

Written(first, n) ==
  [i \in DOMAIN mBuffers |->
     IF \E k \in 0 .. n - 1 : i = Slot(first + k)
     THEN Add(first, CHOOSE k \in 0 .. n - 1 : i = Slot(first + k))
     ELSE mBuffers[i]]
-----------------------------------------------------------------------------
(* Client: ClientProxy::obtainBuffer(), releaseBuffer() *)

Obtaining == cpc \in {"flags", "look", "down", "wait", "asleep"}

(* A call returns without frames.                                          *)
ReturnError == cpc' = "idle" /\ cUnreleased' = 0

ClientCall(o, t) ==
  /\ cpc \in {"idle", "obtained", "copied"} /\ ~cShutdown
  /\ o = "end" => mIsOut /\ cpc = "idle" /\ Makes("streamEnd")
  /\ op' = o /\ timeout' = t /\ ignoreInterrupt' = TRUE
  /\ cpc' = "flags"
  /\ UNCHANGED <<indexVars, mFlush, mFutex, mFlags, mBuffers, cUnreleased,
                 cShutdown, expected, callVars, serverVars, flushPoint>>

(* obtainBuffer() takes INTERRUPT from the flags and returns on INVALID,   *)
(* or on an interrupt that was not pending already when it was called.     *)
ObtainFlags ==
  /\ cpc = "flags" /\ op = "obtain"
  /\ mFlags' = mFlags \ {"INTERRUPT"}
  /\ ignoreInterrupt' = FALSE
  /\ IF "INVALID" \in mFlags \/ (~ignoreInterrupt /\ "INTERRUPT" \in mFlags)
     THEN ReturnError
     ELSE cpc' = "look" /\ UNCHANGED cUnreleased
  /\ UNCHANGED <<indexVars, mFlush, mFutex, mBuffers, op, timeout, cShutdown,
                 expected, callVars, serverVars, flushPoint>>

(* Faulty variant: takes an interrupt for a spurious wake-up and waits on. *)
EndFlagsDeaf ==
  /\ cpc = "flags" /\ op = "end"
  /\ mFlags' = mFlags \ {"INTERRUPT", "STREAM_END_DONE"}
  /\ IF mFlags \ {"INTERRUPT"} # {} \/ timeout = "ZERO"
     THEN ReturnError /\ UNCHANGED timeout
     ELSE /\ cpc' = "down"
          /\ timeout' = IF timeout = "FINITE" THEN "CONTINUE" ELSE timeout
          /\ UNCHANGED cUnreleased
  /\ UNCHANGED <<indexVars, mFlush, mFutex, mBuffers, op, ignoreInterrupt,
                 cShutdown, expected, callVars, serverVars, flushPoint>>

(* waitStreamEndDone() takes STREAM_END_DONE as well, and ignores no       *)
(* interrupt.                                                              *)
EndFlags ==
  /\ cpc = "flags" /\ op = "end"
  /\ mFlags' = mFlags \ {"INTERRUPT", "STREAM_END_DONE"}
  /\ IF mFlags # {} \/ timeout = "ZERO"
     THEN ReturnError /\ UNCHANGED timeout
     ELSE /\ cpc' = "down"
          /\ timeout' = IF timeout = "FINITE" THEN "CONTINUE" ELSE timeout
          /\ UNCHANGED cUnreleased
  /\ UNCHANGED <<indexVars, mFlush, mFutex, mBuffers, op, ignoreInterrupt,
                 cShutdown, expected, callVars, serverVars, flushPoint>>

ClientIndex == IF mIsOut THEN mRear ELSE mFront'

(* Faulty variant: fills the ring beyond its nominal size.                 *)
ClientAvailP2(filled) == IF mIsOut THEN mFrameCountP2 - filled ELSE filled

ClientAvail(filled) == IF mIsOut THEN mFrameCount - filled ELSE filled

(* Nothing available: give up now, or after a finite timeout, or sleep.    *)
NoFrames ==
  \/ timeout = "ZERO" /\ ReturnError /\ UNCHANGED timeout
  \/ /\ timeout \in {"FINITE", "CONTINUE"}
     /\ ReturnError /\ timeout' = "CONTINUE"
  \/ /\ timeout # "ZERO"
     /\ cpc' = "down" /\ UNCHANGED cUnreleased
     /\ timeout' = IF timeout = "FINITE" THEN "CONTINUE" ELSE timeout

(* An overfull ring shuts playback down; a recording client skips it all.  *)
Overrun == ~mIsOut /\ ~Sane(Filled(mRear, mFront))

ClientLook ==
  /\ cpc = "look"
  /\ mFront' = IF Overrun THEN mRear ELSE mFront
  /\ mFlags' = IF Overrun THEN mFlags \cup {"OVERRUN"} ELSE mFlags
  /\ LET filled == Filled(mRear, mFront')
     IN  IF ~Sane(filled)
         THEN cShutdown' = TRUE /\ ReturnError /\ UNCHANGED timeout
         ELSE /\ UNCHANGED cShutdown
              /\ \E n \in Contiguous(ClientIndex, ClientAvail(filled)) :
                   IF n = 0 THEN NoFrames
                   ELSE /\ cpc' = "obtained" /\ cUnreleased' = n
                        /\ UNCHANGED timeout
  /\ UNCHANGED <<mRear, mFlush, mFutex, mBuffers, op, ignoreInterrupt,
                 expected, callVars, serverVars, flushPoint>>

(* Faulty variant: clears a deferred wake, and waits all the same.         *)
ClientDownAlways ==
  /\ cpc = "down"
  /\ mFutex' = mFutex \ {"WAKE"} /\ expected' = mFutex'
  /\ cpc' = "wait"
  /\ UNCHANGED <<indexVars, mFlush, mFlags, mBuffers, op, timeout,
                 ignoreInterrupt, cUnreleased, cShutdown, callVars, serverVars,
                 flushPoint>>

(* Down: take the deferred wake, or wait.                                  *)
ClientDown ==
  /\ cpc = "down"
  /\ mFutex' = mFutex \ {"WAKE"} /\ expected' = mFutex'
  /\ cpc' = IF "WAKE" \in mFutex THEN "flags" ELSE "wait"
  /\ UNCHANGED <<indexVars, mFlush, mFlags, mBuffers, op, timeout,
                 ignoreInterrupt, cUnreleased, cShutdown, callVars, serverVars,
                 flushPoint>>

(* FUTEX_WAIT sleeps if the value still is the one just stored.            *)
ClientWait ==
  /\ cpc = "wait"
  /\ cpc' = IF mFutex = expected THEN "asleep" ELSE "flags"
  /\ UNCHANGED <<indexVars, mFlush, mFutex, mFlags, mBuffers, op, timeout,
                 ignoreInterrupt, cUnreleased, cShutdown, expected, callVars,
                 serverVars, flushPoint>>

(* A wait ends by itself: its timeout expires, or a signal comes.          *)
WaitEnds ==
  /\ cpc = "asleep"
  /\ cpc' = "flags"
  /\ UNCHANGED <<indexVars, mFlush, mFutex, mFlags, mBuffers, op, timeout,
                 ignoreInterrupt, cUnreleased, cShutdown, expected, callVars,
                 serverVars, flushPoint>>
TimeoutEnds == timeout \in {"FINITE", "CONTINUE"} /\ WaitEnds

(* The playback client writes the frames it obtained.                      *)
ClientCopy ==
  /\ mIsOut /\ cpc = "obtained"
  /\ mBuffers' = Written(mRear, cUnreleased)
  /\ cpc' = "copied"
  /\ UNCHANGED <<indexVars, mFlush, mFutex, mFlags, op, timeout,
                 ignoreInterrupt, cUnreleased, cShutdown, expected, callVars,
                 serverVars, flushPoint>>

(* Faulty variant: releases one frame more than it obtained.               *)
ClientReleaseMore(n) ==
  /\ cpc = (IF mIsOut THEN "copied" ELSE "obtained")
  /\ n <= cUnreleased
  /\ cUnreleased' = cUnreleased - n
  /\ cpc' = IF n = cUnreleased THEN "idle" ELSE cpc
  /\ IF mIsOut THEN mRear' = Add(mRear, n + 1) /\ UNCHANGED mFront
               ELSE mFront' = Add(mFront, n + 1) /\ UNCHANGED mRear
  /\ UNCHANGED <<mFlush, mFutex, mFlags, mBuffers, op, timeout,
                 ignoreInterrupt, cShutdown, expected, callVars, serverVars,
                 flushPoint>>

ClientRelease(n) ==
  /\ cpc = (IF mIsOut THEN "copied" ELSE "obtained")
  /\ n <= cUnreleased
  /\ cUnreleased' = cUnreleased - n
  /\ cpc' = IF n = cUnreleased THEN "idle" ELSE cpc
  /\ IF mIsOut THEN mRear' = Add(mRear, n) /\ UNCHANGED mFront
               ELSE mFront' = Add(mFront, n) /\ UNCHANGED mRear
  /\ UNCHANGED <<mFlush, mFutex, mFlags, mBuffers, op, timeout,
                 ignoreInterrupt, cShutdown, expected, callVars, serverVars,
                 flushPoint>>

(* flush(): the offset of mRear in the low bits, a count above.  It bounds *)
(* the flushes the server has not seen, so that the count does not wrap.   *)
ClientFlush ==
  /\ track.flushes /\ mIsOut
  /\ FlushRaces \/ spc # "rear"
  /\ LET newFlush == Add((mFlush - (mFlush % M)) + M, mRear % M)
     IN  /\ newFlush \div M # sFlush \div M
         /\ mFlush' = newFlush
  /\ flushPoint' = mRear
  /\ UNCHANGED <<indexVars, mFutex, mFlags, mBuffers, clientVars, callVars,
                 serverVars>>

(* What FUTEX_WAKE does to the client.                                     *)
Woken == IF cpc = "asleep" THEN "flags" ELSE cpc

(* interrupt() and binderDied() set a flag, and wake the client if it was  *)
(* not set already.                                                        *)

Interrupt ==
  /\ Makes("interrupt") /\ ~interrupting
  /\ mFlags' = mFlags \cup {"INTERRUPT"}
  /\ interrupting' = ("INTERRUPT" \notin mFlags)
  /\ UNCHANGED <<indexVars, mFlush, mFutex, mBuffers, clientVars, dying,
                 invalidating, peeked, serverVars, flushPoint>>

BinderDied ==
  /\ Makes("binderDied") /\ ~dying
  /\ mFlags' = mFlags \cup {"INVALID"}
  /\ dying' = ("INVALID" \notin mFlags)
  /\ UNCHANGED <<indexVars, mFlush, mFutex, mBuffers, clientVars, interrupting,
                 invalidating, peeked, serverVars, flushPoint>>

(* Faulty variant: wakes without leaving a deferred wake.                  *)
InterruptWakeOnly ==
  /\ interrupting \/ dying
  /\ cpc' = Woken
  /\ \/ interrupting /\ interrupting' = FALSE /\ UNCHANGED dying
     \/ dying /\ dying' = FALSE /\ UNCHANGED interrupting
  /\ UNCHANGED <<indexVars, mFlush, mFutex, mFlags, mBuffers, op, timeout,
                 ignoreInterrupt, cUnreleased, cShutdown, expected,
                 invalidating, peeked, serverVars, flushPoint>>

InterruptWake ==
  /\ interrupting \/ dying
  /\ mFutex' = mFutex \cup {"WAKE"}
  /\ cpc' = Woken
  /\ \/ interrupting /\ interrupting' = FALSE /\ UNCHANGED dying
     \/ dying /\ dying' = FALSE /\ UNCHANGED interrupting
  /\ UNCHANGED <<indexVars, mFlush, mFlags, mBuffers, op, timeout,
                 ignoreInterrupt, cUnreleased, cShutdown, expected,
                 invalidating, peeked, serverVars, flushPoint>>
-----------------------------------------------------------------------------
(* Server: ServerProxy::obtainBuffer(), releaseBuffer() *)

ServerIndex == IF mIsOut THEN mFront ELSE mRear

(* Faulty variant: fills the ring beyond its nominal size.                 *)
ServerAvailP2(filled) == IF mIsOut THEN filled ELSE mFrameCountP2 - filled

ServerAvail(filled) == IF mIsOut THEN filled ELSE mFrameCount - filled
Resting == IF sUnreleased = 0 THEN "idle" ELSE "obtained"

(* obtainBuffer() of the mixer or recorder, or of Track::start().          *)
ServerObtain(ack) ==
  /\ ~sShutdown
  /\ spc = "idle" \/ (ack /\ AckWhileHolding /\ spc = "obtained")
  /\ ack => mIsOut /\ Makes("start")
  /\ ackFlush' = ack
  /\ flush' = IF mIsOut THEN mFlush ELSE flush
  /\ spc' = "rear"
  /\ UNCHANGED <<indexVars, mFlush, mFutex, mFlags, mBuffers, clientVars,
                 callVars, sFlush, rear, newFront, sUnreleased, sShutdown,
                 mAvailToClient, sRaw, flushPoint>>

(* What obtainBuffer() does with the two counters once it has them.        *)
Obtained(r, front) ==
  LET filled == Filled(r, front)
      first  == IF mIsOut THEN front ELSE r
  IN  IF ~Sane(filled)
      THEN /\ sShutdown' = TRUE /\ sUnreleased' = 0 /\ sRaw' = None
           /\ spc' = "idle" /\ UNCHANGED mAvailToClient
      ELSE /\ UNCHANGED sShutdown
           /\ mAvailToClient' = mFrameCount - ServerAvail(filled)
           /\ IF ackFlush
              THEN spc' = Resting /\ UNCHANGED <<sUnreleased, sRaw>>
              ELSE \E n \in Contiguous(first, ServerAvail(filled)) :
                     /\ sUnreleased' = n
                     /\ sRaw' = IF n = 0 THEN None ELSE first
                     /\ spc' = IF n = 0 THEN "idle" ELSE "obtained"

(* Load the client's counter; no flush is pending.                         *)
ServerLoad ==
  /\ spc = "rear" /\ flush = sFlush
  /\ Obtained(mRear, mFront)
  /\ UNCHANGED <<indexVars, mFlush, mFutex, mFlags, mBuffers, clientVars,
                 callVars, ackFlush, sFlush, flush, rear, newFront,
                 flushPoint>>

(* Faulty variant: rebases without looking at the overflow bit.            *)
RebasedLow(r) ==
  LET low == (mFront - (mFront % M)) + (flush % M)
  IN  IF Sane(Filled(r, low)) THEN low ELSE r

(* Where a flush moves mFront: its offset in the low bits, M further if    *)
(* they wrapped since, and to the rear if that makes no sense.             *)
Rebased(r) ==
  LET low == (mFront - (mFront % M)) + (flush % M)
      front == IF Filled(r, low) >= M THEN Add(low, M) ELSE low
  IN  IF Sane(Filled(r, front)) THEN front ELSE r

ServerFlush ==
  /\ spc = "rear" /\ flush # sFlush
  /\ rear' = mRear /\ newFront' = Rebased(mRear)
  /\ sFlush' = flush
  /\ spc' = "rebase"
  /\ UNCHANGED <<indexVars, mFlush, mFutex, mFlags, mBuffers, clientVars,
                 callVars, ackFlush, flush, sUnreleased, sShutdown,
                 mAvailToClient, sRaw, flushPoint>>

ServerRebase ==
  /\ spc = "rebase"
  /\ mFront' = newFront
  /\ spc' = "flushWake"
  /\ flushPoint' = IF flush = mFlush THEN None ELSE flushPoint
  /\ UNCHANGED <<mRear, mFlush, mFutex, mFlags, mBuffers, clientVars, callVars,
                 ackFlush, sFlush, flush, rear, newFront, sUnreleased,
                 sShutdown, mAvailToClient, sRaw>>

(* The server wakes the client unless a wake is pending.                   *)
Wake ==
  /\ mFutex' = mFutex \cup {"WAKE"}
  /\ cpc' = IF "WAKE" \in mFutex THEN cpc ELSE Woken

ServerFlushWake ==
  /\ spc = "flushWake"
  /\ Wake
  /\ Obtained(rear, newFront)
  /\ rear' = 0 /\ newFront' = 0
  /\ UNCHANGED <<indexVars, mFlush, mFlags, mBuffers, op, timeout,
                 ignoreInterrupt, cUnreleased, cShutdown, expected, callVars,
                 ackFlush, sFlush, flush, flushPoint>>

(* The recorder writes the frames it obtained.                             *)
ServerCopy ==
  /\ ~mIsOut /\ spc = "obtained"
  /\ mBuffers' = Written(mRear, sUnreleased)
  /\ spc' = "copied"
  /\ UNCHANGED <<indexVars, mFlush, mFutex, mFlags, clientVars, callVars,
                 ackFlush, sFlush, flush, rear, newFront, sUnreleased,
                 sShutdown, mAvailToClient, sRaw, flushPoint>>

(* mMinimum as the server limits it.                                       *)
Half == IF mFrameCount \div 2 = 0 THEN 1 ELSE mFrameCount \div 2
Minimum == IF mMinimum = 0 THEN IF mIsOut THEN Half ELSE 1
           ELSE Least(mMinimum, Half)

(* Faulty variant: wakes the client only beyond the minimum.               *)
WakesLate(n) == ~mIsOut \/ mAvailToClient + n > mFrameCount

Wakes(n) == ~mIsOut \/ mAvailToClient + n >= Minimum

ServerRelease(n) ==
  /\ spc = (IF mIsOut THEN "obtained" ELSE "copied")
  /\ ~sShutdown
  /\ n <= sUnreleased /\ (track.chunks \/ n = sUnreleased)
  /\ sUnreleased' = sUnreleased - n
  /\ sRaw' = IF n = sUnreleased THEN None ELSE Add(sRaw, n)
  /\ IF mIsOut THEN mFront' = Add(mFront, n) /\ UNCHANGED mRear
               ELSE mRear' = Add(mRear, n) /\ UNCHANGED mFront
  /\ spc' = IF Wakes(n) THEN "wake" ELSE IF n = sUnreleased THEN "idle" ELSE spc
  /\ UNCHANGED <<mFlush, mFutex, mFlags, mBuffers, clientVars, callVars,
                 ackFlush, sFlush, flush, rear, newFront, sShutdown,
                 mAvailToClient, flushPoint>>

(* After a shutdown, releaseBuffer() only forgets the buffer.              *)
ServerForget ==
  /\ sShutdown /\ spc \in {"obtained", "copied"}
  /\ spc' = "idle" /\ sRaw' = None
  /\ UNCHANGED <<indexVars, mFlush, mFutex, mFlags, mBuffers, clientVars,
                 callVars, ackFlush, sFlush, flush, rear, newFront,
                 sUnreleased, sShutdown, mAvailToClient, flushPoint>>

ServerWake ==
  /\ spc = "wake"
  /\ Wake
  /\ spc' = IF sUnreleased = 0 THEN "idle"
            ELSE IF mIsOut THEN "obtained" ELSE "copied"
  /\ UNCHANGED <<indexVars, mFlush, mFlags, mBuffers, op, timeout,
                 ignoreInterrupt, cUnreleased, cShutdown, expected, callVars,
                 ackFlush, sFlush, flush, rear, newFront, sUnreleased,
                 sShutdown, mAvailToClient, sRaw, flushPoint>>

(* setStreamEndDone(): sets the flag, and wakes with no deferred wake.     *)
SetStreamEndDone ==
  /\ Makes("streamEnd") /\ mIsOut
  /\ "STREAM_END_DONE" \notin mFlags /\ spc = "idle"
  /\ mFlags' = mFlags \cup {"STREAM_END_DONE"}
  /\ cpc' = Woken
  /\ UNCHANGED <<indexVars, mFlush, mFutex, mBuffers, op, timeout,
                 ignoreInterrupt, cUnreleased, cShutdown, expected, callVars,
                 serverVars, flushPoint>>

(* Track::invalidate(), RecordTrack::invalidate(): the flag, then a store  *)
(* to the futex, then a wake.                                              *)
Invalidate ==
  /\ Makes("invalidate")
  /\ \/ /\ invalidating = "no" /\ invalidating' = "store"
        /\ mFlags' = mFlags \cup {"INVALID"} /\ UNCHANGED <<mFutex, cpc>>
     \/ /\ invalidating = "store" /\ invalidating' = "wake"
        /\ mFutex' = {"0x40000000"} /\ UNCHANGED <<mFlags, cpc>>
     \/ /\ invalidating = "wake" /\ invalidating' = "done"
        /\ cpc' = Woken /\ UNCHANGED <<mFutex, mFlags>>
  /\ UNCHANGED <<indexVars, mFlush, mBuffers, op, timeout, ignoreInterrupt,
                 cUnreleased, cShutdown, expected, interrupting, dying, peeked,
                 serverVars, flushPoint>>

(* framesReady() on another thread than the one that obtains: loads mRear, *)
(* then mFront.                                                            *)
PeekRear ==
  /\ Makes("framesReady") /\ mIsOut /\ ~sShutdown
  /\ peeked = None /\ mFlush = sFlush
  /\ peeked' = mRear
  /\ UNCHANGED <<indexVars, mFlush, mFutex, mFlags, mBuffers, clientVars,
                 interrupting, dying, invalidating, serverVars, flushPoint>>

PeekFront ==
  /\ peeked # None
  /\ sShutdown' = (sShutdown \/ ~Sane(Filled(peeked, mFront)))
  /\ peeked' = None
  /\ UNCHANGED <<indexVars, mFlush, mFutex, mFlags, mBuffers, clientVars,
                 interrupting, dying, invalidating, spc, ackFlush, sFlush,
                 flush, rear, newFront, sUnreleased, mAvailToClient, sRaw,
                 flushPoint>>
-----------------------------------------------------------------------------
ClientStep == ObtainFlags \/ EndFlags \/ ClientLook \/ ClientDown \/ ClientWait
Client ==
  \/ \E o \in {"obtain", "end"}, t \in Timeouts :
       ClientCall(o, t)
  \/ ClientStep \/ WaitEnds \/ ClientCopy
  \/ \E n \in 1 .. mFrameCount : ClientRelease(n)
  \/ ClientFlush

Caller == Interrupt \/ BinderDied \/ InterruptWake

ServerStep ==
  \/ ServerObtain(FALSE) \/ ServerLoad \/ ServerFlush \/ ServerRebase
  \/ ServerFlushWake \/ ServerCopy \/ ServerWake \/ ServerForget
  \/ \E n \in 1 .. mFrameCount : ServerRelease(n)
Server == \/ ServerStep \/ ServerObtain(TRUE) \/ SetStreamEndDone \/ Invalidate
          \/ PeekRear \/ PeekFront

Next == (Client \/ Caller \/ Server) /\ UNCHANGED track

Spec == Init /\ [][Next]_<<track, vars>>

(* A call in progress goes on, finite waits end, and interrupt(),          *)
(* binderDied() and invalidate() complete.                                 *)
CallSpec == /\ Spec /\ WF_vars(ClientStep) /\ WF_vars(TimeoutEnds)
            /\ WF_vars(InterruptWake)
            /\ WF_vars(Invalidate /\ invalidating # "no")

(* The mixer, or the recorder, is periodic and serves an active track.     *)
ServerFairness == WF_vars(ServerStep)
-----------------------------------------------------------------------------
(* Properties *)

TypeOK ==
  /\ {mFront, mRear, mFlush, sFlush, flush, rear, newFront} \subseteq Counter
  /\ {sRaw, peeked, flushPoint} \subseteq Counter \cup {None}
  /\ mFutex \subseteq Bits /\ expected \subseteq Bits /\ mFlags \subseteq Flags
  /\ mBuffers \in [0 .. mFrameCountP2 - 1 -> Counter \cup {None}]
  /\ cpc \in {"idle", "flags", "look", "down", "wait", "asleep", "obtained",
              "copied"}
  /\ op \in {"obtain", "end"} /\ timeout \in Timeout
  /\ {ignoreInterrupt, cShutdown, sShutdown, interrupting, dying, ackFlush}
       \subseteq BOOLEAN
  /\ {cUnreleased, sUnreleased, mAvailToClient} \subseteq 0 .. mFrameCount
  /\ spc \in {"idle", "rear", "rebase", "flushWake", "obtained", "copied",
              "wake"}
  /\ invalidating \in {"no", "store", "wake", "done"}

(* The two sides use shared memory as they agreed, so neither ever finds   *)
(* the control block corrupt and shuts down (but for framesReady(), whose  *)
(* two loads on another thread may not belong together).                   *)
NeverCorrupt ==
  /\ Sane(Filled(mRear, mFront)) /\ ~cShutdown
  /\ sShutdown => Makes("framesReady")

(* "framesReady() may return an approximation of the number of frames if   *)
(* called from a different thread" (Tracks.cpp): an approximation, after   *)
(* which the track works on.                                               *)
PeekApproximates == ~sShutdown

(* What the reader holds is what was written there, in order, and it stays *)
(* so until it is released: no frame is overwritten, skipped or repeated   *)
(* under it.                                                               *)
ReaderHolds == IF mIsOut THEN IF spc = "obtained" THEN sUnreleased ELSE 0
               ELSE IF cpc = "obtained" THEN cUnreleased ELSE 0
ReaderAt == IF mIsOut THEN sRaw ELSE mFront

ReadsFrames ==
  \A k \in 0 .. ReaderHolds - 1 :
    mBuffers[Slot(ReaderAt + k)] = Add(mFront, k)

(* The ring is a FIFO of frames.                                           *)
Contents == [k \in 1 .. Filled(mRear, mFront) |->
               mBuffers[Slot(mFront + k - 1)]]

Fifo == INSTANCE FrameFifo WITH
          capacity <- mFrameCount, fifo <- Contents, next <- mRear
ImplementsFifo == Fifo!Spec

(* "mFlush: server notices and discards all data between mFront and mRear":*)
(* acknowledging the latest flush moves mFront just there, and no further. *)
FlushIsExact ==
  [][spc = "rebase" /\ spc' # spc /\ flush = mFlush
       => mFront' = flushPoint]_vars

(* A call returns once the track is invalid, or the server died.           *)
InvalidReturns == (Obtaining /\ "INVALID" \in mFlags) ~> ~Obtaining

(* interrupt() is a "Call to force an obtainBuffer() to return quickly     *)
(* with -EINTR", and ends waitStreamEndDone() as well; binderDied()        *)
(* invalidates the track.  Neither call is lost on a client that tests its *)
(* flags, looks at the ring or goes to sleep; but obtainBuffer() ignores   *)
(* an interrupt from before it was called.                                 *)
Interruptible == Obtaining /\ (op = "end" \/ ~ignoreInterrupt)
WaitsAreCut ==
  /\ (Interruptible /\ "INTERRUPT" \in mFlags) ~> ~Obtaining
  /\ InvalidReturns

(* obtainBuffer() returns, whatever its timeout, if the server serves.     *)
ObtainReturns ==
  ServerFairness => ((Obtaining /\ op = "obtain") ~> ~Obtaining)
=============================================================================
