------------------------------ MODULE MonoPipe ------------------------------
(***************************************************************************)
(* MonoPipe and MonoPipeReader (media/libnbaio): the pipe through which    *)
(* the normal mixer, its only writer, feeds the fast mixer, its only       *)
(* reader.                                                                 *)
(*                                                                         *)
(* The writer blocks while the pipe is full; an unrelated thread may shut  *)
(* the pipe down, which ends the wait.  The writer also asks when the next *)
(* frame it writes will be heard: a sequence number tells it whether the   *)
(* front and the time of the next read, which the reader stores one after  *)
(* the other, belong together.  Time is counted in frames.                 *)
(***************************************************************************)
EXTENDS Integers, Sequences

CONSTANTS
  mMaxFrames,
  W,            \* mFront and mRear wrap here, 2^32 in the code
  S,            \* mUpdateSeq wraps here, 2^31 in the code
  MaxCount,     \* frames of one read() or write()
  ReadTimes     \* what the reader passes as readPTS

ASSUME SizeAssumption ==
  /\ mMaxFrames \in Nat \ {0} /\ W \in Nat /\ W >= 2 * mMaxFrames
  /\ W % mMaxFrames = 0
  /\ S \in Nat \ {0} /\ MaxCount \in Nat \ {0} /\ ReadTimes \subseteq Nat

None == -1
kInvalidPTS == -2
Counter == 0 .. W - 1
Time == Nat \cup {kInvalidPTS}

VARIABLES
  mBuffer, mFront, mRear,
  mUpdateSeq,      \* its low bits
  updating,        \* its most significant bit
  mNextRdPTS,
  mIsShutdown, mWriteCanBlock,
  \* writer
  wpc, count, written,
  seqOne, outFront, outNextRdPTS, timestamp,
  \* reader
  rpc, red, nextReadPTS

pipeVars == <<mBuffer, mRear, mWriteCanBlock>>
seqVars == <<mUpdateSeq, updating>>
writeVars == <<count, written>>
observeVars == <<seqOne, outFront, outNextRdPTS, timestamp>>
writerVars == <<wpc, writeVars, observeVars>>
readerVars == <<rpc, red, nextReadPTS>>
vars == <<pipeVars, mFront, seqVars, mNextRdPTS, mIsShutdown, writerVars,
          readerVars>>

Init ==
  /\ mBuffer = [i \in 0 .. mMaxFrames - 1 |-> 0] /\ mFront = 0 /\ mRear = 0
  /\ mUpdateSeq = 0 /\ updating = FALSE /\ mNextRdPTS = kInvalidPTS
  /\ mIsShutdown = FALSE /\ mWriteCanBlock \in BOOLEAN
  /\ wpc = "idle" /\ count = 0 /\ written = 0
  /\ seqOne = None /\ outFront = None /\ outNextRdPTS = None /\ timestamp = None
  /\ rpc = "idle" /\ red = 0 /\ nextReadPTS = None

Filled == (mRear - mFront) % W

offsetTimestampByAudioFrames(ts, n) ==
  IF ts = kInvalidPTS THEN kInvalidPTS ELSE ts + n

Min2(a, b) == IF a <= b THEN a ELSE b
-----------------------------------------------------------------------------
(* Writer: write() *)

Write(n) ==
  /\ wpc = "idle" /\ wpc' = "avail" /\ count' = n
  /\ UNCHANGED <<pipeVars, mFront, seqVars, mNextRdPTS, mIsShutdown, written,
                 observeVars, readerVars>>

(* Faulty variant: room for one frame more, as in a ring that keeps none   *)
(* free but counts from the rear.                                          *)
AvailableOneMore ==
  /\ wpc = "avail" /\ wpc' = "copy"
  /\ written' = Min2(mMaxFrames + 1 - Filled, count)
  /\ UNCHANGED <<pipeVars, mFront, seqVars, mNextRdPTS, mIsShutdown, count,
                 observeVars, readerVars>>

Available ==
  /\ wpc = "avail" /\ wpc' = "copy"
  /\ written' = Min2(mMaxFrames - Filled, count)
  /\ UNCHANGED <<pipeVars, mFront, seqVars, mNextRdPTS, mIsShutdown, count,
                 observeVars, readerVars>>

(* The frames are numbered as the counter that publishes them.             *)
Copy ==
  /\ wpc = "copy" /\ wpc' = "publish"
  /\ mBuffer' = [i \in DOMAIN mBuffer |->
       LET k == (i - mRear) % mMaxFrames
       IN  IF k < written THEN (mRear + k) % W ELSE mBuffer[i]]
  /\ UNCHANGED <<mFront, mRear, mWriteCanBlock, seqVars, mNextRdPTS, mIsShutdown,
                 writeVars, observeVars, readerVars>>

Publish ==
  /\ wpc = "publish" /\ wpc' = "check"
  /\ mRear' = (mRear + written) % W
  /\ UNCHANGED <<mBuffer, mWriteCanBlock, mFront, seqVars, mNextRdPTS,
                 mIsShutdown, writeVars, observeVars, readerVars>>

(* Faulty variant: a pipe without room is waited for whatever happens.     *)
RepeatDeaf ==
  /\ wpc = "check"
  /\ count' = IF ~mWriteCanBlock \/ (mIsShutdown /\ written > 0) THEN 0
              ELSE count - written
  /\ wpc' = IF count' = 0 THEN "idle" ELSE "avail"
  /\ written' = 0
  /\ UNCHANGED <<pipeVars, mFront, seqVars, mNextRdPTS, mIsShutdown,
                 observeVars, readerVars>>

(* Return, or sleep for about as long as the frames last and go on.  The   *)
(* throttle, mSetpoint, only changes how long.                             *)
Repeat ==
  /\ wpc = "check"
  /\ count' = IF ~mWriteCanBlock \/ mIsShutdown THEN 0 ELSE count - written
  /\ wpc' = IF count' = 0 THEN "idle" ELSE "avail"
  /\ written' = 0
  /\ UNCHANGED <<pipeVars, mFront, seqVars, mNextRdPTS, mIsShutdown,
                 observeVars, readerVars>>
-----------------------------------------------------------------------------
(* Writer: getNextWriteTimestamp(), which the normal mixer calls before it *)
(* mixes.                                                                  *)

GetNextWriteTimestamp ==
  /\ wpc = "idle" /\ wpc' = "sequence"
  /\ UNCHANGED <<pipeVars, mFront, seqVars, mNextRdPTS, mIsShutdown, writeVars,
                 observeVars, readerVars>>

(* observeFrontAndNRPTS().  A try that begins during an update is repeated *)
(* whatever it loads; between the loads of the sequence the others may     *)
(* come in any order.                                                      *)
ObserveSequence ==
  /\ wpc = "sequence" /\ ~updating /\ wpc' = "load"
  /\ seqOne' = mUpdateSeq
  /\ UNCHANGED <<pipeVars, mFront, seqVars, mNextRdPTS, mIsShutdown, writeVars,
                 outFront, outNextRdPTS, timestamp, readerVars>>

ObserveFront ==
  /\ wpc = "load" /\ outFront = None /\ outFront' = mFront
  /\ UNCHANGED <<pipeVars, mFront, seqVars, mNextRdPTS, mIsShutdown, wpc,
                 writeVars, seqOne, outNextRdPTS, timestamp, readerVars>>

ObserveNRPTS ==
  /\ wpc = "load" /\ outNextRdPTS = None /\ outNextRdPTS' = mNextRdPTS
  /\ UNCHANGED <<pipeVars, mFront, seqVars, mNextRdPTS, mIsShutdown, wpc,
                 writeVars, seqOne, outFront, timestamp, readerVars>>

(* Faulty variant: only the number is compared, without the bit that says  *)
(* an update is going on.                                                  *)
ObservedLoosely == mUpdateSeq = seqOne

Observed == mUpdateSeq = seqOne /\ ~updating

ObserveDone ==
  /\ wpc = "load" /\ outFront # None /\ outNextRdPTS # None
  /\ IF Observed
     THEN /\ timestamp' = offsetTimestampByAudioFrames(outNextRdPTS,
                            (mRear - outFront) % mMaxFrames)
          /\ wpc' = "told"
     ELSE UNCHANGED timestamp /\ wpc' = "sequence"
  /\ seqOne' = None /\ outFront' = None /\ outNextRdPTS' = None
  /\ UNCHANGED <<pipeVars, mFront, seqVars, mNextRdPTS, mIsShutdown, writeVars,
                 readerVars>>

Told ==
  /\ wpc = "told" /\ wpc' = "idle" /\ timestamp' = None
  /\ UNCHANGED <<pipeVars, mFront, seqVars, mNextRdPTS, mIsShutdown, writeVars,
                 seqOne, outFront, outNextRdPTS, readerVars>>
-----------------------------------------------------------------------------
(* Reader *)

(* read(): what is there, when the pipe is asked for n frames at a time.   *)
Read(n, readPTS) ==
  /\ rpc = "idle" /\ rpc' = "begin"
  /\ red' = Min2(Filled, n)
  /\ nextReadPTS' = offsetTimestampByAudioFrames(readPTS, n)
  /\ UNCHANGED <<pipeVars, mFront, seqVars, mNextRdPTS, mIsShutdown, writerVars>>

(* updateFrontAndNRPTS(), after an underflow with the old front.  While    *)
(* the writer observes nobody reads so often that the sequence comes back. *)
BeginUpdate ==
  /\ rpc = "begin" /\ rpc' = "store"
  /\ (mUpdateSeq + 1) % S # seqOne
  /\ updating' = TRUE
  /\ UNCHANGED <<pipeVars, mFront, mUpdateSeq, mNextRdPTS, mIsShutdown,
                 writerVars, red, nextReadPTS>>

(* Between the stores of the sequence the others may come in any order.    *)
StoreFront ==
  /\ rpc \in {"store", "front"}
  /\ rpc' = IF rpc = "front" THEN "end" ELSE "time"
  /\ mFront' = (mFront + red) % W
  /\ red' = 0
  /\ UNCHANGED <<pipeVars, seqVars, mNextRdPTS, mIsShutdown, writerVars,
                 nextReadPTS>>

StoreNRPTS ==
  /\ rpc \in {"store", "time"}
  /\ rpc' = IF rpc = "time" THEN "end" ELSE "front"
  /\ mNextRdPTS' = nextReadPTS
  /\ nextReadPTS' = None
  /\ UNCHANGED <<pipeVars, mFront, seqVars, mIsShutdown, writerVars, red>>

(* Faulty variant: the number runs into the bit above it.                  *)
EndUpdateUnmasked ==
  /\ rpc = "end" /\ rpc' = "idle"
  /\ mUpdateSeq' = mUpdateSeq + 1 /\ updating' = FALSE
  /\ UNCHANGED <<pipeVars, mFront, mNextRdPTS, mIsShutdown, writerVars, red,
                 nextReadPTS>>

EndUpdate ==
  /\ rpc = "end" /\ rpc' = "idle"
  /\ mUpdateSeq' = (mUpdateSeq + 1) % S /\ updating' = FALSE
  /\ UNCHANGED <<pipeVars, mFront, mNextRdPTS, mIsShutdown, writerVars, red,
                 nextReadPTS>>
-----------------------------------------------------------------------------
(* shutdown(), called by an unrelated thread.                              *)
shutdown(newState) ==
  /\ mIsShutdown # newState /\ mIsShutdown' = newState
  /\ UNCHANGED <<pipeVars, mFront, seqVars, mNextRdPTS, writerVars, readerVars>>

(* The rest of a call the writer has begun.                                *)
WriterStep ==
  \/ Available \/ Copy \/ Publish \/ Repeat
  \/ ObserveSequence \/ ObserveFront \/ ObserveNRPTS \/ ObserveDone \/ Told

Writer == WriterStep \/ GetNextWriteTimestamp \/ \E n \in 1 .. MaxCount : Write(n)

Reader ==
  \/ \E n \in 1 .. MaxCount, t \in ReadTimes \cup {kInvalidPTS} : Read(n, t)
  \/ BeginUpdate \/ StoreFront \/ StoreNRPTS \/ EndUpdate

Next == Writer \/ Reader \/ \E b \in BOOLEAN : shutdown(b)

Spec == Init /\ [][Next]_vars

(* The writer's thread is scheduled; of the reader nothing is assumed.     *)
FairSpec == Spec /\ WF_vars(WriterStep)
-----------------------------------------------------------------------------
(* Properties *)

TypeOK ==
  /\ mBuffer \in [0 .. mMaxFrames - 1 -> Counter]
  /\ mFront \in Counter /\ mRear \in Counter
  /\ mUpdateSeq \in 0 .. S - 1 /\ updating \in BOOLEAN /\ mNextRdPTS \in Time
  /\ mIsShutdown \in BOOLEAN /\ mWriteCanBlock \in BOOLEAN
  /\ wpc \in {"idle", "avail", "copy", "publish", "check", "sequence", "load",
              "told"}
  /\ count \in 0 .. MaxCount /\ written \in 0 .. MaxCount
  /\ seqOne \in 0 .. S - 1 \cup {None} /\ outFront \in Counter \cup {None}
  /\ outNextRdPTS \in Time \cup {None} /\ timestamp \in Time \cup {None}
  /\ rpc \in {"idle", "begin", "store", "front", "time", "end"}
  /\ red \in 0 .. MaxCount /\ nextReadPTS \in Time \cup {None}

(* "MonoPipe is ... write() cannot overrun": the frames leave in the order *)
(* they came, each once, and what the reader copies stays until it moves   *)
(* the front, whatever the writer does.                                    *)
Fifo == INSTANCE FrameFifo WITH
          capacity <- mMaxFrames, next <- mRear,
          fifo <- [k \in 1 .. Filled |-> mBuffer[(mFront + k - 1) % mMaxFrames]]
ImplementsFifo == Fifo!Spec

(* "Perform an atomic observation of mFront and mNextRdPTS": at the moment *)
(* it gets its answer, the writer holds the front and the time of the next *)
(* read as they are, and the frame it writes next is read at the time it   *)
(* was told if the reader goes on steadily; unless the pipe is full, which *)
(* the remainder modulo mMaxFrames takes for empty.                        *)
TellsTheTime ==
  [][wpc = "load" /\ wpc' = "told" =>
       /\ outFront = mFront /\ outNextRdPTS = mNextRdPTS
       /\ Filled < mMaxFrames =>
            timestamp' = offsetTimestampByAudioFrames(mNextRdPTS, Filled)]_vars

(* getNextWriteTimestamp() returns "the value of the last read PTS plus    *)
(* the duration of the amt of data waiting to be read in the MonoPipe"     *)
(* (MonoPipe.h), however much that is.                                     *)
CountsWhatWaits ==
  [][wpc = "load" /\ wpc' = "told" =>
       timestamp' = offsetTimestampByAudioFrames(outNextRdPTS, Filled)]_vars

(* A write returns if the reader keeps reading, or if the pipe is shut     *)
(* down for good: "a write that would otherwise block instead returns",    *)
(* and not after "an unbounded amount of time".                            *)
KeepsReading == []<>(rpc = "begin") /\ []<>(rpc = "end")
Writing == wpc \in {"avail", "copy", "publish", "check"}
WriteReturns ==
  <>[]mIsShutdown \/ KeepsReading => (Writing ~> ~Writing)
=============================================================================
