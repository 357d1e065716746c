--------------------------- MODULE MonoPipeProofs ---------------------------
(***************************************************************************)
(* For every size of the pipe, every width of its counters and every       *)
(* number of frames a call moves: frames leave the pipe as they came, and  *)
(* the writer is told a front and a time that belong together.             *)
(***************************************************************************)
EXTENDS MonoPipe, SequenceTheorems, TLAPS

(* Remainders: the quotient exists, and the remainder is the only one.     *)
LEMMA Quotient ==
  ASSUME NEW m \in Nat \ {0}, NEW x \in Int
  PROVE  x % m \in 0 .. m - 1 /\ \E q \in Int : x = q * m + (x % m)
<1>1. x = (x \div m) * m + (x % m) /\ x \div m \in Int /\ x % m \in 0 .. m - 1
  BY Z3
<1>2. QED
  BY <1>1

LEMMA Remainder ==
  ASSUME NEW m \in Nat \ {0}, NEW q \in Int, NEW r \in 0 .. m - 1
  PROVE  (q * m + r) % m = r
BY SMT

(* A multiple of the divisor more or less makes no difference.             *)
LEMMA Congruent ==
  ASSUME NEW m \in Nat \ {0}, NEW x \in Int, NEW k \in Int
  PROVE  (x + k * m) % m = x % m
<1>1. PICK q \in Int : x = q * m + (x % m)
  BY Quotient
<1>2. x % m \in 0 .. m - 1 /\ q + k \in Int
  BY Quotient
<1>3. x + k * m = (q + k) * m + (x % m)
  BY <1>1, <1>2
<1>4. QED
  BY <1>2, <1>3, Remainder

(* Counters wrap at a multiple of the number of frames.                    *)
LEMMA Nested ==
  ASSUME NEW x \in Int, NEW n \in Int
  PROVE  ((x % W) + n) % mMaxFrames = (x + n) % mMaxFrames
<1>1. /\ mMaxFrames \in Nat \ {0} /\ W \in Nat \ {0}
      /\ W % mMaxFrames = 0 /\ W \in Int
  BY SizeAssumption
<1>2. PICK c \in Int : W = c * mMaxFrames
  <2>1. PICK c \in Int : W = c * mMaxFrames + (W % mMaxFrames)
    BY <1>1, Quotient, Zenon
  <2>2. QED
    BY <1>1, <2>1
<1>3. PICK q \in Int : x = q * W + (x % W)
  BY <1>1, Quotient
<1>4. x % W \in Int /\ q * c \in Int
  BY <1>1, Quotient
<1>5. x = (x % W) + (q * c) * mMaxFrames
  <2>1. q * W = (q * c) * mMaxFrames
    BY <1>1, <1>2
  <2>2. QED
    BY <1>1, <1>3, <1>4, <2>1
<1>6. x + n = ((x % W) + n) + (q * c) * mMaxFrames
  BY <1>1, <1>4, <1>5
<1>7. (x % W) + n \in Int
  BY <1>4
<1>8. (((x % W) + n) + (q * c) * mMaxFrames) % mMaxFrames
        = ((x % W) + n) % mMaxFrames
  BY <1>1, <1>4, <1>7, Congruent, Zenon
<1>9. QED
  BY <1>6, <1>8, Zenon

(* What the counters are after one of them moved.                          *)
LEMMA Wraps ==
  ASSUME NEW m \in Nat \ {0}, NEW x \in Int
  PROVE  /\ x \in 0 .. m - 1 => x % m = x
         /\ x \in m .. 2 * m - 1 => x % m = x - m
         /\ x \in -m .. -1 => x % m = x + m
BY SMT

LEMMA Difference ==
  ASSUME NEW m \in Nat \ {0}, NEW f \in 0 .. m - 1, NEW r \in 0 .. m - 1
  PROVE  (r - f) % m = IF r >= f THEN r - f ELSE r - f + m
<1> DEFINE d == r - f
<1>1. d \in Int /\ (r >= f => d \in 0 .. m - 1) /\ (r < f => d \in -m .. -1)
  OBVIOUS
<1> HIDE DEF d
<1>2. CASE r >= f
  <2>1. d % m = d
    BY <1>1, <1>2, Wraps, Zenon
  <2>2. QED
    BY <1>2, <2>1, Zenon DEF d
<1>3. CASE ~(r >= f)
  <2>1. r < f
    BY <1>3
  <2>2. d % m = d + m
    BY <1>1, <2>1, Wraps, Zenon
  <2>3. QED
    BY <1>3, <2>2, Zenon DEF d
<1>4. QED
  BY <1>2, <1>3

LEMMA Sum ==
  ASSUME NEW m \in Nat \ {0}, NEW f \in 0 .. m - 1, NEW n \in 0 .. m
  PROVE  /\ (f + n) % m = IF f + n < m THEN f + n ELSE f + n - m
         /\ (f + n) % m \in 0 .. m - 1
<1> DEFINE d == f + n
<1>1. /\ d \in Int /\ (f + n < m => d \in 0 .. m - 1)
      /\ (f + n >= m => d \in m .. 2 * m - 1)
  OBVIOUS
<1> HIDE DEF d
<1>2. CASE f + n < m
  <2>1. d % m = d
    BY <1>1, <1>2, Wraps, Zenon
  <2>2. QED
    BY <1>1, <1>2, <2>1 DEF d
<1>3. CASE ~(f + n < m)
  <2>1. f + n >= m
    BY <1>3
  <2>2. d % m = d - m
    BY <1>1, <2>1, Wraps, Zenon
  <2>3. QED
    BY <1>1, <1>3, <2>2 DEF d
<1>4. QED
  BY <1>2, <1>3

LEMMA Grows ==
  ASSUME NEW f \in Counter, NEW r \in Counter, NEW n \in Nat,
         ((r - f) % W) + n < W
  PROVE  (((r + n) % W) - f) % W = ((r - f) % W) + n
<1>0. W \in Nat \ {0} /\ Counter = 0 .. W - 1
  BY SizeAssumption DEF Counter
<1>a. (r - f) % W = IF r >= f THEN r - f ELSE r - f + W
  BY <1>0, Difference, Zenon
<1>b. (IF r >= f THEN r - f ELSE r - f + W) \in Int
  BY <1>0
<1>1. PICK d \in Int : d = (r - f) % W /\ d = IF r >= f THEN r - f ELSE r - f + W
  BY <1>a, <1>b, Zenon
<1>2. n \in 0 .. W
  BY <1>0, <1>1
<1>3. PICK s \in 0 .. W - 1 :
        s = (r + n) % W /\ s = IF r + n < W THEN r + n ELSE r + n - W
  BY <1>0, <1>2, Sum
<1>4. (s - f) % W = IF s >= f THEN s - f ELSE s - f + W
  BY <1>0, Difference
<1>5. (IF s >= f THEN s - f ELSE s - f + W) = d + n
  BY <1>0, <1>1, <1>3
<1>6. QED
  BY <1>1, <1>3, <1>4, <1>5

LEMMA Shrinks ==
  ASSUME NEW f \in Counter, NEW r \in Counter, NEW n \in 0 .. (r - f) % W
  PROVE  (r - ((f + n) % W)) % W = ((r - f) % W) - n
<1>0. W \in Nat \ {0} /\ Counter = 0 .. W - 1
  BY SizeAssumption DEF Counter
<1>a. (r - f) % W = IF r >= f THEN r - f ELSE r - f + W
  BY <1>0, Difference, Zenon
<1>b. (IF r >= f THEN r - f ELSE r - f + W) \in Int
  BY <1>0
<1>1. PICK d \in Int : d = (r - f) % W /\ d = IF r >= f THEN r - f ELSE r - f + W
  BY <1>a, <1>b, Zenon
<1>2. n \in 0 .. W
  BY <1>0, <1>1
<1>3. PICK s \in 0 .. W - 1 :
        s = (f + n) % W /\ s = IF f + n < W THEN f + n ELSE f + n - W
  BY <1>0, <1>2, Sum
<1>4. (r - s) % W = IF r >= s THEN r - s ELSE r - s + W
  BY <1>0, Difference
<1>5. (IF r >= s THEN r - s ELSE r - s + W) = d - n
  BY <1>0, <1>1, <1>3
<1>6. QED
  BY <1>1, <1>3, <1>4, <1>5
-----------------------------------------------------------------------------
(* Neither end of the pipe passes the other: the writer has room for what  *)
(* it is about to publish, the reader has what it is about to release.     *)
Bounded ==
  /\ Filled <= mMaxFrames
  /\ wpc \in {"copy", "publish"} => Filled + written <= mMaxFrames
  /\ wpc \in {"copy", "publish", "check"} => written <= count
  /\ red <= Filled

(* The reader sets the most significant bit while it stores, and has a time *)
(* to store until it has stored it.                                        *)
Updates ==
  /\ updating <=> rpc \in {"store", "front", "time", "end"}
  /\ rpc \in {"begin", "store", "time"} => nextReadPTS # None

(* The writer has loaded from one update only, unless the sequence it       *)
(* loaded is not the present one; an update in progress will change it.     *)
Observes ==
  /\ wpc = "load" <=> seqOne # None
  /\ wpc # "load" => outFront = None /\ outNextRdPTS = None
  /\ updating => (mUpdateSeq + 1) % S # seqOne
  /\ Observed => outFront \in {None, mFront} /\ outNextRdPTS \in {None, mNextRdPTS}

(* Frames k of the pipe, and those the writer has copied behind them, are  *)
(* the ones that were written.                                             *)
Numbered(n) ==
  \A k \in 0 .. n - 1 : mBuffer[(mFront + k) % mMaxFrames] = (mFront + k) % W

Contents ==
  /\ Numbered(Filled)
  /\ wpc = "publish" => Numbered(Filled + written)

IInv == TypeOK /\ Bounded /\ Updates /\ Observes /\ Contents

(* An empty pipe that nobody uses yet.                                     *)
LEMMA InitInv == Init => IInv
<1> SUFFICES ASSUME Init PROVE IInv
  OBVIOUS
<1>1. /\ mMaxFrames \in Nat \ {0} /\ W \in Nat /\ W > 0 /\ S \in Nat \ {0}
      /\ MaxCount \in Nat
  BY SizeAssumption
<1>2. 0 % W = 0 /\ Filled = 0
  BY <1>1, Wraps DEF Init, Filled
<1>3. TypeOK
  <2>1. 0 \in Counter /\ 0 \in 0 .. S - 1 /\ 0 \in 0 .. MaxCount
    BY <1>1 DEF Counter
  <2>2. mBuffer \in [0 .. mMaxFrames - 1 -> Counter]
    BY <2>1 DEF Init
  <2>3. /\ mIsShutdown \in BOOLEAN /\ mWriteCanBlock \in BOOLEAN
        /\ updating \in BOOLEAN
    BY DEF Init
  <2>4. QED
    BY <2>1, <2>2, <2>3 DEF Init, TypeOK, Time
<1>4. Bounded /\ Updates /\ Observes
  BY <1>1, <1>2 DEF Init, Bounded, Updates, Observes, Observed, None
<1>5. Contents
  BY <1>2 DEF Init, Contents, Numbered
<1>6. QED
  BY <1>3, <1>4, <1>5 DEF IInv

(* Which steps move the ends of the pipe.                                  *)
LEMMA EndsMove ==
  ASSUME TypeOK, Bounded, [Next]_vars
  PROVE  /\ Filled \in 0 .. mMaxFrames
         /\ Publish => Filled' = Filled + written
         /\ StoreFront => Filled' = Filled - red
         /\ \/ Publish \/ StoreFront
            \/ UNCHANGED <<mFront, mRear, Filled>>
<1>0. /\ mMaxFrames \in Nat \ {0} /\ W \in Nat \ {0} /\ 2 * mMaxFrames <= W
      /\ mFront \in Counter /\ mRear \in Counter
      /\ written \in Nat /\ red \in Nat
  BY SizeAssumption DEF TypeOK
<1>1. Filled \in 0 .. mMaxFrames
  <2>1. mRear - mFront \in Int
    BY <1>0 DEF Counter
  <2>2. Filled \in 0 .. W - 1
    BY <1>0, <2>1, Quotient DEF Filled
  <2>3. QED
    BY <1>0, <2>2 DEF Bounded
<1>2. ASSUME Publish PROVE Filled' = Filled + written
  <2>1. Filled + written < W
    BY <1>0, <1>1, <1>2 DEF Bounded, Publish
  <2>2. mRear' = (mRear + written) % W /\ mFront' = mFront
    BY <1>2 DEF Publish
  <2>3. QED
    BY <1>0, <2>1, <2>2, Grows DEF Filled
<1>3. ASSUME StoreFront PROVE Filled' = Filled - red
  <2>1. red \in 0 .. Filled
    BY <1>0, <1>1, <1>3 DEF Bounded
  <2>2. mFront' = (mFront + red) % W /\ mRear' = mRear
    BY <1>3 DEF StoreFront, pipeVars
  <2>3. QED
    BY <1>0, <2>1, <2>2, Shrinks DEF Filled
<1>4. ASSUME ~Publish, ~StoreFront PROVE UNCHANGED <<mFront, mRear, Filled>>
  <2>1. UNCHANGED <<mFront, mRear>>
    BY <1>4 DEF Next, Writer, WriterStep, Reader, vars, pipeVars,
       Write, Available, Copy, Repeat, GetNextWriteTimestamp, ObserveSequence,
       ObserveFront, ObserveNRPTS, ObserveDone, Told, Read, BeginUpdate,
       StoreNRPTS, EndUpdate, shutdown
  <2>2. QED
    BY <2>1 DEF Filled
<1>5. QED
  BY <1>1, <1>2, <1>3, <1>4

(* The states of the calls and the flags.                                  *)
LEMMA NextType == IInv /\ [Next]_vars => TypeOK'
<1> SUFFICES ASSUME IInv, [Next]_vars PROVE TypeOK'
  OBVIOUS
<1>0. /\ mMaxFrames \in Nat \ {0} /\ W \in Nat \ {0} /\ S \in Nat \ {0}
      /\ MaxCount \in Nat \ {0} /\ ReadTimes \subseteq Nat
      /\ Counter = 0 .. W - 1 /\ Counter \subseteq Int
  BY SizeAssumption DEF Counter
<1>a. /\ \A x \in Int : x % W \in Counter
      /\ \A x \in Int : x % S \in 0 .. S - 1
      /\ \A x \in Int : x % mMaxFrames \in 0 .. mMaxFrames - 1
  BY <1>0, Quotient, Zenon
<1>1. TypeOK /\ Bounded /\ Updates /\ Observes /\ Filled \in 0 .. mMaxFrames
  BY EndsMove DEF IInv
<1>2. \A t \in Time : \A n \in Nat : offsetTimestampByAudioFrames(t, n) \in Time
  BY DEF Time, offsetTimestampByAudioFrames, kInvalidPTS
<1> USE DEF TypeOK
<1>3. CASE Copy
  <2>1. \A i \in DOMAIN mBuffer :
          (IF ((i - mRear) % mMaxFrames) < written
           THEN (mRear + ((i - mRear) % mMaxFrames)) % W ELSE mBuffer[i])
            \in Counter
    <3>1. ASSUME NEW i \in 0 .. mMaxFrames - 1
          PROVE  (mRear + ((i - mRear) % mMaxFrames)) % W \in Counter
      <4>1. i - mRear \in Int
        BY <1>0, <1>1
      <4>2. (i - mRear) % mMaxFrames \in Int
        <5>1. (i - mRear) % mMaxFrames \in 0 .. mMaxFrames - 1
          BY <1>a, <4>1, Zenon
        <5>2. QED
          BY <1>0, <5>1
      <4>3. mRear + ((i - mRear) % mMaxFrames) \in Int
        BY <1>0, <1>1, <4>2
      <4>4. QED
        BY <1>a, <4>3, Zenon
    <3>2. QED
      BY <1>1, <3>1
  <2>2. mBuffer' \in [0 .. mMaxFrames - 1 -> Counter]
    BY <1>1, <1>3, <2>1 DEF Copy
  <2>3. QED
    BY <1>1, <1>3, <2>2 DEF Copy, seqVars, writeVars, observeVars, readerVars
<1>4. CASE Publish
  <2>1. mRear' \in Counter
    <3>1. mRear + written \in Int /\ mRear' = (mRear + written) % W
      BY <1>0, <1>1, <1>4 DEF Publish
    <3>2. QED
      BY <1>a, <3>1, Zenon
  <2>2. QED
    BY <1>1, <1>4, <2>1
    DEF Publish, pipeVars, seqVars, writeVars, observeVars, readerVars
<1>5. CASE StoreFront
  <2>1. mFront' \in Counter
    <3>1. mFront + red \in Int /\ mFront' = (mFront + red) % W
      BY <1>0, <1>1, <1>5 DEF StoreFront
    <3>2. QED
      BY <1>a, <3>1, Zenon
  <2>2. QED
    BY <1>0, <1>1, <1>5, <2>1
    DEF StoreFront, pipeVars, seqVars, writerVars, writeVars, observeVars,
        readerVars
<1>6. CASE EndUpdate
  <2>1. mUpdateSeq' \in 0 .. S - 1
    <3>1. mUpdateSeq + 1 \in Int /\ mUpdateSeq' = (mUpdateSeq + 1) % S
      BY <1>0, <1>1, <1>6, SMTT(60) DEF EndUpdate
    <3>2. QED
      BY <1>a, <3>1, ZenonT(60)
  <2>2. /\ UNCHANGED <<pipeVars, mFront, mNextRdPTS, mIsShutdown, writerVars, red,
                        nextReadPTS>>
    BY <1>6, Zenon DEF EndUpdate
  <2>3. updating' \in BOOLEAN
    BY <1>6, Zenon DEF EndUpdate
  <2>4. rpc' \in {"idle", "begin", "store", "front", "time", "end"}
    BY <1>6 DEF EndUpdate
  <2>5. QED
    BY <1>1, <2>1, <2>2, <2>3, <2>4, ZenonT(60)
    DEF pipeVars, writerVars, writeVars, observeVars
<1>7. CASE ObserveDone
  <2>1. timestamp' \in Time \cup {None}
    <3>1. CASE Observed
      <4>1. outFront \in Counter /\ outNextRdPTS \in Time
        BY <1>1, <1>7 DEF ObserveDone
      <4>2. mRear - outFront \in Int
        BY <1>0, <1>1, <4>1
      <4>3. (mRear - outFront) % mMaxFrames \in Nat
        <5>1. (mRear - outFront) % mMaxFrames \in 0 .. mMaxFrames - 1
          BY <1>a, <4>2, Zenon
        <5>2. QED
          BY <1>0, <5>1
      <4>4. timestamp' = offsetTimestampByAudioFrames(outNextRdPTS,
                           (mRear - outFront) % mMaxFrames)
        BY <1>7, <3>1 DEF ObserveDone
      <4>5. QED
        BY <1>2, <4>1, <4>3, <4>4, Zenon
    <3>2. CASE ~Observed
      BY <1>1, <1>7, <3>2 DEF ObserveDone
    <3>3. QED
      BY <3>1, <3>2
  <2>2. wpc' \in {"told", "sequence"}
    BY <1>7 DEF ObserveDone
  <2>3. QED
    BY <1>1, <1>7, <2>1, <2>2 DEF ObserveDone, pipeVars, seqVars, writeVars,
       readerVars
<1>8. CASE \E n \in 1 .. MaxCount, t \in ReadTimes \cup {kInvalidPTS} : Read(n, t)
  <2>1. PICK n \in 1 .. MaxCount, t \in ReadTimes \cup {kInvalidPTS} : Read(n, t)
    BY <1>8
  <2>2. nextReadPTS' \in Time
    <3>1. t \in Time /\ n \in Nat
      BY <1>0 DEF Time
    <3>2. QED
      BY <1>2, <2>1, <3>1 DEF Read
  <2>0. red' \in 0 .. MaxCount
    BY <1>0, <1>1, <2>1 DEF Read, Min2
  <2>3. QED
    BY <1>1, <2>0, <2>1, <2>2 DEF Read, pipeVars, seqVars, writerVars, writeVars,
       observeVars
<1>9. CASE Available \/ Repeat \/ \E n \in 1 .. MaxCount : Write(n)
  <2>1. count' \in 0 .. MaxCount /\ written' \in 0 .. MaxCount
    <3>1. CASE Available
      BY <1>0, <1>1, <3>1 DEF Available, Min2
    <3>2. CASE Repeat
      BY <1>0, <1>1, <3>2 DEF Repeat, Bounded
    <3>3. CASE \E n \in 1 .. MaxCount : Write(n)
      BY <1>0, <1>1, <3>3 DEF Write
    <3>4. QED
      BY <1>9, <3>1, <3>2, <3>3
  <2>2. QED
    BY <1>1, <1>9, <2>1 DEF Available, Repeat, Write, pipeVars, seqVars,
       observeVars, readerVars
<1>10. CASE \/ GetNextWriteTimestamp \/ ObserveSequence \/ ObserveFront
            \/ ObserveNRPTS \/ Told
  BY <1>1, <1>10 DEF GetNextWriteTimestamp, ObserveSequence, ObserveFront,
     ObserveNRPTS, Told, pipeVars, seqVars, writeVars, observeVars, readerVars
<1>11. CASE StoreNRPTS
  <2>1. mNextRdPTS' \in Time
    BY <1>1, <1>11 DEF StoreNRPTS, Updates
  <2>2. QED
    BY <1>1, <1>11, <2>1 DEF StoreNRPTS, pipeVars, seqVars, writerVars,
       writeVars, observeVars
<1>12. CASE BeginUpdate \/ (\E b \in BOOLEAN : shutdown(b)) \/ UNCHANGED vars
  <2>1. CASE BeginUpdate
    BY <1>1, <2>1, SMTT(60) DEF BeginUpdate, pipeVars, writerVars, writeVars,
       observeVars
  <2>2. CASE \E b \in BOOLEAN : shutdown(b)
    BY <1>1, <2>2, SMTT(60) DEF shutdown, pipeVars, seqVars, writerVars, writeVars,
       observeVars, readerVars
  <2>3. CASE UNCHANGED vars
    BY <1>1, <2>3, SMTT(60) DEF vars, pipeVars, seqVars, writerVars, writeVars,
       observeVars, readerVars
  <2>4. QED
    BY <1>12, <2>1, <2>2, <2>3, Zenon
<1>13. QED
  BY <1>3, <1>4, <1>5, <1>6, <1>7, <1>8, <1>9, <1>10, <1>11, <1>12
  DEF Next, Writer, WriterStep, Reader

(* The writer publishes what it found room for, the reader releases what   *)
(* it found; the other only makes more room, or more to read.              *)
LEMMA NextBounded == IInv /\ [Next]_vars => Bounded'
<1> SUFFICES ASSUME IInv, [Next]_vars PROVE Bounded'
  OBVIOUS
<1>1. /\ TypeOK /\ Bounded /\ mMaxFrames \in Nat
      /\ count \in Nat /\ written \in Nat /\ red \in Nat
  BY SizeAssumption DEF IInv, TypeOK
<1>2. /\ Filled \in 0 .. mMaxFrames
      /\ Publish => Filled' = Filled + written
      /\ StoreFront => Filled' = Filled - red
      /\ \/ Publish \/ StoreFront
         \/ UNCHANGED <<mFront, mRear, Filled>>
  BY <1>1, EndsMove
<1> USE DEF Bounded
<1>3. CASE Publish
  <2>1. Filled' = Filled + written
    BY <1>2, <1>3
  <2>2. QED
    BY <1>1, <1>2, <1>3, <2>1 DEF Publish, writeVars, readerVars
<1>4. CASE StoreFront
  <2>1. Filled' = Filled - red
    BY <1>2, <1>4
  <2>2. QED
    BY <1>1, <1>2, <1>4, <2>1 DEF StoreFront, writerVars, writeVars
<1>5. ASSUME ~Publish, ~StoreFront PROVE Bounded'
  <2>1. Filled' = Filled
    BY <1>2, <1>5
  <2>2. CASE Available
    BY <1>1, <1>2, <2>1, <2>2 DEF Available, Min2, readerVars
  <2>3. CASE Copy \/ Repeat \/ GetNextWriteTimestamp \/ ObserveSequence
             \/ ObserveFront \/ ObserveNRPTS \/ ObserveDone \/ Told
             \/ \E n \in 1 .. MaxCount : Write(n)
    BY <1>1, <2>1, <2>3 DEF Copy, Repeat, Write, GetNextWriteTimestamp,
       ObserveSequence, ObserveFront, ObserveNRPTS, ObserveDone, Told,
       writeVars, readerVars
  <2>4. CASE \E n \in 1 .. MaxCount, t \in ReadTimes \cup {kInvalidPTS} : Read(n, t)
    <3>1. PICK n \in 1 .. MaxCount, t \in ReadTimes \cup {kInvalidPTS} : Read(n, t)
      BY <2>4
    <3>2. red' <= Filled
      BY <1>2, <3>1 DEF Read, Min2
    <3>3. QED
      BY <1>1, <2>1, <3>1, <3>2 DEF Read, writerVars, writeVars
  <2>5. CASE \/ BeginUpdate \/ StoreNRPTS \/ EndUpdate
             \/ (\E b \in BOOLEAN : shutdown(b)) \/ UNCHANGED vars
    BY <1>1, <2>1, <2>5 DEF BeginUpdate, StoreNRPTS, EndUpdate, shutdown, vars,
       writerVars, writeVars, readerVars
  <2>6. QED
    BY <1>5, <2>2, <2>3, <2>4, <2>5 DEF Next, Writer, WriterStep, Reader
<1>6. QED
  BY <1>3, <1>4, <1>5

(* The reader's stores, and the writer's loads between them.               *)
LEMMA NextUpdates == IInv /\ [Next]_vars => Updates' /\ Observes'
<1> SUFFICES ASSUME IInv, [Next]_vars PROVE Updates' /\ Observes'
  OBVIOUS
<1>1. /\ Updates /\ Observes
      /\ mUpdateSeq \in 0 .. S - 1 /\ updating \in BOOLEAN
      /\ seqOne \in 0 .. S - 1 \cup {None}
      /\ mFront \in Counter /\ mNextRdPTS \in Time
      /\ outFront \in Counter \cup {None} /\ outNextRdPTS \in Time \cup {None}
      /\ None \notin Counter \cup Time \cup (0 .. S - 1)
  BY SizeAssumption DEF IInv, TypeOK, Counter, Time, None, kInvalidPTS
<1> USE DEF Updates, Observes, Observed
<1>2. CASE Available \/ Copy \/ Publish \/ Repeat \/ GetNextWriteTimestamp
           \/ (\E n \in 1 .. MaxCount : Write(n))
           \/ (\E b \in BOOLEAN : shutdown(b)) \/ UNCHANGED vars \/ Told
  BY <1>1, <1>2 DEF Available, Copy, Publish, Repeat, GetNextWriteTimestamp,
     Write, shutdown, vars, Told, seqVars, observeVars, writerVars, readerVars
<1>3. CASE ObserveSequence
  <2>1. UNCHANGED <<rpc, nextReadPTS, updating, mUpdateSeq>> /\ ~updating
        /\ seqOne' # None /\ wpc' = "load" /\ wpc # "load"
        /\ UNCHANGED <<outFront, outNextRdPTS>>
    BY <1>1, <1>3 DEF ObserveSequence, seqVars, readerVars
  <2>2. QED
    BY <1>1, <2>1
<1>4. CASE ObserveFront \/ ObserveNRPTS \/ ObserveDone
  <2>1. UNCHANGED <<rpc, nextReadPTS, updating, mUpdateSeq, mFront, mNextRdPTS>>
    BY <1>4 DEF ObserveFront, ObserveNRPTS, ObserveDone, seqVars, readerVars
  <2>2. CASE ObserveFront \/ ObserveNRPTS
    BY <1>1, <2>1, <2>2 DEF ObserveFront, ObserveNRPTS
  <2>3. CASE ObserveDone
    <3>1. /\ seqOne' = None /\ outFront' = None /\ outNextRdPTS' = None
          /\ wpc' # "load"
      BY <2>3 DEF ObserveDone
    <3>2. updating => (mUpdateSeq + 1) % S # None
      <4>1. mUpdateSeq + 1 \in Int /\ S \in Nat \ {0}
        BY <1>1, SizeAssumption
      <4>2. (mUpdateSeq + 1) % S \in 0 .. S - 1
        BY <4>1, Quotient, Zenon
      <4>3. QED
        BY <1>1, <4>2, Zenon
    <3>3. QED
      BY <1>1, <2>1, <3>1, <3>2, Zenon
  <2>4. QED
    BY <1>4, <2>2, <2>3
<1>5. CASE \E n \in 1 .. MaxCount, t \in ReadTimes \cup {kInvalidPTS} : Read(n, t)
  <2>1. PICK n \in 1 .. MaxCount, t \in ReadTimes \cup {kInvalidPTS} : Read(n, t)
    BY <1>5
  <2>2. nextReadPTS' # None
    BY <2>1, SizeAssumption
    DEF Read, offsetTimestampByAudioFrames, kInvalidPTS, None
  <2>3. QED
    BY <1>1, <2>1, <2>2 DEF Read, seqVars, writerVars, observeVars
<1>6. CASE BeginUpdate
  BY <1>1, <1>6 DEF BeginUpdate, writerVars, observeVars
<1>7. CASE StoreFront \/ StoreNRPTS
  BY <1>1, <1>7 DEF StoreFront, StoreNRPTS, seqVars, writerVars, observeVars
<1>8. CASE EndUpdate
  BY <1>1, <1>8 DEF EndUpdate, writerVars, observeVars
<1>9. QED
  BY <1>2, <1>3, <1>4, <1>5, <1>6, <1>7, <1>8
  DEF Next, Writer, WriterStep, Reader

-----------------------------------------------------------------------------
(* Counters that differ by a multiple of W number the same frame.          *)
LEMMA Divided ==
  ASSUME NEW m \in Nat \ {0}, NEW x \in Int
  PROVE  \E q \in Int, r \in 0 .. m - 1 : x = q * m + r /\ x % m = r
BY Quotient, Zenon

LEMMA NestedWrap ==
  ASSUME NEW m \in Nat \ {0}, NEW x \in Int, NEW n \in Int
  PROVE  ((x % m) + n) % m = (x + n) % m
<1>1. PICK q \in Int, r \in 0 .. m - 1 : x = q * m + r /\ x % m = r
  BY Divided
<1>2. r + n \in Int /\ x + n = (r + n) + q * m
  BY <1>1
<1>3. ((r + n) + q * m) % m = (r + n) % m
  BY <1>2, Congruent, Zenon
<1>4. QED
  BY <1>1, <1>2, <1>3, Zenon

(* The place of the j-th frame, counted from the writer's end.             *)
LEMMA FromTheRear ==
  ASSUME NEW f \in Counter, NEW r \in Counter, NEW j \in Int
  PROVE  /\ (((f + j) % mMaxFrames) - r) % mMaxFrames
               = (j - ((r - f) % W)) % mMaxFrames
         /\ (r + (j - ((r - f) % W))) % W = (f + j) % W
<1>0. /\ mMaxFrames \in Nat \ {0} /\ W \in Nat \ {0} /\ f \in Int /\ r \in Int
      /\ Counter = 0 .. W - 1
  BY SizeAssumption DEF Counter
<1>1. PICK d \in Int : d = (r - f) % W /\ \E c \in Int : r - f = c * W + d
  <2>1. r - f \in Int
    BY <1>0
  <2>2. /\ (r - f) % W \in 0 .. W - 1
        /\ \E c \in Int : r - f = c * W + ((r - f) % W)
    BY <1>0, <2>1, Quotient, Zenon
  <2>3. (r - f) % W \in Int
    BY <1>0, <2>2
  <2>4. QED
    BY <2>2, <2>3, Zenon
<1>2. PICK c \in Int : r - f = c * W + d
  BY <1>1
<1>3. (((f + j) % mMaxFrames) - r) % mMaxFrames = (j - d) % mMaxFrames
  <2>1. (((f + j) % mMaxFrames) + (-r)) % mMaxFrames
          = ((f + j) + (-r)) % mMaxFrames
    <3>1. f + j \in Int /\ -r \in Int
      BY <1>0
    <3>2. QED
      BY <1>0, <3>1, NestedWrap, Zenon
  <2>2. PICK e \in Int : W = e * mMaxFrames
    <3>1. W \in Int
      BY <1>0
    <3>2. PICK e \in Int, y \in 0 .. mMaxFrames - 1 :
            W = e * mMaxFrames + y /\ W % mMaxFrames = y
      BY <1>0, <3>1, Divided, Zenon
    <3>3. y = 0
      BY <3>2, SizeAssumption, Zenon
    <3>4. W = e * mMaxFrames
      BY <1>0, <3>2, <3>3
    <3>5. QED
      BY <3>4
  <2>3. c * W = (c * e) * mMaxFrames /\ -(c * e) \in Int
    BY <1>0, <2>2
  <2>4. (f + j) + (-r) = (j - d) + (-(c * e)) * mMaxFrames
    <3>1. PICK z \in Int : z = c * e /\ c * W = z * mMaxFrames
      BY <2>3
    <3>2. (f + j) + (-r) = (j - d) + (-z) * mMaxFrames
      BY <1>0, <1>2, <3>1
    <3>3. QED
      BY <3>1, <3>2
  <2>5. ((j - d) + (-(c * e)) * mMaxFrames) % mMaxFrames = (j - d) % mMaxFrames
    <3>1. j - d \in Int
      OBVIOUS
    <3>2. QED
      BY <1>0, <2>3, <3>1, Congruent, Zenon
  <2>6. ((f + j) % mMaxFrames) + (-r) = ((f + j) % mMaxFrames) - r
    <3>1. (f + j) % mMaxFrames \in 0 .. mMaxFrames - 1
      <4>1. f + j \in Int
        BY <1>0
      <4>2. QED
        BY <1>0, <4>1, Quotient, Zenon
    <3>2. PICK y \in Int : y = (f + j) % mMaxFrames
      BY <1>0, <3>1
    <3>3. y + (-r) = y - r
      BY <1>0
    <3>4. QED
      BY <3>2, <3>3, Zenon
  <2>7. QED
    BY <2>1, <2>4, <2>5, <2>6, Zenon
<1>4. (r + (j - d)) % W = (f + j) % W
  <2>1. r + (j - d) = (f + j) + c * W
    BY <1>0, <1>2
  <2>2. ((f + j) + c * W) % W = (f + j) % W
    <3>1. f + j \in Int
      BY <1>0
    <3>2. QED
      BY <1>0, <3>1, Congruent, Zenon
  <2>3. QED
    BY <2>1, <2>2, Zenon
<1>5. QED
  BY <1>1, <1>3, <1>4, Zenon

(* Copying puts the new frames behind the old ones and over none of them.  *)
LEMMA CopyKeeps ==
  ASSUME TypeOK, Bounded, Numbered(Filled), Copy
  PROVE  Numbered(Filled + written)'
<1>0. /\ mMaxFrames \in Nat \ {0} /\ written \in Nat
      /\ mFront \in Counter /\ mRear \in Counter /\ mFront \in Int
      /\ Filled + written <= mMaxFrames
      /\ mBuffer \in [0 .. mMaxFrames - 1 -> Counter]
      /\ UNCHANGED <<mFront, mRear, written, Filled>>
  BY SizeAssumption
  DEF TypeOK, Bounded, Copy, writeVars, Counter, Filled
<1>1. Filled \in Nat
  <2>1. mRear - mFront \in Int /\ W \in Nat \ {0}
    BY <1>0, SizeAssumption DEF Counter
  <2>2. Filled \in 0 .. W - 1
    BY <2>1, Quotient, Zenon DEF Filled
  <2>3. QED
    BY <2>1, <2>2
<1>2. ASSUME NEW j \in 0 .. (Filled + written) - 1
      PROVE  mBuffer'[(mFront + j) % mMaxFrames] = (mFront + j) % W
  <2> DEFINE i == (mFront + j) % mMaxFrames
             k == (i - mRear) % mMaxFrames
  <2>0. j \in Int /\ j - Filled \in Int /\ mFront + j \in Int
    BY <1>0, <1>1
  <2>1. i \in 0 .. mMaxFrames - 1
    BY <1>0, <2>0, Quotient, Zenon
  <2>2. /\ k = (j - Filled) % mMaxFrames
        /\ (mRear + (j - Filled)) % W = (mFront + j) % W
    BY <1>0, <2>0, FromTheRear DEF Filled
  <2>3. mBuffer'[i] = IF k < written THEN (mRear + k) % W ELSE mBuffer[i]
    BY <1>0, <2>1 DEF Copy
  <2> HIDE DEF i, k
  <2>4. CASE j < Filled
    <3>1. j - Filled \in -mMaxFrames .. -1
      BY <1>0, <1>1, <2>4
    <3>2. k = (j - Filled) + mMaxFrames
      BY <1>0, <2>0, <2>2, <3>1, Wraps, Zenon
    <3>3. ~(k < written)
      BY <1>0, <1>1, <3>2
    <3>4. mBuffer[i] = (mFront + j) % W
      <4>1. j \in 0 .. Filled - 1
        BY <1>1, <2>4
      <4>2. QED
        BY <4>1 DEF Numbered, i
    <3>5. QED
      BY <2>3, <3>3, <3>4, Zenon DEF i
  <2>5. CASE ~(j < Filled)
    <3>1. j - Filled \in 0 .. mMaxFrames - 1 /\ j - Filled < written
      BY <1>0, <1>1, <2>5
    <3>2. k = j - Filled
      BY <1>0, <2>0, <2>2, <3>1, Wraps, Zenon
    <3>3. k < written /\ mRear + k = mRear + (j - Filled)
      BY <3>1, <3>2
    <3>4. QED
      BY <2>2, <2>3, <3>3, Zenon DEF i
  <2>6. QED
    BY <2>4, <2>5
<1>3. \A j \in 0 .. (Filled + written)' - 1 :
        mBuffer'[(mFront' + j) % mMaxFrames] = (mFront' + j) % W
  BY <1>0, <1>2
<1>4. QED
  BY <1>3, Zenon DEF Numbered

(* The reader's end moves past the frames it releases.                     *)
LEMMA ReadKeeps ==
  ASSUME TypeOK, StoreFront, NEW n \in Nat, Numbered(n), red <= n
  PROVE  \A j \in 0 .. n - red - 1 :
           mBuffer'[(mFront' + j) % mMaxFrames] = (mFront' + j) % W
<1>0. /\ W \in Nat \ {0} /\ mFront \in Int /\ red \in Nat
      /\ mFront' = (mFront + red) % W /\ mBuffer' = mBuffer
  BY SizeAssumption DEF TypeOK, StoreFront, pipeVars, Counter
<1>1. ASSUME NEW j \in 0 .. n - red - 1
      PROVE  mBuffer'[(mFront' + j) % mMaxFrames] = (mFront' + j) % W
  <2>1. /\ red + j \in 0 .. n - 1 /\ j \in Int /\ mFront + red \in Int
        /\ mFront + (red + j) = (mFront + red) + j
    BY <1>0
  <2>2. mBuffer[((mFront + red) + j) % mMaxFrames] = ((mFront + red) + j) % W
    BY <2>1, Zenon DEF Numbered
  <2>3. (mFront' + j) % mMaxFrames = ((mFront + red) + j) % mMaxFrames
    BY <1>0, <2>1, Nested, Zenon
  <2>4. (mFront' + j) % W = ((mFront + red) + j) % W
    BY <1>0, <2>1, NestedWrap, Zenon
  <2>5. QED
    BY <1>0, <2>2, <2>3, <2>4, Zenon
<1>2. QED
  BY <1>1

(* One step keeps the frames in the pipe.                                  *)
LEMMA NextContents == IInv /\ [Next]_vars => Contents'
<1> SUFFICES ASSUME IInv, [Next]_vars PROVE Contents'
  OBVIOUS
<1>1. /\ TypeOK /\ Bounded /\ Contents /\ written \in Nat /\ red \in Nat
      /\ Filled \in 0 .. mMaxFrames /\ Filled \in Nat
      /\ Publish => Filled' = Filled + written
      /\ StoreFront => Filled' = Filled - red
      /\ \/ Publish \/ StoreFront
         \/ UNCHANGED <<mFront, mRear, Filled>>
  BY EndsMove, SizeAssumption DEF IInv, TypeOK
<1>2. CASE Copy
  <2>1. Numbered(Filled + written)' /\ UNCHANGED <<Filled, written>>
    BY <1>1, <1>2, CopyKeeps DEF Contents, Copy, writeVars, Filled
  <2>2. Numbered(Filled)'
    BY <1>1, <2>1 DEF Numbered
  <2>3. QED
    BY <2>1, <2>2 DEF Contents
<1>3. CASE Publish
  <2>1. /\ Numbered(Filled + written) /\ Filled' = Filled + written
        /\ UNCHANGED <<mBuffer, mFront>> /\ wpc' # "publish"
    BY <1>1, <1>3 DEF Publish, Contents
  <2>2. QED
    BY <2>1, Zenon DEF Contents, Numbered
<1>4. CASE StoreFront
  <2>1. UNCHANGED <<wpc, written>> /\ Filled' = Filled - red /\ red <= Filled
    BY <1>1, <1>4 DEF StoreFront, writerVars, writeVars, Bounded
  <2>2. Numbered(Filled)'
    <3>1. \A j \in 0 .. Filled - red - 1 :
            mBuffer'[(mFront' + j) % mMaxFrames] = (mFront' + j) % W
      BY <1>1, <1>4, <2>1, ReadKeeps, Zenon DEF Contents
    <3>2. QED
      BY <2>1, <3>1, Zenon DEF Numbered
  <2>3. ASSUME wpc = "publish" PROVE Numbered(Filled + written)'
    <3>1. /\ Numbered(Filled + written) /\ Filled + written \in Nat
          /\ red <= Filled + written
          /\ (Filled + written)' = (Filled + written) - red
      BY <1>1, <2>1, <2>3 DEF Contents
    <3>2. \A j \in 0 .. (Filled + written) - red - 1 :
            mBuffer'[(mFront' + j) % mMaxFrames] = (mFront' + j) % W
      BY <1>1, <1>4, <3>1, ReadKeeps, Zenon
    <3>3. QED
      BY <3>1, <3>2, Zenon DEF Numbered
  <2>4. QED
    BY <2>1, <2>2, <2>3 DEF Contents
<1>5. ASSUME ~Copy, ~Publish, ~StoreFront PROVE Contents'
  <2>1. UNCHANGED <<mFront, Filled>>
    BY <1>1, <1>5
  <2>2. /\ UNCHANGED mBuffer
        /\ wpc' = "publish" => wpc = "publish" /\ written' = written
    BY <1>5 DEF Next, Writer, WriterStep, Reader, vars, pipeVars, writerVars,
       writeVars, Write, Available, Repeat, GetNextWriteTimestamp,
       ObserveSequence, ObserveFront, ObserveNRPTS, ObserveDone, Told, Read,
       BeginUpdate, StoreNRPTS, EndUpdate, shutdown
  <2>3. QED
    BY <1>1, <2>1, <2>2, Zenon DEF Contents, Numbered
<1>6. QED
  BY <1>2, <1>3, <1>4, <1>5

(* The invariant holds in every reachable state.                           *)
THEOREM Inductive == Spec => []IInv
<1>1. IInv /\ [Next]_vars => IInv'
  BY NextType, NextBounded, NextUpdates, NextContents DEF IInv
<1>2. QED
  BY InitInv, <1>1, PTL DEF Spec

(* Every variable has its type: in particular the writer never has to copy  *)
(* a negative number of frames, and the reader always stores a time.       *)
THEOREM TypeCorrect == Spec => []TypeOK
<1>1. IInv => TypeOK
  BY DEF IInv
<1>2. QED
  BY Inductive, <1>1, PTL

(* The writer gets its answer only if no update began or ended since it    *)
(* loaded the sequence: the front and the time it loaded belong together,  *)
(* and the sum is the time of the frame it writes next.                    *)
THEOREM TimeIsTold == Spec => TellsTheTime
<1>1. ASSUME IInv, [Next]_vars, wpc = "load", wpc' = "told"
      PROVE  /\ outFront = mFront /\ outNextRdPTS = mNextRdPTS
             /\ Filled < mMaxFrames =>
                  timestamp' = offsetTimestampByAudioFrames(mNextRdPTS, Filled)
  <2>1. ObserveDone
    BY <1>1 DEF Next, Writer, WriterStep, Reader, vars, writerVars,
       Write, Available, Copy, Publish, Repeat, GetNextWriteTimestamp,
       ObserveSequence, ObserveFront, ObserveNRPTS, Told, Read, BeginUpdate,
       StoreFront, StoreNRPTS, EndUpdate, shutdown
  <2>2. /\ Observed /\ outFront # None /\ outNextRdPTS # None
        /\ timestamp' = offsetTimestampByAudioFrames(outNextRdPTS,
                          (mRear - outFront) % mMaxFrames)
    BY <1>1, <2>1 DEF ObserveDone
  <2>3. outFront = mFront /\ outNextRdPTS = mNextRdPTS
    BY <1>1, <2>2 DEF IInv, Observes
  <2>4. ASSUME Filled < mMaxFrames PROVE (mRear - mFront) % mMaxFrames = Filled
    <3>1. /\ mMaxFrames \in Nat \ {0} /\ mRear - mFront \in Int
          /\ Filled \in 0 .. mMaxFrames
      BY <1>1, EndsMove, SizeAssumption DEF IInv, TypeOK, Counter
    <3>2. Filled \in 0 .. mMaxFrames - 1 /\ Filled \in Int /\ Filled + 0 = Filled
          /\ 0 \in Int
          /\ (mRear - mFront) + 0 = mRear - mFront
      BY <2>4, <3>1
    <3>3. (Filled + 0) % mMaxFrames = ((mRear - mFront) + 0) % mMaxFrames
      BY <3>1, <3>2, Nested, Zenon DEF Filled
    <3>4. Filled % mMaxFrames = Filled
      BY <3>1, <3>2, Wraps, Zenon
    <3>5. QED
      BY <3>2, <3>3, <3>4, Zenon
  <2>5. QED
    BY <2>2, <2>3, <2>4, Zenon
<1>2. IInv /\ [Next]_vars =>
        [wpc = "load" /\ wpc' = "told" =>
           /\ outFront = mFront /\ outNextRdPTS = mNextRdPTS
           /\ Filled < mMaxFrames =>
                timestamp' = offsetTimestampByAudioFrames(mNextRdPTS, Filled)]_vars
  BY <1>1, Zenon
<1>3. QED
  BY Inductive, <1>2, PTL DEF Spec, TellsTheTime
-----------------------------------------------------------------------------
(* n frames from f on, as the writer numbers them.                         *)
Frames(f, n) == [k \in 1 .. n |-> (f + k - 1) % W]

LEMMA FramesTyped ==
  ASSUME NEW f \in Int, NEW n \in Nat
  PROVE  /\ Frames(f, n) \in Seq(Int) /\ Len(Frames(f, n)) = n
         /\ \A k \in 1 .. n : Frames(f, n)[k] = (f + k - 1) % W
<1>1. ASSUME NEW k \in 1 .. n PROVE (f + k - 1) % W \in Int
  <2>1. f + k - 1 \in Int /\ W \in Nat \ {0}
    BY SizeAssumption
  <2>2. (f + k - 1) % W \in 0 .. W - 1
    BY <2>1, Quotient, Zenon
  <2>3. QED
    BY <2>1, <2>2
<1>2. Frames(f, n) \in [1 .. n -> Int]
  BY <1>1, Zenon DEF Frames
<1>3. Frames(f, n) \in Seq(Int) /\ Len(Frames(f, n)) = n
  BY <1>2
<1>4. QED
  BY <1>3, Zenon DEF Frames

(* What is in the pipe.                                                    *)
Holds(b, f, n) ==
  \A k \in 0 .. n - 1 : b[(f + k) % mMaxFrames] = (f + k) % W

Held(b, f, n) == [k \in 1 .. n |-> b[(f + k - 1) % mMaxFrames]]

LEMMA Inside ==
  ASSUME NEW b, NEW f \in Int, NEW n \in Nat, Holds(b, f, n)
  PROVE  Held(b, f, n) = Frames(f, n)
<1>1. ASSUME NEW k \in 1 .. n
      PROVE  b[(f + k - 1) % mMaxFrames] = (f + k - 1) % W
  <2>1. k - 1 \in 0 .. n - 1 /\ f + (k - 1) = f + k - 1
    OBVIOUS
  <2>2. b[(f + (k - 1)) % mMaxFrames] = (f + (k - 1)) % W
    BY <2>1, Zenon DEF Holds
  <2>3. QED
    BY <2>1, <2>2, Zenon
<1>2. QED
  BY <1>1, Zenon DEF Held, Frames

(* More frames behind them, and fewer in front.                            *)
LEMMA FramesPut ==
  ASSUME NEW f \in Counter, NEW r \in Counter, NEW n \in Nat,
         n = (r - f) % W, NEW m \in Nat
  PROVE  Frames(f, n + m) = Frames(f, n) \o Frames(r, m)
<1>0. f \in Int /\ r \in Int /\ n + m \in Nat
  BY SizeAssumption DEF Counter
<1>1. /\ Frames(f, n) \in Seq(Int) /\ Len(Frames(f, n)) = n
      /\ Frames(r, m) \in Seq(Int) /\ Len(Frames(r, m)) = m
      /\ Frames(f, n + m) \in Seq(Int) /\ Len(Frames(f, n + m)) = n + m
      /\ \A k \in 1 .. n : Frames(f, n)[k] = (f + k - 1) % W
      /\ \A k \in 1 .. m : Frames(r, m)[k] = (r + k - 1) % W
      /\ \A k \in 1 .. n + m : Frames(f, n + m)[k] = (f + k - 1) % W
  BY <1>0, FramesTyped, Zenon
<1>2. /\ Frames(f, n) \o Frames(r, m) \in Seq(Int)
      /\ Len(Frames(f, n) \o Frames(r, m)) = n + m
      /\ \A k \in 1 .. n + m :
           (Frames(f, n) \o Frames(r, m))[k] =
             IF k <= n THEN Frames(f, n)[k] ELSE Frames(r, m)[k - n]
  <2> DEFINE s == Frames(f, n)
             t == Frames(r, m)
  <2>1. /\ s \in Seq(Int) /\ t \in Seq(Int) /\ Len(s) = n /\ Len(t) = m
    BY <1>1, Zenon
  <2> HIDE DEF s, t
  <2>2. /\ s \o t \in Seq(Int) /\ Len(s \o t) = Len(s) + Len(t)
        /\ \A k \in 1 .. Len(s) + Len(t) :
             (s \o t)[k] = IF k <= Len(s) THEN s[k] ELSE t[k - Len(s)]
    BY <2>1, ConcatProperties, Zenon
  <2>3. /\ s \o t \in Seq(Int) /\ Len(s \o t) = n + m
        /\ \A k \in 1 .. n + m :
             (s \o t)[k] = IF k <= n THEN s[k] ELSE t[k - n]
    <3>1. Len(s) = n /\ Len(t) = m
      BY <2>1
    <3>2. QED
      BY <2>2, <3>1
  <2>4. QED
    BY <2>3, Zenon DEF s, t
<1>3. ASSUME NEW k \in 1 .. n + m
      PROVE  Frames(f, n + m)[k] = (Frames(f, n) \o Frames(r, m))[k]
  <2>1. CASE k <= n
    <3>1. k \in 1 .. n
      BY <2>1
    <3>2. QED
      BY <1>1, <1>2, <2>1, <3>1, Zenon
  <2>2. CASE ~(k <= n)
    <3>1. /\ k - n \in 1 .. m /\ k - 1 \in Int /\ f + (k - 1) = f + k - 1
          /\ r + ((k - 1) - n) = r + (k - n) - 1
      BY <1>0, <2>2
    <3>2. (r + ((k - 1) - n)) % W = (f + (k - 1)) % W
      BY <3>1, FromTheRear, ZenonT(60)
    <3>3. QED
      BY <1>1, <1>2, <2>2, <3>1, <3>2, ZenonT(60)
  <2>3. QED
    BY <2>1, <2>2
<1>4. QED
  BY <1>1, <1>2, <1>3, SeqEqual, Zenon

LEMMA FramesTake ==
  ASSUME NEW f \in Int, NEW n \in Nat, NEW m \in 0 .. n
  PROVE  Frames((f + m) % W, n - m) = SubSeq(Frames(f, n), m + 1, n)
<1>0. /\ f + m \in Int /\ n - m \in Nat /\ W \in Nat \ {0}
      /\ m + 1 \in Int /\ n \in Int
  BY SizeAssumption
<1>1. (f + m) % W \in Int
  <2>1. (f + m) % W \in 0 .. W - 1
    BY <1>0, Quotient, Zenon
  <2>2. QED
    BY <1>0, <2>1
<1>2. /\ Frames(f, n) \in Seq(Int) /\ Len(Frames(f, n)) = n
      /\ Frames((f + m) % W, n - m) \in Seq(Int)
      /\ Len(Frames((f + m) % W, n - m)) = n - m
      /\ \A k \in 1 .. n : Frames(f, n)[k] = (f + k - 1) % W
      /\ \A k \in 1 .. n - m :
           Frames((f + m) % W, n - m)[k] = (((f + m) % W) + k - 1) % W
  BY <1>0, <1>1, FramesTyped, Zenon
<1>3. \A i \in m + 1 .. n : Frames(f, n)[i] \in Int
  <2>1. \A i \in m + 1 .. n : i \in 1 .. Len(Frames(f, n))
    BY <1>2
  <2>2. QED
    BY <1>2, <2>1, ElementOfSeq, Zenon
<1>4. /\ SubSeq(Frames(f, n), m + 1, n) \in Seq(Int)
      /\ Len(SubSeq(Frames(f, n), m + 1, n)) = IF m + 1 <= n THEN n - (m + 1) + 1 ELSE 0
      /\ \A i \in 1 .. n - (m + 1) + 1 :
           SubSeq(Frames(f, n), m + 1, n)[i] = Frames(f, n)[(m + 1) + i - 1]
  <2> DEFINE s == Frames(f, n)
  <2>1. \A i \in m + 1 .. n : s[i] \in Int
    BY <1>3, Zenon
  <2> HIDE DEF s
  <2>2. /\ SubSeq(s, m + 1, n) \in Seq(Int)
        /\ Len(SubSeq(s, m + 1, n)) = IF m + 1 <= n THEN n - (m + 1) + 1 ELSE 0
        /\ \A i \in 1 .. n - (m + 1) + 1 :
             SubSeq(s, m + 1, n)[i] = s[(m + 1) + i - 1]
    BY <1>0, <2>1, SubSeqProperties
  <2>3. QED
    BY <2>2, Zenon DEF s
<1>5. /\ Len(SubSeq(Frames(f, n), m + 1, n)) = n - m
      /\ n - (m + 1) + 1 = n - m
  BY <1>0, <1>4
<1>6. ASSUME NEW k \in 1 .. n - m
      PROVE  Frames((f + m) % W, n - m)[k] = SubSeq(Frames(f, n), m + 1, n)[k]
  <2>1. /\ (m + 1) + k - 1 \in 1 .. n /\ k - 1 \in Int
        /\ f + ((m + 1) + k - 1) - 1 = (f + m) + (k - 1)
    BY <1>0
  <2>2. PICK y \in Int : y = (f + m) % W
    BY <1>1
  <2>3. y + k - 1 = y + (k - 1)
    OBVIOUS
  <2>a. W \in Nat \ {0} /\ f + m \in Int /\ k - 1 \in Int
    BY <1>0
  <2>b. (((f + m) % W) + (k - 1)) % W = ((f + m) + (k - 1)) % W
    BY <2>a, NestedWrap, ZenonT(60)
  <2>4. (y + (k - 1)) % W = ((f + m) + (k - 1)) % W
    BY <2>2, <2>b, Zenon
  <2>5. Frames((f + m) % W, n - m)[k] = (y + (k - 1)) % W
    BY <1>2, <2>2, <2>3, Zenon
  <2>6. SubSeq(Frames(f, n), m + 1, n)[k] = ((f + m) + (k - 1)) % W
    BY <1>2, <1>4, <1>5, <2>1, Zenon
  <2>7. QED
    BY <2>4, <2>5, <2>6, Zenon
<1>7. QED
  BY <1>2, <1>4, <1>5, <1>6, SeqEqual, Zenon
-----------------------------------------------------------------------------
Frontmost == Held(mBuffer, mFront, Filled)

(* The pipe is an empty buffer of its size.                                *)
LEMMA FifoInit == Init => Fifo!Init
<1> SUFFICES ASSUME Init PROVE Fifo!Init
  OBVIOUS
<1>1. mMaxFrames \in Nat \ {0} /\ W \in Nat \ {0}
  BY SizeAssumption
<1>2. Filled = 0
  BY <1>1, Wraps DEF Init, Filled
<1>3. Frontmost = << >>
  BY <1>2 DEF Frontmost, Held
<1>4. QED
  BY <1>1, <1>3 DEF Init, Fifo!Init, Frontmost, Held

(* Publishing puts the frames behind the others, moving the front takes    *)
(* the oldest away, and no other step, Copy least of all, touches what is  *)
(* inside.                                                                 *)
LEMMA FifoStep ==
  IInv /\ IInv' /\ [Next]_vars => [Fifo!Next]_(Fifo!vars)
<1> SUFFICES ASSUME IInv, IInv', [Next]_vars
             PROVE  [Fifo!Next]_(Fifo!vars)
  OBVIOUS
<1>0. /\ mMaxFrames \in Nat \ {0} /\ W \in Nat \ {0}
      /\ mFront \in Counter /\ mRear \in Counter
      /\ mFront \in Int /\ mRear \in Int /\ mFront' \in Int
      /\ written \in Nat /\ red \in Nat
  BY SizeAssumption DEF IInv, TypeOK, Counter
<1>1. TypeOK /\ Bounded /\ Filled \in 0 .. mMaxFrames /\ Filled \in Nat
  <2>1. TypeOK /\ Bounded
    BY DEF IInv
  <2>2. Filled \in 0 .. mMaxFrames
    BY <2>1, EndsMove
  <2>3. QED
    BY <1>0, <2>1, <2>2
<1>2. Frontmost = Frames(mFront, Filled)
  <2>1. Holds(mBuffer, mFront, Filled)
    BY Zenon DEF IInv, Contents, Numbered, Holds
  <2>2. QED
    BY <1>0, <1>1, <2>1, Inside, Zenon DEF Frontmost
<1>3. ASSUME Filled' \in Nat PROVE Frontmost' = Frames(mFront', Filled')
  <2>1. Holds(mBuffer', mFront', Filled')
    BY Zenon DEF IInv, Contents, Numbered, Holds
  <2>2. QED
    BY <1>0, <1>3, <2>1, Inside, Zenon DEF Frontmost
<1>4. /\ Frames(mFront, Filled) \in Seq(Int)
      /\ Len(Frames(mFront, Filled)) = Filled
  BY <1>0, <1>1, FramesTyped, Zenon
<1>5. CASE Publish
  <2>1. /\ Filled' = Filled + written /\ mFront' = mFront
        /\ mRear' = (mRear + written) % W
        /\ Filled + written <= mMaxFrames
    BY <1>1, <1>5, EndsMove DEF Publish, Bounded
  <2>2. Filled' \in Nat
    BY <1>0, <1>1, <2>1
  <2>3. Frames(mFront, Filled + written) =
          Frames(mFront, Filled) \o Frames(mRear, written)
    <3>1. /\ Filled = (mRear - mFront) % W /\ Filled \in Nat /\ written \in Nat
          /\ mFront \in Counter /\ mRear \in Counter
      BY <1>0, <1>1 DEF Filled
    <3>2. QED
      BY <3>1, FramesPut, Zenon
  <2>4. Frontmost' = Frontmost \o Frames(mRear, written)
    BY <1>2, <1>3, <2>1, <2>2, <2>3, Zenon
  <2>5. CASE written = 0
    <3>1. Filled + written = Filled /\ mRear + written = mRear
          /\ mRear \in 0 .. W - 1
      BY <1>0, <1>1, <2>5 DEF Counter
    <3>2. mRear' = mRear
      BY <1>0, <2>1, <3>1, Wraps, Zenon
    <3>3. Frontmost' = Frontmost
      BY <1>2, <1>3, <2>1, <2>2, <3>1, Zenon
    <3>4. QED
      BY <3>2, <3>3 DEF Fifo!vars, Frontmost, Held
  <2>6. CASE written # 0
    <3>1. written \in 1 .. mMaxFrames /\ Len(Frontmost) + written <= mMaxFrames
      BY <1>0, <1>1, <1>2, <1>4, <2>1, <2>6
    <3>2. Fifo!Put(written)
      BY <2>1, <2>4, <3>1, Zenon DEF Fifo!Put, Frontmost, Held, Frames
    <3>3. Fifo!Next
      BY <3>1, <3>2, Zenon DEF Fifo!Next, Fifo!Put
    <3>4. QED
      BY <3>3
  <2>7. QED
    BY <2>5, <2>6
<1>6. CASE StoreFront
  <2>1. /\ Filled' = Filled - red /\ mFront' = (mFront + red) % W
        /\ mRear' = mRear /\ red \in 0 .. Filled
    BY <1>0, <1>1, <1>6, EndsMove DEF StoreFront, pipeVars, Bounded
  <2>2. Filled' \in Nat
    BY <1>0, <1>1, <2>1
  <2>3. Frames((mFront + red) % W, Filled - red) =
          SubSeq(Frames(mFront, Filled), red + 1, Filled)
    BY <1>0, <1>1, <2>1, FramesTake, Zenon
  <2>4. Frontmost' = SubSeq(Frontmost, red + 1, Len(Frontmost))
    BY <1>2, <1>3, <1>4, <2>1, <2>2, <2>3, Zenon
  <2>5. CASE red = 0
    <3>1. Filled - red = Filled /\ mFront + red = mFront
          /\ mFront \in 0 .. W - 1
      BY <1>0, <1>1, <2>5 DEF Counter
    <3>2. mFront' = mFront
      BY <1>0, <2>1, <3>1, Wraps, Zenon
    <3>3. Frontmost' = Frontmost
      BY <1>2, <1>3, <2>1, <2>2, <3>1, <3>2, Zenon
    <3>4. QED
      BY <2>1, <3>3 DEF Fifo!vars, Frontmost, Held
  <2>6. CASE red # 0
    <3>1. red \in 1 .. mMaxFrames /\ red <= Len(Frontmost)
      BY <1>0, <1>1, <1>2, <1>4, <2>1, <2>6
    <3>2. Fifo!Take(red)
      BY <2>1, <2>4, <3>1, Zenon DEF Fifo!Take, Frontmost, Held
    <3>3. Fifo!Next
      BY <3>1, <3>2, Zenon DEF Fifo!Next, Fifo!Take
    <3>4. QED
      BY <3>3
  <2>7. QED
    BY <2>5, <2>6
<1>7. CASE ~Publish /\ ~StoreFront
  <2>1. /\ Filled' = Filled /\ mFront' = mFront /\ mRear' = mRear
    BY <1>1, <1>7, EndsMove
  <2>2. Frontmost' = Frontmost
    BY <1>1, <1>2, <1>3, <2>1, Zenon
  <2>3. QED
    BY <2>1, <2>2 DEF Fifo!vars, Frontmost, Held
<1>8. QED
  BY <1>5, <1>6, <1>7

(* "write() cannot overrun": whatever the writer, the reader and the        *)
(* thread that shuts the pipe down do, frames leave it in the order they    *)
(* came, each once, unharmed by what is written meanwhile.                  *)
THEOREM PipeIsAFifo == Spec => ImplementsFifo
<1>1. Init => Fifo!Init
  BY FifoInit
<1>2. IInv /\ IInv' /\ [Next]_vars => [Fifo!Next]_(Fifo!vars)
  BY FifoStep
<1>3. QED
  BY Inductive, <1>1, <1>2, PTL DEF Spec, ImplementsFifo, Fifo!Spec
=============================================================================
