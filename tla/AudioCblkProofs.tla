-------------------------- MODULE AudioCblkProofs ---------------------------
(***************************************************************************)
(* Proofs about AudioCblk, for every track, every size of its ring, every  *)
(* width of the counters and however the client and the server interleave. *)
(* All but the types are proved for a client whose flush does not fall     *)
(* between two loads of a server's poll, nor is acknowledged under a       *)
(* buffer the mixer holds: see Serialized.                                 *)
(***************************************************************************)
EXTENDS AudioCblk, SequenceTheorems, TLAPS

-----------------------------------------------------------------------------
(* Counters that wrap *)

(* Remainders: the quotient exists, and the remainder is the only one.     *)
LEMMA Quotient ==
  ASSUME NEW m \in Nat \ {0}, NEW x \in Int
  PROVE  x % m \in 0 .. m - 1 /\ \E q \in Int : x = q * m + (x % m)
<1>1. x = (x \div m) * m + (x % m) /\ x \div m \in Int /\ x % m \in 0 .. m - 1
  BY Z3
<1>2. QED
  BY <1>1

LEMMA Remainder ==
  ASSUME NEW m \in Nat \ {0}, NEW q \in Int, NEW r \in 0 .. m - 1
  PROVE  (q * m + r) % m = r
BY SMT

(* A multiple of the divisor more or less makes no difference.             *)
LEMMA Congruent ==
  ASSUME NEW m \in Nat \ {0}, NEW x \in Int, NEW k \in Int
  PROVE  (x + k * m) % m = x % m
<1>1. PICK q \in Int : x = q * m + (x % m)
  BY Quotient
<1>2. x % m \in 0 .. m - 1 /\ q + k \in Int
  BY Quotient
<1>3. x + k * m = (q + k) * m + (x % m)
  BY <1>1, <1>2
<1>4. QED
  BY <1>2, <1>3, Remainder

(* What the counters are after one of them moved.                          *)
LEMMA Wraps ==
  ASSUME NEW m \in Nat \ {0}, NEW x \in Int
  PROVE  /\ x \in 0 .. m - 1 => x % m = x
         /\ x \in m .. 2 * m - 1 => x % m = x - m
         /\ x \in -m .. -1 => x % m = x + m
BY SMT

LEMMA Difference ==
  ASSUME NEW m \in Nat \ {0}, NEW f \in 0 .. m - 1, NEW r \in 0 .. m - 1
  PROVE  (r - f) % m = IF r >= f THEN r - f ELSE r - f + m
<1> DEFINE d == r - f
<1>1. d \in Int /\ (r >= f => d \in 0 .. m - 1) /\ (r < f => d \in -m .. -1)
  OBVIOUS
<1> HIDE DEF d
<1>2. CASE r >= f
  <2>1. d % m = d
    BY <1>1, <1>2, Wraps, Zenon
  <2>2. QED
    BY <1>2, <2>1, Zenon DEF d
<1>3. CASE ~(r >= f)
  <2>1. r < f
    BY <1>3
  <2>2. d % m = d + m
    BY <1>1, <2>1, Wraps, Zenon
  <2>3. QED
    BY <1>3, <2>2, Zenon DEF d
<1>4. QED
  BY <1>2, <1>3

LEMMA Sum ==
  ASSUME NEW m \in Nat \ {0}, NEW f \in 0 .. m - 1, NEW n \in 0 .. m
  PROVE  /\ (f + n) % m = IF f + n < m THEN f + n ELSE f + n - m
         /\ (f + n) % m \in 0 .. m - 1
<1> DEFINE d == f + n
<1>1. /\ d \in Int /\ (f + n < m => d \in 0 .. m - 1)
      /\ (f + n >= m => d \in m .. 2 * m - 1)
  OBVIOUS
<1> HIDE DEF d
<1>2. CASE f + n < m
  <2>1. d % m = d
    BY <1>1, <1>2, Wraps, Zenon
  <2>2. QED
    BY <1>1, <1>2, <2>1 DEF d
<1>3. CASE ~(f + n < m)
  <2>1. f + n >= m
    BY <1>3
  <2>2. d % m = d - m
    BY <1>1, <2>1, Wraps, Zenon
  <2>3. QED
    BY <1>1, <1>3, <2>2 DEF d
<1>4. QED
  BY <1>2, <1>3

(* Counters that differ by a multiple of W number the same frame.          *)
LEMMA Divided ==
  ASSUME NEW m \in Nat \ {0}, NEW x \in Int
  PROVE  \E q \in Int, r \in 0 .. m - 1 : x = q * m + r /\ x % m = r
BY Quotient, Zenon

LEMMA NestedWrap ==
  ASSUME NEW m \in Nat \ {0}, NEW x \in Int, NEW n \in Int
  PROVE  ((x % m) + n) % m = (x + n) % m
<1>1. PICK q \in Int, r \in 0 .. m - 1 : x = q * m + r /\ x % m = r
  BY Divided
<1>2. r + n \in Int /\ x + n = (r + n) + q * m
  BY <1>1
<1>3. ((r + n) + q * m) % m = (r + n) % m
  BY <1>2, Congruent, Zenon
<1>4. QED
  BY <1>1, <1>2, <1>3, Zenon

(* The same, where the counters wrap at a multiple of the divisor.         *)
LEMMA Nested ==
  ASSUME NEW m \in Nat \ {0}, NEW P \in Nat \ {0}, m % P = 0,
         NEW x \in Int, NEW n \in Int
  PROVE  ((x % m) + n) % P = (x + n) % P
<1>1. PICK c \in Int, z \in 0 .. P - 1 : m = c * P + z /\ m % P = z
  BY Divided
<1>2. m = c * P
  BY <1>1
<1>3. PICK q \in Int, y \in 0 .. m - 1 : x = q * m + y /\ x % m = y
  BY Divided
<1>4. PICK k \in Int : k = q * c /\ q * m = k * P
  BY <1>2, <1>3
<1>5. y + n \in Int /\ x + n = (y + n) + k * P
  BY <1>3, <1>4
<1>6. ((y + n) + k * P) % P = (y + n) % P
  BY <1>5, Congruent, Zenon
<1> QED BY <1>3, <1>5, <1>6, Zenon

LEMMA NestedAlone ==
  ASSUME NEW m \in Nat \ {0}, NEW P \in Nat \ {0}, m % P = 0, NEW x \in Int
  PROVE  (x % m) % P = x % P
<1>0. 0 \in Int
  OBVIOUS
<1>1. x + 0 = x
  OBVIOUS
<1>2. ((x % m) + 0) % P = (x + 0) % P
  BY <1>0, Nested, ZenonT(60)
<1>3. x % m \in 0 .. m - 1
  BY Quotient, Zenon
<1>4. (x % m) + 0 = x % m
  BY <1>3
<1> QED BY <1>1, <1>2, <1>4, Zenon

LEMMA Grows ==
  ASSUME NEW m \in Nat \ {0}, NEW f \in 0 .. m - 1, NEW r \in 0 .. m - 1,
         NEW n \in Nat, ((r - f) % m) + n < m
  PROVE  (((r + n) % m) - f) % m = ((r - f) % m) + n
<1>a. (r - f) % m = IF r >= f THEN r - f ELSE r - f + m
  BY Difference, Zenon
<1>b. (IF r >= f THEN r - f ELSE r - f + m) \in Int
  OBVIOUS
<1>1. PICK d \in Int : d = (r - f) % m /\ d = IF r >= f THEN r - f ELSE r - f + m
  BY <1>a, <1>b, Zenon
<1>2. n \in 0 .. m
  BY <1>1
<1>3. PICK s \in 0 .. m - 1 :
        s = (r + n) % m /\ s = IF r + n < m THEN r + n ELSE r + n - m
  BY <1>2, Sum
<1>4. (s - f) % m = IF s >= f THEN s - f ELSE s - f + m
  BY Difference
<1>5. (IF s >= f THEN s - f ELSE s - f + m) = d + n
  BY <1>1, <1>3
<1> QED BY <1>1, <1>3, <1>4, <1>5

LEMMA Shrinks ==
  ASSUME NEW m \in Nat \ {0}, NEW f \in 0 .. m - 1, NEW r \in 0 .. m - 1,
         NEW n \in 0 .. (r - f) % m
  PROVE  (r - ((f + n) % m)) % m = ((r - f) % m) - n
<1>a. (r - f) % m = IF r >= f THEN r - f ELSE r - f + m
  BY Difference, Zenon
<1>b. (IF r >= f THEN r - f ELSE r - f + m) \in Int
  OBVIOUS
<1>1. PICK d \in Int : d = (r - f) % m /\ d = IF r >= f THEN r - f ELSE r - f + m
  BY <1>a, <1>b, Zenon
<1>2. n \in 0 .. m
  BY <1>1
<1>3. PICK s \in 0 .. m - 1 :
        s = (f + n) % m /\ s = IF f + n < m THEN f + n ELSE f + n - m
  BY <1>2, Sum
<1>4. (r - s) % m = IF r >= s THEN r - s ELSE r - s + m
  BY Difference
<1>5. (IF r >= s THEN r - s ELSE r - s + m) = d - n
  BY <1>1, <1>3
<1> QED BY <1>1, <1>3, <1>4, <1>5

(* A counter is what it is ahead of another, behind the other.             *)
LEMMA Reached ==
  ASSUME NEW m \in Nat \ {0}, NEW f \in 0 .. m - 1, NEW c \in 0 .. m - 1
  PROVE  /\ (c - f) % m \in 0 .. m - 1
         /\ c = (f + ((c - f) % m)) % m
<1>a. (c - f) % m = IF c >= f THEN c - f ELSE c - f + m
  BY Difference, Zenon
<1>b. (IF c >= f THEN c - f ELSE c - f + m) \in 0 .. m - 1
  OBVIOUS
<1>1. PICK d \in 0 .. m - 1 :
        d = (c - f) % m /\ d = IF c >= f THEN c - f ELSE c - f + m
  BY <1>a, <1>b, Zenon
<1>2. (f + d) % m = IF f + d < m THEN f + d ELSE f + d - m
  <2>1. d \in 0 .. m
    OBVIOUS
  <2> QED BY <2>1, Sum
<1>3. (IF f + d < m THEN f + d ELSE f + d - m) = c
  BY <1>1
<1> QED BY <1>1, <1>2, <1>3

(* Two counters in the same window, seen from one another.                 *)
LEMMA Between ==
  ASSUME NEW m \in Nat \ {0}, NEW f \in 0 .. m - 1, NEW c \in 0 .. m - 1,
         NEW r \in 0 .. m - 1, (c - f) % m <= (r - f) % m
  PROVE  (r - c) % m = ((r - f) % m) - ((c - f) % m)
<1>1. PICK d \in 0 .. m - 1 : d = (c - f) % m /\ c = (f + d) % m
  BY Reached
<1>2. d \in 0 .. (r - f) % m
  <2>1. PICK e \in 0 .. m - 1 : e = (r - f) % m
    BY Reached
  <2> QED BY <1>1, <2>1
<1>3. (r - ((f + d) % m)) % m = ((r - f) % m) - d
  BY <1>2, Shrinks
<1> QED BY <1>1, <1>3
-----------------------------------------------------------------------------
(* The sizes of a track *)

LEMMA SizesAre ==
  ASSUME track \in Tracks
  PROVE  /\ mFrameCount \in Nat \ {0} /\ mFrameCountP2 \in Nat \ {0}
         /\ W \in Nat \ {0} /\ M \in Nat \ {0} /\ M = 2 * mFrameCountP2
         /\ mFrameCount <= mFrameCountP2
         /\ W \div 2 \in Nat /\ mFrameCount < W \div 2 /\ W \div 2 < W
         /\ W % M = 0 /\ W % mFrameCountP2 = 0
         /\ track.flushes => 3 * mFrameCountP2 <= W \div 2
         /\ Counter = 0 .. W - 1 /\ Counter \subseteq Int /\ None \notin Counter
         /\ mIsOut \in BOOLEAN /\ track.flushes \in BOOLEAN
         /\ track.chunks \in BOOLEAN
<1> DEFINE P == mFrameCountP2
<1>1. /\ mFrameCountP2 \in Nat /\ mFrameCount \in 1 .. mFrameCountP2 /\ W \in Nat
      /\ W > 2 * mFrameCount /\ W % (2 * mFrameCountP2) = 0
      /\ track.flushes => W > 4 * mFrameCountP2
      /\ mIsOut \in BOOLEAN /\ track.flushes \in BOOLEAN
      /\ track.chunks \in BOOLEAN
  BY TrackAssumption, WidthAssumption
  DEF mIsOut, mFrameCount, mFrameCountP2
<1>2. /\ mFrameCount \in Nat \ {0} /\ P \in Nat \ {0} /\ mFrameCount <= P
      /\ M \in Nat \ {0} /\ M = 2 * P /\ W \in Nat \ {0}
  BY <1>1 DEF M
<1> HIDE DEF P
<1>3. PICK c \in Int, z \in 0 .. M - 1 : W = c * M + z /\ W % M = z
  <2>1. W \in Int
    BY <1>2
  <2> QED BY <1>2, <2>1, Divided, Zenon
<1>4. W % M = 0 /\ W = c * M
  <2>1. W % M = 0
    BY <1>1, Zenon DEF M
  <2> QED BY <1>2, <1>3, <2>1
<1>5. W % P = 0
  <2>1. PICK k \in Int : k = 2 * c /\ W = k * P + 0
    BY <1>2, <1>4
  <2> QED BY <1>2, <2>1, Remainder
<1>6. PICK h \in Int : h = c * P /\ W = 2 * h
  BY <1>2, <1>4
<1>7. W \div 2 = h
  BY <1>2, <1>6
<1>8. ASSUME track.flushes PROVE 3 * P <= h
  <2>1. W > 2 * M
    BY <1>1, <1>2, <1>8 DEF P
  <2>2. c >= 3
    <3>1. CASE c <= 2
      <4>1. c * M <= 2 * M
        BY <1>2, <3>1
      <4> QED BY <1>2, <1>4, <2>1, <4>1
    <3> QED BY <3>1
  <2> QED BY <1>2, <1>6, <2>2
<1>9. Counter = 0 .. W - 1 /\ Counter \subseteq Int /\ None \notin Counter
  BY <1>2 DEF Counter, None
<1> QED BY <1>1, <1>2, <1>4, <1>5, <1>6, <1>7, <1>8, <1>9 DEF P

(* The difference of two counters in the same window is not negative.      *)
LEMMA FilledIs ==
  ASSUME track \in Tracks, NEW r \in Counter, NEW f \in Counter,
         (r - f) % W <= mFrameCount
  PROVE  Filled(r, f) = (r - f) % W /\ Sane(Filled(r, f))
<1>1. /\ mFrameCount \in Nat /\ W \div 2 \in Nat /\ mFrameCount < W \div 2
      /\ W \in Nat \ {0} /\ Counter = 0 .. W - 1
  BY SizesAre
<1>2. PICK d \in 0 .. W - 1 : d = (r - f) % W
  BY <1>1, Reached
<1>3. Filled(r, f) = d
  BY <1>1, <1>2 DEF Filled, Diff
<1> QED BY <1>1, <1>2, <1>3 DEF Sane

LEMMA SaneIs ==
  ASSUME track \in Tracks, NEW r \in Counter, NEW f \in Counter,
         Sane(Filled(r, f))
  PROVE  /\ Filled(r, f) = (r - f) % W /\ Filled(r, f) \in Nat
         /\ Filled(r, f) <= mFrameCount
<1>1. /\ mFrameCount \in Nat /\ W \div 2 \in Nat /\ mFrameCount < W \div 2
      /\ W \in Nat \ {0} /\ Counter = 0 .. W - 1
  BY SizesAre
<1>2. PICK d \in 0 .. W - 1 : d = (r - f) % W
  BY <1>1, Reached
<1>3. Filled(r, f) = IF d < W \div 2 THEN d ELSE d - W
  BY <1>2 DEF Filled, Diff
<1>4. Filled(r, f) = d
  BY <1>1, <1>2, <1>3 DEF Sane
<1> QED BY <1>1, <1>2, <1>4 DEF Sane

LEMMA AddIs ==
  ASSUME track \in Tracks, NEW a \in Counter, NEW n \in Int
  PROVE  Add(a, n) \in Counter
<1>1. W \in Nat \ {0} /\ Counter = 0 .. W - 1 /\ a + n \in Int
  BY SizesAre
<1> QED BY <1>1, Quotient, Zenon DEF Add

(* Callers get some of what is available, if anything is.                  *)
LEMMA ContiguousIs ==
  ASSUME track \in Tracks, NEW i \in Counter, NEW a \in Nat,
         NEW n \in Contiguous(i, a)
  PROVE  n \in Nat /\ n <= a /\ (n = 0 <=> a = 0)
<1>1. mFrameCountP2 \in Nat \ {0} /\ i \in Int
  BY SizesAre
<1>2. Slot(i) \in 0 .. mFrameCountP2 - 1
  BY <1>1, Quotient, Zenon DEF Slot
<1>3. CASE a = 0
  BY <1>3 DEF Contiguous
<1>4. CASE a # 0
  <2>1. /\ n \in 1 .. Least(mFrameCountP2 - Slot(i), a)
        /\ Least(mFrameCountP2 - Slot(i), a) \in Int
        /\ Least(mFrameCountP2 - Slot(i), a) <= a
    BY <1>1, <1>2, <1>4 DEF Contiguous, Least
  <2> QED BY <1>4, <2>1
<1> QED BY <1>3, <1>4
-----------------------------------------------------------------------------
(* Types *)

(* TypeOK, one variable at a time.                                         *)
SharedTypes ==
  /\ mFront \in Counter /\ mRear \in Counter /\ mFlush \in Counter
  /\ mFutex \subseteq Bits /\ mFlags \subseteq Flags
  /\ mBuffers \in [0 .. mFrameCountP2 - 1 -> Counter \cup {None}]
ClientTypes ==
  /\ cpc \in {"idle", "flags", "look", "down", "wait", "asleep", "obtained",
              "copied"}
  /\ op \in {"obtain", "end"} /\ timeout \in Timeout
  /\ ignoreInterrupt \in BOOLEAN /\ cShutdown \in BOOLEAN
  /\ expected \subseteq Bits /\ cUnreleased \in 0 .. mFrameCount
  /\ interrupting \in BOOLEAN /\ dying \in BOOLEAN
ServerTypes ==
  /\ spc \in {"idle", "rear", "rebase", "flushWake", "obtained", "copied",
              "wake"}
  /\ ackFlush \in BOOLEAN /\ sShutdown \in BOOLEAN
  /\ sFlush \in Counter /\ flush \in Counter
  /\ rear \in Counter /\ newFront \in Counter
  /\ sRaw \in Counter \cup {None}
  /\ sUnreleased \in 0 .. mFrameCount /\ mAvailToClient \in 0 .. mFrameCount
  /\ invalidating \in {"no", "store", "wake", "done"}
  /\ peeked \in Counter \cup {None} /\ flushPoint \in Counter \cup {None}

TInv == track \in Tracks /\ SharedTypes /\ ClientTypes /\ ServerTypes

LEMMA TypesTell == TInv => TypeOK
BY DEF TInv, SharedTypes, ClientTypes, ServerTypes, TypeOK

LEMMA InitTypes == Init => TInv
<1> SUFFICES ASSUME Init PROVE TInv
  OBVIOUS
<1>1. track \in Tracks
  BY DEF Init
<1>2. 0 \in Counter /\ 0 \in 0 .. mFrameCount
  BY <1>1, SizesAre
<1>3. SharedTypes /\ ClientTypes /\ ServerTypes
  BY <1>2 DEF Init, SharedTypes, ClientTypes, ServerTypes, Bits, Flags, Timeout
<1> QED BY <1>1, <1>3 DEF TInv

(* Calls that leave the ring and the server alone.                         *)
LEMMA CallTypes ==
  ASSUME TInv, UNCHANGED track,
         \/ \E o \in {"obtain", "end"}, t \in Timeouts : ClientCall(o, t)
         \/ ObtainFlags \/ EndFlags \/ ClientDown \/ ClientWait \/ WaitEnds
         \/ Interrupt \/ BinderDied \/ InterruptWake
         \/ SetStreamEndDone \/ Invalidate
  PROVE  TInv'
<1>0. /\ track' \in Tracks /\ 0 \in 0 .. mFrameCount
      /\ mFrameCount' = mFrameCount /\ mFrameCountP2' = mFrameCountP2
  BY SizesAre DEF TInv, mFrameCount, mFrameCountP2
<1> USE DEF TInv, SharedTypes, ClientTypes, ServerTypes
<1>1. ASSUME NEW o \in {"obtain", "end"}, NEW t \in Timeouts, ClientCall(o, t)
      PROVE  TInv'
  <2>1. t \in Timeout
    BY TimeoutAssumption DEF Timeout
  <2> QED BY <1>0, <1>1, <2>1 DEF ClientCall, indexVars, callVars, serverVars
<1>2. CASE ObtainFlags
  <2>1. cpc' \in {"idle", "look"} /\ cUnreleased' \in {0, cUnreleased}
    BY <1>2 DEF ObtainFlags, ReturnError
  <2>2. /\ mFlags' \subseteq Flags /\ ignoreInterrupt' = FALSE
        /\ UNCHANGED <<indexVars, mFlush, mFutex, mBuffers, op, timeout, cShutdown,
                       expected, callVars, serverVars, flushPoint>>
    BY <1>2 DEF ObtainFlags
  <2>3. cUnreleased' \in 0 .. mFrameCount
    BY <1>0, <2>1
  <2>4. ClientTypes'
    BY <1>0, <2>1, <2>2, <2>3 DEF callVars
  <2>5. SharedTypes' /\ ServerTypes'
    BY <1>0, <2>2 DEF indexVars, callVars, serverVars
  <2> QED BY <1>0, <2>4, <2>5 DEF TInv
<1>3. CASE EndFlags
  <2>1. timeout' \in Timeout
    BY <1>3 DEF EndFlags, Timeout
  <2> QED BY <1>0, <1>3, <2>1 DEF EndFlags, ReturnError, indexVars, callVars,
             serverVars
<1>4. CASE ClientDown \/ ClientWait \/ WaitEnds
  BY <1>0, <1>4 DEF ClientDown, ClientWait, WaitEnds, indexVars, callVars,
     serverVars
<1>5. CASE Interrupt \/ BinderDied
  <2>1. mFlags' \subseteq Flags
    BY <1>5 DEF Interrupt, BinderDied, Flags
  <2>2. interrupting' \in BOOLEAN /\ dying' \in BOOLEAN
    BY <1>5 DEF Interrupt, BinderDied
  <2> QED BY <1>0, <1>5, <2>1, <2>2 DEF Interrupt, BinderDied, indexVars,
             clientVars, serverVars
<1>6. CASE InterruptWake
  <2>1. mFutex' \subseteq Bits /\ cpc' \in {cpc, "flags"}
    BY <1>6 DEF InterruptWake, Bits, Woken
  <2>2. interrupting' \in BOOLEAN /\ dying' \in BOOLEAN
    BY <1>6 DEF InterruptWake
  <2> QED BY <1>0, <1>6, <2>1, <2>2 DEF InterruptWake, indexVars, serverVars
<1>7. CASE SetStreamEndDone
  <2>1. mFlags' \subseteq Flags /\ cpc' \in {cpc, "flags"}
    BY <1>7 DEF SetStreamEndDone, Flags, Woken
  <2> QED BY <1>0, <1>7, <2>1 DEF SetStreamEndDone, indexVars, callVars,
             serverVars
<1>8. CASE Invalidate
  <2>1. /\ mFlags' \subseteq Flags /\ cpc' \in {cpc, "flags"}
        /\ mFutex' \subseteq Bits
        /\ invalidating' \in {"no", "store", "wake", "done"}
    BY <1>8 DEF Invalidate, Flags, Bits, Woken
  <2> QED BY <1>0, <1>8, <2>1 DEF Invalidate, indexVars, serverVars
<1> QED BY <1>1, <1>2, <1>3, <1>4, <1>5, <1>6, <1>7, <1>8

(* What an obtainBuffer() of the client finds.                             *)
LEMMA LookIs ==
  ASSUME TInv, ClientLook
  PROVE  /\ mFront' \in {mFront, mRear}
         /\ mRear' = mRear
         /\ ~Sane(Filled(mRear, mFront')) => cShutdown' = TRUE /\ cUnreleased' = 0
         /\ Sane(Filled(mRear, mFront')) => cShutdown' = cShutdown
         /\ cpc' \in {"idle", "down", "obtained"} /\ timeout' \in {timeout, "CONTINUE"}
         /\ cUnreleased' \in 0 .. mFrameCount
         /\ cpc' = "obtained" =>
              /\ Sane(Filled(mRear, mFront'))
              /\ cUnreleased' > 0
              /\ cUnreleased' <= ClientAvail(Filled(mRear, mFront'))
<1> DEFINE filled == Filled(mRear, mFront')
<1>1. /\ track \in Tracks /\ mFront \in Counter /\ mRear \in Counter
      /\ cUnreleased \in 0 .. mFrameCount
      /\ mFront' = IF Overrun THEN mRear ELSE mFront
  BY DEF TInv, SharedTypes, ClientTypes, ClientLook
<1>2. mFrameCount \in Nat \ {0}
  BY <1>1, SizesAre
<1>3. mFront' \in Counter /\ mFront' \in {mFront, mRear} /\ mRear' = mRear
  BY <1>1 DEF ClientLook
<1>4. CASE ~Sane(filled)
  <2>1. cShutdown' = TRUE /\ ReturnError /\ UNCHANGED timeout
    BY <1>4 DEF ClientLook
  <2>2. /\ cUnreleased' = 0 /\ cUnreleased' \in 0 .. mFrameCount
        /\ cpc' = "idle" /\ timeout' = timeout
    BY <1>2, <2>1 DEF ReturnError
  <2> HIDE DEF filled
  <2> QED BY <1>3, <1>4, <2>1, <2>2 DEF filled
<1>5. CASE Sane(filled)
  <2>1. filled \in Nat /\ filled <= mFrameCount
    BY <1>1, <1>3, <1>5, SaneIs
  <2>2. ClientAvail(filled) \in Nat /\ ClientAvail(filled) <= mFrameCount
    BY <1>2, <2>1 DEF ClientAvail
  <2>3. ClientIndex \in Counter
    BY <1>1, <1>3 DEF ClientIndex
  <2> HIDE DEF filled
  <2>4. PICK n \in Contiguous(ClientIndex, ClientAvail(filled)) :
          IF n = 0 THEN NoFrames
          ELSE /\ cpc' = "obtained" /\ cUnreleased' = n
               /\ UNCHANGED timeout
    BY <1>5 DEF ClientLook, filled
  <2>5. n \in Nat /\ n <= ClientAvail(filled)
    BY <1>1, <2>2, <2>3, <2>4, ContiguousIs
  <2>6. cShutdown' = cShutdown
    BY <1>5 DEF ClientLook, filled
  <2>7. CASE n = 0
    BY <1>1, <1>2, <1>3, <1>5, <2>4, <2>6, <2>7 DEF NoFrames, ReturnError, filled
  <2>8. CASE n # 0
    BY <1>2, <1>3, <1>5, <2>2, <2>4, <2>5, <2>6, <2>8 DEF filled
  <2> QED BY <2>7, <2>8
<1> QED BY <1>4, <1>5

LEMMA LookTypes ==
  ASSUME TInv, UNCHANGED track, ClientLook
  PROVE  TInv'
<1>0. /\ track' \in Tracks
      /\ mFrameCount' = mFrameCount /\ mFrameCountP2' = mFrameCountP2
  BY DEF TInv, mFrameCount, mFrameCountP2
<1>1. /\ mFront' \in Counter /\ mRear' \in Counter
      /\ cUnreleased' \in 0 .. mFrameCount
      /\ cpc' \in {"idle", "down", "obtained"} /\ timeout' \in Timeout
      /\ cShutdown' \in BOOLEAN
  BY LookIs DEF TInv, SharedTypes, ClientTypes, Timeout
<1>2. mFlags' \subseteq Flags
  BY DEF ClientLook, TInv, SharedTypes, Flags
<1> QED BY <1>0, <1>1, <1>2
        DEF ClientLook, TInv, SharedTypes, ClientTypes, ServerTypes, callVars,
            serverVars

LEMMA WrittenTypes ==
  ASSUME TInv, NEW i \in Counter, NEW n \in Nat
  PROVE  Written(i, n) \in [0 .. mFrameCountP2 - 1 -> Counter \cup {None}]
<1> DEFINE D == 0 .. mFrameCountP2 - 1
<1>1. /\ track \in Tracks /\ mBuffers \in [D -> Counter \cup {None}]
      /\ DOMAIN mBuffers = D
  BY DEF TInv, SharedTypes
<1>2. ASSUME NEW j \in D
      PROVE  (IF \E k \in 0 .. n - 1 : j = Slot(i + k)
              THEN Add(i, CHOOSE k \in 0 .. n - 1 : j = Slot(i + k))
              ELSE mBuffers[j]) \in Counter \cup {None}
  <2>1. CASE \E k \in 0 .. n - 1 : j = Slot(i + k)
    <3>1. (CHOOSE k \in 0 .. n - 1 : j = Slot(i + k)) \in 0 .. n - 1
      BY <2>1
    <3>2. (CHOOSE k \in 0 .. n - 1 : j = Slot(i + k)) \in Int
      BY <3>1
    <3>3. Add(i, CHOOSE k \in 0 .. n - 1 : j = Slot(i + k)) \in Counter
      BY <1>1, <3>2, AddIs, Zenon
    <3> QED BY <2>1, <3>3
  <2>2. CASE ~\E k \in 0 .. n - 1 : j = Slot(i + k)
    BY <1>1, <2>2
  <2> QED BY <2>1, <2>2
<1> HIDE DEF D
<1> QED BY <1>1, <1>2, Zenon DEF Written, D

LEMMA ClientTypesStay ==
  ASSUME TInv, UNCHANGED track,
         \/ ClientCopy \/ ClientFlush
         \/ \E n \in 1 .. mFrameCount : ClientRelease(n)
  PROVE  TInv'
<1>0. /\ track' \in Tracks /\ track \in Tracks
      /\ mFrameCount' = mFrameCount /\ mFrameCountP2' = mFrameCountP2
  BY DEF TInv, mFrameCount, mFrameCountP2
<1>1. mFrameCount \in Nat \ {0} /\ Counter \subseteq Int /\ M \in Nat \ {0}
  BY <1>0, SizesAre
<1>2. CASE ClientCopy
  <2>1. mBuffers' \in [0 .. mFrameCountP2 - 1 -> Counter \cup {None}]
    BY <1>1, <1>2, WrittenTypes DEF ClientCopy, TInv, SharedTypes, ClientTypes
  <2> QED BY <1>0, <1>2, <2>1
          DEF ClientCopy, TInv, SharedTypes, ClientTypes, ServerTypes, indexVars,
              callVars, serverVars
<1>3. CASE ClientFlush
  <2>1. mFlush' \in Counter
    <3>1. mFlush % M \in 0 .. M - 1 /\ mRear % M \in 0 .. M - 1
      BY <1>1, Quotient, Zenon DEF TInv, SharedTypes
    <3>2. mFlush \in Int
      BY <1>1 DEF TInv, SharedTypes
    <3>3. (mFlush - (mFlush % M)) + M \in Int /\ mRear % M \in Int
      BY <1>1, <3>1, <3>2
    <3>4. mFlush' = Add((mFlush - (mFlush % M)) + M, mRear % M)
      BY <1>3 DEF ClientFlush
    <3>5. ((mFlush - (mFlush % M)) + M) + (mRear % M) \in Int /\ W \in Nat \ {0}
          /\ Counter = 0 .. W - 1
      BY <1>0, <3>3, SizesAre
    <3> QED BY <3>4, <3>5, Quotient, Zenon DEF Add
  <2> QED BY <1>0, <1>3, <2>1
          DEF ClientFlush, TInv, SharedTypes, ClientTypes, ServerTypes, indexVars,
              clientVars, callVars, serverVars
<1>4. ASSUME NEW n \in 1 .. mFrameCount, ClientRelease(n)
      PROVE  TInv'
  <2>1. /\ n \in Int /\ cUnreleased' \in 0 .. mFrameCount
        /\ cpc' \in {cpc, "idle"}
    BY <1>1, <1>4 DEF ClientRelease, TInv, ClientTypes
  <2>2. Add(mRear, n) \in Counter /\ Add(mFront, n) \in Counter
    BY <2>1, AddIs DEF TInv, SharedTypes
  <2>3. mRear' \in Counter /\ mFront' \in Counter
    BY <1>4, <2>2 DEF ClientRelease, TInv, SharedTypes
  <2> QED BY <1>0, <1>4, <2>1, <2>3
          DEF ClientRelease, TInv, SharedTypes, ClientTypes, ServerTypes,
              callVars, serverVars
<1> QED BY <1>2, <1>3, <1>4

(* What an obtainBuffer() of the server finds.                             *)
First(r, front) == IF mIsOut THEN front ELSE r

LEMMA ObtainedIs ==
  ASSUME TInv, NEW r \in Counter, NEW front \in Counter, Obtained(r, front)
  PROVE  /\ ~Sane(Filled(r, front)) =>
              sShutdown' = TRUE /\ sUnreleased' = 0 /\ spc' = "idle"
         /\ Sane(Filled(r, front)) =>
              /\ sShutdown' = sShutdown
              /\ ackFlush => spc' = Resting /\ UNCHANGED <<sUnreleased, sRaw>>
              /\ ~ackFlush =>
                   /\ sUnreleased' <= ServerAvail(Filled(r, front))
                   /\ sUnreleased' > 0 => sRaw' = First(r, front)
                   /\ spc' = "obtained" <=> sUnreleased' > 0
         /\ sUnreleased' \in 0 .. mFrameCount /\ mAvailToClient' \in 0 .. mFrameCount
         /\ sRaw' \in Counter \cup {None} /\ sShutdown' \in BOOLEAN
         /\ spc' \in {"idle", "obtained"}
<1> DEFINE filled == Filled(r, front)
<1>1. /\ track \in Tracks /\ sUnreleased \in 0 .. mFrameCount
      /\ sShutdown \in BOOLEAN /\ sRaw \in Counter \cup {None}
      /\ mAvailToClient \in 0 .. mFrameCount
  BY DEF TInv, ServerTypes
<1>2. mFrameCount \in Nat \ {0}
  BY <1>1, SizesAre
<1>3. CASE ~Sane(filled)
  <2>1. /\ sShutdown' = TRUE /\ sUnreleased' = 0 /\ sRaw' = None
        /\ spc' = "idle" /\ mAvailToClient' = mAvailToClient
    BY <1>3 DEF Obtained
  <2>2. sUnreleased' \in 0 .. mFrameCount
    BY <1>2, <2>1
  <2> HIDE DEF filled
  <2> QED BY <1>1, <1>3, <2>1, <2>2 DEF filled
<1>4. CASE Sane(filled)
  <2>1. filled \in Nat /\ filled <= mFrameCount
    BY <1>1, <1>4, SaneIs
  <2>2. First(r, front) \in Counter
    BY DEF First
  <2> HIDE DEF filled
  <2>3. /\ ServerAvail(filled) \in Nat /\ ServerAvail(filled) <= mFrameCount
        /\ mFrameCount - ServerAvail(filled) \in 0 .. mFrameCount
    BY <1>2, <2>1 DEF ServerAvail
  <2>4. /\ sShutdown' = sShutdown
        /\ mAvailToClient' = mFrameCount - ServerAvail(filled)
    BY <1>4 DEF Obtained, filled
  <2>5. CASE ackFlush
    <3>1. spc' = Resting /\ UNCHANGED <<sUnreleased, sRaw>>
      BY <1>4, <2>5 DEF Obtained, filled
    <3>2. Resting \in {"idle", "obtained"}
      BY DEF Resting
    <3> QED BY <1>1, <1>4, <2>3, <2>4, <2>5, <3>1, <3>2 DEF filled
  <2>6. CASE ~ackFlush
    <3>1. PICK n \in Contiguous(First(r, front), ServerAvail(filled)) :
            /\ sUnreleased' = n
            /\ sRaw' = IF n = 0 THEN None ELSE First(r, front)
            /\ spc' = IF n = 0 THEN "idle" ELSE "obtained"
      BY <1>4, <2>6 DEF Obtained, filled, First
    <3>2. n \in Nat /\ n <= ServerAvail(filled)
      BY <1>1, <2>2, <2>3, <3>1, ContiguousIs
    <3>3. /\ sUnreleased' \in 0 .. mFrameCount
          /\ sUnreleased' <= ServerAvail(filled)
          /\ sUnreleased' > 0 => sRaw' = First(r, front)
          /\ spc' = "obtained" <=> sUnreleased' > 0
          /\ spc' \in {"idle", "obtained"} /\ sRaw' \in Counter \cup {None}
      BY <1>2, <2>2, <2>3, <3>1, <3>2
    <3> QED BY <1>1, <1>4, <2>3, <2>4, <2>6, <3>3 DEF filled
  <2> QED BY <2>5, <2>6
<1> QED BY <1>3, <1>4

LEMMA RebasedTypes ==
  ASSUME TInv, NEW r \in Counter
  PROVE  Rebased(r) \in Counter
<1> DEFINE low == (mFront - (mFront % M)) + (flush % M)
<1>1. /\ W \in Nat \ {0} /\ M \in Nat \ {0} /\ W % M = 0 /\ M <= W
      /\ Counter = 0 .. W - 1 /\ track \in Tracks
      /\ mFront \in 0 .. W - 1 /\ flush \in 0 .. W - 1
  <2>1. track \in Tracks
    BY DEF TInv
  <2>2. /\ W \in Nat \ {0} /\ M \in Nat \ {0} /\ W % M = 0
        /\ Counter = 0 .. W - 1
    BY <2>1, SizesAre
  <2>3. PICK c \in Int, z \in 0 .. M - 1 : W = c * M + z /\ W % M = z
    <3>1. W \in Int
      BY <2>2
    <3> QED BY <2>2, <3>1, Divided, Zenon
  <2>4. W = c * M /\ c > 0
    BY <2>2, <2>3
  <2>5. M <= W
    BY <2>2, <2>4
  <2> QED BY <2>1, <2>2, <2>5 DEF TInv, SharedTypes, ServerTypes
<1>2. low \in 0 .. W - 1
  <2>1. PICK q \in Int, y \in 0 .. M - 1 : mFront = q * M + y /\ mFront % M = y
    <3>1. mFront \in Int
      BY <1>1
    <3> QED BY <1>1, <3>1, Divided, Zenon
  <2>2. PICK c \in Int, z \in 0 .. M - 1 : W = c * M + z /\ W % M = z
    <3>1. W \in Int
      BY <1>1
    <3> QED BY <1>1, <3>1, Divided, Zenon
  <2>3. W = c * M /\ q * M \in Int
    BY <1>1, <2>1, <2>2
  <2>4. q >= 0 /\ q < c
    BY <1>1, <2>1, <2>3
  <2>5. 0 <= q * M /\ (q + 1) * M <= c * M /\ (q + 1) * M = q * M + M
    BY <1>1, <2>2, <2>4
  <2>6. flush % M \in 0 .. M - 1
    BY <1>1, Quotient
  <2>7. PICK g \in 0 .. M - 1 : g = flush % M
    BY <2>6
  <2>8. low = q * M + g
    BY <1>1, <2>1, <2>3, <2>7
  <2> HIDE DEF low
  <2> QED BY <1>1, <2>3, <2>5, <2>7, <2>8
<1> HIDE DEF low
<1>3. Add(low, M) \in Counter /\ low \in Counter
  <2>1. low \in Counter /\ M \in Int
    BY <1>1, <1>2
  <2> QED BY <1>1, <2>1, AddIs, Zenon
<1>4. Rebased(r) \in {low, Add(low, M), r}
  BY DEF Rebased, low
<1> QED BY <1>3, <1>4

(* The server's steps.                                                     *)
LEMMA ServerTypesStay ==
  ASSUME TInv, UNCHANGED track,
         \/ \E ack \in BOOLEAN : ServerObtain(ack)
         \/ ServerLoad \/ ServerFlush \/ ServerRebase \/ ServerFlushWake
         \/ ServerCopy \/ ServerWake \/ ServerForget \/ PeekRear \/ PeekFront
         \/ \E n \in 1 .. mFrameCount : ServerRelease(n)
  PROVE  TInv'
<1>0. /\ track' \in Tracks /\ track \in Tracks
      /\ mFrameCount' = mFrameCount /\ mFrameCountP2' = mFrameCountP2
  BY DEF TInv, mFrameCount, mFrameCountP2
<1>1. /\ mFrameCount \in Nat \ {0} /\ Counter \subseteq Int
      /\ 0 \in Counter /\ None \notin Counter
  BY <1>0, SizesAre
<1> USE DEF TInv, SharedTypes, ClientTypes, ServerTypes
<1>2. ASSUME NEW ack \in BOOLEAN, ServerObtain(ack)
      PROVE  TInv'
  <2>1. flush' \in Counter
    BY <1>2 DEF ServerObtain
  <2> QED BY <1>0, <1>2, <2>1 DEF ServerObtain, indexVars, clientVars, callVars
<1>3. CASE ServerLoad
  <2>1. Obtained(mRear, mFront) /\ mRear \in Counter /\ mFront \in Counter
    BY <1>3 DEF ServerLoad
  <2>2. /\ sUnreleased' \in 0 .. mFrameCount /\ mAvailToClient' \in 0 .. mFrameCount
        /\ sRaw' \in Counter \cup {None} /\ sShutdown' \in BOOLEAN
        /\ spc' \in {"idle", "obtained"}
    BY <2>1, ObtainedIs
  <2>3. UNCHANGED <<indexVars, mFlush, mFutex, mFlags, mBuffers, clientVars,
                    callVars, ackFlush, sFlush, flush, rear, newFront,
                    flushPoint>>
    BY <1>3 DEF ServerLoad
  <2> QED BY <1>0, <2>2, <2>3 DEF indexVars, clientVars, callVars
<1>4. CASE ServerFlush
  <2>1. rear' \in Counter /\ newFront' \in Counter
    BY <1>4, RebasedTypes DEF ServerFlush
  <2> QED BY <1>0, <1>4, <2>1 DEF ServerFlush, indexVars, clientVars, callVars
<1>5. CASE ServerRebase
  <2>1. flushPoint' \in Counter \cup {None}
    BY <1>5 DEF ServerRebase
  <2> QED BY <1>0, <1>5, <2>1 DEF ServerRebase, clientVars, callVars
<1>6. CASE ServerFlushWake
  <2>1. Obtained(rear, newFront) /\ rear \in Counter /\ newFront \in Counter
    BY <1>6 DEF ServerFlushWake
  <2>2. /\ sUnreleased' \in 0 .. mFrameCount /\ mAvailToClient' \in 0 .. mFrameCount
        /\ sRaw' \in Counter \cup {None} /\ sShutdown' \in BOOLEAN
        /\ spc' \in {"idle", "obtained"}
    BY <2>1, ObtainedIs
  <2>3. mFutex' \subseteq Bits /\ cpc' \in {cpc, "flags"}
    BY <1>6 DEF ServerFlushWake, Wake, Woken, Bits
  <2>4. /\ rear' = 0 /\ newFront' = 0
        /\ UNCHANGED <<indexVars, mFlush, mFlags, mBuffers, op, timeout,
                       ignoreInterrupt, cUnreleased, cShutdown, expected,
                       callVars, ackFlush, sFlush, flush, flushPoint>>
    BY <1>6 DEF ServerFlushWake
  <2>5. SharedTypes' /\ ClientTypes'
    BY <1>0, <2>3, <2>4 DEF indexVars, callVars
  <2>6. ServerTypes'
    BY <1>0, <1>1, <2>2, <2>4 DEF callVars
  <2> QED BY <1>0, <2>5, <2>6
<1>7. CASE ServerCopy
  <2>1. mBuffers' \in [0 .. mFrameCountP2 - 1 -> Counter \cup {None}]
    <3>1. sUnreleased \in Nat /\ mRear \in Counter
      BY <1>1
    <3> QED BY <1>7, <3>1, WrittenTypes DEF ServerCopy
  <2> QED BY <1>0, <1>7, <2>1 DEF ServerCopy, indexVars, clientVars, callVars
<1>8. CASE ServerWake
  <2>1. /\ mFutex' \subseteq Bits /\ cpc' \in {cpc, "flags"}
        /\ spc' \in {"idle", "obtained", "copied"}
    BY <1>8 DEF ServerWake, Wake, Woken, Bits
  <2>2. UNCHANGED <<indexVars, mFlush, mFlags, mBuffers, op, timeout,
                    ignoreInterrupt, cUnreleased, cShutdown, expected, callVars,
                    ackFlush, sFlush, flush, rear, newFront, sUnreleased,
                    sShutdown, mAvailToClient, sRaw, flushPoint>>
    BY <1>8 DEF ServerWake
  <2> QED BY <1>0, <2>1, <2>2 DEF indexVars, callVars
<1>9. CASE ServerForget
  BY <1>0, <1>9 DEF ServerForget, indexVars, clientVars, callVars
<1>10. CASE PeekRear
  BY <1>0, <1>10 DEF PeekRear, indexVars, clientVars, serverVars
<1>11. CASE PeekFront
  <2>1. sShutdown' \in BOOLEAN
    BY <1>11 DEF PeekFront
  <2> QED BY <1>0, <1>11, <2>1 DEF PeekFront, indexVars, clientVars
<1>12. ASSUME NEW n \in 1 .. mFrameCount, ServerRelease(n)
       PROVE  TInv'
  <2>1. n \in Int /\ sUnreleased' \in 0 .. mFrameCount
    BY <1>1, <1>12 DEF ServerRelease
  <2>2. /\ Add(mRear, n) \in Counter /\ Add(mFront, n) \in Counter
        /\ sRaw \in Counter => Add(sRaw, n) \in Counter
    BY <1>0, <2>1, AddIs
  <2>3. mRear' \in Counter /\ mFront' \in Counter
    BY <1>12, <2>2 DEF ServerRelease
  <2>4. sRaw' \in Counter \cup {None}
    <3>1. Add(sRaw, n) \in Counter
      <4>1. W \in Nat \ {0} /\ Counter = 0 .. W - 1 /\ sRaw + n \in Int
        BY <1>0, <1>1, <2>1, SizesAre DEF None
      <4> QED BY <4>1, Quotient, Zenon DEF Add
    <3> QED BY <1>12, <3>1 DEF ServerRelease
  <2>5. spc' \in {"wake", "idle", spc}
    BY <1>12 DEF ServerRelease
  <2> QED BY <1>0, <1>12, <2>1, <2>3, <2>4, <2>5
          DEF ServerRelease, clientVars, callVars
<1> QED BY <1>2, <1>3, <1>4, <1>5, <1>6, <1>7, <1>8, <1>9, <1>10, <1>11, <1>12

LEMMA StepKeepsTypes == TInv /\ [Next]_<<track, vars>> => TInv'
<1> SUFFICES ASSUME TInv, [Next]_<<track, vars>> PROVE TInv'
  OBVIOUS
<1>1. CASE UNCHANGED <<track, vars>>
  BY <1>1 DEF vars, indexVars, clientVars, callVars, serverVars, TInv,
     SharedTypes, ClientTypes, ServerTypes, mFrameCount, mFrameCountP2
<1>2. CASE Next
  <2>1. TRUE \in BOOLEAN /\ FALSE \in BOOLEAN
    OBVIOUS
  <2> QED BY <1>2, <2>1, CallTypes, LookTypes, ClientTypesStay, ServerTypesStay
          DEF Next, Client, ClientStep, Caller, Server, ServerStep
<1> QED BY <1>1, <1>2

(* The control block and both sides' own state hold what they should, in   *)
(* every behaviour, whatever the client flushes and when: no side ever     *)
(* holds or counts more frames than the ring has.                          *)
THEOREM TypeCorrect == Spec => []TypeOK
<1>1. Init => TInv
  BY InitTypes
<1>2. TInv /\ [Next]_<<track, vars>> => TInv'
  BY StepKeepsTypes
<1>3. TInv => TypeOK
  BY TypesTell
<1> QED BY <1>1, <1>2, <1>3, PTL DEF Spec
-----------------------------------------------------------------------------
(* How far a counter is ahead of another.                                  *)
Gap(f, c) == (c - f) % W

LEMMA AddCases ==
  ASSUME W \in Nat \ {0}, NEW f \in Counter, NEW n \in 0 .. W
  PROVE  /\ Add(f, n) \in Counter
         /\ f + n < W => Add(f, n) = f + n
         /\ f + n >= W => Add(f, n) = f + n - W
<1>1. f \in 0 .. W - 1 /\ Counter = 0 .. W - 1
  BY DEF Counter
<1>2. /\ (f + n) % W = IF f + n < W THEN f + n ELSE f + n - W
      /\ (f + n) % W \in 0 .. W - 1
  BY <1>1, Sum, Zenon
<1>3. PICK s \in 0 .. W - 1 :
        s = Add(f, n) /\ s = IF f + n < W THEN f + n ELSE f + n - W
  BY <1>2, Zenon DEF Add
<1>4. (f + n < W => s = f + n) /\ (f + n >= W => s = f + n - W)
  BY <1>1, <1>3
<1> QED BY <1>1, <1>3, <1>4, Zenon

LEMMA GapIs ==
  ASSUME W \in Nat \ {0}, NEW f \in Counter, NEW c \in Counter
  PROVE  Gap(f, c) \in Counter /\ c = Add(f, Gap(f, c))
BY Reached, Zenon DEF Gap, Add, Counter

LEMMA GapGrows ==
  ASSUME W \in Nat \ {0}, NEW f \in Counter, NEW r \in Counter, NEW n \in Nat,
         Gap(f, r) + n < W
  PROVE  Gap(f, Add(r, n)) = Gap(f, r) + n
BY Grows, Zenon DEF Gap, Add, Counter

LEMMA GapShrinks ==
  ASSUME W \in Nat \ {0}, NEW f \in Counter, NEW r \in Counter, NEW n \in Nat,
         n <= Gap(f, r)
  PROVE  Gap(Add(f, n), r) = Gap(f, r) - n
<1>1. n \in 0 .. Gap(f, r)
  BY GapIs DEF Counter
<1> QED BY <1>1, Shrinks, Zenon DEF Gap, Add, Counter

LEMMA GapBetween ==
  ASSUME W \in Nat \ {0}, NEW f \in Counter, NEW c \in Counter,
         NEW r \in Counter, Gap(f, c) <= Gap(f, r)
  PROVE  Gap(c, r) = Gap(f, r) - Gap(f, c)
BY Between, Zenon DEF Gap, Counter

LEMMA GapNone ==
  ASSUME W \in Nat \ {0}, NEW f \in Counter
  PROVE  Gap(f, f) = 0
<1>1. f - f = 0 /\ 0 \in 0 .. W - 1 /\ 0 \in Int
  BY DEF Counter
<1> QED BY <1>1, Wraps, Zenon DEF Gap

LEMMA GapAdd ==
  ASSUME W \in Nat \ {0}, NEW f \in Counter, NEW n \in Counter
  PROVE  Gap(f, Add(f, n)) = n
<1>1. n \in Nat /\ 0 + n < W /\ 0 + n = n
  BY DEF Counter
<1>2. Gap(f, f) + n < W
  BY <1>1, GapNone, Zenon
<1>3. Gap(f, Add(f, n)) = Gap(f, f) + n
  BY <1>1, <1>2, GapGrows, Zenon
<1> QED BY <1>1, <1>3, GapNone, Zenon
-----------------------------------------------------------------------------
(* Where a flush moves the front *)

(* A counter is a multiple of b and its low bits.                          *)
Splits(b, f, w, y, q) ==
  w = q * b /\ w + b <= W /\ f = w + y /\ f % b = y

LEMMA Split ==
  ASSUME W \in Nat \ {0}, NEW b \in Nat \ {0}, W % b = 0, NEW f \in Counter
  PROVE  \E w \in Nat, y \in 0 .. b - 1, q \in Int : Splits(b, f, w, y, q)
<1>1. PICK q \in Int, y \in 0 .. b - 1 : f = q * b + y /\ f % b = y
  <2>1. f \in Int
    BY DEF Counter
  <2> QED BY <2>1, Divided, Zenon
<1>2. PICK c \in Int, z \in 0 .. b - 1 : W = c * b + z /\ W % b = z
  <2>1. W \in Int
    OBVIOUS
  <2> QED BY <2>1, Divided, Zenon
<1>3. W = c * b /\ q * b \in Int /\ f >= 0 /\ f < W
  BY <1>1, <1>2 DEF Counter
<1>4. q >= 0 /\ q < c
  BY <1>1, <1>3
<1>5. 0 <= q * b /\ (q + 1) * b <= c * b /\ (q + 1) * b = q * b + b
  BY <1>2, <1>4
<1>6. PICK w \in Nat : w = q * b
  BY <1>3, <1>5
<1>7. Splits(b, f, w, y, q)
  BY <1>1, <1>3, <1>5, <1>6 DEF Splits
<1> QED BY <1>7

(* The low bits of a counter d frames ahead of f, whose own are y.         *)
Carries(b, f, y, d) ==
  /\ y + d < b => Add(f, d) % b = y + d
  /\ y + d >= b => Add(f, d) % b = y + d - b

LEMMA LowBits ==
  ASSUME W \in Nat \ {0}, NEW b \in Nat \ {0}, W % b = 0,
         NEW q \in Int, NEW y \in 0 .. b - 1, NEW d \in 0 .. b - 1, NEW f \in Int,
         f = q * b + y
  PROVE  Carries(b, f, y, d)
<1>1. PICK z \in Int : z = y + d
  OBVIOUS
<1>2. PICK k \in Int : k = q * b
  OBVIOUS
<1>3. PICK x \in Int : x = f + d /\ x = z + k /\ x + 0 = x /\ 0 \in Int
  BY <1>1, <1>2
<1>4. Add(f, d) % b = x % b
  <2>1. (x % W) % b = x % b
    BY NestedAlone, Zenon
  <2> QED BY <1>3, <2>1, Zenon DEF Add
<1>5. x % b = z % b
  <2>1. (z + q * b) % b = z % b
    BY Congruent, Zenon
  <2> QED BY <1>2, <1>3, <2>1, Zenon
<1>6. /\ z < b => z % b = z
      /\ z >= b => z % b = z - b
  <2>1. /\ z < b => z \in 0 .. b - 1
        /\ z >= b => z \in b .. 2 * b - 1
    BY <1>1
  <2> QED BY <2>1, Wraps, Zenon
<1>7. ASSUME y + d < b PROVE Add(f, d) % b = y + d
  BY <1>1, <1>4, <1>5, <1>6, <1>7, Zenon
<1>8. ASSUME y + d >= b PROVE Add(f, d) % b = y + d - b
  <2>1. z >= b
    BY <1>1, <1>8, Zenon
  <2>2. Add(f, d) % b = z - b
    BY <1>4, <1>5, <1>6, <2>1, Zenon
  <2>3. z - b = y + d - b
    BY <1>1
  <2> QED BY <2>2, <2>3, Zenon
<1> QED BY <1>7, <1>8, Zenon DEF Carries

(* p is d, r is e frames ahead of f.                                       *)
AreApart(m, b, h, y, d, e, f, low) ==
  /\ low \in 0 .. m - 1 /\ y + d \in Int
  /\ y + d < b => low = f + d /\ f + d < m
  /\ y + d >= b =>
       /\ low + b = f + d /\ f = low + (b - d) /\ b - d \in Nat
       /\ (b - d) + e < h /\ (b - d) + e >= b /\ (b - d) + e < m

LEMMA Apart ==
  ASSUME NEW m \in Nat, NEW b \in Nat, NEW h \in Nat, NEW w \in Nat,
         NEW y \in 0 .. b - 1, NEW d \in Nat, NEW e \in Nat, NEW f, NEW g,
         NEW low,
         w + b <= m, f = w + y, d <= e, b + e <= h, e < b, h < m,
         y + d < b => g = y + d, y + d >= b => g = y + d - b,
         low = (f - y) + g
  PROVE  AreApart(m, b, h, y, d, e, f, low)
BY DEF AreApart

(* The offset of p in the low bits and the rest of f tell p, if it is in   *)
(* the ring: the low bits may have wrapped once since f, and the distance  *)
(* to r tells whether they did.                                            *)
Locates(low, b, h, p, r) ==
  /\ low \in Counter
  /\ \/ p = low /\ Gap(low, r) < b
     \/ p = Add(low, b) /\ Gap(low, r) \in b .. h - 1

LEMMA Relocated ==
  ASSUME W \in Nat \ {0}, NEW b \in Nat \ {0}, NEW h \in Nat, W % b = 0,
         NEW f \in Counter, NEW p \in Counter, NEW r \in Counter,
         Gap(f, p) <= Gap(f, r), b + Gap(f, r) <= h, Gap(f, r) < b, h < W,
         NEW low, low = (f - (f % b)) + (p % b)
  PROVE  Locates(low, b, h, p, r)
<1>1. PICK w \in Nat, y \in 0 .. b - 1, q \in Int : Splits(b, f, w, y, q)
  BY Split, Zenon
<1>2. f = q * b + y /\ f = w + y /\ w + b <= W /\ f % b = y
  BY <1>1, Zenon DEF Splits
<1>3. PICK d \in Counter : d = Gap(f, p) /\ p = Add(f, d)
  BY GapIs, Zenon
<1>4. PICK e \in Counter : e = Gap(f, r) /\ r = Add(f, e)
  BY GapIs, Zenon
<1>5. d <= e /\ b + e <= h /\ e < b
  BY <1>3, <1>4, Zenon
<1>6. d \in 0 .. b - 1 /\ d \in 0 .. W /\ f \in Int /\ d \in Nat /\ e \in Nat
      /\ W \in Nat /\ b \in Nat
  BY <1>3, <1>4, <1>5 DEF Counter
<1>7. /\ y + d < b => p % b = y + d
      /\ y + d >= b => p % b = y + d - b
  <2>1. Carries(b, f, y, d)
    <3>1. f = q * b + y /\ f \in Int /\ d \in 0 .. b - 1
      BY <1>2, <1>6, Zenon
    <3> QED BY <3>1, LowBits, Zenon
  <2> QED BY <1>3, <2>1, Zenon DEF Carries
<1>8. PICK g : g = p % b /\ low = (f - y) + g
  BY <1>2, Zenon
<1>9. /\ low \in 0 .. W - 1 /\ y + d \in Int
      /\ y + d < b => low = f + d /\ f + d < W
      /\ y + d >= b =>
           /\ low + b = f + d /\ f = low + (b - d) /\ b - d \in Nat
           /\ (b - d) + e < h /\ (b - d) + e >= b /\ (b - d) + e < W
  <2>1. /\ y + d < b => g = y + d
        /\ y + d >= b => g = y + d - b
    BY <1>7, <1>8, Zenon
  <2>2. w + b <= W /\ f = w + y
    BY <1>2, Zenon
  <2>3. low = (f - y) + g
    BY <1>8, Zenon
  <2>4. AreApart(W, b, h, y, d, e, f, low)
    BY <1>5, <1>6, <2>1, <2>2, <2>3, Apart, Zenon
  <2> QED BY <2>4, Zenon DEF AreApart
<1>10. low \in Counter
  BY <1>9, Zenon DEF Counter
<1>11. CASE y + d < b
  <2>1. p = low
    <3>1. f + d < W => Add(f, d) = f + d
      BY <1>6, AddCases, Zenon
    <3> QED BY <1>3, <1>9, <1>11, <3>1, Zenon
  <2>2. Gap(p, r) = Gap(f, r) - Gap(f, p)
    BY GapBetween, Zenon
  <2>3. Gap(p, r) < b
    BY <1>3, <1>4, <1>5, <1>6, <2>2
  <2> QED BY <1>10, <2>1, <2>3, Zenon DEF Locates
<1>12. CASE y + d >= b
  <2>1. p = Add(low, b)
    BY <1>3, <1>9, <1>12, Zenon DEF Add
  <2>2. b - d \in Counter /\ b - d < W /\ b - d \in 0 .. W
    BY <1>6, <1>9, <1>10, <1>12 DEF Counter
  <2>3. f = Add(low, b - d)
    <3>1. low + (b - d) < W => Add(low, b - d) = low + (b - d)
      BY <1>10, <2>2, AddCases, Zenon
    <3>2. f < W
      BY DEF Counter
    <3> QED BY <1>9, <1>12, <3>1, <3>2, Zenon
  <2>4. Gap(low, f) = b - d
    <3>1. Gap(low, Add(low, b - d)) = b - d
      BY <1>10, <2>2, GapAdd, ZenonT(60)
    <3> QED BY <2>3, <3>1, ZenonT(60)
  <2>5. Gap(low, f) + e < W
    BY <1>9, <1>12, <2>4, ZenonT(60)
  <2>6. Gap(low, Add(f, e)) = Gap(low, f) + e
    BY <1>6, <1>10, <2>5, GapGrows, ZenonT(60)
  <2>7. Gap(low, r) = (b - d) + e
    BY <1>4, <2>4, <2>6, Zenon
  <2>8. (b - d) + e \in b .. h - 1
    BY <1>6, <1>9, <1>12
  <2> QED BY <1>10, <2>1, <2>7, <2>8, Zenon DEF Locates
<1> QED
  <2>1. y + d < b \/ y + d >= b
    BY <1>9
  <2> QED BY <1>11, <1>12, <2>1, Zenon

LEMMA RebasedIs ==
  ASSUME TInv, track.flushes, NEW p \in Counter, NEW r \in Counter,
         Gap(mFront, p) <= Gap(mFront, r), Gap(mFront, r) <= mFrameCount,
         flush % M = p % M
  PROVE  Rebased(r) = p
<1> DEFINE low == (mFront - (mFront % M)) + (flush % M)
<1>1. track \in Tracks /\ mFront \in Counter
  BY DEF TInv, SharedTypes
<1>2. /\ W \in Nat \ {0} /\ M \in Nat \ {0} /\ W % M = 0 /\ M = 2 * mFrameCountP2
      /\ Counter = 0 .. W - 1
      /\ mFrameCount \in Nat /\ mFrameCountP2 \in Nat \ {0} /\ W \div 2 \in Nat
      /\ mFrameCount <= mFrameCountP2 /\ 3 * mFrameCountP2 <= W \div 2
      /\ W \div 2 < W
  BY <1>1, SizesAre
<1>3. PICK e \in Counter : e = Gap(mFront, r)
  BY <1>1, <1>2, GapIs, Zenon
<1>4. PICK d \in Counter : d = Gap(mFront, p)
  BY <1>1, <1>2, GapIs, Zenon
<1>5. /\ M + e <= W \div 2 /\ e < M /\ e - d <= mFrameCount
  BY <1>2, <1>3, <1>4
<1>6. Locates(low, M, W \div 2, p, r)
  <2>1. low = (mFront - (mFront % M)) + (p % M)
    BY Zenon
  <2> HIDE DEF low
  <2>2. M + Gap(mFront, r) <= W \div 2 /\ Gap(mFront, r) < M
    BY <1>3, <1>5, Zenon
  <2> QED BY <1>1, <1>2, <2>1, <2>2, Relocated, Zenon
<1>7. Sane(Filled(r, p))
  <2>0. Gap(p, r) = Gap(mFront, r) - Gap(mFront, p)
    <3>1. W \in Nat \ {0}
      BY <1>2, Zenon
    <3> QED BY <1>1, <3>1, GapBetween, Zenon
  <2>1. Gap(p, r) = e - d
    BY <1>3, <1>4, <2>0, Zenon
  <2>2. (r - p) % W <= mFrameCount
    BY <1>5, <2>1, Zenon DEF Gap
  <2> QED BY <1>1, <2>2, FilledIs, Zenon
<1> HIDE DEF low
<1>8. PICK x \in Counter : x = Gap(low, r)
  BY <1>2, <1>6, GapIs, Zenon DEF Locates
<1>9. Filled(r, low) = IF x < W \div 2 THEN x ELSE x - W
  BY <1>8, Zenon DEF Filled, Diff, Gap
<1>10. CASE p = low /\ x < M
  <2>1. ~(Filled(r, low) >= M)
    BY <1>2, <1>8, <1>9, <1>10
  <2> QED BY <1>7, <1>10, <2>1, Zenon DEF Rebased, low
<1>11. CASE p = Add(low, M) /\ x \in M .. (W \div 2) - 1
  <2>1. Filled(r, low) >= M
    BY <1>2, <1>8, <1>9, <1>11
  <2> QED BY <1>7, <1>11, <2>1, Zenon DEF Rebased, low
<1> QED BY <1>6, <1>8, <1>10, <1>11, Zenon DEF Locates
-----------------------------------------------------------------------------
(* The frames in the ring *)

(* n of P slots, from that of f on, hold the frames that belong there.     *)
IsThere(P, b, f, k) == b[(f + k) % P] = Add(f, k)
Holds(P, b, f, n) == \A k \in 0 .. n - 1 : IsThere(P, b, f, k)

LEMMA HoldsLess ==
  ASSUME NEW P, NEW b, NEW f, NEW n \in Int, Holds(P, b, f, n), NEW i \in Int, i <= n
  PROVE  Holds(P, b, f, i)
BY DEF Holds

(* The same frame, counted from further on.                                *)
LEMMA SameFrame ==
  ASSUME track \in Tracks, NEW f \in Counter, NEW i \in Nat, NEW k \in Nat
  PROVE  /\ Slot(Add(f, i) + k) = Slot(f + (i + k))
         /\ Add(Add(f, i), k) = Add(f, i + k)
<1>1. /\ W \in Nat \ {0} /\ mFrameCountP2 \in Nat \ {0}
      /\ W % mFrameCountP2 = 0 /\ Counter = 0 .. W - 1
  BY SizesAre
<1>2. f + i \in Int /\ k \in Int /\ f + (i + k) = (f + i) + k
  BY <1>1
<1>3. f + i \in Int /\ k \in Int
  BY <1>2
<1>4. (((f + i) % W) + k) % mFrameCountP2 = ((f + i) + k) % mFrameCountP2
  BY <1>1, <1>3, Nested, ZenonT(60)
<1>5. (((f + i) % W) + k) % W = ((f + i) + k) % W
  BY <1>1, <1>3, NestedWrap, ZenonT(60)
<1> QED BY <1>2, <1>4, <1>5, ZenonT(60) DEF Slot, Add

LEMMA HoldsFurther ==
  ASSUME track \in Tracks, NEW b, NEW f \in Counter, NEW n \in Nat,
         NEW i \in Nat, i <= n, Holds(mFrameCountP2, b, f, n)
  PROVE  Holds(mFrameCountP2, b, Add(f, i), n - i)
<1> SUFFICES ASSUME NEW k \in 0 .. (n - i) - 1
             PROVE  IsThere(mFrameCountP2, b, Add(f, i), k)
  BY Zenon DEF Holds
<1>1. i + k \in 0 .. n - 1 /\ k \in Nat
  OBVIOUS
<1>2. IsThere(mFrameCountP2, b, f, i + k)
  BY <1>1, Zenon DEF Holds
<1>3. /\ Slot(Add(f, i) + k) = Slot(f + (i + k))
      /\ Add(Add(f, i), k) = Add(f, i + k)
  BY <1>1, SameFrame, Zenon
<1> QED BY <1>2, <1>3, Zenon DEF IsThere, Slot

(* As many frames as there are slots are in different ones.                *)
LEMMA OneMultiple ==
  ASSUME NEW m \in Nat \ {0}, NEW a \in Int, NEW b \in Int, NEW r \in Int,
         NEW p \in Int, NEW q \in Int, a = p * m + r, b = q * m + r,
         a - b < m, b - a < m
  PROVE  a = b
<1>1. PICK k \in Int : k = p - q /\ a - b = k * m
  OBVIOUS
<1>2. CASE k >= 1
  <2>1. k * m >= m
    BY <1>2
  <2> QED BY <1>1, <2>1
<1>3. CASE k <= -1
  <2>1. k * m <= -m
    BY <1>3
  <2> QED BY <1>1, <2>1
<1>4. CASE k = 0
  BY <1>1, <1>4
<1> QED BY <1>2, <1>3, <1>4

LEMMA SlotsDiffer ==
  ASSUME track \in Tracks, NEW x \in Int, NEW i \in Int, NEW k \in Int,
         Slot(x + i) = Slot(x + k), i - k < mFrameCountP2, k - i < mFrameCountP2
  PROVE  i = k
<1>1. mFrameCountP2 \in Nat \ {0} /\ x + i \in Int /\ x + k \in Int
  BY SizesAre
<1>2. PICK a \in Int : a = x + i
  BY <1>1
<1>3. PICK b \in Int : b = x + k
  BY <1>1
<1>4. PICK p \in Int, r \in 0 .. mFrameCountP2 - 1 :
        a = p * mFrameCountP2 + r /\ a % mFrameCountP2 = r
  BY <1>1, Divided, Zenon
<1>5. PICK q \in Int, s \in 0 .. mFrameCountP2 - 1 :
        b = q * mFrameCountP2 + s /\ b % mFrameCountP2 = s
  BY <1>1, Divided, Zenon
<1>6. r = s
  BY <1>2, <1>3, <1>4, <1>5, Zenon DEF Slot
<1>7. r \in Int /\ a - b < mFrameCountP2 /\ b - a < mFrameCountP2
  BY <1>1, <1>2, <1>3, <1>4
<1>8. b = q * mFrameCountP2 + r
  BY <1>5, <1>6, Zenon
<1>9. a = b
  BY <1>1, <1>4, <1>7, <1>8, OneMultiple, Zenon
<1> QED BY <1>2, <1>3, <1>9

(* What was written behind the frames in the ring is there, and it did not *)
(* touch them.                                                             *)
LEMMA HoldsWritten ==
  ASSUME TInv, NEW f \in Counter, NEW i \in Nat, NEW n \in Nat,
         i + n <= mFrameCountP2, Holds(mFrameCountP2, mBuffers, f, i)
  PROVE  Holds(mFrameCountP2, Written(Add(f, i), n), f, i + n)
<1> DEFINE r == Add(f, i)
           b == Written(r, n)
<1>1. /\ track \in Tracks /\ mFrameCountP2 \in Nat \ {0} /\ f \in Int
      /\ DOMAIN mBuffers = 0 .. mFrameCountP2 - 1
  BY SizesAre DEF TInv, SharedTypes
<1>2. ASSUME NEW j \in 0 .. (i + n) - 1 PROVE IsThere(mFrameCountP2, b, f, j)
  <2>1. j \in Nat /\ f + j \in Int
    BY <1>1
  <2>2. Slot(f + j) \in DOMAIN mBuffers
    BY <1>1, <2>1, Quotient, Zenon DEF Slot
  <2>3. b[Slot(f + j)] =
          IF \E k \in 0 .. n - 1 : Slot(f + j) = Slot(r + k)
          THEN Add(r, CHOOSE k \in 0 .. n - 1 : Slot(f + j) = Slot(r + k))
          ELSE mBuffers[Slot(f + j)]
    BY <2>2, Zenon DEF Written
  <2>4. ASSUME NEW k \in 0 .. n - 1, Slot(f + j) = Slot(r + k)
        PROVE  j = i + k
    <3>1. k \in Nat /\ i + k \in Int /\ j \in Int
          /\ j - (i + k) < mFrameCountP2 /\ (i + k) - j < mFrameCountP2
      BY <1>1
    <3>2. Slot(f + j) = Slot(f + (i + k))
      BY <1>1, <2>4, <3>1, SameFrame, Zenon
    <3> QED BY <1>1, <3>1, <3>2, SlotsDiffer, Zenon
  <2>5. CASE j < i
    <3>1. ~\E k \in 0 .. n - 1 : Slot(f + j) = Slot(r + k)
      <4>1. ASSUME NEW k \in 0 .. n - 1, Slot(f + j) = Slot(r + k)
            PROVE  FALSE
        <5>1. j = i + k
          BY <2>4, <4>1, Zenon
        <5> QED BY <2>5, <5>1
      <4> QED BY <4>1, Zenon
    <3>2. b[Slot(f + j)] = mBuffers[Slot(f + j)]
      BY <2>3, <3>1, Zenon
    <3>3. j \in 0 .. i - 1
      BY <2>5
    <3>4. IsThere(mFrameCountP2, mBuffers, f, j)
      BY <3>3, Zenon DEF Holds
    <3> QED BY <3>2, <3>4, Zenon DEF IsThere, Slot
  <2>6. CASE j >= i
    <3>1. PICK l \in 0 .. n - 1 : j = i + l /\ l \in Nat
      <4>1. j - i \in 0 .. n - 1 /\ j = i + (j - i) /\ j - i \in Nat
        BY <2>6
      <4> QED BY <4>1
    <3>2. Slot(f + j) = Slot(r + l) /\ Add(r, l) = Add(f, j)
      BY <1>1, <3>1, SameFrame, Zenon
    <3>3. PICK k \in 0 .. n - 1 :
            /\ k = CHOOSE c \in 0 .. n - 1 : Slot(f + j) = Slot(r + c)
            /\ Slot(f + j) = Slot(r + k)
      BY <3>2, Zenon
    <3>4. j = i + k
      BY <2>4, <3>3, Zenon
    <3>5. k = l
      BY <3>1, <3>4
    <3>6. b[Slot(f + j)] = Add(r, l)
      BY <2>3, <3>2, <3>3, <3>5, Zenon
    <3> QED BY <3>2, <3>6, Zenon DEF IsThere, Slot
  <2> QED BY <2>5, <2>6
<1> QED BY <1>2, Zenon DEF Holds
-----------------------------------------------------------------------------
(* The invariant *)

Ahead(c) == Gap(mFront, c)
Inside == Ahead(mRear)

(* The ring is never fuller than it should be; only the two loads of       *)
(* framesReady() may find otherwise, and shut the server down.             *)
Bounded ==
  /\ Inside <= mFrameCount /\ ~cShutdown
  /\ sShutdown \/ peeked # None => mIsOut /\ Makes("framesReady")

(* The writer has room for what it may release, the reader has as much.    *)
ClientHolds ==
  cpc \in {"obtained", "copied"} =>
    IF mIsOut THEN Inside + cUnreleased <= mFrameCount ELSE cUnreleased <= Inside

MixerHolds ==
  /\ spc # "copied" /\ (spc = "obtained" => sUnreleased > 0)
  /\ spc \in {"rear", "obtained", "wake"} /\ sUnreleased > 0 =>
       sRaw = mFront /\ sUnreleased <= Inside
  /\ spc = "idle" /\ ~sShutdown => sUnreleased = 0
  /\ spc = "rear" /\ track.flushes => sUnreleased = 0

RecorderHolds ==
  /\ spc \in {"obtained", "copied", "wake"} => Inside + sUnreleased <= mFrameCount
  /\ ~ackFlush

ServerHolds == IF mIsOut THEN MixerHolds ELSE RecorderHolds

(* A flush that the server has not acknowledged is among the frames in the *)
(* ring, behind those the server may release; its offset is in mFlush.     *)
Flushes ==
  /\ flushPoint # None <=> mFlush # sFlush \/ spc = "rebase"
  /\ flushPoint # None =>
       /\ mFlush % M = flushPoint % M /\ Ahead(flushPoint) <= Inside
       /\ spc \in {"obtained", "wake"} => sUnreleased <= Ahead(flushPoint)
  /\ ~(mIsOut /\ track.flushes) =>
       mFlush = sFlush /\ flush = sFlush /\ spc \notin {"rebase", "flushWake"}

(* What the server loaded before it acts upon a flush, and while it does.  *)
Polls ==
  /\ spc = "rear" => flush = mFlush
  /\ spc = "rebase" =>
       /\ flush = sFlush /\ sUnreleased = 0
       /\ Ahead(newFront) <= Ahead(rear) /\ Ahead(rear) <= Inside
       /\ IF flush = mFlush THEN newFront = flushPoint
                            ELSE Ahead(rear) <= Ahead(flushPoint)
  /\ spc = "flushWake" =>
       /\ newFront = mFront /\ sUnreleased = 0 /\ Ahead(rear) <= Inside
       /\ flushPoint # None => Ahead(rear) <= Ahead(flushPoint)

(* The frames in the ring, and those the writer has written behind them.   *)
Numbered(n) == Holds(mFrameCountP2, mBuffers, mFront, n)

Frames ==
  /\ Numbered(Inside)
  /\ mIsOut /\ cpc = "copied" => Numbered(Inside + cUnreleased)
  /\ ~mIsOut /\ spc \in {"copied", "wake"} => Numbered(Inside + sUnreleased)

Ring == Bounded /\ ClientHolds /\ ServerHolds /\ Flushes /\ Polls /\ Frames
IInv == TInv /\ Ring

(* Where the client may flush, the server is not disturbed between two     *)
(* loads of a poll, and Track::start() does not acknowledge the flush      *)
(* while the mixer holds a buffer.                                         *)
Serialized ==
  \A t \in Tracks :
    t.flushes => ~FlushRaces /\ ~(AckWhileHolding /\ "start" \in t.calls)

LEMMA SameTrack ==
  ASSUME UNCHANGED track
  PROVE  /\ mIsOut' = mIsOut /\ mFrameCount' = mFrameCount
         /\ mFrameCountP2' = mFrameCountP2 /\ M' = M
         /\ Makes("framesReady")' <=> Makes("framesReady")
BY DEF mIsOut, mFrameCount, mFrameCountP2, M, Makes

LEMMA RingIs ==
  ASSUME TInv, Bounded
  PROVE  /\ track \in Tracks /\ W \in Nat \ {0} /\ mFrameCount \in Nat
         /\ mFrameCountP2 \in Nat /\ mFrameCount <= mFrameCountP2
         /\ mFrameCount < W /\ M \in Nat \ {0} /\ W % M = 0
         /\ mFront \in Counter /\ mRear \in Counter /\ None \notin Counter
         /\ Inside \in Nat /\ Inside <= mFrameCount
         /\ Filled(mRear, mFront) = Inside /\ Sane(Filled(mRear, mFront))
         /\ \A c \in Counter : Ahead(c) \in Nat /\ Ahead(c) < W
         /\ cUnreleased \in Nat /\ sUnreleased \in Nat
         /\ mIsOut \in BOOLEAN
<1>1. /\ track \in Tracks /\ mFront \in Counter /\ mRear \in Counter
      /\ cUnreleased \in 0 .. mFrameCount /\ sUnreleased \in 0 .. mFrameCount
  BY DEF TInv, SharedTypes, ClientTypes, ServerTypes
<1>2. /\ W \in Nat \ {0} /\ mFrameCount \in Nat /\ mFrameCountP2 \in Nat
      /\ mFrameCount <= mFrameCountP2 /\ mFrameCount < W /\ M \in Nat \ {0}
      /\ W % M = 0 /\ None \notin Counter /\ Counter = 0 .. W - 1
      /\ mIsOut \in BOOLEAN
  BY <1>1, SizesAre
<1>3. ASSUME NEW c \in Counter PROVE Ahead(c) \in Nat /\ Ahead(c) < W
  <2>1. Ahead(c) \in Counter
    BY <1>1, <1>2, GapIs, Zenon DEF Ahead
  <2> QED BY <1>2, <2>1
<1>4. Inside \in Nat /\ Inside <= mFrameCount
  BY <1>1, <1>3 DEF Inside, Bounded
<1>5. Filled(mRear, mFront) = Inside /\ Sane(Filled(mRear, mFront))
  <2>1. Inside = (mRear - mFront) % W
    BY Zenon DEF Inside, Ahead, Gap
  <2> QED BY <1>1, <1>4, <2>1, FilledIs, Zenon
<1> QED BY <1>1, <1>2, <1>3, <1>4, <1>5

LEMMA InitRing == Init => IInv
<1> SUFFICES ASSUME Init PROVE IInv
  OBVIOUS
<1>1. TInv
  BY InitTypes
<1>2. mFront \in Counter /\ W \in Nat \ {0} /\ mFrameCount \in Nat
  BY <1>1, SizesAre DEF TInv, SharedTypes
<1>3. Inside = 0
  BY <1>2, GapNone, Zenon DEF Init, Inside, Ahead
<1>4. Bounded
  BY <1>2, <1>3 DEF Init, Bounded
<1>5. ClientHolds /\ ServerHolds /\ Flushes /\ Polls
  BY DEF Init, ClientHolds, ServerHolds, MixerHolds, RecorderHolds, Flushes, Polls
<1>6. Frames
  <2>1. Numbered(0)
    BY DEF Numbered, Holds
  <2>2. cpc # "copied" /\ spc \notin {"copied", "wake"}
    BY DEF Init
  <2> QED BY <1>3, <2>1, <2>2, Zenon DEF Frames
<1> QED BY <1>1, <1>4, <1>5, <1>6 DEF IInv, Ring

(* Steps of the client and its callers that do not touch the ring, and     *)
(* obtain no frames.                                                       *)
LEMMA CallsKeep ==
  ASSUME IInv,
         UNCHANGED <<track, mFront, mRear, mFlush, mBuffers, cShutdown, spc,
                     sFlush, flush, rear, newFront, sUnreleased, sShutdown,
                     sRaw, ackFlush, peeked, flushPoint>>,
         cpc' \in {"obtained", "copied"} => UNCHANGED <<cpc, cUnreleased>>
  PROVE  Ring'
<1>1. /\ mIsOut' = mIsOut /\ mFrameCount' = mFrameCount
      /\ mFrameCountP2' = mFrameCountP2 /\ M' = M
      /\ Makes("framesReady")' <=> Makes("framesReady")
  BY SameTrack
<1>2. Inside' = Inside
  BY DEF Inside, Ahead
<1> USE DEF IInv, Ring
<1>3. Bounded'
  BY <1>1, <1>2 DEF Bounded
<1>4. ClientHolds'
  BY <1>1, <1>2 DEF ClientHolds
<1>5. ServerHolds'
  BY <1>1, <1>2 DEF ServerHolds, MixerHolds, RecorderHolds
<1>6. Flushes' /\ Polls'
  BY <1>1, <1>2 DEF Flushes, Polls, Ahead
<1>7. Frames'
  BY <1>1, <1>2 DEF Frames, Numbered
<1> QED BY <1>3, <1>4, <1>5, <1>6, <1>7 DEF Ring

(* The reader releases, or discards, frames: the others are as far behind. *)
LEMMA FrontMoves ==
  ASSUME TInv, Bounded, NEW i \in Nat, i <= Inside, mFront' = Add(mFront, i)
  PROVE  /\ mRear' = mRear => Inside' = Inside - i
         /\ \A c \in Counter : i <= Ahead(c) => Gap(mFront', c) = Ahead(c) - i
         /\ \A n \in Nat : i <= n /\ Numbered(n) =>
              Holds(mFrameCountP2, mBuffers, mFront', n - i)
<1>1. /\ W \in Nat \ {0} /\ mFront \in Counter /\ mRear \in Counter
      /\ track \in Tracks
  BY RingIs
<1>2. ASSUME NEW c \in Counter, i <= Ahead(c)
      PROVE  Gap(mFront', c) = Ahead(c) - i
  <2>1. Gap(Add(mFront, i), c) = Gap(mFront, c) - i
    BY <1>1, <1>2, GapShrinks DEF Ahead
  <2> QED BY <2>1, Zenon DEF Ahead
<1>3. ASSUME mRear' = mRear PROVE Inside' = Inside - i
  <2>1. Gap(mFront', mRear) = Ahead(mRear) - i
    BY <1>1, <1>2, Zenon DEF Inside
  <2> QED BY <1>3, <2>1 DEF Inside, Ahead
<1>4. ASSUME NEW n \in Nat, i <= n, Numbered(n)
      PROVE  Holds(mFrameCountP2, mBuffers, mFront', n - i)
  BY <1>1, <1>4, HoldsFurther, Zenon DEF Numbered
<1> QED BY <1>2, <1>3, <1>4

LEMMA RearMoves ==
  ASSUME TInv, Bounded, NEW n \in Nat, Inside + n <= mFrameCount,
         mRear' = Add(mRear, n), mFront' = mFront
  PROVE  Inside' = Inside + n
<1>1. /\ W \in Nat \ {0} /\ mFront \in Counter /\ mRear \in Counter
      /\ Inside \in Nat /\ mFrameCount \in Nat /\ mFrameCount < W
  BY RingIs
<1>2. Gap(mFront, mRear) + n < W
  BY <1>1 DEF Inside, Ahead
<1>3. Gap(mFront, Add(mRear, n)) = Gap(mFront, mRear) + n
  BY <1>1, <1>2, GapGrows, Zenon
<1> QED BY <1>3 DEF Inside, Ahead

LEMMA LookKeeps ==
  ASSUME IInv, UNCHANGED track, ClientLook
  PROVE  Ring'
<1>1. /\ mIsOut' = mIsOut /\ mFrameCount' = mFrameCount
      /\ mFrameCountP2' = mFrameCountP2 /\ M' = M
      /\ Makes("framesReady")' <=> Makes("framesReady")
  BY SameTrack
<1>2. TInv /\ Bounded
  BY DEF IInv, Ring
<1>3. /\ Filled(mRear, mFront) = Inside /\ Sane(Filled(mRear, mFront))
      /\ Inside \in Nat /\ Inside <= mFrameCount /\ mFrameCount \in Nat
  BY <1>2, RingIs
<1>4. mFront' = mFront /\ mRear' = mRear
  BY <1>3, Zenon DEF ClientLook, Overrun
<1>5. /\ cShutdown' = cShutdown /\ cpc' \in {"idle", "down", "obtained"}
      /\ cUnreleased' \in 0 .. mFrameCount
      /\ cpc' = "obtained" => cUnreleased' <= ClientAvail(Inside)
  BY <1>2, <1>3, <1>4, LookIs
<1>6. UNCHANGED <<mFlush, mBuffers, spc, sFlush, flush, rear, newFront,
                  sUnreleased, sShutdown, sRaw, ackFlush, peeked, flushPoint>>
  BY DEF ClientLook, callVars, serverVars
<1>7. Inside' = Inside
  BY <1>4 DEF Inside, Ahead
<1> USE DEF IInv, Ring
<1>8. Bounded'
  BY <1>1, <1>5, <1>6, <1>7 DEF Bounded
<1>9. ClientHolds'
  <2>1. cpc' = "obtained" => IF mIsOut THEN Inside + cUnreleased' <= mFrameCount
                             ELSE cUnreleased' <= Inside
    <3>1. PICK x : x = cUnreleased'
      OBVIOUS
    <3>2. /\ x \in 0 .. mFrameCount
          /\ cpc' = "obtained" => x <= IF mIsOut THEN mFrameCount - Inside ELSE Inside
      BY <1>5, <3>1 DEF ClientAvail
    <3>3. cpc' = "obtained" => IF mIsOut THEN Inside + x <= mFrameCount
                               ELSE x <= Inside
      <4>1. CASE mIsOut
        BY <1>3, <3>2, <4>1
      <4>2. CASE ~mIsOut
        BY <1>3, <3>2, <4>2
      <4> QED BY <4>1, <4>2
    <3> QED BY <3>1, <3>3, Zenon
  <2> QED BY <1>1, <1>5, <1>7, <2>1 DEF ClientHolds
<1>10. ServerHolds'
  BY <1>1, <1>4, <1>6, <1>7 DEF ServerHolds, MixerHolds, RecorderHolds
<1>11. Flushes' /\ Polls'
  BY <1>1, <1>4, <1>6, <1>7 DEF Flushes, Polls, Ahead
<1>12. Frames'
  BY <1>1, <1>4, <1>5, <1>6, <1>7 DEF Frames, Numbered
<1> QED BY <1>8, <1>9, <1>10, <1>11, <1>12 DEF Ring

(* The playback client writes behind the frames in the ring.               *)
LEMMA CopyKeeps ==
  ASSUME IInv, UNCHANGED track, ClientCopy
  PROVE  Ring'
<1>1. /\ mIsOut' = mIsOut /\ mFrameCount' = mFrameCount
      /\ mFrameCountP2' = mFrameCountP2 /\ M' = M
      /\ Makes("framesReady")' <=> Makes("framesReady")
  BY SameTrack
<1>2. /\ TInv /\ Bounded /\ mIsOut /\ cpc = "obtained" /\ cpc' = "copied"
      /\ mBuffers' = Written(mRear, cUnreleased)
      /\ UNCHANGED <<mFront, mRear, mFlush, cUnreleased, cShutdown, spc, sFlush,
                     flush, rear, newFront, sUnreleased, sShutdown, sRaw,
                     ackFlush, peeked, flushPoint>>
  BY DEF IInv, Ring, ClientCopy, indexVars, callVars, serverVars
<1>3. Inside' = Inside
  BY <1>2 DEF Inside, Ahead
<1> USE DEF IInv, Ring
<1>4. Bounded' /\ ClientHolds'
  BY <1>1, <1>2, <1>3 DEF Bounded, ClientHolds
<1>5. ServerHolds'
  BY <1>1, <1>2, <1>3 DEF ServerHolds, MixerHolds, RecorderHolds
<1>6. Flushes' /\ Polls'
  BY <1>1, <1>2, <1>3 DEF Flushes, Polls, Ahead
<1>7. Frames'
  <2>1. /\ Inside \in Nat /\ cUnreleased \in Nat /\ W \in Nat \ {0}
        /\ mFront \in Counter /\ mRear \in Counter
        /\ Inside + cUnreleased <= mFrameCountP2
    BY <1>2, RingIs DEF ClientHolds
  <2>2. mRear = Add(mFront, Inside)
    BY <2>1, GapIs, Zenon DEF Inside, Ahead
  <2>3. Holds(mFrameCountP2, mBuffers, mFront, Inside)
    BY DEF Frames, Numbered
  <2>4. Holds(mFrameCountP2, mBuffers', mFront, Inside + cUnreleased)
    BY <1>2, <2>1, <2>2, <2>3, HoldsWritten, Zenon
  <2>5. Holds(mFrameCountP2, mBuffers', mFront, Inside)
    BY <2>1, <2>4, HoldsLess
  <2> QED BY <1>1, <1>2, <1>3, <2>4, <2>5 DEF Frames, Numbered
<1> QED BY <1>4, <1>5, <1>6, <1>7 DEF Ring

(* It publishes frames it has written.                                     *)
LEMMA PublishKeeps ==
  ASSUME IInv, UNCHANGED track, NEW n \in 1 .. mFrameCount, ClientRelease(n),
         mIsOut
  PROVE  Ring'
<1>1. /\ mIsOut' = mIsOut /\ mFrameCount' = mFrameCount
      /\ mFrameCountP2' = mFrameCountP2 /\ M' = M
      /\ Makes("framesReady")' <=> Makes("framesReady")
  BY SameTrack
<1>2. /\ TInv /\ Bounded /\ cpc = "copied" /\ cpc' \in {"copied", "idle"}
      /\ n <= cUnreleased /\ cUnreleased' = cUnreleased - n
      /\ mRear' = Add(mRear, n)
      /\ UNCHANGED <<mFront, mFlush, mBuffers, cShutdown, spc, sFlush,
                     flush, rear, newFront, sUnreleased, sShutdown, sRaw,
                     ackFlush, peeked, flushPoint>>
  BY DEF IInv, Ring, ClientRelease, callVars, serverVars
<1>3. /\ Inside \in Nat /\ cUnreleased \in Nat /\ sUnreleased \in Nat /\ n \in Nat
      /\ mFrameCount \in Nat /\ \A c \in Counter : Ahead(c) \in Nat
      /\ Inside + cUnreleased <= mFrameCount
  BY <1>2, RingIs DEF IInv, Ring, ClientHolds
<1>4. Inside' = Inside + n
  BY <1>2, <1>3, RearMoves
<1> USE DEF IInv, Ring
<1>5. Bounded' /\ ClientHolds'
  BY <1>1, <1>2, <1>3, <1>4 DEF Bounded, ClientHolds
<1>6. ServerHolds'
  BY <1>1, <1>2, <1>3, <1>4 DEF ServerHolds, MixerHolds, RecorderHolds
<1>7. Flushes' /\ Polls'
  <2>1. /\ rear \in Counter /\ newFront \in Counter
        /\ flushPoint \in Counter \cup {None}
    BY DEF TInv, ServerTypes
  <2>2. Ahead(rear)' = Ahead(rear) /\ Ahead(newFront)' = Ahead(newFront)
        /\ Ahead(flushPoint)' = Ahead(flushPoint)
    BY <1>2 DEF Ahead
  <2> QED BY <1>1, <1>2, <1>3, <1>4, <2>1, <2>2 DEF Flushes, Polls
<1>8. Frames'
  <2>1. Holds(mFrameCountP2, mBuffers, mFront, Inside + cUnreleased)
    BY <1>2 DEF Frames, Numbered
  <2>2. /\ Inside' + cUnreleased' = Inside + cUnreleased
        /\ Inside' <= Inside + cUnreleased /\ Inside' \in Int
        /\ Inside + cUnreleased \in Int
    BY <1>2, <1>3, <1>4
  <2>3. Holds(mFrameCountP2, mBuffers, mFront, Inside')
    BY <2>1, <2>2, HoldsLess
  <2> QED BY <1>1, <1>2, <2>1, <2>2, <2>3 DEF Frames, Numbered
<1> QED BY <1>5, <1>6, <1>7, <1>8 DEF Ring

(* The recording client releases frames it has read.                       *)
LEMMA ReadKeeps ==
  ASSUME IInv, UNCHANGED track, NEW n \in 1 .. mFrameCount, ClientRelease(n),
         ~mIsOut
  PROVE  Ring'
<1>1. /\ mIsOut' = mIsOut /\ mFrameCount' = mFrameCount
      /\ mFrameCountP2' = mFrameCountP2 /\ M' = M
      /\ Makes("framesReady")' <=> Makes("framesReady")
  BY SameTrack
<1>2. /\ TInv /\ Bounded /\ cpc = "obtained" /\ cpc' \in {"obtained", "idle"}
      /\ n <= cUnreleased /\ cUnreleased' = cUnreleased - n
      /\ mFront' = Add(mFront, n)
      /\ UNCHANGED <<mRear, mFlush, mBuffers, cShutdown, spc, sFlush,
                     flush, rear, newFront, sUnreleased, sShutdown, sRaw,
                     ackFlush, peeked, flushPoint>>
  BY DEF IInv, Ring, ClientRelease, callVars, serverVars
<1>3. /\ Inside \in Nat /\ cUnreleased \in Nat /\ sUnreleased \in Nat /\ n \in Nat
      /\ mFrameCount \in Nat /\ cUnreleased <= Inside
  BY <1>2, RingIs DEF IInv, Ring, ClientHolds
<1>4. /\ Inside' = Inside - n /\ n <= Inside
      /\ \A i \in Nat : n <= i /\ Numbered(i) =>
           Holds(mFrameCountP2, mBuffers, mFront', i - n)
  BY <1>2, <1>3, FrontMoves
<1> USE DEF IInv, Ring
<1>5. Bounded' /\ ClientHolds'
  BY <1>1, <1>2, <1>3, <1>4 DEF Bounded, ClientHolds
<1>6. ServerHolds'
  BY <1>1, <1>2, <1>3, <1>4 DEF ServerHolds, RecorderHolds
<1>7. Flushes' /\ Polls'
  <2>1. /\ mFlush = sFlush /\ flush = sFlush /\ spc \notin {"rebase", "flushWake"}
        /\ flushPoint = None
    BY DEF Flushes
  <2> QED BY <1>1, <1>2, <2>1 DEF Flushes, Polls
<1>8. Frames'
  <2>1. Numbered(Inside)
    BY DEF Frames
  <2>2. Holds(mFrameCountP2, mBuffers, mFront', Inside')
    BY <1>3, <1>4, <2>1
  <2>3. ASSUME spc \in {"copied", "wake"}
        PROVE  Holds(mFrameCountP2, mBuffers, mFront', Inside' + sUnreleased)
    <3>1. Numbered(Inside + sUnreleased)
      BY <2>3 DEF Frames
    <3>2. /\ Inside + sUnreleased \in Nat /\ n <= Inside + sUnreleased
          /\ (Inside + sUnreleased) - n = Inside' + sUnreleased
      BY <1>3, <1>4
    <3> QED BY <1>4, <3>1, <3>2
  <2> QED BY <1>1, <1>2, <2>2, <2>3 DEF Frames, Numbered
<1> QED BY <1>5, <1>6, <1>7, <1>8 DEF Ring

(* What flush() stores has mRear's offset in the low bits.                 *)
LEMMA FlushOffset ==
  ASSUME TInv, ClientFlush
  PROVE  mFlush' % M = mRear % M /\ mFlush' # sFlush
<1>1. /\ W \in Nat \ {0} /\ M \in Nat \ {0} /\ W % M = 0
      /\ mFlush \in Int /\ mRear \in Int
  BY SizesAre DEF TInv, SharedTypes
<1>2. PICK q \in Int, y \in 0 .. M - 1 : mFlush = q * M + y /\ mFlush % M = y
  BY <1>1, Divided, Zenon
<1>3. PICK g \in 0 .. M - 1 : g = mRear % M
  BY <1>1, Quotient, Zenon
<1>4. PICK x \in Int : x = ((mFlush - (mFlush % M)) + M) + g /\ x = (q + 1) * M + g
  BY <1>1, <1>2, <1>3
<1>5. mFlush' = x % W
  BY <1>3, <1>4, Zenon DEF ClientFlush, Add
<1>6. (x % W) % M = x % M
  BY <1>1, NestedAlone, Zenon
<1>7. x % M = g
  <2>1. PICK k \in Int : k = q + 1
    BY <1>2
  <2>2. (k * M + g) % M = g
    BY <1>1, Remainder, Zenon
  <2> QED BY <1>4, <2>1, <2>2, Zenon
<1>8. mFlush' # sFlush
  BY Zenon DEF ClientFlush
<1> QED BY <1>3, <1>5, <1>6, <1>7, <1>8, Zenon

LEMMA FlushKeeps ==
  ASSUME IInv, Serialized, UNCHANGED track, ClientFlush
  PROVE  Ring'
<1>1. /\ mIsOut' = mIsOut /\ mFrameCount' = mFrameCount
      /\ mFrameCountP2' = mFrameCountP2 /\ M' = M
      /\ Makes("framesReady")' <=> Makes("framesReady")
  BY SameTrack
<1>2. /\ TInv /\ Bounded /\ mIsOut /\ track.flushes /\ flushPoint' = mRear
      /\ UNCHANGED <<mFront, mRear, mBuffers, cpc, cUnreleased, cShutdown, spc,
                     sFlush, flush, rear, newFront, sUnreleased, sShutdown,
                     sRaw, ackFlush, peeked>>
  BY DEF IInv, Ring, ClientFlush, indexVars, clientVars, callVars, serverVars
<1>3. spc # "rear"
  BY <1>2 DEF Serialized, ClientFlush, TInv
<1>4. /\ mFlush' % M = mRear % M /\ mFlush' # sFlush
  BY <1>2, FlushOffset
<1>5. mRear # None /\ Inside \in Nat /\ sUnreleased \in Nat
  BY <1>2, RingIs
<1>6. Inside' = Inside
  BY <1>2 DEF Inside, Ahead
<1> USE DEF IInv, Ring
<1>7. Bounded' /\ ClientHolds'
  BY <1>1, <1>2, <1>6 DEF Bounded, ClientHolds
<1>8. ServerHolds'
  BY <1>1, <1>2, <1>6 DEF ServerHolds, MixerHolds, RecorderHolds
<1>9. Flushes'
  <2>1. Ahead(flushPoint)' = Inside
    BY <1>2 DEF Ahead, Inside
  <2>2. spc \in {"obtained", "wake"} => sUnreleased <= Inside
    BY <1>2, <1>5 DEF ServerHolds, MixerHolds
  <2>3. (mFlush % M)' = mRear % M /\ (flushPoint % M)' = mRear % M
    BY <1>1, <1>2, <1>4, Zenon
  <2>4. (mIsOut /\ track.flushes)'
    BY <1>1, <1>2
  <2>5. (flushPoint # None <=> mFlush # sFlush \/ spc = "rebase")'
    BY <1>2, <1>4, <1>5
  <2>6. (flushPoint # None =>
       /\ mFlush % M = flushPoint % M /\ Ahead(flushPoint) <= Inside
       /\ spc \in {"obtained", "wake"} => sUnreleased <= Ahead(flushPoint))'
    <3>1. Ahead(flushPoint)' <= Inside'
      BY <1>5, <1>6, <2>1
    <3>2. (spc \in {"obtained", "wake"} => sUnreleased <= Ahead(flushPoint))'
      BY <1>2, <2>1, <2>2
    <3> QED BY <2>3, <3>1, <3>2, Zenon
  <2> QED BY <2>4, <2>5, <2>6, Zenon DEF Flushes
<1>10. Polls'
  <2>1. /\ Ahead(rear)' = Ahead(rear) /\ Ahead(newFront)' = Ahead(newFront)
        /\ Ahead(flushPoint)' = Inside
    BY <1>2 DEF Ahead, Inside
  <2> QED BY <1>2, <1>3, <1>4, <1>6, <2>1 DEF Polls
<1>11. Frames'
  BY <1>1, <1>2, <1>6 DEF Frames, Numbered
<1> QED BY <1>7, <1>8, <1>9, <1>10, <1>11 DEF Ring

(* The server's obtainBuffer() loads mFlush, then mRear.                   *)
LEMMA ObtainKeeps ==
  ASSUME IInv, Serialized, UNCHANGED track, NEW ack \in BOOLEAN,
         ServerObtain(ack)
  PROVE  Ring'
<1>1. /\ mIsOut' = mIsOut /\ mFrameCount' = mFrameCount
      /\ mFrameCountP2' = mFrameCountP2 /\ M' = M
      /\ Makes("framesReady")' <=> Makes("framesReady")
  BY SameTrack
<1>2. /\ TInv /\ Bounded /\ ~sShutdown /\ spc' = "rear" /\ ackFlush' = ack
      /\ ack => mIsOut /\ "start" \in track.calls
      /\ spc = "idle" \/ (ack /\ AckWhileHolding /\ spc = "obtained")
      /\ flush' = IF mIsOut THEN mFlush ELSE flush
      /\ UNCHANGED <<mFront, mRear, mFlush, mBuffers, cpc, cUnreleased,
                     cShutdown, sFlush, rear, newFront, sUnreleased, sShutdown,
                     sRaw, peeked, flushPoint>>
  BY DEF IInv, Ring, ServerObtain, Makes, indexVars, clientVars, callVars
<1>3. Inside' = Inside /\ sUnreleased \in Nat
  BY <1>2, RingIs DEF Inside, Ahead
<1> USE DEF IInv, Ring
<1>4. Bounded' /\ ClientHolds'
  BY <1>1, <1>2, <1>3 DEF Bounded, ClientHolds
<1>5. ServerHolds'
  <2>1. CASE mIsOut
    <3>1. track.flushes => spc = "idle"
      BY <1>2 DEF Serialized, TInv
    <3> QED BY <1>1, <1>2, <1>3, <2>1, <3>1 DEF ServerHolds, MixerHolds
  <2>2. CASE ~mIsOut
    BY <1>1, <1>2, <1>3, <2>2 DEF ServerHolds, RecorderHolds
  <2> QED BY <2>1, <2>2
<1>6. Flushes' /\ Polls'
  <2>1. Ahead(flushPoint)' = Ahead(flushPoint)
    BY <1>2 DEF Ahead
  <2> QED BY <1>1, <1>2, <1>3, <2>1 DEF Flushes, Polls
<1>7. Frames'
  BY <1>1, <1>2, <1>3 DEF Frames, Numbered
<1> QED BY <1>4, <1>5, <1>6, <1>7 DEF Ring

LEMMA LoadKeeps ==
  ASSUME IInv, UNCHANGED track, ServerLoad
  PROVE  Ring'
<1>1. /\ mIsOut' = mIsOut /\ mFrameCount' = mFrameCount
      /\ mFrameCountP2' = mFrameCountP2 /\ M' = M
      /\ Makes("framesReady")' <=> Makes("framesReady")
  BY SameTrack
<1>2. /\ TInv /\ Bounded /\ spc = "rear" /\ flush = sFlush
      /\ Obtained(mRear, mFront)
      /\ UNCHANGED <<mFront, mRear, mFlush, mBuffers, cpc, cUnreleased,
                     cShutdown, ackFlush, sFlush, flush, rear, newFront,
                     peeked, flushPoint>>
  BY DEF IInv, Ring, ServerLoad, indexVars, clientVars, callVars
<1>3. /\ Filled(mRear, mFront) = Inside /\ Sane(Filled(mRear, mFront))
      /\ Inside \in Nat /\ Inside <= mFrameCount /\ mFrameCount \in Nat
      /\ mFront \in Counter /\ mRear \in Counter /\ sUnreleased \in Nat
  BY <1>2, RingIs
<1>4. /\ sShutdown' = sShutdown
      /\ ackFlush => spc' = Resting /\ UNCHANGED <<sUnreleased, sRaw>>
      /\ ~ackFlush =>
           /\ sUnreleased' <= ServerAvail(Inside)
           /\ sUnreleased' > 0 => sRaw' = First(mRear, mFront)
           /\ spc' = "obtained" <=> sUnreleased' > 0
      /\ sUnreleased' \in 0 .. mFrameCount /\ spc' \in {"idle", "obtained"}
  <2>1. mRear \in Counter /\ mFront \in Counter /\ Obtained(mRear, mFront)
    BY <1>2, <1>3
  <2> QED BY <1>2, <1>3, <2>1, ObtainedIs, Zenon
<1>5. Inside' = Inside
  BY <1>2 DEF Inside, Ahead
<1> USE DEF IInv, Ring
<1>6. Bounded' /\ ClientHolds'
  BY <1>1, <1>2, <1>4, <1>5 DEF Bounded, ClientHolds
<1>7. ServerHolds'
  <2>1. CASE mIsOut
    <3>1. CASE ackFlush
      BY <1>1, <1>2, <1>3, <1>4, <1>5, <2>1, <3>1
         DEF ServerHolds, MixerHolds, Resting
    <3>2. CASE ~ackFlush
      BY <1>1, <1>2, <1>3, <1>4, <1>5, <2>1, <3>2
         DEF ServerHolds, MixerHolds, First, ServerAvail
    <3> QED BY <3>1, <3>2
  <2>2. CASE ~mIsOut
    <3>1. ~ackFlush /\ ServerAvail(Inside) = mFrameCount - Inside
      BY <2>2 DEF ServerHolds, RecorderHolds, ServerAvail
    <3>2. PICK x \in 0 .. mFrameCount : x = sUnreleased'
      BY <1>4
    <3>3. x <= mFrameCount - Inside
      BY <1>4, <3>1, <3>2
    <3>4. Inside + x <= mFrameCount
      <4>1. Inside \in Int /\ mFrameCount \in Int /\ x \in Int
        BY <1>3
      <4> QED BY <3>3, <4>1
    <3>5. RecorderHolds'
      BY <1>1, <1>2, <1>5, <3>1, <3>2, <3>4 DEF RecorderHolds
    <3> QED BY <1>1, <2>2, <3>5, Zenon DEF ServerHolds
  <2> QED BY <2>1, <2>2
<1>8. Flushes'
  <2>1. flushPoint = None
    BY <1>2 DEF Flushes, Polls
  <2> QED BY <1>1, <1>2, <1>4, <2>1 DEF Flushes
<1>9. Polls'
  BY <1>4 DEF Polls
<1>10. Frames'
  BY <1>1, <1>2, <1>4, <1>5 DEF Frames, Numbered
<1> QED BY <1>6, <1>7, <1>8, <1>9, <1>10 DEF Ring

(* A pending flush: the server finds where it was.                         *)
LEMMA PendingKeeps ==
  ASSUME IInv, UNCHANGED track, ServerFlush
  PROVE  Ring'
<1>1. /\ mIsOut' = mIsOut /\ mFrameCount' = mFrameCount
      /\ mFrameCountP2' = mFrameCountP2 /\ M' = M
      /\ Makes("framesReady")' <=> Makes("framesReady")
  BY SameTrack
<1>2. /\ TInv /\ Bounded /\ spc = "rear" /\ spc' = "rebase" /\ flush # sFlush
      /\ rear' = mRear /\ newFront' = Rebased(mRear) /\ sFlush' = flush
      /\ UNCHANGED <<mFront, mRear, mFlush, mBuffers, cpc, cUnreleased,
                     cShutdown, ackFlush, flush, sUnreleased, sShutdown, sRaw,
                     peeked, flushPoint>>
  BY DEF IInv, Ring, ServerFlush, indexVars, clientVars, callVars
<1>3. mIsOut /\ track.flushes /\ flush = mFlush /\ flushPoint # None
  BY <1>2 DEF IInv, Ring, Flushes, Polls
<1>4. /\ flushPoint \in Counter /\ mRear \in Counter
      /\ Inside \in Nat /\ Inside <= mFrameCount
      /\ mFlush % M = flushPoint % M /\ Ahead(flushPoint) <= Inside
      /\ sUnreleased = 0
  <2>1. flushPoint \in Counter
    BY <1>2, <1>3 DEF TInv, ServerTypes
  <2>2. sUnreleased = 0
    <3>1. ~(sUnreleased > 0) /\ sUnreleased \in Nat
      BY <1>2, <1>3, RingIs DEF IInv, Ring, ServerHolds, MixerHolds
    <3> QED BY <3>1
  <2> QED BY <1>2, <1>3, <2>1, <2>2, RingIs DEF IInv, Ring, Flushes
<1>5. Rebased(mRear) = flushPoint
  <2>1. Gap(mFront, flushPoint) <= Gap(mFront, mRear)
        /\ Gap(mFront, mRear) <= mFrameCount
        /\ flush % M = flushPoint % M
    BY <1>3, <1>4, Zenon DEF Inside, Ahead
  <2> QED BY <1>2, <1>3, <1>4, <2>1, RebasedIs, Zenon
<1>6. Inside' = Inside /\ Ahead(flushPoint)' = Ahead(flushPoint)
  BY <1>2 DEF Inside, Ahead
<1>7. Ahead(rear)' = Inside /\ Ahead(newFront)' = Ahead(flushPoint)
  BY <1>2, <1>5 DEF Ahead, Inside
<1> USE DEF IInv, Ring
<1>8. Bounded' /\ ClientHolds'
  BY <1>1, <1>2, <1>6 DEF Bounded, ClientHolds
<1>9. ServerHolds'
  BY <1>1, <1>2, <1>3, <1>6 DEF ServerHolds, MixerHolds
<1>10. Flushes'
  BY <1>1, <1>2, <1>3, <1>4, <1>6 DEF Flushes
<1>11. Polls'
  BY <1>2, <1>3, <1>4, <1>5, <1>6, <1>7 DEF Polls
<1>12. Frames'
  BY <1>1, <1>2, <1>3, <1>6 DEF Frames, Numbered
<1> QED BY <1>8, <1>9, <1>10, <1>11, <1>12 DEF Ring

(* It discards what was in the ring before the flush.                      *)
LEMMA RebaseKeeps ==
  ASSUME IInv, UNCHANGED track, ServerRebase
  PROVE  Ring'
<1>1. /\ mIsOut' = mIsOut /\ mFrameCount' = mFrameCount
      /\ mFrameCountP2' = mFrameCountP2 /\ M' = M
      /\ Makes("framesReady")' <=> Makes("framesReady")
  BY SameTrack
<1>2. /\ TInv /\ Bounded /\ spc = "rebase" /\ spc' = "flushWake"
      /\ mFront' = newFront
      /\ flushPoint' = IF flush = mFlush THEN None ELSE flushPoint
      /\ UNCHANGED <<mRear, mFlush, mBuffers, cpc, cUnreleased, cShutdown,
                     ackFlush, sFlush, flush, rear, newFront, sUnreleased,
                     sShutdown, sRaw, peeked>>
  BY DEF IInv, Ring, ServerRebase, clientVars, callVars
<1>3. /\ mIsOut /\ track.flushes /\ flushPoint # None
      /\ mFlush % M = flushPoint % M /\ Ahead(flushPoint) <= Inside
      /\ flush = sFlush /\ sUnreleased = 0
      /\ Ahead(newFront) <= Ahead(rear) /\ Ahead(rear) <= Inside
      /\ IF flush = mFlush THEN newFront = flushPoint
                           ELSE Ahead(rear) <= Ahead(flushPoint)
  BY <1>2 DEF IInv, Ring, Flushes, Polls
<1>4. /\ flushPoint \in Counter /\ newFront \in Counter /\ rear \in Counter
      /\ mRear \in Counter /\ mFront \in Counter /\ W \in Nat \ {0}
      /\ Inside \in Nat /\ Inside <= mFrameCount /\ cUnreleased \in Nat
      /\ mFrameCount \in Nat /\ None \notin Counter
      /\ Ahead(flushPoint) \in Nat /\ Ahead(rear) \in Nat
  <2>1. flushPoint \in Counter /\ newFront \in Counter /\ rear \in Counter
    BY <1>2, <1>3 DEF TInv, ServerTypes
  <2> QED BY <1>2, <2>1, RingIs
<1>5. PICK i \in Nat : i = Ahead(newFront) /\ i <= Inside
  <2>1. Ahead(newFront) \in Nat
    BY <1>2, <1>4, RingIs
  <2>2. Ahead(newFront) <= Inside
    BY <1>3, <1>4, <2>1
  <2> QED BY <2>1, <2>2
<1>6. mFront' = Add(mFront, i)
  BY <1>2, <1>4, <1>5, GapIs, Zenon DEF Ahead
<1>7. /\ Inside' = Inside - i
      /\ \A c \in Counter : i <= Ahead(c) => Gap(mFront', c) = Ahead(c) - i
      /\ \A n \in Nat : i <= n /\ Numbered(n) =>
           Holds(mFrameCountP2, mBuffers, mFront', n - i)
  BY <1>2, <1>5, <1>6, FrontMoves
<1>8. /\ Ahead(rear)' = Ahead(rear) - i
      /\ flush # mFlush => Gap(mFront', flushPoint) = Ahead(flushPoint) - i
  <2>1. i <= Ahead(rear) /\ (flush # mFlush => i <= Ahead(flushPoint))
    BY <1>3, <1>4, <1>5
  <2>2. Gap(mFront', rear) = Ahead(rear) - i
    BY <1>4, <1>7, <2>1
  <2>3. Ahead(rear)' = Gap(mFront', rear)
    BY <1>2 DEF Ahead
  <2> QED BY <1>4, <1>7, <2>1, <2>2, <2>3
<1> USE DEF IInv, Ring
<1>9. Bounded' /\ ClientHolds'
  BY <1>1, <1>2, <1>3, <1>4, <1>5, <1>7 DEF Bounded, ClientHolds
<1>10. ServerHolds'
  BY <1>1, <1>2, <1>3 DEF ServerHolds, MixerHolds
<1>11. Flushes' /\ Polls'
  <2>1. CASE flush = mFlush
    <3>1. flushPoint' = None
      BY <1>2, <2>1
    <3>2. Flushes'
      BY <1>1, <1>2, <1>3, <2>1, <3>1 DEF Flushes
    <3>3. Polls'
      BY <1>2, <1>3, <1>4, <1>5, <1>7, <1>8, <3>1 DEF Polls
    <3> QED BY <3>2, <3>3
  <2>2. CASE flush # mFlush
    <3>1. flushPoint' = flushPoint
      BY <1>2, <2>2
    <3>2. Ahead(flushPoint)' = Ahead(flushPoint) - i
      BY <1>8, <2>2, <3>1 DEF Ahead
    <3>3. Flushes'
      BY <1>1, <1>2, <1>3, <1>4, <1>5, <1>7, <2>2, <3>1, <3>2 DEF Flushes
    <3>4. Polls'
      BY <1>2, <1>3, <1>4, <1>5, <1>7, <1>8, <2>2, <3>1, <3>2 DEF Polls
    <3> QED BY <3>3, <3>4
  <2> QED BY <2>1, <2>2
<1>12. Frames'
  <2>1. Numbered(Inside)
    BY DEF Frames
  <2>2. Holds(mFrameCountP2, mBuffers, mFront', Inside')
    BY <1>4, <1>5, <1>7, <2>1
  <2>3. ASSUME cpc = "copied"
        PROVE  Holds(mFrameCountP2, mBuffers, mFront', Inside' + cUnreleased)
    <3>1. Numbered(Inside + cUnreleased)
      BY <1>3, <2>3 DEF Frames
    <3>2. /\ Inside + cUnreleased \in Nat /\ i <= Inside + cUnreleased
          /\ (Inside + cUnreleased) - i = Inside' + cUnreleased
      BY <1>4, <1>5, <1>7
    <3> QED BY <1>7, <3>1, <3>2
  <2> QED BY <1>1, <1>2, <1>3, <2>2, <2>3 DEF Frames, Numbered
<1> QED BY <1>9, <1>10, <1>11, <1>12 DEF Ring

(* It goes on with what it found: the frames since the flush.              *)
LEMMA AfterFlushKeeps ==
  ASSUME IInv, UNCHANGED track, ServerFlushWake
  PROVE  Ring'
<1>1. /\ mIsOut' = mIsOut /\ mFrameCount' = mFrameCount
      /\ mFrameCountP2' = mFrameCountP2 /\ M' = M
      /\ Makes("framesReady")' <=> Makes("framesReady")
  BY SameTrack
<1>2. /\ TInv /\ Bounded /\ spc = "flushWake" /\ Obtained(rear, newFront)
      /\ cpc' \in {cpc, "flags"}
      /\ UNCHANGED <<mFront, mRear, mFlush, mBuffers, cUnreleased, cShutdown,
                     ackFlush, sFlush, flush, peeked, flushPoint>>
  BY DEF IInv, Ring, ServerFlushWake, Wake, Woken, indexVars, callVars
<1>3. /\ mIsOut /\ track.flushes /\ newFront = mFront /\ sUnreleased = 0
      /\ Ahead(rear) <= Inside
      /\ flushPoint # None => Ahead(rear) <= Ahead(flushPoint)
  BY <1>2 DEF IInv, Ring, Flushes, Polls
<1>4. /\ rear \in Counter /\ newFront \in Counter /\ track \in Tracks
      /\ mFront \in Counter /\ Inside \in Nat /\ Inside <= mFrameCount
      /\ mFrameCount \in Nat /\ Ahead(rear) \in Nat
      /\ flushPoint # None => Ahead(flushPoint) \in Nat
  <2>1. rear \in Counter /\ newFront \in Counter
        /\ flushPoint \in Counter \cup {None}
    BY <1>2 DEF TInv, ServerTypes
  <2> QED BY <1>2, <2>1, RingIs
<1>5. Filled(rear, newFront) = Ahead(rear) /\ Sane(Filled(rear, newFront))
  <2>1. (rear - newFront) % W = Ahead(rear)
    BY <1>3, Zenon DEF Ahead, Gap
  <2>2. (rear - newFront) % W <= mFrameCount
    BY <1>3, <1>4, <2>1
  <2> QED BY <1>4, <2>1, <2>2, FilledIs, Zenon
<1>6. /\ sShutdown' = sShutdown
      /\ ackFlush => spc' = Resting /\ UNCHANGED <<sUnreleased, sRaw>>
      /\ ~ackFlush =>
           /\ sUnreleased' <= ServerAvail(Ahead(rear))
           /\ sUnreleased' > 0 => sRaw' = First(rear, newFront)
           /\ spc' = "obtained" <=> sUnreleased' > 0
      /\ sUnreleased' \in 0 .. mFrameCount /\ spc' \in {"idle", "obtained"}
  BY <1>2, <1>4, <1>5, ObtainedIs, Zenon
<1>7. /\ sUnreleased' \in Nat /\ sUnreleased' <= Ahead(rear)
      /\ sUnreleased' > 0 => sRaw' = mFront
      /\ spc' = "obtained" <=> sUnreleased' > 0
  <2>1. CASE ackFlush
    BY <1>3, <1>4, <1>6, <2>1 DEF Resting
  <2>2. CASE ~ackFlush
    BY <1>3, <1>4, <1>6, <2>2 DEF ServerAvail, First
  <2> QED BY <2>1, <2>2
<1>8. Inside' = Inside /\ Ahead(flushPoint)' = Ahead(flushPoint)
  BY <1>2 DEF Inside, Ahead
<1> USE DEF IInv, Ring
<1>9. Bounded' /\ ClientHolds'
  BY <1>1, <1>2, <1>6, <1>8 DEF Bounded, ClientHolds
<1>10. ServerHolds'
  BY <1>1, <1>2, <1>3, <1>4, <1>6, <1>7, <1>8 DEF ServerHolds, MixerHolds
<1>11. Flushes'
  BY <1>1, <1>2, <1>3, <1>4, <1>6, <1>7, <1>8 DEF Flushes
<1>12. Polls'
  BY <1>6 DEF Polls
<1>13. Frames'
  BY <1>1, <1>2, <1>3, <1>6, <1>8 DEF Frames, Numbered
<1> QED BY <1>9, <1>10, <1>11, <1>12, <1>13 DEF Ring

(* The recorder writes behind the frames in the ring.                      *)
LEMMA RecordKeeps ==
  ASSUME IInv, UNCHANGED track, ServerCopy
  PROVE  Ring'
<1>1. /\ mIsOut' = mIsOut /\ mFrameCount' = mFrameCount
      /\ mFrameCountP2' = mFrameCountP2 /\ M' = M
      /\ Makes("framesReady")' <=> Makes("framesReady")
  BY SameTrack
<1>2. /\ TInv /\ Bounded /\ ~mIsOut /\ spc = "obtained" /\ spc' = "copied"
      /\ mBuffers' = Written(mRear, sUnreleased)
      /\ UNCHANGED <<mFront, mRear, mFlush, cpc, cUnreleased, cShutdown, sFlush,
                     flush, rear, newFront, sUnreleased, sShutdown, sRaw,
                     ackFlush, peeked, flushPoint>>
  BY DEF IInv, Ring, ServerCopy, indexVars, clientVars, callVars
<1>3. Inside' = Inside
  BY <1>2 DEF Inside, Ahead
<1> USE DEF IInv, Ring
<1>4. Bounded' /\ ClientHolds'
  BY <1>1, <1>2, <1>3 DEF Bounded, ClientHolds
<1>5. ServerHolds'
  BY <1>1, <1>2, <1>3 DEF ServerHolds, RecorderHolds
<1>6. Flushes' /\ Polls'
  <2>1. flushPoint = None
    BY <1>2 DEF Flushes
  <2> QED BY <1>1, <1>2, <2>1 DEF Flushes, Polls
<1>7. Frames'
  <2>1. /\ Inside \in Nat /\ sUnreleased \in Nat /\ W \in Nat \ {0}
        /\ mFront \in Counter /\ mRear \in Counter
        /\ Inside + sUnreleased <= mFrameCountP2
    BY <1>2, RingIs DEF ServerHolds, RecorderHolds
  <2>2. mRear = Add(mFront, Inside)
    BY <2>1, GapIs, Zenon DEF Inside, Ahead
  <2>3. Holds(mFrameCountP2, mBuffers, mFront, Inside)
    BY DEF Frames, Numbered
  <2>4. Holds(mFrameCountP2, mBuffers', mFront, Inside + sUnreleased)
    BY <1>2, <2>1, <2>2, <2>3, HoldsWritten, Zenon
  <2>5. Holds(mFrameCountP2, mBuffers', mFront, Inside)
    BY <2>1, <2>4, HoldsLess
  <2> QED BY <1>1, <1>2, <1>3, <2>4, <2>5 DEF Frames, Numbered
<1> QED BY <1>4, <1>5, <1>6, <1>7 DEF Ring

(* It publishes frames it has written.                                     *)
LEMMA RecordedKeeps ==
  ASSUME IInv, UNCHANGED track, NEW n \in 1 .. mFrameCount, ServerRelease(n),
         ~mIsOut
  PROVE  Ring'
<1>1. /\ mIsOut' = mIsOut /\ mFrameCount' = mFrameCount
      /\ mFrameCountP2' = mFrameCountP2 /\ M' = M
      /\ Makes("framesReady")' <=> Makes("framesReady")
  BY SameTrack
<1>2. /\ TInv /\ Bounded /\ spc = "copied" /\ spc' = "wake"
      /\ n <= sUnreleased /\ sUnreleased' = sUnreleased - n
      /\ mRear' = Add(mRear, n)
      /\ UNCHANGED <<mFront, mFlush, mBuffers, cpc, cUnreleased, cShutdown,
                     sFlush, flush, rear, newFront, sShutdown, ackFlush,
                     peeked, flushPoint>>
  BY DEF IInv, Ring, ServerRelease, Wakes, clientVars, callVars
<1>3. /\ Inside \in Nat /\ cUnreleased \in Nat /\ sUnreleased \in Nat /\ n \in Nat
      /\ mFrameCount \in Nat /\ Inside + sUnreleased <= mFrameCount
  BY <1>2, RingIs DEF IInv, Ring, ServerHolds, RecorderHolds
<1>4. Inside' = Inside + n
  BY <1>2, <1>3, RearMoves
<1> USE DEF IInv, Ring
<1>5. Bounded' /\ ClientHolds'
  BY <1>1, <1>2, <1>3, <1>4 DEF Bounded, ClientHolds
<1>6. ServerHolds'
  <2>1. Inside' + sUnreleased' = Inside + sUnreleased
    BY <1>2, <1>3, <1>4
  <2> QED BY <1>1, <1>2, <1>3, <2>1 DEF ServerHolds, RecorderHolds
<1>7. Flushes' /\ Polls'
  <2>1. flushPoint = None
    BY <1>2 DEF Flushes
  <2> QED BY <1>1, <1>2, <2>1 DEF Flushes, Polls
<1>8. Frames'
  <2>1. Holds(mFrameCountP2, mBuffers, mFront, Inside + sUnreleased)
    BY <1>2 DEF Frames, Numbered
  <2>2. /\ Inside' + sUnreleased' = Inside + sUnreleased
        /\ Inside' <= Inside + sUnreleased /\ Inside' \in Int
        /\ Inside + sUnreleased \in Int
    BY <1>2, <1>3, <1>4
  <2>3. Holds(mFrameCountP2, mBuffers, mFront, Inside')
    BY <2>1, <2>2, HoldsLess
  <2> QED BY <1>1, <1>2, <2>1, <2>2, <2>3 DEF Frames, Numbered
<1> QED BY <1>5, <1>6, <1>7, <1>8 DEF Ring

(* The mixer releases frames it has played.                                *)
LEMMA PlayedKeeps ==
  ASSUME IInv, UNCHANGED track, NEW n \in 1 .. mFrameCount, ServerRelease(n),
         mIsOut
  PROVE  Ring'
<1>1. /\ mIsOut' = mIsOut /\ mFrameCount' = mFrameCount
      /\ mFrameCountP2' = mFrameCountP2 /\ M' = M
      /\ Makes("framesReady")' <=> Makes("framesReady")
  BY SameTrack
<1>2. /\ TInv /\ Bounded /\ spc = "obtained"
      /\ n <= sUnreleased /\ sUnreleased' = sUnreleased - n
      /\ sRaw' = IF n = sUnreleased THEN None ELSE Add(sRaw, n)
      /\ mFront' = Add(mFront, n)
      /\ spc' = "wake" \/ spc' = IF n = sUnreleased THEN "idle" ELSE spc
      /\ UNCHANGED <<mRear, mFlush, mBuffers, cpc, cUnreleased, cShutdown,
                     sFlush, flush, rear, newFront, sShutdown, ackFlush,
                     peeked, flushPoint>>
  BY DEF IInv, Ring, ServerRelease, clientVars, callVars
<1>3. /\ Inside \in Nat /\ cUnreleased \in Nat /\ sUnreleased \in Nat /\ n \in Nat
      /\ n > 0 /\ mFrameCount \in Nat /\ Inside <= mFrameCount
      /\ sUnreleased > 0 /\ sUnreleased <= Inside /\ sRaw = mFront
  BY <1>2, RingIs DEF IInv, Ring, ServerHolds, MixerHolds
<1>4. /\ Inside' = Inside - n /\ n <= Inside
      /\ \A c \in Counter : n <= Ahead(c) => Gap(mFront', c) = Ahead(c) - n
      /\ \A i \in Nat : n <= i /\ Numbered(i) =>
           Holds(mFrameCountP2, mBuffers, mFront', i - n)
  BY <1>2, <1>3, FrontMoves
<1>5. /\ sUnreleased' \in Nat /\ sUnreleased' <= Inside'
      /\ sUnreleased' > 0 <=> n # sUnreleased
      /\ sUnreleased' > 0 => sRaw' = mFront'
  BY <1>2, <1>3, <1>4
<1> USE DEF IInv, Ring
<1>6. Bounded' /\ ClientHolds'
  BY <1>1, <1>2, <1>3, <1>4 DEF Bounded, ClientHolds
<1>7. ServerHolds'
  BY <1>1, <1>2, <1>5 DEF ServerHolds, MixerHolds
<1>8. Flushes' /\ Polls'
  <2>1. CASE flushPoint = None
    BY <1>1, <1>2, <2>1 DEF Flushes, Polls
  <2>2. CASE flushPoint # None
    <3>1. /\ flushPoint \in Counter /\ Ahead(flushPoint) \in Nat
          /\ sUnreleased <= Ahead(flushPoint) /\ Ahead(flushPoint) <= Inside
      <4>1. flushPoint \in Counter
        BY <2>2 DEF TInv, ServerTypes
      <4> QED BY <1>2, <2>2, <4>1, RingIs DEF Flushes
    <3>2. Ahead(flushPoint)' = Ahead(flushPoint) - n
      <4>1. Gap(mFront', flushPoint) = Ahead(flushPoint) - n
        BY <1>2, <1>3, <1>4, <3>1
      <4> QED BY <1>2, <4>1 DEF Ahead
    <3>3. /\ Ahead(flushPoint)' <= Inside'
          /\ sUnreleased' <= Ahead(flushPoint)'
      BY <1>2, <1>3, <1>4, <3>1, <3>2
    <3> QED BY <1>1, <1>2, <2>2, <3>3 DEF Flushes, Polls
  <2> QED BY <2>1, <2>2
<1>9. Frames'
  <2>1. Numbered(Inside)
    BY DEF Frames
  <2>2. Holds(mFrameCountP2, mBuffers, mFront', Inside')
    BY <1>3, <1>4, <2>1
  <2>3. ASSUME cpc = "copied"
        PROVE  Holds(mFrameCountP2, mBuffers, mFront', Inside' + cUnreleased)
    <3>1. Numbered(Inside + cUnreleased)
      BY <2>3 DEF Frames
    <3>2. /\ Inside + cUnreleased \in Nat /\ n <= Inside + cUnreleased
          /\ (Inside + cUnreleased) - n = Inside' + cUnreleased
      BY <1>3, <1>4
    <3> QED BY <1>4, <3>1, <3>2
  <2> QED BY <1>1, <1>2, <2>2, <2>3 DEF Frames, Numbered
<1> QED BY <1>6, <1>7, <1>8, <1>9 DEF Ring

(* The server's other steps leave the ring alone.                          *)
LEMMA RestKeeps ==
  ASSUME IInv, UNCHANGED track,
         ServerForget \/ ServerWake \/ PeekRear \/ PeekFront
  PROVE  Ring'
<1>1. /\ mIsOut' = mIsOut /\ mFrameCount' = mFrameCount
      /\ mFrameCountP2' = mFrameCountP2 /\ M' = M
      /\ Makes("framesReady")' <=> Makes("framesReady")
  BY SameTrack
<1>2. /\ UNCHANGED <<mFront, mRear, mFlush, mBuffers, cUnreleased, cShutdown,
                     sFlush, flush, rear, newFront, sUnreleased, ackFlush,
                     flushPoint>>
      /\ cpc' \in {cpc, "flags"}
  BY DEF ServerForget, ServerWake, Wake, Woken, PeekRear, PeekFront, indexVars,
     clientVars, callVars, serverVars
<1>3. sUnreleased \in Nat
  BY RingIs DEF IInv, Ring
<1>4. \/ /\ sShutdown /\ spc \in {"obtained", "copied"} /\ spc' = "idle"
         /\ UNCHANGED <<sShutdown, peeked>>
      \/ /\ spc = "wake" /\ UNCHANGED <<sShutdown, peeked, sRaw>>
         /\ spc' = IF sUnreleased = 0 THEN "idle"
                   ELSE IF mIsOut THEN "obtained" ELSE "copied"
      \/ /\ Makes("framesReady") /\ mIsOut /\ UNCHANGED <<sShutdown, spc, sRaw>>
      \/ /\ peeked # None /\ peeked' = None /\ UNCHANGED <<spc, sRaw>>
         /\ ~sShutdown' => ~sShutdown
  BY DEF ServerForget, ServerWake, PeekRear, PeekFront, clientVars, callVars,
     serverVars
<1>5. Inside' = Inside /\ Ahead(flushPoint)' = Ahead(flushPoint)
      /\ Ahead(rear)' = Ahead(rear) /\ Ahead(newFront)' = Ahead(newFront)
  BY <1>2 DEF Inside, Ahead
<1> USE DEF IInv, Ring
<1>6. Bounded' /\ ClientHolds'
  BY <1>1, <1>2, <1>4, <1>5 DEF Bounded, ClientHolds
<1>7. ServerHolds'
  <2>1. CASE mIsOut
    <3>1. MixerHolds
      BY <2>1 DEF ServerHolds
    <3>2. MixerHolds'
      BY <1>1, <1>2, <1>3, <1>4, <1>5, <2>1, <3>1 DEF MixerHolds
    <3> QED BY <1>1, <2>1, <3>2 DEF ServerHolds
  <2>2. CASE ~mIsOut
    BY <1>1, <1>2, <1>4, <1>5, <2>2 DEF ServerHolds, RecorderHolds
  <2> QED BY <2>1, <2>2
<1>8. Flushes' /\ Polls'
  BY <1>1, <1>2, <1>4, <1>5 DEF Flushes, Polls
<1>9. Frames'
  <2>1. ~mIsOut /\ spc' \in {"copied", "wake"} => spc \in {"copied", "wake"}
    BY <1>4 DEF Bounded
  <2> QED BY <1>1, <1>2, <1>5, <2>1 DEF Frames, Numbered
<1> QED BY <1>6, <1>7, <1>8, <1>9 DEF Ring

LEMMA CallsKeepRing ==
  ASSUME IInv, UNCHANGED track,
         \/ \E o \in {"obtain", "end"}, t \in Timeouts : ClientCall(o, t)
         \/ ObtainFlags \/ EndFlags \/ ClientDown \/ ClientWait \/ WaitEnds
         \/ Interrupt \/ BinderDied \/ InterruptWake
         \/ SetStreamEndDone \/ Invalidate
  PROVE  Ring'
<1>1. UNCHANGED <<track, mFront, mRear, mFlush, mBuffers, cShutdown, spc,
                  sFlush, flush, rear, newFront, sUnreleased, sShutdown,
                  sRaw, ackFlush, peeked, flushPoint>>
  BY DEF ClientCall, ObtainFlags, EndFlags, ClientDown, ClientWait, WaitEnds,
     Interrupt, BinderDied, InterruptWake, SetStreamEndDone, Invalidate,
     ReturnError, indexVars, clientVars, callVars, serverVars
<1>2. cpc' \in {"obtained", "copied"} => UNCHANGED <<cpc, cUnreleased>>
  BY DEF ClientCall, ObtainFlags, EndFlags, ClientDown, ClientWait, WaitEnds,
     Interrupt, BinderDied, InterruptWake, SetStreamEndDone, Invalidate,
     ReturnError, Woken, clientVars
<1> QED BY <1>1, <1>2, CallsKeep

LEMMA NextRing ==
  ASSUME IInv, Serialized, [Next]_<<track, vars>>
  PROVE  Ring'
<1>1. CASE UNCHANGED <<track, vars>>
  <2>1. /\ UNCHANGED <<track, mFront, mRear, mFlush, mBuffers, cShutdown, spc,
                       sFlush, flush, rear, newFront, sUnreleased, sShutdown,
                       sRaw, ackFlush, peeked, flushPoint>>
        /\ UNCHANGED <<cpc, cUnreleased>>
    BY <1>1 DEF vars, indexVars, clientVars, callVars, serverVars
  <2> QED BY <2>1, CallsKeep
<1>2. CASE Next
  <2>0. UNCHANGED track /\ TRUE \in BOOLEAN /\ FALSE \in BOOLEAN
    BY <1>2 DEF Next
  <2>1. CASE \/ ClientLook \/ ClientCopy \/ ClientFlush
             \/ \E n \in 1 .. mFrameCount : ClientRelease(n)
    BY <2>0, <2>1, LookKeeps, CopyKeeps, FlushKeeps, PublishKeeps, ReadKeeps
  <2>2. CASE \/ ServerObtain(FALSE) \/ ServerObtain(TRUE) \/ ServerLoad
             \/ ServerFlush \/ ServerRebase \/ ServerFlushWake
    BY <2>0, <2>2, ObtainKeeps, LoadKeeps, PendingKeeps, RebaseKeeps,
       AfterFlushKeeps
  <2>3. CASE \/ ServerCopy \/ \E n \in 1 .. mFrameCount : ServerRelease(n)
    BY <2>0, <2>3, RecordKeeps, RecordedKeeps, PlayedKeeps
  <2>4. CASE ServerForget \/ ServerWake \/ PeekRear \/ PeekFront
    BY <2>0, <2>4, RestKeeps
  <2>5. CASE \/ \E o \in {"obtain", "end"}, t \in Timeouts : ClientCall(o, t)
             \/ ObtainFlags \/ EndFlags \/ ClientDown \/ ClientWait \/ WaitEnds
             \/ Interrupt \/ BinderDied \/ InterruptWake
             \/ SetStreamEndDone \/ Invalidate
    BY <2>0, <2>5, CallsKeepRing
  <2> QED BY <1>2, <2>1, <2>2, <2>3, <2>4, <2>5
          DEF Next, Client, ClientStep, Caller, Server, ServerStep
<1> QED BY <1>1, <1>2

LEMMA Inductive == ASSUME Serialized PROVE Spec => []IInv
<1>1. Init => IInv
  BY InitRing
<1>2. IInv /\ [Next]_<<track, vars>> => IInv'
  BY StepKeepsTypes, NextRing DEF IInv
<1> QED BY <1>1, <1>2, PTL DEF Spec
-----------------------------------------------------------------------------
(* Neither side ever finds the control block corrupt, so neither shuts     *)
(* down but for framesReady() on another thread: what is between mFront    *)
(* and mRear is never less than nothing nor more than the ring, through    *)
(* every flush and every wrap of the counters.                             *)
THEOREM StaysSane == ASSUME Serialized PROVE Spec => []NeverCorrupt
<1>1. IInv => NeverCorrupt
  <2> SUFFICES ASSUME IInv PROVE NeverCorrupt
    OBVIOUS
  <2>1. Sane(Filled(mRear, mFront))
    BY RingIs DEF IInv, Ring
  <2> QED BY <2>1 DEF IInv, Ring, Bounded, NeverCorrupt
<1> QED BY Inductive, <1>1, PTL

(* The frames that the mixer, or the recording client, holds are those the *)
(* writer wrote there, in order; neither the writer nor a flush takes them *)
(* away under it.                                                          *)
THEOREM ReadsWhatWasWritten == ASSUME Serialized PROVE Spec => []ReadsFrames
<1>1. IInv => ReadsFrames
  <2> SUFFICES ASSUME IInv, NEW k \in 0 .. ReaderHolds - 1
               PROVE  mBuffers[Slot(ReaderAt + k)] = Add(mFront, k)
    BY DEF ReadsFrames
  <2>1. /\ Inside \in Nat /\ sUnreleased \in Nat /\ cUnreleased \in Nat
        /\ ReaderHolds <= Inside /\ ReaderAt = mFront /\ ReaderHolds \in Nat
    <3>1. Inside \in Nat /\ sUnreleased \in Nat /\ cUnreleased \in Nat
      BY RingIs DEF IInv, Ring
    <3>2. ReaderHolds > 0
      BY <3>1 DEF ReaderHolds
    <3>3. CASE mIsOut
      <4>1. spc = "obtained" /\ ReaderHolds = sUnreleased
        BY <3>2, <3>3 DEF ReaderHolds
      <4> QED BY <3>1, <3>2, <3>3, <4>1
              DEF IInv, Ring, ServerHolds, MixerHolds, ReaderAt
    <3>4. CASE ~mIsOut
      <4>1. cpc = "obtained" /\ ReaderHolds = cUnreleased
        BY <3>2, <3>4 DEF ReaderHolds
      <4> QED BY <3>1, <3>4, <4>1 DEF IInv, Ring, ClientHolds, ReaderAt
    <3> QED BY <3>3, <3>4
  <2>2. k \in 0 .. Inside - 1
    BY <2>1
  <2>3. IsThere(mFrameCountP2, mBuffers, mFront, k)
    BY <2>2, Zenon DEF IInv, Ring, Frames, Numbered, Holds
  <2> QED BY <2>1, <2>3, Zenon DEF IsThere, Slot
<1> QED BY Inductive, <1>1, PTL

(* "mFlush: server notices and discards all data between mFront and mRear":*)
(* acknowledging the latest flush moves mFront to where mRear was when the *)
(* client flushed, wherever the counters have wrapped meanwhile.           *)
THEOREM FlushDiscardsAll == ASSUME Serialized PROVE Spec => FlushIsExact
<1>1. ASSUME IInv, [Next]_<<track, vars>>, spc = "rebase", spc' # spc,
             flush = mFlush
      PROVE  mFront' = flushPoint
  <2>1. ServerRebase
    BY <1>1 DEF Next, Client, ClientStep, Caller, Server, ServerStep, vars,
       ClientCall, ObtainFlags, EndFlags, ClientLook, ClientDown, ClientWait,
       WaitEnds, ClientCopy, ClientRelease, ClientFlush, Interrupt, BinderDied,
       InterruptWake, SetStreamEndDone, Invalidate, ServerObtain, ServerLoad,
       ServerFlush, ServerFlushWake, ServerCopy, ServerRelease, ServerForget,
       ServerWake, PeekRear, PeekFront, serverVars
  <2> QED BY <1>1, <2>1 DEF IInv, Ring, Polls, ServerRebase
<1>2. IInv /\ [Next]_<<track, vars>> =>
        [spc = "rebase" /\ spc' # spc /\ flush = mFlush
           => mFront' = flushPoint]_vars
  BY <1>1, Zenon
<1> QED BY Inductive, <1>2, PTL DEF Spec, FlushIsExact
-----------------------------------------------------------------------------
(* The ring as a FIFO *)

(* n frames from f on, as the writer numbers them; what is in the ring.    *)
Numbers(f, n) == [k \in 1 .. n |-> (f + k - 1) % W]
Held(P, b, f, n) == [k \in 1 .. n |-> b[(f + k - 1) % P]]

LEMMA HeldIs ==
  ASSUME NEW P, NEW b, NEW f \in Int, NEW n \in Nat, Holds(P, b, f, n)
  PROVE  Held(P, b, f, n) = Numbers(f, n)
<1>1. ASSUME NEW k \in 1 .. n
      PROVE  b[(f + k - 1) % P] = (f + k - 1) % W
  <2>1. k - 1 \in 0 .. n - 1 /\ f + (k - 1) = f + k - 1
    OBVIOUS
  <2>2. b[(f + (k - 1)) % P] = (f + (k - 1)) % W
    BY <2>1, Zenon DEF Holds, IsThere, Add
  <2> QED BY <2>1, <2>2, Zenon
<1> QED BY <1>1, Zenon DEF Held, Numbers

LEMMA NumbersTyped ==
  ASSUME W \in Nat \ {0}, NEW f \in Int, NEW n \in Nat
  PROVE  /\ Numbers(f, n) \in Seq(Int) /\ Len(Numbers(f, n)) = n
         /\ \A k \in 1 .. n : Numbers(f, n)[k] = (f + k - 1) % W
<1>1. ASSUME NEW k \in 1 .. n PROVE (f + k - 1) % W \in Int
  <2>1. f + k - 1 \in Int
    OBVIOUS
  <2>2. (f + k - 1) % W \in 0 .. W - 1
    BY <2>1, Quotient, Zenon
  <2> QED BY <2>2
<1>2. Numbers(f, n) \in [1 .. n -> Int]
  BY <1>1, Zenon DEF Numbers
<1>3. Numbers(f, n) \in Seq(Int) /\ Len(Numbers(f, n)) = n
  BY <1>2
<1> QED BY <1>3, Zenon DEF Numbers

(* More frames behind them, and fewer in front.                            *)
LEMMA NumbersPut ==
  ASSUME W \in Nat \ {0}, NEW f \in Counter, NEW r \in Counter, NEW n \in Nat,
         r = Add(f, n), NEW m \in Nat
  PROVE  Numbers(f, n + m) = Numbers(f, n) \o Numbers(r, m)
<1>0. f \in Int /\ r \in Int /\ n + m \in Nat
  BY DEF Counter
<1>1. /\ Numbers(f, n) \in Seq(Int) /\ Len(Numbers(f, n)) = n
      /\ Numbers(r, m) \in Seq(Int) /\ Len(Numbers(r, m)) = m
      /\ Numbers(f, n + m) \in Seq(Int) /\ Len(Numbers(f, n + m)) = n + m
      /\ \A k \in 1 .. n : Numbers(f, n)[k] = (f + k - 1) % W
      /\ \A k \in 1 .. m : Numbers(r, m)[k] = (r + k - 1) % W
      /\ \A k \in 1 .. n + m : Numbers(f, n + m)[k] = (f + k - 1) % W
  BY <1>0, NumbersTyped, Zenon
<1>2. /\ Numbers(f, n) \o Numbers(r, m) \in Seq(Int)
      /\ Len(Numbers(f, n) \o Numbers(r, m)) = n + m
      /\ \A k \in 1 .. n + m :
           (Numbers(f, n) \o Numbers(r, m))[k] =
             IF k <= n THEN Numbers(f, n)[k] ELSE Numbers(r, m)[k - n]
  <2> DEFINE s == Numbers(f, n)
             t == Numbers(r, m)
  <2>1. /\ s \in Seq(Int) /\ t \in Seq(Int) /\ Len(s) = n /\ Len(t) = m
    BY <1>1, Zenon
  <2> HIDE DEF s, t
  <2>2. /\ s \o t \in Seq(Int) /\ Len(s \o t) = Len(s) + Len(t)
        /\ \A k \in 1 .. Len(s) + Len(t) :
             (s \o t)[k] = IF k <= Len(s) THEN s[k] ELSE t[k - Len(s)]
    BY <2>1, ConcatProperties, Zenon
  <2>3. /\ s \o t \in Seq(Int) /\ Len(s \o t) = n + m
        /\ \A k \in 1 .. n + m :
             (s \o t)[k] = IF k <= n THEN s[k] ELSE t[k - n]
    <3>1. Len(s) = n /\ Len(t) = m
      BY <2>1
    <3> QED BY <2>2, <3>1
  <2> QED BY <2>3, Zenon DEF s, t
<1>3. ASSUME NEW k \in 1 .. n + m
      PROVE  Numbers(f, n + m)[k] = (Numbers(f, n) \o Numbers(r, m))[k]
  <2>1. CASE k <= n
    <3>1. k \in 1 .. n
      BY <2>1
    <3> QED BY <1>1, <1>2, <2>1, <3>1, Zenon
  <2>2. CASE ~(k <= n)
    <3>1. /\ k - n \in 1 .. m /\ (k - n) - 1 \in Int /\ f + n \in Int
          /\ (f + n) + ((k - n) - 1) = f + k - 1
          /\ r + ((k - n) - 1) = r + (k - n) - 1
      BY <1>0, <2>2
    <3>2. (((f + n) % W) + ((k - n) - 1)) % W = ((f + n) + ((k - n) - 1)) % W
      BY <3>1, NestedWrap, Zenon
    <3>3. (r + ((k - n) - 1)) % W = (f + k - 1) % W
      BY <3>1, <3>2, Zenon DEF Add
    <3> QED BY <1>1, <1>2, <2>2, <3>1, <3>3, Zenon
  <2> QED BY <2>1, <2>2
<1> QED BY <1>1, <1>2, <1>3, SeqEqual, Zenon

LEMMA NumbersTake ==
  ASSUME W \in Nat \ {0}, NEW f \in Int, NEW n \in Nat, NEW m \in 0 .. n
  PROVE  Numbers(Add(f, m), n - m) = SubSeq(Numbers(f, n), m + 1, n)
<1>0. /\ f + m \in Int /\ n - m \in Nat /\ m + 1 \in Int /\ n \in Int
  OBVIOUS
<1>1. Add(f, m) \in Int
  <2>1. (f + m) % W \in 0 .. W - 1
    BY <1>0, Quotient, Zenon
  <2> QED BY <2>1 DEF Add
<1>2. /\ Numbers(f, n) \in Seq(Int) /\ Len(Numbers(f, n)) = n
      /\ Numbers(Add(f, m), n - m) \in Seq(Int)
      /\ Len(Numbers(Add(f, m), n - m)) = n - m
      /\ \A k \in 1 .. n : Numbers(f, n)[k] = (f + k - 1) % W
      /\ \A k \in 1 .. n - m :
           Numbers(Add(f, m), n - m)[k] = (Add(f, m) + k - 1) % W
  BY <1>0, <1>1, NumbersTyped, Zenon
<1>3. \A i \in m + 1 .. n : Numbers(f, n)[i] \in Int
  <2>1. \A i \in m + 1 .. n : i \in 1 .. Len(Numbers(f, n))
    BY <1>2
  <2> QED BY <1>2, <2>1, ElementOfSeq, Zenon
<1>4. /\ SubSeq(Numbers(f, n), m + 1, n) \in Seq(Int)
      /\ Len(SubSeq(Numbers(f, n), m + 1, n)) = IF m + 1 <= n THEN n - (m + 1) + 1 ELSE 0
      /\ \A i \in 1 .. n - (m + 1) + 1 :
           SubSeq(Numbers(f, n), m + 1, n)[i] = Numbers(f, n)[(m + 1) + i - 1]
  <2> DEFINE s == Numbers(f, n)
  <2>1. \A i \in m + 1 .. n : s[i] \in Int
    BY <1>3, Zenon
  <2> HIDE DEF s
  <2>2. /\ SubSeq(s, m + 1, n) \in Seq(Int)
        /\ Len(SubSeq(s, m + 1, n)) = IF m + 1 <= n THEN n - (m + 1) + 1 ELSE 0
        /\ \A i \in 1 .. n - (m + 1) + 1 :
             SubSeq(s, m + 1, n)[i] = s[(m + 1) + i - 1]
    BY <1>0, <2>1, SubSeqProperties
  <2> QED BY <2>2, Zenon DEF s
<1>5. /\ Len(SubSeq(Numbers(f, n), m + 1, n)) = n - m
      /\ n - (m + 1) + 1 = n - m
  BY <1>0, <1>4
<1>6. ASSUME NEW k \in 1 .. n - m
      PROVE  Numbers(Add(f, m), n - m)[k] = SubSeq(Numbers(f, n), m + 1, n)[k]
  <2>1. /\ (m + 1) + k - 1 \in 1 .. n /\ k - 1 \in Int
        /\ f + ((m + 1) + k - 1) - 1 = (f + m) + (k - 1)
    BY <1>0
  <2>2. PICK y \in Int : y = Add(f, m) /\ y = (f + m) % W
    BY <1>1 DEF Add
  <2>3. y + k - 1 = y + (k - 1)
    OBVIOUS
  <2>a. W \in Nat \ {0} /\ f + m \in Int /\ k - 1 \in Int
    BY <1>0
  <2>b. (((f + m) % W) + (k - 1)) % W = ((f + m) + (k - 1)) % W
    BY <2>a, NestedWrap, ZenonT(60)
  <2>4. (y + (k - 1)) % W = ((f + m) + (k - 1)) % W
    BY <2>2, <2>b, Zenon
  <2>5. Numbers(Add(f, m), n - m)[k] = (y + (k - 1)) % W
    BY <1>2, <2>2, <2>3, Zenon
  <2>6. SubSeq(Numbers(f, n), m + 1, n)[k] = ((f + m) + (k - 1)) % W
    BY <1>2, <1>4, <1>5, <2>1, Zenon
  <2> QED BY <2>4, <2>5, <2>6, Zenon
<1> QED BY <1>2, <1>4, <1>5, <1>6, SeqEqual, Zenon

(* What the ring holds are the frames numbered from mFront to mRear.       *)
LEMMA ContentsAre ==
  ASSUME IInv
  PROVE  Contents = Numbers(mFront, Inside)
<1>1. mFront \in Int /\ Inside \in Nat /\ Filled(mRear, mFront) = Inside
  BY RingIs DEF IInv, Ring, Counter
<1>2. Holds(mFrameCountP2, mBuffers, mFront, Inside)
  BY DEF IInv, Ring, Frames, Numbered
<1>3. Held(mFrameCountP2, mBuffers, mFront, Inside) = Numbers(mFront, Inside)
  BY <1>1, <1>2, HeldIs, Zenon
<1> QED BY <1>1, <1>3, Zenon DEF Contents, Held, Slot

(* The same of the next state.                                             *)
LEMMA ContentsBecome ==
  ASSUME IInv', UNCHANGED track
  PROVE  /\ Contents' = Numbers(mFront', Inside')
         /\ Filled(mRear', mFront') = Inside' /\ Inside' \in Nat
<1>1. /\ track \in Tracks /\ mFront' \in Counter /\ mRear' \in Counter
      /\ Inside' <= mFrameCount
  BY SameTrack DEF IInv, TInv, SharedTypes, Ring, Bounded
<1>2. /\ mFront' \in Int /\ W \in Nat \ {0} /\ Counter = 0 .. W - 1
  BY <1>1, SizesAre
<1>3. Inside' = Gap(mFront', mRear')
  BY Zenon DEF Inside, Ahead
<1>4. Inside' \in Nat
  <2>1. Inside' \in Counter
    BY <1>1, <1>2, <1>3, GapIs, Zenon
  <2> QED BY <1>2, <2>1
<1>5. Filled(mRear', mFront') = Inside'
  <2>1. (mRear' - mFront') % W = Inside'
    BY <1>3, Zenon DEF Gap
  <2> QED BY <1>1, <2>1, FilledIs, Zenon
<1>6. Holds(mFrameCountP2', mBuffers', mFront', Inside')
  BY DEF IInv, Ring, Frames, Numbered
<1>7. Held(mFrameCountP2', mBuffers', mFront', Inside') = Numbers(mFront', Inside')
  BY <1>2, <1>4, <1>6, HeldIs, Zenon
<1> QED BY <1>4, <1>5, <1>7, Zenon DEF Contents, Held, Slot

(* How the ends of the ring move: apart, together, or not at all.          *)
LEMMA EndsMove ==
  ASSUME IInv, [Next]_<<track, vars>>
  PROVE  \/ \E n \in 1 .. mFrameCount :
              /\ Inside + n <= mFrameCount
              /\ mRear' = Add(mRear, n) /\ mFront' = mFront
         \/ \E n \in Nat :
              n <= Inside /\ mFront' = Add(mFront, n) /\ mRear' = mRear
         \/ UNCHANGED indexVars
<1>1. /\ TInv /\ Bounded /\ Inside \in Nat /\ mFrameCount \in Nat
      /\ Sane(Filled(mRear, mFront))
      /\ mFront \in Counter /\ mRear \in Counter /\ W \in Nat \ {0}
      /\ cUnreleased \in Nat /\ sUnreleased \in Nat
  BY RingIs DEF IInv, Ring
<1>2. ASSUME NEW n \in 1 .. mFrameCount, ClientRelease(n)
      PROVE  \/ /\ Inside + n <= mFrameCount
                /\ mRear' = Add(mRear, n) /\ mFront' = mFront
             \/ n <= Inside /\ mFront' = Add(mFront, n) /\ mRear' = mRear
  BY <1>1, <1>2 DEF ClientRelease, IInv, Ring, ClientHolds
<1>3. ASSUME NEW n \in 1 .. mFrameCount, ServerRelease(n)
      PROVE  \/ /\ Inside + n <= mFrameCount
                /\ mRear' = Add(mRear, n) /\ mFront' = mFront
             \/ n <= Inside /\ mFront' = Add(mFront, n) /\ mRear' = mRear
  BY <1>1, <1>3 DEF ServerRelease, IInv, Ring, ServerHolds, MixerHolds,
     RecorderHolds
<1>4. ASSUME ServerRebase
      PROVE  \E n \in Nat :
               n <= Inside /\ mFront' = Add(mFront, n) /\ mRear' = mRear
  <2>1. newFront \in Counter /\ rear \in Counter
    BY DEF IInv, TInv, ServerTypes
  <2>2. Ahead(newFront) \in Nat /\ Ahead(rear) \in Nat
    BY <1>1, <2>1, RingIs
  <2>3. Ahead(newFront) <= Inside
    BY <1>1, <1>4, <2>2 DEF ServerRebase, IInv, Ring, Polls
  <2>4. newFront = Add(mFront, Ahead(newFront))
    BY <1>1, <2>1, GapIs, Zenon DEF Ahead
  <2> QED BY <1>4, <2>2, <2>3, <2>4 DEF ServerRebase
<1>5. ASSUME ClientLook PROVE UNCHANGED indexVars
  BY <1>1, <1>5, Zenon DEF ClientLook, Overrun, indexVars
<1>6. \/ UNCHANGED indexVars \/ ClientLook \/ ServerRebase
      \/ \E n \in 1 .. mFrameCount : ClientRelease(n) \/ ServerRelease(n)
  BY DEF Next, Client, ClientStep, Caller, Server, ServerStep, vars,
     ClientCall, ObtainFlags, EndFlags, ClientDown, ClientWait, WaitEnds,
     ClientCopy, ClientFlush, Interrupt, BinderDied, InterruptWake,
     SetStreamEndDone, Invalidate, ServerObtain, ServerLoad, ServerFlush,
     ServerFlushWake, ServerCopy, ServerForget, ServerWake, PeekRear, PeekFront
<1> QED BY <1>2, <1>3, <1>4, <1>5, <1>6

(* The ring is a buffer of its nominal size, empty at first.               *)
LEMMA FifoInit == Init => Fifo!Init
<1> SUFFICES ASSUME Init PROVE Fifo!Init
  OBVIOUS
<1>1. IInv
  BY InitRing
<1>2. /\ mFrameCount \in Nat \ {0} /\ W \in Nat \ {0} /\ mFront \in Counter
      /\ Filled(mRear, mFront) = Inside
  BY <1>1, SizesAre, RingIs DEF IInv, Ring, TInv
<1>3. Inside = 0
  BY <1>2, GapNone, Zenon DEF Init, Inside, Ahead
<1>4. Contents = << >>
  BY <1>2, <1>3 DEF Contents
<1> QED BY <1>2, <1>4 DEF Init, Fifo!Init

(* The writer's release puts frames behind the others; the reader's, or an *)
(* acknowledged flush, takes the oldest away; no other step touches what   *)
(* is inside, least of all the copy of frames to be released.              *)
LEMMA FifoStep ==
  IInv /\ IInv' /\ [Next]_<<track, vars>> => [Fifo!Next]_(Fifo!vars)
<1> SUFFICES ASSUME IInv, IInv', [Next]_<<track, vars>>
             PROVE  [Fifo!Next]_(Fifo!vars)
  OBVIOUS
<1>1. UNCHANGED track
  BY DEF Next
<1>2. /\ TInv /\ Bounded /\ Inside \in Nat /\ mFrameCount \in Nat
      /\ mFront \in Counter /\ mRear \in Counter /\ W \in Nat \ {0}
      /\ mFront \in Int /\ Inside <= mFrameCount
  BY RingIs DEF IInv, Ring, Counter
<1>3. mFrameCount' = mFrameCount
  BY <1>1, SameTrack
<1>4. Contents = Numbers(mFront, Inside)
  BY ContentsAre
<1>5. Contents' = Numbers(mFront', Inside')
  BY <1>1, ContentsBecome
<1>6. Len(Contents) = Inside
  BY <1>2, <1>4, NumbersTyped, Zenon
<1>7. ASSUME NEW n \in 1 .. mFrameCount, Inside + n <= mFrameCount,
             mRear' = Add(mRear, n), mFront' = mFront
      PROVE  Fifo!Next
  <2>1. n \in Nat
    OBVIOUS
  <2>2. Inside' = Inside + n
    BY <1>2, <1>7, <2>1, RearMoves, Zenon
  <2>3. mRear = Add(mFront, Inside)
    BY <1>2, GapIs, Zenon DEF Inside, Ahead
  <2>a. /\ W \in Nat \ {0} /\ mFront \in Counter /\ mRear \in Counter
        /\ Inside \in Nat /\ mRear = Add(mFront, Inside)
    BY <1>2, <2>3, Zenon
  <2>4. Numbers(mFront, Inside + n) = Numbers(mFront, Inside) \o Numbers(mRear, n)
    BY <2>1, <2>a, NumbersPut, ZenonT(60)
  <2>5. Contents' = Contents \o Numbers(mRear, n)
    BY <1>4, <1>5, <1>7, <2>2, <2>4, Zenon
  <2>6. Fifo!Put(n)
    BY <1>6, <1>7, <2>5, Zenon DEF Fifo!Put, Numbers, Add
  <2> QED BY <1>3, <2>6, Zenon DEF Fifo!Next
<1>8. ASSUME NEW n \in Nat, n <= Inside, mFront' = Add(mFront, n),
             mRear' = mRear
      PROVE  [Fifo!Next]_(Fifo!vars)
  <2>1. Inside' = Inside - n
    BY <1>2, <1>8, FrontMoves, Zenon
  <2>2. n \in 0 .. Inside
    BY <1>2, <1>8
  <2>3. Numbers(Add(mFront, n), Inside - n) =
          SubSeq(Numbers(mFront, Inside), n + 1, Inside)
    BY <1>2, <2>2, NumbersTake, Zenon
  <2>4. Contents' = SubSeq(Contents, n + 1, Len(Contents))
    BY <1>4, <1>5, <1>6, <1>8, <2>1, <2>3, Zenon
  <2>5. CASE n = 0
    <3>1. 0 \in Counter /\ 0 + mFront = mFront
      BY <1>2 DEF Counter
    <3>2. Inside - n = Inside
      BY <1>2, <2>5
    <3>3. mFront' = mFront
      <4>1. /\ n \in 0 .. W /\ (mFront + n < W => Add(mFront, n) = mFront + n)
        BY <1>2, <2>5, AddCases
      <4> QED BY <1>2, <1>8, <2>5, <4>1 DEF Counter
    <3>4. Contents' = Contents
      BY <1>4, <1>5, <2>1, <3>2, <3>3, Zenon
    <3> QED BY <1>3, <1>8, <3>4, Zenon DEF Fifo!vars
  <2>6. CASE n # 0
    <3>1. n \in 1 .. mFrameCount
      BY <1>2, <1>8, <2>6
    <3>2. Fifo!Take(n)
      BY <1>6, <1>8, <2>4, Zenon DEF Fifo!Take
    <3>3. Fifo!Next
      BY <1>3, <3>1, <3>2, Zenon DEF Fifo!Next
    <3> QED BY <3>3
  <2> QED BY <2>5, <2>6
<1>9. ASSUME UNCHANGED indexVars PROVE [Fifo!Next]_(Fifo!vars)
  <2>1. mFront' = mFront /\ mRear' = mRear
    BY <1>9 DEF indexVars
  <2>2. Inside' = Inside
    BY <2>1 DEF Inside, Ahead
  <2>3. Contents' = Contents
    BY <1>4, <1>5, <2>1, <2>2, Zenon
  <2> QED BY <1>3, <2>1, <2>3, Zenon DEF Fifo!vars
<1> QED BY <1>7, <1>8, <1>9, EndsMove, Zenon

(* Whatever the two sides do at the same time, and whenever the client     *)
(* flushes, frames leave the ring in the order they were written, each     *)
(* once, and there are never more of them than the track's frame count.    *)
THEOREM RingIsAFifo == ASSUME Serialized PROVE Spec => ImplementsFifo
<1>1. Init => Fifo!Init
  BY FifoInit
<1>2. IInv /\ IInv' /\ [Next]_<<track, vars>> => [Fifo!Next]_(Fifo!vars)
  BY FifoStep
<1> QED BY Inductive, <1>1, <1>2, PTL DEF Spec, ImplementsFifo, Fifo!Spec
=============================================================================
