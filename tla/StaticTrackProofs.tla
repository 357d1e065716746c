------------------------- MODULE StaticTrackProofs --------------------------
(***************************************************************************)
(* Proofs about StaticTrack, for any buffer, loops, wrap of the sequences  *)
(* and number of unread calls: the types; that the server does not abort   *)
(* if no resampler keeps a buffer from one mix to the next; that what the  *)
(* client is told is where the server is; and that the last call wins.     *)
(***************************************************************************)
EXTENDS StaticTrack, TLAPS

-----------------------------------------------------------------------------
(* The operators on states *)

LEMMA SequenceStays ==
  ASSUME NEW a \in Sequence, NEW b \in Sequence
  PROVE  incrementSequence(a, b) \in Sequence
<1>1. W \in Nat /\ W > 0
  BY SizeAssumption
<1>2. (a + 1) % W \in 0 .. W - 1 /\ (b + 1) % W \in 0 .. W - 1
  BY <1>1 DEF Sequence
<1>3. incrementSequence(a, b) \in {(a + 1) % W, (b + 1) % W}
  BY DEF incrementSequence
<1> QED BY <1>2, <1>3 DEF Sequence

LEMMA LoopStays ==
  ASSUME NEW s \in State, NEW u \in State
  PROVE  updateStateWithLoop(s, u) \in State
<1>1. CASE LoopChanges(s, u)
  <2>1. updateStateWithLoop(s, u) =
          [loop |-> u.loop, loopSequence |-> u.loopSequence,
           position |-> Wrapped(u.loop, s.position),
           positionSequence |-> s.positionSequence]
    BY <1>1 DEF updateStateWithLoop, State
  <2>2. Wrapped(u.loop, s.position) \in Position
    BY DEF Wrapped, State, Loop
  <2> QED BY <2>1, <2>2 DEF State
<1>2. CASE ~LoopChanges(s, u)
  BY <1>2 DEF updateStateWithLoop
<1> QED BY <1>1, <1>2

(* What a new position makes of a state.                                   *)
Moved(s, u) ==
  [loop |-> [start |-> s.loop.start, end |-> s.loop.end,
             count |-> IF u.position >= s.loop.end THEN 0 ELSE s.loop.count],
   loopSequence |-> s.loopSequence, position |-> u.position,
   positionSequence |-> u.positionSequence]

LEMMA MovesTo ==
  ASSUME NEW s \in State, NEW u \in State, PositionChanges(s, u)
  PROVE  updateStateWithPosition(s, u) = Moved(s, u)
BY DEF updateStateWithPosition, Moved, State, Loop

LEMMA PositionStays ==
  ASSUME NEW s \in State, NEW u \in State
  PROVE  updateStateWithPosition(s, u) \in State
<1>1. CASE PositionChanges(s, u)
  <2>1. Moved(s, u).loop \in Loop
    BY DEF Moved, State, Loop, LoopCount
  <2> QED BY <1>1, <2>1, MovesTo DEF Moved, State
<1>2. CASE ~PositionChanges(s, u)
  BY <1>2 DEF updateStateWithPosition
<1> QED BY <1>1, <1>2

LEMMA UpdatedStays ==
  ASSUME NEW s \in State, NEW u \in State
  PROVE  Updated(s, u) \in State
<1>1. updateStateWithLoop(s, u) \in State /\ updateStateWithPosition(s, u) \in State
  BY LoopStays, PositionStays
<1>2. /\ updateStateWithPosition(updateStateWithLoop(s, u), u) \in State
      /\ updateStateWithLoop(updateStateWithPosition(s, u), u) \in State
  BY <1>1, LoopStays, PositionStays
<1> QED BY <1>2 DEF Updated

(* Playback is within the loop, if there is one.                           *)
Playable(s) ==
  s.loop.count # 0 => s.loop.start < s.loop.end /\ s.position < s.loop.end

LEMMA LoopKeepsPlayable ==
  ASSUME NEW s \in State, NEW u \in State, Playable(s),
         LoopChanges(s, u) => Valid(u.loop)
  PROVE  Playable(updateStateWithLoop(s, u))
<1>1. CASE LoopChanges(s, u)
  <2>1. updateStateWithLoop(s, u) =
          [loop |-> u.loop, loopSequence |-> u.loopSequence,
           position |-> Wrapped(u.loop, s.position),
           positionSequence |-> s.positionSequence]
    BY <1>1 DEF updateStateWithLoop, State
  <2>2. u.loop.count # 0 =>
          u.loop.start < u.loop.end /\ Wrapped(u.loop, s.position) < u.loop.end
    BY <1>1, SizeAssumption DEF Valid, Wrapped, State, Loop, Position
  <2> QED BY <2>1, <2>2 DEF Playable
<1>2. CASE ~LoopChanges(s, u)
  BY <1>2 DEF updateStateWithLoop
<1> QED BY <1>1, <1>2

LEMMA PositionKeepsPlayable ==
  ASSUME NEW s \in State, NEW u \in State, Playable(s)
  PROVE  Playable(updateStateWithPosition(s, u))
<1>1. CASE PositionChanges(s, u)
  <2>1. Playable(Moved(s, u))
    BY SizeAssumption DEF Playable, Moved, State, Loop, Position
  <2> QED BY <1>1, <2>1, MovesTo
<1>2. CASE ~PositionChanges(s, u)
  BY <1>2 DEF updateStateWithPosition
<1> QED BY <1>1, <1>2

(* Only a loop that changes needs to be looked at, and a new position does *)
(* not change which loop that is.                                          *)
LEMMA UpdatedKeepsPlayable ==
  ASSUME NEW s \in State, NEW u \in State, Playable(s), Accepted(s, u)
  PROVE  Playable(Updated(s, u))
<1>1. LoopChanges(s, u) => Valid(u.loop)
  BY DEF Accepted
<1> DEFINE sl == updateStateWithLoop(s, u)
           sp == updateStateWithPosition(s, u)
<1>2. sl \in State /\ Playable(sl) /\ sp \in State /\ Playable(sp)
  BY <1>1, LoopStays, PositionStays, LoopKeepsPlayable, PositionKeepsPlayable
<1>3. sp.loopSequence = s.loopSequence
  <2>1. CASE PositionChanges(s, u)
    <3>1. sp = Moved(s, u)
      BY <2>1, MovesTo
    <3> QED BY <3>1 DEF Moved
  <2>2. CASE ~PositionChanges(s, u)
    BY <2>2 DEF updateStateWithPosition
  <2> QED BY <2>1, <2>2
<1> HIDE DEF sl, sp
<1>4. LoopChanges(sp, u) => Valid(u.loop)
  BY <1>1, <1>3 DEF LoopChanges
<1>5. /\ Playable(updateStateWithPosition(sl, u))
      /\ Playable(updateStateWithLoop(sp, u))
  BY <1>2, <1>4, LoopKeepsPlayable, PositionKeepsPlayable
<1> QED BY <1>5 DEF Updated, sl, sp
-----------------------------------------------------------------------------
(* Frames to play *)

(* All turns of a loop are at least one of them.                           *)
LEMMA TurnsAreFrames ==
  ASSUME NEW c \in Nat, NEW d \in Nat, d > 0
  PROVE  c * d \in Nat /\ (c > 0 => c * d >= d) /\ (c - 1) * d = c * d - d
<1>1. c * d \in Nat /\ (c - 1) * d = c * d - d
  OBVIOUS
<1>2. c > 0 => (c - 1) * d >= 0
  OBVIOUS
<1> QED BY <1>1, <1>2

LEMMA RemainingIs ==
  ASSUME NEW s \in State, Playable(s)
  PROVE  /\ s.loop.count = -1 <=> Remaining(s) = Infinite
         /\ s.loop.count # -1 => Remaining(s) \in Nat
         /\ Remaining(s) \in Int
         /\ s.loop.count # -1 => Remaining(s) >= End(s) - s.position
         /\ s.position <= End(s)
<1> DEFINE c == s.loop.count
           d == s.loop.end - s.loop.start
           p == s.position
<1>1. /\ c \in LoopCount /\ d \in Int /\ p \in Nat /\ p <= mFrameCount
      /\ s.loop.end <= mFrameCount /\ s.loop.start >= 0
      /\ s.loop.end \in Nat /\ s.loop.start \in Nat /\ mFrameCount \in Nat
  BY SizeAssumption DEF State, Loop, Position
<1>2. c # 0 => d > 0 /\ p < s.loop.end
  BY <1>1 DEF Playable
<1>3. Remaining(s) = IF c = -1 THEN Infinite ELSE c * d + mFrameCount - p
  BY DEF Remaining
<1>4. End(s) = IF c # 0 THEN s.loop.end ELSE mFrameCount
  BY DEF End
<1>5. CASE c = -1
  BY <1>1, <1>2, <1>3, <1>4, <1>5 DEF Infinite
<1>6. CASE c = 0
  <2>1. c * d = 0
    BY <1>1, <1>6
  <2> QED BY <1>1, <1>3, <1>4, <1>6, <2>1 DEF Infinite
<1>7. CASE c > 0
  <2>1. c \in Nat /\ d \in Nat /\ d > 0
    BY <1>1, <1>2, <1>7 DEF LoopCount
  <2>2. c * d \in Nat /\ c * d >= d
    BY <1>7, <2>1, TurnsAreFrames
  <2> QED BY <1>1, <1>2, <1>3, <1>4, <1>7, <2>1, <2>2 DEF Infinite
<1> QED BY <1>1, <1>5, <1>6, <1>7 DEF LoopCount

(* What is obtained is ready.                                              *)
LEMMA ObtainedIsReady ==
  ASSUME TypeOK, Playable(mState), mFramesReady = Remaining(mState),
         NEW n \in Nat, n <= End(mState) - mState.position
  PROVE  Ready(n)
<1>1. mState \in State
  BY DEF TypeOK
<1>2. End(mState) \in Nat /\ mState.position \in Nat
  BY <1>1, SizeAssumption DEF End, State, Loop, Position
<1> QED BY <1>1, <1>2, RemainingIs DEF Ready, Infinite

(* Where playback is after n frames more, which do not cross an end.       *)
LEMMA AdvancedIs ==
  ASSUME NEW s \in State, Playable(s), NEW n \in Nat, n > 0,
         n <= End(s) - s.position
  PROVE  /\ Advanced(s, n) \in State
         /\ Playable(Advanced(s, n))
         /\ Remaining(Advanced(s, n)) =
              IF s.loop.count = -1 THEN Infinite ELSE Remaining(s) - n
         /\ \A m \in Nat : m + n <= End(s) - s.position =>
              m <= End(Advanced(s, n)) - Advanced(s, n).position
<1> DEFINE c == s.loop.count
           b == s.loop.start
           e == s.loop.end
           p == s.position
           x == IF c = -1 THEN -1 ELSE c - 1
           turned == [loop |-> [start |-> b, end |-> e, count |-> x],
                      loopSequence |-> s.loopSequence, position |-> b,
                      positionSequence |-> s.positionSequence]
           gone == [loop |-> [start |-> b, end |-> e, count |-> c],
                    loopSequence |-> s.loopSequence, position |-> p + n,
                    positionSequence |-> s.positionSequence]
<1>1. /\ c \in LoopCount /\ b \in Nat /\ e \in Nat /\ p \in Nat
      /\ b <= mFrameCount /\ e <= mFrameCount /\ p <= mFrameCount
      /\ mFrameCount \in Nat
  BY SizeAssumption DEF State, Loop, Position
<1>2. c # 0 => b < e /\ p < e
  BY DEF Playable
<1>3. End(s) = IF c # 0 THEN e ELSE mFrameCount
  BY DEF End
<1>4. p + n <= mFrameCount
  BY <1>1, <1>3
<1>5. Remaining(s) = IF c = -1 THEN Infinite ELSE c * (e - b) + mFrameCount - p
  BY DEF Remaining
<1>6. CASE c # 0 /\ p + n = e
  <2>2. x \in LoopCount
    BY <1>1, <1>6 DEF LoopCount
  <2>1. Advanced(s, n) = turned
    <3>1. Turned(s.loop) = [start |-> b, end |-> e, count |-> x]
      BY DEF Turned, State, Loop
    <3>2. Advanced(s, n) = [s EXCEPT !.position = b, !.loop = Turned(s.loop)]
      BY <1>1, <1>4, <1>6 DEF Advanced
    <3> QED BY <3>1, <3>2 DEF State
  <2>3. turned \in State
    BY <1>1, <2>2 DEF State, Loop, Position
  <2>4. Playable(turned)
    BY <1>2, <1>6 DEF Playable
  <2>5. Remaining(turned) =
          IF x = -1 THEN Infinite ELSE x * (e - b) + mFrameCount - b
    BY DEF Remaining
  <2>6. Remaining(turned) = IF c = -1 THEN Infinite ELSE Remaining(s) - n
    <3>1. CASE c = -1
      BY <2>5, <3>1
    <3>2. CASE c # -1
      <4>1. c \in Nat /\ c > 0 /\ e - b \in Nat /\ e - b > 0 /\ x = c - 1
        BY <1>1, <1>2, <1>6, <3>2 DEF LoopCount
      <4>2. x * (e - b) = c * (e - b) - (e - b) /\ c * (e - b) \in Nat
        BY <4>1, TurnsAreFrames
      <4>3. x # -1
        BY <4>1
      <4>4. /\ Remaining(turned) = x * (e - b) + mFrameCount - b
            /\ Remaining(s) = c * (e - b) + mFrameCount - p
        BY <1>5, <2>5, <3>2, <4>3
      <4> HIDE DEF x, turned
      <4> QED BY <1>1, <1>6, <3>2, <4>2, <4>4
    <3> QED BY <3>1, <3>2
  <2>7. End(turned) = IF x # 0 THEN e ELSE mFrameCount
    BY DEF End
  <2>8. \A m \in Nat : m + n <= End(s) - p => m <= End(turned) - turned.position
    BY <1>1, <1>2, <1>3, <1>6, <2>7
  <2> QED BY <2>1, <2>3, <2>4, <2>6, <2>8
<1>7. CASE ~(c # 0 /\ p + n = e)
  <2>1. Advanced(s, n) = gone
    BY <1>4, <1>7, <1>1 DEF Advanced, State, Loop
  <2>2. gone \in State
    BY <1>1, <1>4 DEF State, Loop, Position
  <2>3. Playable(gone)
    BY <1>1, <1>2, <1>3, <1>7 DEF Playable
  <2>4. Remaining(gone) =
          IF c = -1 THEN Infinite ELSE c * (e - b) + mFrameCount - (p + n)
    BY DEF Remaining
  <2>5. c * (e - b) \in Int
    BY <1>1 DEF LoopCount
  <2>6. Remaining(gone) = IF c = -1 THEN Infinite ELSE Remaining(s) - n
    <3> DEFINE t == c * (e - b)
    <3>1. t \in Int
      BY <2>5
    <3>2. /\ Remaining(gone) = IF c = -1 THEN Infinite ELSE t + mFrameCount - (p + n)
          /\ Remaining(s) = IF c = -1 THEN Infinite ELSE t + mFrameCount - p
      BY <1>5, <2>4
    <3> HIDE DEF t, gone
    <3> QED BY <1>1, <3>1, <3>2
  <2>7. End(gone) = End(s)
    BY <1>3 DEF End
  <2>8. End(s) \in Nat
    BY <1>1, <1>3
  <2>9. \A m \in Nat : m + n <= End(s) - p => m <= End(gone) - gone.position
    <3>1. gone.position = p + n
      OBVIOUS
    <3> HIDE DEF gone
    <3> QED BY <1>1, <2>7, <2>8, <3>1
  <2> QED BY <2>1, <2>2, <2>3, <2>6, <2>9
<1> QED BY <1>6, <1>7

(* Released frames keep the types even if they exceed what is left.        *)
LEMMA AdvancedStays ==
  ASSUME NEW s \in State, NEW n \in Nat
  PROVE  Advanced(s, n) \in State
<1>1. /\ s.position + n \in Nat /\ mFrameCount \in Position
      /\ s.loop \in Loop /\ s.loop.start \in Position
  BY SizeAssumption DEF State, Loop, Position
<1>2. CASE s.position + n > mFrameCount
  BY <1>1, <1>2 DEF Advanced, State
<1>3. CASE s.position + n <= mFrameCount /\ s.loop.count # 0
             /\ s.position + n = s.loop.end
  <2>1. Turned(s.loop) \in Loop
    BY <1>1, <1>3 DEF Turned, Loop, LoopCount
  <2>2. Advanced(s, n) =
          [s EXCEPT !.position = s.loop.start, !.loop = Turned(s.loop)]
    BY <1>1, <1>3, SizeAssumption DEF Advanced
  <2> QED BY <1>1, <2>1, <2>2 DEF State
<1>4. CASE s.position + n <= mFrameCount
             /\ ~(s.loop.count # 0 /\ s.position + n = s.loop.end)
  <2>1. Advanced(s, n) = [s EXCEPT !.position = s.position + n]
    BY <1>1, <1>4, SizeAssumption DEF Advanced
  <2>2. s.position + n \in Position
    BY <1>1, <1>4 DEF Position
  <2> QED BY <2>1, <2>2 DEF State
<1> QED BY <1>1, <1>2, <1>3, <1>4, SizeAssumption

LEMMA RemainingIsInt ==
  ASSUME NEW s \in State
  PROVE  Remaining(s) \in Int
<1>1. /\ s.loop.count \in Int /\ s.loop.end - s.loop.start \in Int
      /\ mFrameCount - s.position \in Int
      /\ mFrameCount \in Int /\ s.position \in Int
  BY SizeAssumption DEF State, Loop, LoopCount, Position
<1>2. s.loop.count * (s.loop.end - s.loop.start) \in Int
  BY <1>1
<1> QED BY <1>1, <1>2 DEF Remaining, Infinite
-----------------------------------------------------------------------------
(* Types *)

LEMMA StartIs ==
  /\ Start \in State /\ ViewOf(Start) \in View
  /\ Remaining(Start) = mFrameCount /\ Playable(Start)
  /\ NoLoop \in Loop /\ 0 \in Position /\ 1 \in Sequence
<1>1. 0 \in Position /\ mFrameCount \in Nat
  BY SizeAssumption DEF Position
<1>2. 0 \in Sequence /\ 1 \in Sequence
  BY SizeAssumption DEF Sequence
<1>3. NoLoop \in Loop
  BY <1>1 DEF NoLoop, Loop, LoopCount
<1>4. Start \in State /\ Start.loop = NoLoop /\ Start.position = 0
  BY <1>1, <1>2, <1>3 DEF Start, State
<1>5. ViewOf(Start) \in View
  BY <1>1, <1>4 DEF ViewOf, View, NoLoop, LoopCount
<1>6. Remaining(Start) = mFrameCount
  BY <1>1, <1>4 DEF Remaining, NoLoop
<1>7. Playable(Start)
  BY <1>4 DEF Playable, NoLoop
<1> QED BY <1>1, <1>2, <1>3, <1>4, <1>5, <1>6, <1>7

LEMMA ViewStays ==
  ASSUME NEW s \in State
  PROVE  ViewOf(s) \in View
BY DEF ViewOf, View, State, Loop

LEMMA WrappedStays ==
  ASSUME NEW l \in Loop, NEW p \in Position
  PROVE  Wrapped(l, p) \in Position
BY DEF Wrapped, Loop

LEMMA SetLoopTypes ==
  ASSUME TypeOK, NEW l \in Loop, NEW hit \in BOOLEAN, SetLoop(l, hit),
         next' \in Position \cup {None}
  PROVE  TypeOK'
<1> USE DEF TypeOK
<1>1. Observed(hit) \in View
  BY DEF Observed
<1>2. view' \in View
  BY <1>1, WrappedStays DEF SetLoop, View, Loop
<1>3. incrementSequence(request.loopSequence, request.positionSequence) \in Sequence
  BY SequenceStays DEF State
<1>4. request' \in State
  BY <1>3 DEF SetLoop, State
<1>5. posLoopUnread' \in BOOLEAN /\ exact' \in BOOLEAN
  BY DEF SetLoop, Observe
<1> QED BY <1>2, <1>4, <1>5 DEF SetLoop, serverVars

LEMMA SetBufferPositionTypes ==
  ASSUME TypeOK, NEW p \in Position, NEW hit \in BOOLEAN,
         SetBufferPosition(p, hit)
  PROVE  TypeOK'
<1> USE DEF TypeOK
<1>1. Observed(hit) \in View
  BY DEF Observed
<1>2. view' \in View
  BY <1>1 DEF SetBufferPosition, View, LoopCount
<1>3. incrementSequence(request.positionSequence, request.loopSequence) \in Sequence
  BY SequenceStays DEF State
<1>4. request' \in State
  BY <1>3 DEF SetBufferPosition, State
<1>5. posLoopUnread' \in BOOLEAN /\ exact' \in BOOLEAN
  BY DEF SetBufferPosition, Observe
<1> QED BY <1>2, <1>4, <1>5 DEF SetBufferPosition, serverVars

LEMMA RestoreTypes ==
  ASSUME TypeOK, NEW hit \in BOOLEAN, Restore(hit)
  PROVE  TypeOK'
<1> USE DEF TypeOK
<1> DEFINE v == Observed(hit)
           l == [request.loop EXCEPT !.count = v.loopCount]
<1>1. v \in View
  BY DEF Observed
<1>2. l \in Loop
  BY <1>1 DEF State, Loop, View
<1> HIDE DEF v, l
<1>3. /\ posLoop' = ViewOf(Start) /\ posLoopUnread' = FALSE /\ mState' = Start
      /\ ack' = "PENDING" /\ exact' = TRUE
      /\ spc' = "idle" /\ obtaining' = FALSE /\ mIsShutdown' = FALSE
      /\ mFramesReady' = mFrameCount /\ mUnreleased' = 0 /\ holding' = FALSE
  BY DEF Restore
<1>4. /\ posLoop' \in View /\ mState' \in State
      /\ mFramesReady' \in Int /\ mUnreleased' \in Position
  BY <1>3, StartIs, SizeAssumption
<1>5. CASE v.loopCount # 0
  <2>1. /\ request' = [Start EXCEPT !.loop = l, !.loopSequence = 1]
        /\ view' = [position |-> 0, loopCount |-> v.loopCount]
        /\ next' = v.position /\ lastCall' = "loop"
        /\ unreadLoops' = 1 /\ unreadPositions' = 0
    BY <1>5 DEF Restore, v, l
  <2>2. request' \in State
    BY <1>2, <2>1, StartIs DEF State
  <2>3. view' \in View /\ next' \in Position
    BY <1>1, <2>1, StartIs DEF View
  <2> QED BY <1>3, <1>4, <2>1, <2>2, <2>3
<1>6. CASE v.loopCount = 0
  <2>1. /\ request' = [Start EXCEPT !.position = v.position, !.positionSequence = 1]
        /\ view' = v /\ next' = next /\ lastCall' = "position"
        /\ unreadLoops' = 0 /\ unreadPositions' = 1
    BY <1>6 DEF Restore, v
  <2>2. request' \in State
    BY <1>1, <2>1, StartIs DEF State, View
  <2> QED BY <1>1, <1>3, <1>4, <2>1, <2>2
<1> QED BY <1>5, <1>6

LEMMA PollPositionTypes ==
  ASSUME TypeOK, NEW forBuffer \in BOOLEAN, PollPosition(forBuffer)
  PROVE  TypeOK'
<1> USE DEF TypeOK
<1>1. CASE ack = "PENDING" /\ mState' = Updated(mState, request)
             /\ mFramesReady' = Remaining(mState') /\ ack' = "READ"
             /\ spc' = "push"
             /\ exact' = (exact /\ unreadLoops <= 1 /\ unreadPositions <= 1)
             /\ unreadLoops' = 0 /\ unreadPositions' = 0
             /\ UNCHANGED <<mUnreleased, mIsShutdown>>
  <2>1. mState' \in State
    BY <1>1, UpdatedStays
  <2>2. mFramesReady' \in Int
    BY <1>1, <2>1, RemainingIsInt
  <2> QED BY <1>1, <2>1, <2>2 DEF PollPosition
<1>2. CASE /\ mIsShutdown' = TRUE /\ ack' = "DONE"
           /\ mUnreleased' = IF forBuffer THEN 0 ELSE mUnreleased
           /\ UNCHANGED <<spc, mState, mFramesReady, unreadLoops,
                          unreadPositions, exact>>
  BY <1>2, StartIs DEF PollPosition
<1>3. CASE /\ forBuffer /\ spc' = "buffer"
           /\ UNCHANGED <<ack, mState, mFramesReady, mUnreleased, mIsShutdown,
                          unreadLoops, unreadPositions, exact>>
  BY <1>3 DEF PollPosition
<1> QED BY <1>1, <1>2, <1>3 DEF PollPosition

LEMMA ObtainBufferTypes ==
  ASSUME TypeOK, ObtainBuffer
  PROVE  TypeOK' /\ (holding' => mUnreleased' <= End(mState) - mState.position)
<1> USE DEF TypeOK
<1>1. /\ mState.position \in Nat /\ End(mState) \in Nat
      /\ End(mState) <= mFrameCount /\ mFrameCount \in Nat
  BY SizeAssumption DEF End, State, Loop, Position
<1> DEFINE left == End(mState) - mState.position
<1>2. /\ mUnreleased' \in Position
      /\ mUnreleased' > 0 => mUnreleased' <= left
  <2>1. CASE mState.position < End(mState)
    <3>1. mUnreleased' \in 1 .. left
      BY <2>1 DEF ObtainBuffer, Obtainable
    <3> QED BY <1>1, <3>1 DEF Position
  <2>2. CASE ~(mState.position < End(mState))
    <3>1. mUnreleased' = 0
      BY <2>2 DEF ObtainBuffer, Obtainable
    <3> QED BY <1>1, <3>1 DEF Position
  <2> QED BY <2>1, <2>2
<1>3. holding' \in BOOLEAN /\ (holding' => mUnreleased' > 0)
  <2>1. holding' = (mUnreleased' > 0)
    BY DEF ObtainBuffer
  <2>2. CASE mUnreleased' > 0
    BY <2>1, <2>2
  <2>3. CASE ~(mUnreleased' > 0)
    <3>1. (mUnreleased' > 0) = FALSE
      BY <2>3
    <3>2. holding' = FALSE
      BY <2>1, <3>1
    <3> QED BY <3>2
  <2> QED BY <2>2, <2>3
<1>4. /\ spc' = "idle"
      /\ UNCHANGED <<request, view, next, ack, posLoop, posLoopUnread, obtaining,
                     mState, mFramesReady, mIsShutdown, lastCall, unreadLoops,
                     unreadPositions, exact>>
  BY DEF ObtainBuffer
<1>5. TypeOK'
  BY <1>2, <1>3, <1>4
<1> QED BY <1>2, <1>3, <1>5

LEMMA ReleaseBufferTypes ==
  ASSUME TypeOK, NEW n \in 1 .. mFrameCount, ReleaseBuffer(n)
  PROVE  TypeOK'
<1> USE DEF TypeOK
<1>1. n \in Nat /\ mUnreleased' \in Position
  BY SizeAssumption DEF ReleaseBuffer, Position
<1>2. mState' \in State
  BY <1>1, AdvancedStays DEF ReleaseBuffer
<1>3. posLoop' \in View
  BY <1>2, ViewStays DEF ReleaseBuffer
<1>4. mFramesReady' \in Int
  BY <1>1 DEF ReleaseBuffer, Infinite
<1>5. holding' \in {FALSE, n < mUnreleased}
  BY DEF ReleaseBuffer
<1>6. holding' \in BOOLEAN
  <2>1. CASE n < mUnreleased
    BY <1>5, <2>1
  <2>2. CASE ~(n < mUnreleased)
    <3>1. (n < mUnreleased) = FALSE
      BY <2>2
    <3> QED BY <1>5, <3>1
  <2> QED BY <2>1, <2>2
<1> QED BY <1>1, <1>2, <1>3, <1>4, <1>6 DEF ReleaseBuffer

LEMMA StepKeepsTypes ==
  ASSUME TypeOK, [Next]_vars
  PROVE  TypeOK'
<1>1. CASE Get
  <2>1. view' \in View /\ posLoopUnread' \in BOOLEAN /\ exact' \in BOOLEAN
    BY <1>1 DEF TypeOK, Get, Observe, Observed
  <2> QED BY <1>1, <2>1 DEF TypeOK, Get, serverVars
<1>2. ASSUME NEW hit \in BOOLEAN, NEW l \in Loops, SetLoopOnly(l, hit)
      PROVE  TypeOK'
  BY <1>2, SetLoopTypes, LoopsAssumption DEF SetLoopOnly, TypeOK
<1>3. ASSUME NEW hit \in BOOLEAN, Stop(hit)
      PROVE  TypeOK'
  BY <1>3, SetLoopTypes, StartIs DEF Stop
<1>4. CASE PushPosLoop
  BY <1>4, ViewStays DEF TypeOK, PushPosLoop
<1>5. CASE PollDone
  BY <1>5 DEF TypeOK, PollDone, Done
<1>6. CASE UNCHANGED vars
  BY <1>6 DEF TypeOK, vars, serverVars
<1> QED BY <1>1, <1>2, <1>3, <1>4, <1>5, <1>6, SetBufferPositionTypes,
           RestoreTypes, PollPositionTypes, ObtainBufferTypes, ReleaseBufferTypes
        DEF Next, Client, Server

LEMMA InitTypes == Init => TypeOK
<1>1. SUFFICES ASSUME Init PROVE TypeOK
  OBVIOUS
<1>2. /\ request = Start /\ view = ViewOf(Start) /\ posLoop = ViewOf(Start)
      /\ mState = Start /\ mFramesReady = mFrameCount /\ mUnreleased = 0
  BY <1>1 DEF Init
<1>3. /\ request \in State /\ view \in View /\ posLoop \in View
      /\ mState \in State /\ mFramesReady \in Int /\ mUnreleased \in Position
  BY <1>2, StartIs, SizeAssumption
<1> QED BY <1>1, <1>3 DEF Init, TypeOK

(* The state and both queues hold what they should, in every behaviour.    *)
THEOREM TypeCorrect == Spec => []TypeOK
<1>1. Init => TypeOK
  BY InitTypes
<1>2. TypeOK /\ [Next]_vars => TypeOK'
  BY StepKeepsTypes
<1> QED BY <1>1, <1>2, PTL DEF Spec
-----------------------------------------------------------------------------
(* The server does not abort *)

(* Strengthens NeverAborts: a buffer is only held between polls, and ends  *)
(* where the loop or the track does.                                       *)
Inv ==
  /\ TypeOK
  /\ Playable(mState) /\ mFramesReady = Remaining(mState)
  /\ holding => /\ spc = "idle"
                /\ mUnreleased <= End(mState) - mState.position

LEMMA InvSuffices == Inv => NeverAborts
<1>1. SUFFICES ASSUME Inv PROVE NeverAborts
  OBVIOUS
<1>2. /\ TypeOK /\ Playable(mState) /\ mFramesReady = Remaining(mState)
      /\ mState \in State /\ mUnreleased \in Nat
  BY <1>1, SizeAssumption DEF Inv, TypeOK, Position
<1>3. holding => Ready(mUnreleased)
  BY <1>1, <1>2, ObtainedIsReady DEF Inv
<1>4. ASSUME NEW n \in Obtainable
      PROVE  Ready(n)
  <2>1. /\ mState.position \in Nat /\ End(mState) \in Nat
        /\ mState.position <= End(mState)
    BY <1>2, RemainingIs, SizeAssumption DEF End, State, Loop, Position
  <2>2. n \in Nat /\ n <= End(mState) - mState.position
    <3>1. CASE mState.position < End(mState)
      BY <1>4, <2>1, <3>1 DEF Obtainable
    <3>2. CASE ~(mState.position < End(mState))
      BY <1>4, <2>1, <3>2 DEF Obtainable
    <3> QED BY <3>1, <3>2
  <2> QED BY <1>2, <2>2, ObtainedIsReady
<1> QED BY <1>2, <1>3, <1>4 DEF NeverAborts, Playable

(* A new server begins at the beginning.                                   *)
LEMMA StartSuffices ==
  ASSUME TypeOK', mState' = Start, mFramesReady' = mFrameCount, holding' = FALSE
  PROVE  Inv'
BY StartIs DEF Inv

LEMMA PollKeepsInv ==
  ASSUME Inv, ~KeepsBuffer, TypeOK', NEW forBuffer \in BOOLEAN,
         PollPosition(forBuffer)
  PROVE  Inv'
<1>1. ~holding /\ ~holding'
  BY DEF PollPosition
<1>2. CASE /\ Accepted(mState, request) /\ mState' = Updated(mState, request)
           /\ mFramesReady' = Remaining(mState')
  <2>1. Playable(mState')
    BY <1>2, UpdatedKeepsPlayable DEF Inv, TypeOK
  <2> QED BY <1>1, <1>2, <2>1 DEF Inv
<1>3. CASE UNCHANGED <<mState, mFramesReady>>
  BY <1>1, <1>3 DEF Inv
<1> QED BY <1>2, <1>3 DEF PollPosition

LEMMA ReleaseKeepsInv ==
  ASSUME Inv, TypeOK', NEW n \in 1 .. mFrameCount, ReleaseBuffer(n)
  PROVE  Inv'
<1>1. /\ mState \in State /\ Playable(mState) /\ n \in Nat /\ n > 0
      /\ mFramesReady = Remaining(mState) /\ mState' = Advanced(mState, n)
      /\ mUnreleased \in Nat /\ n <= mUnreleased
      /\ mUnreleased' = mUnreleased - n
      /\ spc' = "idle" /\ mUnreleased <= End(mState) - mState.position
  BY SizeAssumption DEF Inv, TypeOK, ReleaseBuffer, Position
<1>2. End(mState) \in Int /\ mState.position \in Int
  BY <1>1, SizeAssumption DEF End, State, Loop, Position
<1>3. n <= End(mState) - mState.position
  BY <1>1, <1>2
<1>4. /\ Playable(mState')
      /\ Remaining(mState') =
           IF mState.loop.count = -1 THEN Infinite ELSE Remaining(mState) - n
      /\ \A m \in Nat : m + n <= End(mState) - mState.position =>
           m <= End(mState') - mState'.position
  BY <1>1, <1>3, AdvancedIs
<1>5. mUnreleased' <= End(mState') - mState'.position
  <2>1. mUnreleased' \in Nat
             /\ mUnreleased' + n <= End(mState) - mState.position
    BY <1>1, <1>2
  <2> QED BY <1>4, <2>1
<1>6. mFramesReady' = Remaining(mState')
  <2>1. mState.loop.count = -1 <=> Remaining(mState) = Infinite
    BY <1>1, RemainingIs
  <2>2. mFramesReady' =
          IF mFramesReady = Infinite THEN Infinite ELSE mFramesReady - n
    BY DEF ReleaseBuffer
  <2> QED BY <1>1, <1>4, <2>1, <2>2
<1> QED BY <1>1, <1>4, <1>5, <1>6 DEF Inv

LEMMA StepKeepsInv ==
  ASSUME Inv, ~KeepsBuffer, [Next]_vars
  PROVE  Inv'
<1>1. TypeOK'
  BY StepKeepsTypes DEF Inv
<1>2. CASE UNCHANGED serverVars
  BY <1>1, <1>2 DEF Inv, serverVars
<1>3. ASSUME NEW hit \in BOOLEAN, Restore(hit)
      PROVE  Inv'
  BY <1>1, <1>3, StartSuffices DEF Restore
<1>4. CASE PushPosLoop \/ PollDone
  <2>1. UNCHANGED <<mState, mFramesReady, mUnreleased, holding>>
    BY <1>4 DEF PushPosLoop, PollDone
  <2>2. ~holding
    BY <1>4 DEF Inv, PushPosLoop, PollDone
  <2> QED BY <1>1, <2>1, <2>2 DEF Inv
<1>5. CASE ObtainBuffer
  <2>1. /\ UNCHANGED <<mState, mFramesReady>> /\ spc' = "idle"
    BY <1>5 DEF ObtainBuffer
  <2>2. holding' => mUnreleased' <= End(mState) - mState.position
    BY <1>5, ObtainBufferTypes DEF Inv
  <2>3. End(mState') = End(mState)
    BY <2>1
  <2> QED BY <1>1, <2>1, <2>2, <2>3 DEF Inv
<1>6. ASSUME NEW hit \in BOOLEAN, NEW l \in Loops, SetLoopOnly(l, hit)
      PROVE  Inv'
  BY <1>2, <1>6 DEF SetLoopOnly, SetLoop
<1>7. ASSUME NEW hit \in BOOLEAN, NEW p \in Position, SetBufferPosition(p, hit)
      PROVE  Inv'
  BY <1>2, <1>7 DEF SetBufferPosition
<1>8. ASSUME NEW hit \in BOOLEAN, Stop(hit)
      PROVE  Inv'
  BY <1>2, <1>8 DEF Stop, SetLoop
<1>9. CASE Get \/ UNCHANGED vars
  BY <1>2, <1>9 DEF Get, vars
<1> QED BY <1>1, <1>3, <1>4, <1>5, <1>6, <1>7, <1>8, <1>9, PollKeepsInv,
           ReleaseKeepsInv
        DEF Next, Client, Server

(* If no resampler keeps a buffer from one mix to the next, the server's   *)
(* process is not aborted by obtainBuffer() or releaseBuffer(), whatever   *)
(* the client asks for and however its sequences wrap.                     *)
THEOREM NeverAbortsIfReleased ==
  ASSUME ~KeepsBuffer
  PROVE  Spec => []NeverAborts
<1>1. Init => Inv
  <2>1. SUFFICES ASSUME Init PROVE Inv
    OBVIOUS
  <2>2. TypeOK
    BY <2>1, InitTypes
  <2> QED BY <2>1, <2>2, StartIs DEF Inv, Init
<1>2. Inv /\ [Next]_vars => Inv'
  BY StepKeepsInv
<1> QED BY <1>1, <1>2, InvSuffices, PTL DEF Spec
-----------------------------------------------------------------------------
(* The sequences *)

(* A sequence is at most this far ahead of the other.                      *)
H == W \div 2 - 1

LEMMA WidthIs ==
  /\ W \in Nat /\ H \in Nat /\ W = 2 * H + 2 /\ W \div 2 = H + 1
  /\ MaxUnread \in Nat /\ MaxUnread > 0 /\ MaxUnread < H
<1>1. /\ W \in Nat /\ W % 2 = 0 /\ MaxUnread \in Nat /\ MaxUnread > 0
      /\ 2 * MaxUnread < W - 2
  BY SizeAssumption
<1>2. W \div 2 \in Int /\ W = 2 * (W \div 2)
  BY <1>1
<1> QED BY <1>1, <1>2 DEF H

(* The images of two numbers that are not too far apart.                   *)
LEMMA Apart ==
  ASSUME NEW a \in Int, NEW b \in Int, a - b < W, b - a < W, a % W = b % W
  PROVE  a = b
<1> DEFINE qa == a \div W
           qb == b \div W
<1>1. W \in Nat /\ W > 0
  BY SizeAssumption
<1>2. /\ qa \in Int /\ qb \in Int
      /\ a = W * qa + (a % W) /\ b = W * qb + (b % W)
  BY <1>1
<1>3. a - b = W * (qa - qb)
  BY <1>1, <1>2
<1>4. qa - qb < 1 /\ qa - qb > -1
  BY <1>1, <1>2, <1>3
<1>5. qa = qb
  BY <1>2, <1>4
<1> QED BY <1>1, <1>2, <1>3, <1>5

(* The image of a number in the first turn, and of one in that before.     *)
LEMMA Image ==
  ASSUME NEW a \in Int
  PROVE  /\ a >= 0 /\ a < W => a % W = a
         /\ a < 0 /\ a >= -W => a % W = a + W
         /\ a % W \in Int /\ 0 <= a % W /\ a % W < W
<1> DEFINE q == a \div W
<1>1. W \in Nat /\ W > 0
  BY SizeAssumption
<1>2. q \in Int /\ a % W \in 0 .. W - 1 /\ a = W * q + (a % W)
  BY <1>1
<1>3. ASSUME a >= 0, a < W PROVE a % W = a
  <2>1. q < 1 /\ q > -1
    BY <1>1, <1>2, <1>3
  <2>2. q = 0
    BY <1>2, <2>1
  <2> QED BY <1>1, <1>2, <2>2
<1>4. ASSUME a < 0, a >= -W PROVE a % W = a + W
  <2>1. q < 0 /\ q > -2
    BY <1>1, <1>2, <1>4
  <2>2. q = -1
    BY <1>2, <2>1
  <2> QED BY <1>1, <1>2, <2>2
<1> QED BY <1>1, <1>2, <1>3, <1>4

(* What is computed from images is the image of what is computed.          *)
LEMMA ImageOfSum ==
  ASSUME NEW a \in Int, NEW b \in Int
  PROVE  /\ ((a % W) - (b % W)) % W = (a - b) % W
         /\ ((a % W) + 1) % W = (a + 1) % W
<1> DEFINE qa == a \div W
           qb == b \div W
<1>1. W \in Nat /\ W > 0
  BY SizeAssumption
<1>2. /\ qa \in Int /\ qb \in Int /\ a % W \in 0 .. W - 1 /\ b % W \in 0 .. W - 1
      /\ a = W * qa + (a % W) /\ b = W * qb + (b % W)
  BY <1>1
<1>3. ASSUME NEW x \in Int, NEW y \in Int, NEW k \in Int, x = y + W * k
      PROVE  x % W = y % W
  <2> DEFINE qx == x \div W
             qy == y \div W
  <2>1. /\ qx \in Int /\ qy \in Int /\ x % W \in 0 .. W - 1 /\ y % W \in 0 .. W - 1
        /\ x = W * qx + (x % W) /\ y = W * qy + (y % W)
    BY <1>1
  <2>2. (x % W) - (y % W) = W * (k + qy - qx)
    BY <1>1, <1>3, <2>1
  <2>3. k + qy - qx < 1 /\ k + qy - qx > -1
    BY <1>1, <2>1, <2>2
  <2>4. k + qy - qx = 0
    BY <2>1, <2>3
  <2> HIDE DEF qx, qy
  <2> QED BY <1>1, <2>1, <2>2, <2>4
<1>4. (a - b) = ((a % W) - (b % W)) + W * (qa - qb)
  BY <1>1, <1>2
<1>5. (a + 1) = ((a % W) + 1) + W * qa
  BY <1>1, <1>2
<1> QED BY <1>2, <1>3, <1>4, <1>5

(* As if they did not wrap, A and B are the client's two sequences, X and  *)
(* Y what the server saw of them nl and np calls ago.  A call takes the    *)
(* number after the greater of both ...                                    *)
Reach(C, X, Y, n) == X < C /\ Y < C /\ (C <= X + n \/ C <= Y + n)

Onward(A, B, X, Y, nl, np) ==
  /\ nl > 0 => Reach(A, X, Y, nl + np)
  /\ np > 0 => Reach(B, X, Y, nl + np)

(* ... but if that is already H ahead, it falls back to the number after   *)
(* the other, which the server saw, once.                                  *)
FellBack(A, B, X, Y, nl, np) ==
  /\ nl > 0 /\ Y < X /\ Y < A /\ A <= X - H + nl + np
  /\ np > 0 => Y < B /\ B <= X - H + nl + np

Counts(A, B, X, Y, nl, np) ==
  /\ -H <= A - B /\ A - B <= H /\ -H <= X - Y /\ X - Y <= H
  /\ (nl = 0 => A = X) /\ (np = 0 => B = Y)
  /\ \/ Onward(A, B, X, Y, nl, np)
     \/ FellBack(A, B, X, Y, nl, np) \/ FellBack(B, A, Y, X, np, nl)

LEMMA CountsAreSymmetric ==
  ASSUME NEW A \in Int, NEW B \in Int, NEW X \in Int, NEW Y \in Int,
         NEW nl \in Nat, NEW np \in Nat, Counts(A, B, X, Y, nl, np)
  PROVE  Counts(B, A, Y, X, np, nl)
<1>1. H \in Nat
  BY WidthIs
<1>2. nl + np = np + nl
  OBVIOUS
<1>3. Onward(A, B, X, Y, nl, np) => Onward(B, A, Y, X, np, nl)
  BY <1>2 DEF Onward, Reach
<1> QED BY <1>1, <1>3 DEF Counts

(* A sequence changes when it is called for, and only then.                *)
LEMMA CountsTell ==
  ASSUME NEW A \in Int, NEW B \in Int, NEW X \in Int, NEW Y \in Int,
         NEW nl \in Nat, NEW np \in Nat, nl + np <= MaxUnread,
         Counts(A, B, X, Y, nl, np)
  PROVE  A % W # X % W <=> nl > 0
<1>1. /\ H \in Nat /\ W = 2 * H + 2 /\ nl + np < H
  BY WidthIs
<1>2. CASE nl = 0
  BY <1>2 DEF Counts
<1>3. CASE nl > 0
  <2>1. A - X < W /\ X - A < W /\ A # X
    <3>1. CASE Onward(A, B, X, Y, nl, np)
      BY <1>1, <1>3, <3>1 DEF Onward, Reach, Counts
    <3>2. CASE FellBack(A, B, X, Y, nl, np)
      BY <1>1, <3>2 DEF FellBack, Counts
    <3>3. CASE FellBack(B, A, Y, X, np, nl)
      BY <1>1, <1>3, <3>3 DEF FellBack, Counts
    <3> QED BY <3>1, <3>2, <3>3 DEF Counts
  <2> QED BY <1>3, <2>1, Apart
<1> QED BY <1>2, <1>3

(* incrementSequence() as if nothing wrapped.                              *)
Incremented(A, B) == IF 0 <= A - B /\ A - B < H THEN A + 1 ELSE B + 1

LEMMA IncrementedIs ==
  ASSUME NEW A \in Int, NEW B \in Int, -H <= A - B, A - B <= H
  PROVE  /\ incrementSequence(A % W, B % W) = Incremented(A, B) % W
         /\ Incremented(A, B) \in Int
<1>1. H \in Nat /\ W \in Nat /\ W = 2 * H + 2 /\ W \div 2 - 1 = H
  BY WidthIs
<1> DEFINE ahead == ((A % W) - (B % W)) % W
<1>2. ahead = (A - B) % W /\ A - B \in Int
  BY ImageOfSum
<1>3. /\ A - B >= 0 => ahead = A - B
      /\ A - B < 0 => ahead = A - B + W
  <2> DEFINE d == A - B
  <2>1. d \in Int /\ ahead = d % W /\ d < W /\ d >= -W
    BY <1>1, <1>2
  <2> HIDE DEF d, ahead
  <2>2. /\ d >= 0 => ahead = d
        /\ d < 0 => ahead = d + W
    BY <2>1, Image
  <2> QED BY <2>2 DEF d
<1>4. ahead < H <=> 0 <= A - B /\ A - B < H
  <2> HIDE DEF ahead
  <2> QED BY <1>1, <1>2, <1>3
<1>5. incrementSequence(A % W, B % W) =
        IF ahead < H THEN ((A % W) + 1) % W ELSE ((B % W) + 1) % W
  BY <1>1 DEF incrementSequence
<1>6. ((A % W) + 1) % W = (A + 1) % W /\ ((B % W) + 1) % W = (B + 1) % W
  BY ImageOfSum
<1> HIDE DEF ahead
<1> QED BY <1>4, <1>5, <1>6 DEF Incremented

(* A call makes its sequence the greater one.                              *)
LEMMA CallCounts ==
  ASSUME NEW A \in Int, NEW B \in Int, NEW X \in Int, NEW Y \in Int,
         NEW nl \in Nat, NEW np \in Nat, nl + np < MaxUnread,
         Counts(A, B, X, Y, nl, np)
  PROVE  /\ Counts(Incremented(A, B), B, X, Y, nl + 1, np)
         /\ B < Incremented(A, B)
<1> DEFINE C == Incremented(A, B)
<1>1. /\ H \in Nat /\ nl + np < H /\ H > 0
      /\ -H <= A - B /\ A - B <= H /\ -H <= X - Y /\ X - Y <= H
      /\ (nl = 0 => A = X) /\ (np = 0 => B = Y)
  BY WidthIs DEF Counts
<1>2. /\ C \in Int /\ B < C /\ C - B <= H
      /\ C = A + 1 \/ C = B + 1
      /\ C = A + 1 \/ A < B \/ A = B + H
      /\ C = A + 1 => B <= A
  BY <1>1 DEF Incremented
<1> HIDE DEF C
<1>3. CASE Onward(A, B, X, Y, nl, np)
  <2>1. Onward(C, B, X, Y, nl + 1, np) \/ FellBack(C, B, X, Y, nl + 1, np)
    <3>1. CASE C = A + 1
      BY <1>1, <1>2, <1>3, <3>1 DEF Onward, Reach
    <3>2. CASE C = B + 1 /\ A < B
      BY <1>1, <1>2, <1>3, <3>2 DEF Onward, Reach
    <3>3. CASE C = B + 1 /\ A = B + H
      <4>1. np = 0 /\ B = Y /\ Y < X
        BY <1>1, <1>3, <3>3 DEF Onward, Reach
      <4> QED BY <1>1, <1>2, <1>3, <3>3, <4>1 DEF Onward, Reach, FellBack
    <3> QED BY <1>2, <3>1, <3>2, <3>3
  <2> QED BY <1>1, <1>2, <2>1 DEF Counts, C
<1>4. CASE FellBack(A, B, X, Y, nl, np)
  <2>1. FellBack(C, B, X, Y, nl + 1, np)
    BY <1>1, <1>2, <1>4 DEF FellBack
  <2> QED BY <1>1, <1>2, <2>1 DEF Counts, C
<1>5. CASE FellBack(B, A, Y, X, np, nl)
  <2>1. FellBack(B, C, Y, X, np, nl + 1)
    BY <1>1, <1>2, <1>5 DEF FellBack
  <2> QED BY <1>1, <1>2, <2>1 DEF Counts, C
<1> QED BY <1>3, <1>4, <1>5 DEF Counts

(* A sequence and its image, of what r asks for and s answers.             *)
Numbers(r, s, nl, np, last, A, B, X, Y) ==
  /\ r.loopSequence = A % W /\ r.positionSequence = B % W
  /\ s.loopSequence = X % W /\ s.positionSequence = Y % W
  /\ Counts(A, B, X, Y, nl, np)
  /\ last = "loop" => B < A
  /\ last = "position" => A < B

Numbered(r, s, nl, np, last) ==
  \E A, B, X, Y \in Int : Numbers(r, s, nl, np, last, A, B, X, Y)

(* After setLoop() ...                                                     *)
LEMMA LoopIsNumbered ==
  ASSUME NEW r, NEW s, NEW nl \in Nat, NEW np \in Nat, NEW last, NEW t,
         Numbered(r, s, nl, np, last), nl + np < MaxUnread,
         t.loopSequence = incrementSequence(r.loopSequence, r.positionSequence),
         t.positionSequence = r.positionSequence
  PROVE  Numbered(t, s, nl + 1, np, "loop")
<1>1. PICK A \in Int, B \in Int, X \in Int, Y \in Int :
        Numbers(r, s, nl, np, last, A, B, X, Y)
  BY DEF Numbered
<1> DEFINE C == Incremented(A, B)
<1>2. C \in Int /\ t.loopSequence = C % W
  BY <1>1, IncrementedIs DEF Numbers, Counts
<1>3. Counts(C, B, X, Y, nl + 1, np) /\ B < C
  BY <1>1, CallCounts DEF Numbers
<1> HIDE DEF C
<1>4. Numbers(t, s, nl + 1, np, "loop", C, B, X, Y)
  BY <1>1, <1>2, <1>3 DEF Numbers
<1> QED BY <1>2, <1>4 DEF Numbered

(* ... and after setBufferPosition().                                      *)
LEMMA PositionIsNumbered ==
  ASSUME NEW r, NEW s, NEW nl \in Nat, NEW np \in Nat, NEW last, NEW t,
         Numbered(r, s, nl, np, last), nl + np < MaxUnread,
         t.positionSequence = incrementSequence(r.positionSequence, r.loopSequence),
         t.loopSequence = r.loopSequence
  PROVE  Numbered(t, s, nl, np + 1, "position")
<1>1. PICK A \in Int, B \in Int, X \in Int, Y \in Int :
        Numbers(r, s, nl, np, last, A, B, X, Y)
  BY DEF Numbered
<1> DEFINE C == Incremented(B, A)
<1>2. Counts(B, A, Y, X, np, nl) /\ np + nl < MaxUnread
  BY <1>1, CountsAreSymmetric DEF Numbers
<1>3. C \in Int /\ t.positionSequence = C % W
  BY <1>1, <1>2, IncrementedIs DEF Numbers, Counts
<1>4. Counts(C, A, Y, X, np + 1, nl) /\ A < C
  BY <1>2, CallCounts
<1> HIDE DEF C
<1>5. Counts(A, C, X, Y, nl, np + 1)
  BY <1>3, <1>4, CountsAreSymmetric, SMTT(60)
<1>6. Numbers(t, s, nl, np + 1, "position", A, C, X, Y)
  BY <1>1, <1>3, <1>4, <1>5, SMTT(60) DEF Numbers
<1> QED BY <1>3, <1>6 DEF Numbered

(* After a poll, and after a new server was asked once.                    *)
LEMMA ReadIsNumbered ==
  ASSUME NEW r, NEW s, NEW nl, NEW np, NEW last, NEW t,
         Numbered(r, s, nl, np, last),
         t.loopSequence = r.loopSequence, t.positionSequence = r.positionSequence
  PROVE  Numbered(r, t, 0, 0, last)
<1>1. PICK A \in Int, B \in Int, X \in Int, Y \in Int :
        Numbers(r, s, nl, np, last, A, B, X, Y)
  BY DEF Numbered
<1>2. Counts(A, B, A, B, 0, 0)
  BY <1>1 DEF Numbers, Counts, Onward
<1>3. Numbers(r, t, 0, 0, last, A, B, A, B)
  BY <1>1, <1>2 DEF Numbers
<1> QED BY <1>3 DEF Numbered

LEMMA NewIsNumbered ==
  ASSUME NEW r
  PROVE  /\ r.loopSequence = 1 /\ r.positionSequence = 0 =>
              Numbered(r, Start, 1, 0, "loop")
         /\ r.loopSequence = 0 /\ r.positionSequence = 1 =>
              Numbered(r, Start, 0, 1, "position")
         /\ Numbered(Start, Start, 0, 0, "none")
<1>1. H \in Nat /\ H > 0 /\ W = 2 * H + 2
  BY WidthIs
<1>2. /\ 0 % W = 0 /\ 1 % W = 1
      /\ Start.loopSequence = 0 /\ Start.positionSequence = 0
  BY <1>1, Image DEF Start
<1>3. /\ Counts(1, 0, 0, 0, 1, 0) /\ Counts(0, 1, 0, 0, 0, 1)
      /\ Counts(0, 0, 0, 0, 0, 0)
  BY <1>1 DEF Counts, Onward, Reach
<1>4. ASSUME r.loopSequence = 1, r.positionSequence = 0
      PROVE  Numbered(r, Start, 1, 0, "loop")
  <2>1. Numbers(r, Start, 1, 0, "loop", 1, 0, 0, 0)
    BY <1>2, <1>3, <1>4 DEF Numbers
  <2> QED BY <2>1 DEF Numbered
<1>5. ASSUME r.loopSequence = 0, r.positionSequence = 1
      PROVE  Numbered(r, Start, 0, 1, "position")
  <2>1. Numbers(r, Start, 0, 1, "position", 0, 1, 0, 0)
    BY <1>2, <1>3, <1>5 DEF Numbers
  <2> QED BY <2>1 DEF Numbered
<1>6. Numbered(Start, Start, 0, 0, "none")
  <2>1. Numbers(Start, Start, 0, 0, "none", 0, 0, 0, 0)
    BY <1>2, <1>3 DEF Numbers
  <2> QED BY <2>1 DEF Numbered
<1> QED BY <1>4, <1>5, <1>6

(* The server sees which calls were made, and which was the last.          *)
LoopFirst(u) == (u.loopSequence - u.positionSequence) % W >= W \div 2

LEMMA NumbersTell ==
  ASSUME NEW r, NEW s, NEW nl \in Nat, NEW np \in Nat, NEW last,
         Numbered(r, s, nl, np, last), nl + np <= MaxUnread
  PROVE  /\ LoopChanges(s, r) <=> nl > 0
         /\ PositionChanges(s, r) <=> np > 0
         /\ last = "loop" => ~LoopFirst(r)
         /\ last = "position" => LoopFirst(r)
<1>1. PICK A \in Int, B \in Int, X \in Int, Y \in Int :
        Numbers(r, s, nl, np, last, A, B, X, Y)
  BY DEF Numbered
<1>2. Counts(B, A, Y, X, np, nl) /\ np + nl <= MaxUnread
  BY <1>1, CountsAreSymmetric DEF Numbers
<1>3. A % W # X % W <=> nl > 0
  BY <1>1, CountsTell DEF Numbers
<1>4. B % W # Y % W <=> np > 0
  BY <1>2, CountsTell
<1> DEFINE d == A - B
<1>5. /\ H \in Nat /\ W \in Nat /\ W = 2 * H + 2 /\ W \div 2 = H + 1
      /\ d \in Int /\ -H <= d /\ d <= H
  BY <1>1, WidthIs DEF Numbers, Counts
<1>6. (r.loopSequence - r.positionSequence) % W = d % W
  BY <1>1, ImageOfSum DEF Numbers
<1>7. /\ last = "loop" => d > 0
      /\ last = "position" => d < 0
  BY <1>1 DEF Numbers
<1> HIDE DEF d
<1>8. /\ d > 0 => d % W = d
      /\ d < 0 => d % W = d + W
  <2>1. d < W /\ d >= -W
    BY <1>5
  <2> QED BY <1>5, <2>1, Image
<1>9. /\ d > 0 => ~(d % W >= W \div 2)
      /\ d < 0 => d % W >= W \div 2
  BY <1>5, <1>8
<1> QED BY <1>1, <1>3, <1>4, <1>6, <1>7, <1>9
        DEF Numbers, LoopChanges, PositionChanges, LoopFirst
-----------------------------------------------------------------------------
(* What the server makes of a request *)

Looped(s, u) ==
  [loop |-> u.loop, loopSequence |-> u.loopSequence,
   position |-> Wrapped(u.loop, s.position),
   positionSequence |-> s.positionSequence]

LEMMA LoopsTo ==
  ASSUME NEW s \in State, NEW u \in State, LoopChanges(s, u)
  PROVE  updateStateWithLoop(s, u) = Looped(s, u)
BY DEF updateStateWithLoop, Looped, State

LEMMA UpdatedIs ==
  ASSUME NEW s \in State, NEW u \in State
  PROVE  /\ LoopChanges(s, u) /\ ~LoopFirst(u) =>
              Updated(s, u) = Looped(updateStateWithPosition(s, u), u)
         /\ PositionChanges(s, u) /\ LoopFirst(u) =>
              Updated(s, u) = Moved(updateStateWithLoop(s, u), u)
         /\ ~LoopChanges(s, u) => Updated(s, u) = updateStateWithPosition(s, u)
         /\ ~PositionChanges(s, u) => Updated(s, u) = updateStateWithLoop(s, u)
<1> DEFINE p == updateStateWithPosition(s, u)
           l == updateStateWithLoop(s, u)
<1>1. p \in State /\ l \in State
  BY PositionStays, LoopStays
<1>2. p.loopSequence = s.loopSequence
  <2>1. CASE PositionChanges(s, u)
    BY <2>1, MovesTo DEF Moved
  <2>2. CASE ~PositionChanges(s, u)
    BY <2>2 DEF updateStateWithPosition
  <2> QED BY <2>1, <2>2
<1>3. l.positionSequence = s.positionSequence
  <2>1. CASE LoopChanges(s, u)
    BY <2>1, LoopsTo DEF Looped
  <2>2. CASE ~LoopChanges(s, u)
    BY <2>2 DEF updateStateWithLoop
  <2> QED BY <2>1, <2>2
<1>4. /\ ~PositionChanges(s, u) => p = s
      /\ ~LoopChanges(s, u) => l = s
  BY DEF updateStateWithPosition, updateStateWithLoop
<1>5. Updated(s, u) = IF LoopFirst(u) THEN updateStateWithPosition(l, u)
                                      ELSE updateStateWithLoop(p, u)
  BY DEF Updated, LoopFirst
<1> HIDE DEF p, l
<1>6. /\ LoopChanges(p, u) <=> LoopChanges(s, u)
      /\ PositionChanges(l, u) <=> PositionChanges(s, u)
  BY <1>2, <1>3 DEF LoopChanges, PositionChanges
<1>7. /\ LoopChanges(s, u) => updateStateWithLoop(p, u) = Looped(p, u)
      /\ PositionChanges(s, u) => updateStateWithPosition(l, u) = Moved(l, u)
  BY <1>1, <1>6, LoopsTo, MovesTo
<1>8. /\ ~LoopChanges(s, u) => updateStateWithLoop(p, u) = p
      /\ ~PositionChanges(s, u) => updateStateWithPosition(l, u) = l
  BY <1>6 DEF updateStateWithLoop, updateStateWithPosition
<1> QED BY <1>4, <1>5, <1>7, <1>8 DEF p, l

(* What the client has its view from: where a state is, and whether it     *)
(* goes on in a loop.                                                      *)
LEMMA ViewIs ==
  ASSUME NEW s \in State, NEW u \in State
  PROVE  /\ ViewOf(Looped(s, u)) = [position |-> Wrapped(u.loop, s.position),
                                    loopCount |-> u.loop.count]
         /\ ViewOf(Moved(s, u)) =
              [position |-> u.position,
               loopCount |-> IF u.position >= s.loop.end THEN 0 ELSE s.loop.count]
BY DEF ViewOf, Looped, Moved

(* The loops of two states are the same but for the turns left.            *)
SameLoop(s, u) ==
  /\ s.loop.start = u.loop.start /\ s.loop.end = u.loop.end
  /\ s.loop.count # 0 => u.loop.count # 0

LEMMA UpdatedKeepsLoop ==
  ASSUME NEW s \in State, NEW u \in State
  PROVE  /\ LoopChanges(s, u) \/ SameLoop(s, u) => SameLoop(Updated(s, u), u)
         /\ Updated(s, u).loopSequence = u.loopSequence
         /\ Updated(s, u).positionSequence = u.positionSequence
<1> DEFINE p == updateStateWithPosition(s, u)
           l == updateStateWithLoop(s, u)
<1>1. /\ PositionChanges(s, u) => p = Moved(s, u)
      /\ ~PositionChanges(s, u) => p = s
      /\ LoopChanges(s, u) => l = Looped(s, u)
      /\ ~LoopChanges(s, u) => l = s
  BY MovesTo, LoopsTo DEF updateStateWithPosition, updateStateWithLoop
<1>2. ASSUME NEW a, SameLoop(a, u) PROVE SameLoop(Moved(a, u), u)
  BY <1>2 DEF SameLoop, Moved
<1>3. ASSUME NEW a PROVE SameLoop(Looped(a, u), u)
  BY DEF SameLoop, Looped
<1>4. /\ \A a : Moved(a, u).positionSequence = u.positionSequence
      /\ \A a : Moved(a, u).loopSequence = a.loopSequence
      /\ \A a : Looped(a, u).loopSequence = u.loopSequence
      /\ \A a : Looped(a, u).positionSequence = a.positionSequence
  BY DEF Moved, Looped
<1>5. /\ LoopChanges(s, u) <=> s.loopSequence # u.loopSequence
      /\ PositionChanges(s, u) <=> s.positionSequence # u.positionSequence
  BY DEF LoopChanges, PositionChanges
<1> HIDE DEF p, l
<1>6. /\ LoopChanges(s, u) /\ ~LoopFirst(u) => Updated(s, u) = Looped(p, u)
      /\ PositionChanges(s, u) /\ LoopFirst(u) => Updated(s, u) = Moved(l, u)
      /\ ~LoopChanges(s, u) => Updated(s, u) = p
      /\ ~PositionChanges(s, u) => Updated(s, u) = l
  BY UpdatedIs DEF p, l
<1>7. CASE LoopChanges(s, u) /\ PositionChanges(s, u) /\ ~LoopFirst(u)
  BY <1>1, <1>3, <1>4, <1>6, <1>7
<1>8. CASE LoopChanges(s, u) /\ PositionChanges(s, u) /\ LoopFirst(u)
  BY <1>1, <1>2, <1>3, <1>4, <1>6, <1>8
<1>9. CASE ~LoopChanges(s, u)
  BY <1>1, <1>2, <1>4, <1>5, <1>6, <1>9
<1>10. CASE ~PositionChanges(s, u)
  BY <1>1, <1>3, <1>4, <1>5, <1>6, <1>10
<1> QED BY <1>7, <1>8, <1>9, <1>10

(* A request the server read changes nothing.                              *)
LEMMA UpdatedOnce ==
  ASSUME NEW s \in State, NEW u \in State,
         ~LoopChanges(s, u), ~PositionChanges(s, u)
  PROVE  Updated(s, u) = s
BY UpdatedIs DEF updateStateWithLoop

(* The view after setLoop() if it was the last call ...                    *)
LEMMA ViewAfterLoop ==
  ASSUME NEW s \in State, NEW r \in State, NEW u \in State, NEW v,
         v = ViewOf(updateStateWithPosition(s, r)),
         u.position = r.position, u.positionSequence = r.positionSequence,
         LoopChanges(s, u), ~LoopFirst(u)
  PROVE  ViewOf(Updated(s, u)) = [position |-> Wrapped(u.loop, v.position),
                                  loopCount |-> u.loop.count]
<1> DEFINE p == updateStateWithPosition(s, r)
<1>1. updateStateWithPosition(s, u) = p
  BY DEF updateStateWithPosition, PositionChanges
<1>2. p \in State
  BY PositionStays
<1>3. v.position = p.position
  BY DEF ViewOf
<1> HIDE DEF p
<1>4. Updated(s, u) = Looped(p, u)
  BY <1>1, UpdatedIs
<1> QED BY <1>2, <1>3, <1>4, ViewIs

(* ... and after setBufferPosition().                                      *)
LEMMA ViewAfterPosition ==
  ASSUME NEW s \in State, NEW r \in State, NEW u \in State, NEW v,
         v = ViewOf(updateStateWithLoop(s, r)),
         u.loop = r.loop, u.loopSequence = r.loopSequence,
         LoopChanges(s, r) \/ SameLoop(s, r),
         PositionChanges(s, u), LoopFirst(u)
  PROVE  ViewOf(Updated(s, u)) =
           [position |-> u.position,
            loopCount |-> IF u.position >= u.loop.end THEN 0 ELSE v.loopCount]
<1> DEFINE l == updateStateWithLoop(s, r)
<1>1. updateStateWithLoop(s, u) = l
  BY DEF updateStateWithLoop, LoopChanges
<1>2. l \in State
  BY LoopStays
<1>3. v.loopCount = l.loop.count
  BY DEF ViewOf
<1>4. l.loop.end = r.loop.end
  <2>1. CASE LoopChanges(s, r)
    BY <2>1, LoopsTo DEF Looped
  <2>2. CASE ~LoopChanges(s, r)
    BY <2>2 DEF SameLoop, updateStateWithLoop
  <2> QED BY <2>1, <2>2
<1> HIDE DEF l
<1>5. Updated(s, u) = Moved(l, u)
  BY <1>1, UpdatedIs
<1> QED BY <1>2, <1>3, <1>4, <1>5, ViewIs

(* Playing on changes neither the loop nor what was read.                  *)
LEMMA AdvancedKeepsLoop ==
  ASSUME NEW s \in State, NEW n \in Nat
  PROVE  /\ SameLoop(Advanced(s, n), s)
         /\ Advanced(s, n).loopSequence = s.loopSequence
         /\ Advanced(s, n).positionSequence = s.positionSequence
BY DEF Advanced, Turned, SameLoop, State, Loop
-----------------------------------------------------------------------------
(* The illusion is kept, and the last call wins *)

Sequences == Numbered(request, mState, unreadLoops, unreadPositions, lastCall)

(* What is pending is what was not read, and the last call is among it.    *)
Calls ==
  /\ ack = "PENDING" <=> unreadLoops + unreadPositions > 0
  /\ unreadLoops + unreadPositions <= MaxUnread
  /\ ack = "PENDING" => \/ lastCall = "loop" /\ unreadLoops > 0
                        \/ lastCall = "position" /\ unreadPositions > 0

(* The server told where it is before it said that it is done.             *)
Told ==
  /\ spc # "push" => posLoop = ViewOf(mState)
  /\ spc = "push" => ack # "DONE"

(* The server accepts what is asked for, and has the client's loop if it   *)
(* read all that the client said of it.                                    *)
Asked ==
  /\ ~mIsShutdown /\ Valid(request.loop)
  /\ view.loopCount # 0 => request.loop.count # 0
  /\ unreadLoops = 0 => SameLoop(mState, request)

(* Where the client believes it is is where the server will be.            *)
Exact ==
  exact /\ unreadLoops <= 1 /\ unreadPositions <= 1 =>
    view = ViewOf(Updated(mState, request))

IInv == TypeOK /\ Sequences /\ Calls /\ Told /\ Asked /\ Exact

(* With nothing pending, the server's word is what the client asked for.   *)
LEMMA Quiet ==
  ASSUME IInv, unreadLoops = 0, unreadPositions = 0
  PROVE  Updated(mState, request) = mState
<1>1. ~LoopChanges(mState, request) /\ ~PositionChanges(mState, request)
  BY NumbersTell DEF IInv, TypeOK, Sequences, Calls
<1> QED BY <1>1, UpdatedOnce DEF IInv, TypeOK

LEMMA NewsIs ==
  ASSUME IInv, ack = "DONE"
  PROVE  /\ unreadLoops = 0 /\ unreadPositions = 0
         /\ posLoop = ViewOf(mState) /\ spc # "push"
         /\ posLoop.loopCount # 0 => request.loop.count # 0
<1>1. unreadLoops = 0 /\ unreadPositions = 0
  BY DEF IInv, TypeOK, Calls
<1>2. posLoop = ViewOf(mState) /\ spc # "push"
  BY DEF IInv, Told
<1> QED BY <1>1, <1>2 DEF IInv, Asked, SameLoop, ViewOf

LEMMA IllusionFollows ==
  ASSUME IInv
  PROVE  IllusionIsKept
<1>1. CASE ack = "DONE"
  <2>1. /\ unreadLoops = 0 /\ unreadPositions = 0 /\ posLoop = ViewOf(mState)
    BY <1>1, NewsIs
  <2>2. exact => view = posLoop
    BY <2>1, Quiet DEF IInv, Exact
  <2> QED BY <2>1, <2>2 DEF IllusionIsKept, IInv, Asked
<1> QED BY <1>1 DEF IllusionIsKept, IInv, Asked

(* What the client sees when it calls: the last word, or where it believes *)
(* it is.                                                                  *)
LEMMA ObservedIs ==
  ASSUME IInv, NEW hit \in BOOLEAN, hit => News
  PROVE  /\ Observed(hit).loopCount # 0 => request.loop.count # 0
         /\ hit => unreadLoops = 0 /\ unreadPositions = 0
         /\ exact \/ hit =>
              /\ unreadLoops = 0 /\ unreadPositions <= 1 =>
                   Observed(hit) = ViewOf(updateStateWithPosition(mState, request))
              /\ unreadPositions = 0 /\ unreadLoops <= 1 =>
                   Observed(hit) = ViewOf(updateStateWithLoop(mState, request))
<1>1. /\ LoopChanges(mState, request) <=> unreadLoops > 0
      /\ PositionChanges(mState, request) <=> unreadPositions > 0
      /\ unreadLoops \in Nat /\ unreadPositions \in Nat
  BY NumbersTell DEF IInv, TypeOK, Sequences, Calls
<1>2. mState \in State /\ request \in State
  BY DEF IInv, TypeOK
<1>3. /\ unreadLoops = 0 =>
           Updated(mState, request) = updateStateWithPosition(mState, request)
      /\ unreadPositions = 0 =>
           Updated(mState, request) = updateStateWithLoop(mState, request)
  BY <1>1, <1>2, UpdatedIs
<1>4. CASE hit
  <2>1. /\ unreadLoops = 0 /\ unreadPositions = 0 /\ posLoop = ViewOf(mState)
        /\ posLoop.loopCount # 0 => request.loop.count # 0
    BY <1>4, NewsIs DEF News
  <2>2. Observed(hit) = posLoop
    BY <1>4 DEF Observed
  <2> QED BY <1>3, <2>1, <2>2, Quiet
<1>5. CASE ~hit
  <2>1. Observed(hit) = view
    BY <1>5 DEF Observed
  <2>2. view.loopCount # 0 => request.loop.count # 0
    BY DEF IInv, Asked
  <2>3. exact /\ unreadLoops <= 1 /\ unreadPositions <= 1 =>
          view = ViewOf(Updated(mState, request))
    BY DEF IInv, Exact
  <2> QED BY <1>1, <1>3, <1>5, <2>1, <2>2, <2>3
<1> QED BY <1>4, <1>5

LEMMA SetLoopKeeps ==
  ASSUME IInv, TypeOK', NEW l \in Loop, Valid(l), NEW hit \in BOOLEAN,
         SetLoop(l, hit)
  PROVE  IInv'
<1> DEFINE v == Observed(hit)
           seq == incrementSequence(request.loopSequence, request.positionSequence)
<1>1. /\ unreadLoops \in Nat /\ unreadPositions \in Nat /\ request \in State
      /\ unreadLoops + unreadPositions < MaxUnread /\ mState \in State
      /\ request' \in State
  BY DEF IInv, TypeOK, SetLoop, Unread
<1>2. /\ request' = [request EXCEPT !.loop = l, !.loopSequence = seq]
      /\ (hit => News) /\ exact' = (exact \/ hit)
      /\ view' = [position |-> Wrapped(l, v.position), loopCount |-> l.count]
      /\ ack' = "PENDING" /\ lastCall' = "loop" /\ unreadLoops' = unreadLoops + 1
      /\ UNCHANGED <<posLoop, spc, mState, mIsShutdown, unreadPositions>>
  BY DEF SetLoop, Observe, serverVars
<1>3. /\ request'.loop = l /\ request'.loopSequence = seq
      /\ request'.position = request.position
      /\ request'.positionSequence = request.positionSequence
  BY <1>1, <1>2 DEF State
<1>4. Sequences'
  <2>1. Numbered(request', mState, unreadLoops + 1, unreadPositions, "loop")
    BY <1>1, <1>3, LoopIsNumbered DEF IInv, Sequences
  <2> QED BY <1>2, <2>1 DEF Sequences
<1>5. Calls'
  BY <1>1, <1>2, SizeAssumption DEF Calls
<1>6. Told'
  BY <1>2 DEF Told, IInv
<1>7. Asked'
  BY <1>1, <1>2, <1>3 DEF Asked, IInv
<1>8. Exact'
  <2>1. SUFFICES ASSUME exact \/ hit, unreadLoops = 0, unreadPositions <= 1
                 PROVE  view' = ViewOf(Updated(mState, request'))
    BY <1>1, <1>2 DEF Exact
  <2>2. v = ViewOf(updateStateWithPosition(mState, request))
    BY <1>2, <2>1, ObservedIs
  <2>3. LoopChanges(mState, request') /\ ~LoopFirst(request')
    <3>1. Numbered(request', mState, unreadLoops', unreadPositions', "loop")
      BY <1>2, <1>4 DEF Sequences
    <3>2. /\ unreadLoops' \in Nat /\ unreadPositions' \in Nat /\ unreadLoops' > 0
          /\ unreadLoops' + unreadPositions' <= MaxUnread
      BY <1>1, <1>2, SizeAssumption
    <3> QED BY <3>1, <3>2, NumbersTell
  <2> HIDE DEF v
  <2>4. ViewOf(Updated(mState, request')) =
          [position |-> Wrapped(l, v.position), loopCount |-> l.count]
    BY <1>1, <1>3, <2>2, <2>3, ViewAfterLoop
  <2> QED BY <1>2, <2>4
<1> QED BY <1>4, <1>5, <1>6, <1>7, <1>8 DEF IInv

LEMMA SetBufferPositionKeeps ==
  ASSUME IInv, TypeOK', NEW p \in Position, NEW hit \in BOOLEAN,
         SetBufferPosition(p, hit)
  PROVE  IInv'
<1> DEFINE v == Observed(hit)
           seq == incrementSequence(request.positionSequence, request.loopSequence)
<1>1. /\ unreadLoops \in Nat /\ unreadPositions \in Nat /\ request \in State
      /\ unreadLoops + unreadPositions < MaxUnread /\ mState \in State
      /\ request' \in State
  BY DEF IInv, TypeOK, SetBufferPosition, Unread
<1>2. /\ request' = [request EXCEPT !.position = p, !.positionSequence = seq]
      /\ (hit => News) /\ exact' = (exact \/ hit)
      /\ view' = [position |-> p,
                  loopCount |-> IF p >= request.loop.end THEN 0 ELSE v.loopCount]
      /\ ack' = "PENDING" /\ lastCall' = "position"
      /\ unreadPositions' = unreadPositions + 1
      /\ UNCHANGED <<posLoop, spc, mState, mIsShutdown, unreadLoops>>
  BY DEF SetBufferPosition, Observe, serverVars
<1>3. /\ request'.position = p /\ request'.positionSequence = seq
      /\ request'.loop = request.loop
      /\ request'.loopSequence = request.loopSequence
  BY <1>1, <1>2 DEF State
<1>4. Sequences'
  <2>1. Numbered(request', mState, unreadLoops, unreadPositions + 1, "position")
    BY <1>1, <1>3, PositionIsNumbered DEF IInv, Sequences
  <2> QED BY <1>2, <2>1 DEF Sequences
<1>5. Calls'
  BY <1>1, <1>2, SizeAssumption DEF Calls
<1>6. Told'
  BY <1>2 DEF Told, IInv
<1>7. Asked'
  <2>1. v.loopCount # 0 => request.loop.count # 0
    BY <1>2, ObservedIs
  <2>2. view'.loopCount # 0 => request'.loop.count # 0
    BY <1>2, <1>3, <2>1
  <2>3. SameLoop(mState, request) => SameLoop(mState, request')
    BY <1>3 DEF SameLoop
  <2> QED BY <1>2, <1>3, <2>2, <2>3 DEF Asked, IInv
<1>8. Exact'
  <2>1. SUFFICES ASSUME exact \/ hit, unreadPositions = 0, unreadLoops <= 1
                 PROVE  view' = ViewOf(Updated(mState, request'))
    BY <1>1, <1>2 DEF Exact
  <2>2. v = ViewOf(updateStateWithLoop(mState, request))
    BY <1>2, <2>1, ObservedIs
  <2>3. PositionChanges(mState, request') /\ LoopFirst(request')
    <3>1. Numbered(request', mState, unreadLoops', unreadPositions', "position")
      BY <1>2, <1>4 DEF Sequences
    <3>2. /\ unreadLoops' \in Nat /\ unreadPositions' \in Nat
          /\ unreadPositions' > 0
          /\ unreadLoops' + unreadPositions' <= MaxUnread
      BY <1>1, <1>2, SizeAssumption
    <3> QED BY <3>1, <3>2, NumbersTell
  <2>4. LoopChanges(mState, request) \/ SameLoop(mState, request)
    <3>1. LoopChanges(mState, request) <=> unreadLoops > 0
      BY NumbersTell DEF IInv, TypeOK, Sequences, Calls
    <3> QED BY <1>1, <3>1 DEF IInv, Asked
  <2> HIDE DEF v
  <2>5. ViewOf(Updated(mState, request')) =
          [position |-> request'.position,
           loopCount |-> IF request'.position >= request'.loop.end
                         THEN 0 ELSE v.loopCount]
    BY <1>1, <1>3, <2>2, <2>3, <2>4, ViewAfterPosition
  <2> QED BY <1>2, <1>3, <2>5
<1> QED BY <1>4, <1>5, <1>6, <1>7, <1>8 DEF IInv

LEMMA RestoreKeeps ==
  ASSUME IInv, TypeOK', NEW hit \in BOOLEAN, Restore(hit)
  PROVE  IInv'
<1> DEFINE v == Observed(hit)
           l == [request.loop EXCEPT !.count = v.loopCount]
<1>1. /\ request \in State /\ request' \in State /\ v \in View
      /\ v.loopCount # 0 => request.loop.count # 0
      /\ Valid(request.loop)
  <2>1. v \in View
    BY DEF Observed, IInv, TypeOK
  <2> QED BY <2>1, ObservedIs DEF IInv, TypeOK, Asked, Restore
<1>2. /\ mState' = Start /\ posLoop' = ViewOf(Start) /\ spc' = "idle"
      /\ ack' = "PENDING" /\ mIsShutdown' = FALSE
  BY DEF Restore
<1>3. Start \in State /\ Start.loop = NoLoop /\ Start.position = 0
      /\ Start.loopSequence = 0 /\ Start.positionSequence = 0
      /\ Start.loop.count = 0
  BY StartIs DEF Start, NoLoop
<1>4. MaxUnread \in Nat /\ MaxUnread > 0
  BY SizeAssumption
<1>5. Told'
  BY <1>2 DEF Told
<1>6. CASE v.loopCount # 0
  <2>1. /\ request' = [Start EXCEPT !.loop = l, !.loopSequence = 1]
        /\ view' = [position |-> 0, loopCount |-> v.loopCount]
        /\ lastCall' = "loop" /\ unreadLoops' = 1 /\ unreadPositions' = 0
    BY <1>6 DEF Restore
  <2>2. /\ l.start = request.loop.start /\ l.end = request.loop.end
        /\ l.count = v.loopCount /\ l.start < l.end
        /\ l.end - l.start >= MIN_LOOP /\ l.start >= 0
        /\ l.start \in Int /\ l.end \in Int
    BY <1>1, <1>6, SizeAssumption DEF State, Loop, Valid, Position
  <2> HIDE DEF v, l
  <2>3. /\ request'.loop = l /\ request'.loopSequence = 1
        /\ request'.positionSequence = 0 /\ request'.position = 0
    BY <1>3, <2>1 DEF Start
  <2>4. Sequences'
    <3>1. Numbered(request', Start, 1, 0, "loop")
      BY <2>3, NewIsNumbered
    <3> QED BY <1>2, <2>1, <3>1 DEF Sequences
  <2>5. Calls'
    BY <1>2, <1>4, <2>1 DEF Calls
  <2>6. Asked'
    BY <1>2, <1>6, <2>1, <2>2, <2>3 DEF Asked, Valid
  <2>7. Exact'
    <3>1. LoopChanges(Start, request') /\ ~PositionChanges(Start, request')
      BY <1>3, <2>3 DEF LoopChanges, PositionChanges
    <3>2. Updated(Start, request') = Looped(Start, request')
      BY <1>1, <1>3, <3>1, UpdatedIs, LoopsTo
    <3>3. Wrapped(l, 0) = 0
      BY <2>2 DEF Wrapped
    <3>4. ViewOf(Looped(Start, request')) =
            [position |-> Wrapped(request'.loop, Start.position),
             loopCount |-> request'.loop.count]
      BY <1>1, <1>3, ViewIs
    <3>5. ViewOf(Updated(Start, request')) =
            [position |-> Wrapped(l, 0), loopCount |-> l.count]
      BY <1>3, <2>3, <3>2, <3>4
    <3> QED BY <1>2, <2>1, <2>2, <3>3, <3>5 DEF Exact
  <2> QED BY <1>5, <2>4, <2>5, <2>6, <2>7 DEF IInv
<1>7. CASE v.loopCount = 0
  <2>1. /\ request' = [Start EXCEPT !.position = v.position, !.positionSequence = 1]
        /\ view' = v
        /\ lastCall' = "position" /\ unreadLoops' = 0 /\ unreadPositions' = 1
    BY <1>7 DEF Restore
  <2> HIDE DEF v, l
  <2>2. /\ request'.position = v.position /\ request'.positionSequence = 1
        /\ request'.loop = NoLoop /\ request'.loopSequence = 0
    BY <1>3, <2>1 DEF Start
  <2>3. Sequences'
    <3>1. Numbered(request', Start, 0, 1, "position")
      BY <2>2, NewIsNumbered
    <3> QED BY <1>2, <2>1, <3>1 DEF Sequences
  <2>4. Calls'
    BY <1>2, <1>4, <2>1 DEF Calls
  <2>5. Asked'
    BY <1>2, <1>3, <1>7, <2>1, <2>2 DEF Asked, Valid, SameLoop, NoLoop
  <2>6. Exact'
    <3>1. ~LoopChanges(Start, request') /\ PositionChanges(Start, request')
      BY <1>3, <2>2 DEF LoopChanges, PositionChanges
    <3>2. Updated(Start, request') = Moved(Start, request')
      BY <1>1, <1>3, <3>1, UpdatedIs, MovesTo
    <3>3. ViewOf(Updated(Start, request')) =
            [position |-> v.position, loopCount |-> 0]
      BY <1>1, <1>3, <2>2, <3>2, ViewIs
    <3>4. v = [position |-> v.position, loopCount |-> 0]
      BY <1>1, <1>7 DEF View
    <3> QED BY <1>2, <2>1, <3>3, <3>4 DEF Exact
  <2> QED BY <1>5, <2>3, <2>4, <2>5, <2>6 DEF IInv
<1> QED BY <1>6, <1>7

(* The server does not refuse what the client asks for.                    *)
LEMMA AskedIsAccepted ==
  ASSUME IInv
  PROVE  Accepted(mState, request)
<1>1. /\ mState \in State /\ request \in State /\ Valid(request.loop)
  BY DEF IInv, TypeOK, Asked
<1> QED BY <1>1, SizeAssumption DEF Accepted, State, Loop, Position

LEMMA PollPositionKeeps ==
  ASSUME IInv, TypeOK', NEW forBuffer \in BOOLEAN, PollPosition(forBuffer)
  PROVE  IInv'
<1>1. CASE /\ ack = "PENDING" /\ mState' = Updated(mState, request)
           /\ ack' = "READ" /\ spc' = "push"
           /\ exact' = (exact /\ unreadLoops <= 1 /\ unreadPositions <= 1)
           /\ unreadLoops' = 0 /\ unreadPositions' = 0
           /\ UNCHANGED <<mUnreleased, mIsShutdown>>
  <2>1. /\ UNCHANGED <<request, view, posLoop, lastCall>>
        /\ mState \in State /\ request \in State /\ mState' \in State
        /\ unreadLoops \in Nat
    BY DEF PollPosition, IInv, TypeOK
  <2>2. /\ mState'.loopSequence = request.loopSequence
        /\ mState'.positionSequence = request.positionSequence
        /\ LoopChanges(mState, request) \/ SameLoop(mState, request) =>
             SameLoop(mState', request)
    BY <1>1, <2>1, UpdatedKeepsLoop
  <2>3. Sequences'
    <3>1. Numbered(request, mState', 0, 0, lastCall)
      BY <2>2, ReadIsNumbered DEF IInv, Sequences
    <3> QED BY <1>1, <2>1, <3>1 DEF Sequences
  <2>4. Calls'
    BY <1>1, SizeAssumption DEF Calls
  <2>5. Told'
    BY <1>1 DEF Told
  <2>6. Asked'
    <3>1. LoopChanges(mState, request) \/ SameLoop(mState, request)
      <4>1. LoopChanges(mState, request) <=> unreadLoops > 0
        BY NumbersTell DEF IInv, TypeOK, Sequences, Calls
      <4> QED BY <2>1, <4>1 DEF IInv, Asked
    <3> QED BY <1>1, <2>1, <2>2, <3>1 DEF Asked, IInv
  <2>7. Exact'
    <3>1. ~LoopChanges(mState', request) /\ ~PositionChanges(mState', request)
      BY <2>2 DEF LoopChanges, PositionChanges
    <3>2. Updated(mState', request) = mState'
      BY <2>1, <3>1, UpdatedOnce
    <3> QED BY <1>1, <2>1, <3>2 DEF Exact, IInv
  <2> QED BY <2>3, <2>4, <2>5, <2>6, <2>7 DEF IInv
<1>2. CASE /\ spc = "idle" /\ spc' = "buffer"
           /\ UNCHANGED <<ack, mState, mFramesReady, mUnreleased, mIsShutdown,
                          unreadLoops, unreadPositions, exact>>
  <2>1. UNCHANGED <<request, view, posLoop, lastCall>>
    BY DEF PollPosition
  <2>2. Sequences' /\ Calls' /\ Asked' /\ Exact'
    BY <1>2, <2>1 DEF IInv, Sequences, Calls, Asked, Exact
  <2>3. Told'
    BY <1>2, <2>1 DEF IInv, Told
  <2> QED BY <2>2, <2>3 DEF IInv
<1> QED BY <1>1, <1>2, AskedIsAccepted DEF PollPosition

LEMMA ReleaseBufferKeeps ==
  ASSUME IInv, TypeOK', NEW n \in 1 .. mFrameCount, ReleaseBuffer(n)
  PROVE  IInv'
<1>1. /\ mState' = Advanced(mState, n) /\ posLoop' = ViewOf(mState')
      /\ exact' = FALSE /\ spc' = "idle" /\ n \in Nat /\ mState \in State
      /\ UNCHANGED <<request, view, ack, mIsShutdown, lastCall, unreadLoops,
                     unreadPositions>>
  BY SizeAssumption DEF ReleaseBuffer, IInv, TypeOK
<1>2. /\ SameLoop(mState', mState)
      /\ mState'.loopSequence = mState.loopSequence
      /\ mState'.positionSequence = mState.positionSequence
  BY <1>1, AdvancedKeepsLoop
<1>3. Sequences'
  <2>1. PICK A \in Int, B \in Int, X \in Int, Y \in Int :
          Numbers(request, mState, unreadLoops, unreadPositions, lastCall,
                  A, B, X, Y)
    BY DEF IInv, Sequences, Numbered
  <2>2. Numbers(request, mState', unreadLoops, unreadPositions, lastCall,
                A, B, X, Y)
    BY <1>2, <2>1 DEF Numbers
  <2>3. Numbered(request, mState', unreadLoops, unreadPositions, lastCall)
    BY <2>2 DEF Numbered
  <2> QED BY <1>1, <2>3 DEF Sequences
<1>4. Calls' /\ Told' /\ Exact'
  BY <1>1 DEF Calls, Told, Exact, IInv
<1>5. Asked'
  BY <1>1, <1>2 DEF Asked, IInv, SameLoop
<1> QED BY <1>3, <1>4, <1>5 DEF IInv

LEMMA StepKeepsIInv ==
  ASSUME IInv, [Next]_vars
  PROVE  IInv'
<1>1. TypeOK'
  BY StepKeepsTypes DEF IInv
<1>2. ASSUME UNCHANGED <<request, mState, unreadLoops, unreadPositions, lastCall,
                         ack, mIsShutdown, view, exact>>, Told'
      PROVE  IInv'
  BY <1>1, <1>2 DEF IInv, Sequences, Calls, Asked, Exact
<1>3. CASE Get
  <2>1. /\ view' = posLoop /\ ack = "DONE"
        /\ UNCHANGED <<request, mState, unreadLoops, unreadPositions, lastCall,
                       ack, mIsShutdown, spc, posLoop>>
    BY <1>3 DEF Get, Observed, News, serverVars
  <2>2. /\ unreadLoops = 0 /\ unreadPositions = 0 /\ posLoop = ViewOf(mState)
        /\ posLoop.loopCount # 0 => request.loop.count # 0
        /\ Updated(mState, request) = mState
    BY <2>1, NewsIs, Quiet
  <2>3. Sequences' /\ Calls' /\ Told'
    BY <2>1 DEF IInv, Sequences, Calls, Told
  <2>4. Asked' /\ Exact'
    BY <2>1, <2>2 DEF IInv, Asked, Exact
  <2> QED BY <1>1, <2>3, <2>4 DEF IInv
<1>4. ASSUME NEW hit \in BOOLEAN, NEW l \in Loops, SetLoopOnly(l, hit)
      PROVE  IInv'
  BY <1>1, <1>4, SetLoopKeeps, LoopsAssumption DEF SetLoopOnly
<1>5. ASSUME NEW hit \in BOOLEAN, Stop(hit)
      PROVE  IInv'
  <2>1. NoLoop \in Loop /\ Valid(NoLoop)
    BY StartIs DEF Valid, NoLoop
  <2> QED BY <1>1, <1>5, <2>1, SetLoopKeeps DEF Stop
<1>6. CASE PushPosLoop
  <2>1. Told'
    BY <1>6 DEF PushPosLoop, Told
  <2> QED BY <1>2, <1>6, <2>1 DEF PushPosLoop
<1>7. CASE PollDone
  <2>1. /\ UNCHANGED <<request, mState, unreadLoops, unreadPositions, lastCall,
                       mIsShutdown, view, exact, posLoop>>
        /\ ack' = "PENDING" <=> ack = "PENDING"
        /\ spc = "done" /\ spc' # "push"
    BY <1>7 DEF PollDone, Done
  <2>2. Sequences' /\ Calls' /\ Told' /\ Asked' /\ Exact'
    BY <2>1 DEF IInv, Sequences, Calls, Told, Asked, Exact
  <2> QED BY <1>1, <2>2 DEF IInv
<1>8. CASE ObtainBuffer
  <2>1. Told'
    BY <1>8 DEF ObtainBuffer, Told, IInv
  <2> QED BY <1>2, <1>8, <2>1 DEF ObtainBuffer
<1>9. CASE UNCHANGED vars
  <2>1. Told'
    BY <1>9 DEF vars, serverVars, Told, IInv
  <2> QED BY <1>2, <1>9, <2>1 DEF vars, serverVars
<1> QED BY <1>1, <1>3, <1>4, <1>5, <1>6, <1>7, <1>8, <1>9, SetBufferPositionKeeps,
           RestoreKeeps, PollPositionKeeps, ReleaseBufferKeeps
        DEF Next, Client, Server

LEMMA InitIInv == Init => IInv
<1>1. SUFFICES ASSUME Init PROVE IInv
  OBVIOUS
<1>2. TypeOK
  BY <1>1, InitTypes
<1>3. /\ request = Start /\ mState = Start /\ view = ViewOf(Start)
      /\ posLoop = ViewOf(Start) /\ spc = "idle" /\ ack = "READ"
      /\ unreadLoops = 0 /\ unreadPositions = 0 /\ lastCall = "none"
      /\ ~mIsShutdown
  BY <1>1 DEF Init
<1>4. Sequences
  BY <1>3, NewIsNumbered DEF Sequences
<1>5. Calls /\ Told
  BY <1>3, SizeAssumption DEF Calls, Told
<1>6. Asked
  BY <1>3 DEF Asked, Valid, SameLoop, Start, NoLoop, ViewOf
<1>7. Exact
  <2>1. ~LoopChanges(Start, Start) /\ ~PositionChanges(Start, Start)
    BY DEF LoopChanges, PositionChanges
  <2>2. Updated(Start, Start) = Start
    BY <2>1, StartIs, UpdatedOnce
  <2> QED BY <1>3, <2>2 DEF Exact
<1> QED BY <1>2, <1>4, <1>5, <1>6, <1>7 DEF IInv

(* The server never refuses what the client asks for; once it acted upon   *)
(* the last request, what the client's getters return is where it is, in   *)
(* every behaviour, however many calls a poll finds and however the        *)
(* sequences wrap, across restarts of the server.                          *)
THEOREM IllusionIsAlwaysKept == Spec => []IllusionIsKept
<1>1. Init => IInv
  BY InitIInv
<1>2. IInv /\ [Next]_vars => IInv'
  BY StepKeepsIInv
<1>3. IInv => IllusionIsKept
  BY IllusionFollows
<1> QED BY <1>1, <1>2, <1>3, PTL DEF Spec

(* Where the server ends when it reads the calls.                          *)
LEMMA ReadsTheLast ==
  ASSUME IInv, ack = "PENDING", NEW s, s = Updated(mState, request)
  PROVE  /\ unreadLoops > 0 => <<s.loop.start, s.loop.end>>
                                 = <<request.loop.start, request.loop.end>>
         /\ lastCall = "loop" =>
              /\ s.loop = request.loop
              /\ request.loop.count # 0 => s.position < request.loop.end
              /\ unreadPositions > 0 =>
                   s.position = Wrapped(request.loop, request.position)
         /\ lastCall = "position" => s.position = request.position
<1>1. /\ mState \in State /\ request \in State /\ Valid(request.loop)
      /\ lastCall = "loop" => unreadLoops > 0
      /\ lastCall = "position" => unreadPositions > 0
  BY DEF IInv, TypeOK, Asked, Calls
<1>2. /\ LoopChanges(mState, request) <=> unreadLoops > 0
      /\ PositionChanges(mState, request) <=> unreadPositions > 0
      /\ lastCall = "loop" => ~LoopFirst(request)
      /\ lastCall = "position" => LoopFirst(request)
  BY NumbersTell DEF IInv, TypeOK, Sequences, Calls
<1>3. ASSUME unreadLoops > 0
      PROVE  <<s.loop.start, s.loop.end>>
               = <<request.loop.start, request.loop.end>>
  <2>1. SameLoop(s, request)
    BY <1>1, <1>2, <1>3, UpdatedKeepsLoop
  <2> QED BY <2>1 DEF SameLoop
<1>4. ASSUME lastCall = "loop"
      PROVE  /\ s.loop = request.loop
             /\ request.loop.count # 0 => s.position < request.loop.end
             /\ unreadPositions > 0 =>
                  s.position = Wrapped(request.loop, request.position)
  <2> DEFINE p == updateStateWithPosition(mState, request)
  <2>1. s = Looped(p, request)
    BY <1>1, <1>2, <1>4, UpdatedIs
  <2>2. p \in State
    BY <1>1, PositionStays
  <2>3. unreadPositions > 0 => p.position = request.position
    BY <1>1, <1>2, MovesTo DEF Moved
  <2> HIDE DEF p
  <2>4. s.loop = request.loop /\ s.position = Wrapped(request.loop, p.position)
    BY <2>1 DEF Looped
  <2>5. request.loop.count # 0 => Wrapped(request.loop, p.position) < request.loop.end
    BY <1>1, <2>2 DEF Wrapped, Valid, State, Loop, Position
  <2> QED BY <2>3, <2>4, <2>5
<1>5. ASSUME lastCall = "position"
      PROVE  s.position = request.position
  <2>1. s = Moved(updateStateWithLoop(mState, request), request)
    BY <1>1, <1>2, <1>5, UpdatedIs
  <2> QED BY <2>1 DEF Moved
<1> QED BY <1>3, <1>4, <1>5

(* Only pollPosition() reads a request.                                    *)
LEMMA ReadsOnlyPolling ==
  ASSUME IInv, [Next]_vars, ack = "PENDING", ack' = "READ"
  PROVE  mState' = Updated(mState, request) /\ UNCHANGED <<request, lastCall>>
<1>1. ~Get /\ ~PushPosLoop /\ ~PollDone /\ ~ObtainBuffer /\ ~UNCHANGED vars
  BY DEF Get, PushPosLoop, PollDone, Done, ObtainBuffer, vars
<1>2. \A hit \in BOOLEAN :
        /\ \A l \in Loops : ~SetLoopOnly(l, hit)
        /\ \A p \in Position : ~SetBufferPosition(p, hit)
        /\ ~Stop(hit) /\ ~Restore(hit)
  BY DEF SetLoopOnly, SetLoop, SetBufferPosition, Stop, Restore
<1>3. \A n \in 1 .. mFrameCount : ~ReleaseBuffer(n)
  BY DEF ReleaseBuffer
<1>4. PICK forBuffer \in BOOLEAN : PollPosition(forBuffer)
  BY <1>1, <1>2, <1>3 DEF Next, Client, Server
<1> QED BY <1>4 DEF PollPosition

(* However many calls one poll finds and whatever their sequences wrapped  *)
(* to, in every behaviour the server acts upon each kind and ends where    *)
(* the last call of all says.                                              *)
THEOREM LastCallAlwaysWins == Spec => LastCallWins
<1>1. Init => IInv
  BY InitIInv
<1>2. IInv /\ [Next]_vars => IInv'
  BY StepKeepsIInv
<1> DEFINE Acts ==
  ack = "PENDING" /\ ack' = "READ" =>
    /\ unreadLoops > 0 => <<mState'.loop.start, mState'.loop.end>>
                            = <<request.loop.start, request.loop.end>>
    /\ lastCall = "loop" =>
         /\ mState'.loop = request.loop
         /\ request.loop.count # 0 => mState'.position < request.loop.end
         /\ unreadPositions > 0 =>
              mState'.position = Wrapped(request.loop, request.position)
    /\ lastCall = "position" => mState'.position = request.position
<1>3. IInv /\ [Next]_vars => [Acts]_vars
  <2>1. SUFFICES ASSUME IInv, [Next]_vars, ack = "PENDING", ack' = "READ"
                 PROVE  Acts
    OBVIOUS
  <2>2. mState' = Updated(mState, request)
    BY <2>1, ReadsOnlyPolling
  <2> QED BY <2>1, <2>2, ReadsTheLast
<1>4. LastCallWins <=> [][Acts]_vars
  BY DEF LastCallWins
<1> HIDE DEF Acts
<1> QED BY <1>1, <1>2, <1>3, <1>4, PTL DEF Spec
=============================================================================
