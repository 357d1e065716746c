---------------------------- MODULE StaticTrack -----------------------------
(***************************************************************************)
(* Playback from a static buffer: StaticAudioTrackClientProxy and          *)
(* StaticAudioTrackServerProxy (media/libmedia/AudioTrackShared.cpp).      *)
(*                                                                         *)
(* The client asks for loops and positions through one single state queue, *)
(* and the server tells it where it is through another.  Each queue is the *)
(* cell that SingleStateQueue implements: push() stores a value, poll()    *)
(* loads the latest or, while the other side pushes, nothing.  What the    *)
(* first queue holds is always the client's mState, called request here.   *)
(***************************************************************************)
EXTENDS Integers

CONSTANTS
  mFrameCount, MIN_LOOP,
  W,             \* the two sequences in mState wrap here, 2^32 in the code
  Loops,         \* loops the client asks for
  MaxUnread,     \* calls the client makes between two polls
  KeepsBuffer    \* the resampler keeps a buffer from one mix to the next

ASSUME SizeAssumption ==
  /\ mFrameCount \in Nat \ {0} /\ MIN_LOOP \in Nat \ {0}
  /\ W \in Nat /\ W % 2 = 0
  /\ MaxUnread \in Nat \ {0} /\ 2 * MaxUnread < W - 2
  /\ KeepsBuffer \in BOOLEAN

None == -1
Infinite == -1               \* INT64_MAX of mFramesReady
Position == 0 .. mFrameCount
Sequence == 0 .. W - 1
LoopCount == Nat \cup {-1}
Loop == [start : Position, end : Position, count : LoopCount]

ASSUME LoopsAssumption == Loops \subseteq Loop

NoLoop == [start |-> 0, end |-> 0, count |-> 0]

(* What AudioTrack::setLoop() lets through, and updateStateWithLoop().     *)
Valid(l) == l.count = 0 \/ (l.start < l.end /\ l.end - l.start >= MIN_LOOP)

VARIABLES
  \* client
  request,       \* mState: [loop, loopSequence, position, positionSequence]
  view,          \* mPosLoop: [position, loopCount]
  next,          \* second half of setBufferPositionAndLoop(): the position
  \* the queues
  ack,           \* what ack() tells the client of its last push
  posLoop,       \* the last value of mPosLoopQueue
  posLoopUnread,
  \* server
  spc, obtaining,
  mState,        \* as request
  mFramesReady, mUnreleased, mIsShutdown,
  holding,       \* a buffer was obtained and is not wholly released
  \* history
  lastCall,      \* of the client: "loop" or "position"
  unreadLoops, unreadPositions,   \* calls since the server's last poll
  exact          \* nothing but the client's calls moved the server since the
                 \* client saw where it was, and it read each of the calls

serverVars == <<spc, obtaining, mState, mFramesReady, mUnreleased, mIsShutdown,
                holding>>
vars == <<request, view, next, ack, posLoop, posLoopUnread, serverVars,
          lastCall, unreadLoops, unreadPositions, exact>>

Start == [loop |-> NoLoop, loopSequence |-> 0,
          position |-> 0, positionSequence |-> 0]
ViewOf(s) == [position |-> s.position, loopCount |-> s.loop.count]

Init ==
  /\ request = Start /\ view = ViewOf(Start) /\ next = None /\ ack = "READ"
  /\ posLoop = ViewOf(Start) /\ posLoopUnread = FALSE
  /\ spc = "idle" /\ obtaining = FALSE /\ mState = Start
  /\ mFramesReady = mFrameCount /\ mUnreleased = 0
  /\ mIsShutdown = FALSE /\ holding = FALSE
  /\ lastCall = "none" /\ unreadLoops = 0 /\ unreadPositions = 0 /\ exact = TRUE
-----------------------------------------------------------------------------
(* Client *)

(* Faulty variant: does not look at the other sequence.                    *)
incrementSequenceAlone(self, other) == (self + 1) % W

incrementSequence(self, other) ==
  LET ahead == (self - other) % W
  IN  IF ahead < W \div 2 - 1 THEN (self + 1) % W ELSE (other + 1) % W

(* Nobody makes 2^31 calls that the server does not poll, so that neither  *)
(* sequence comes back to what the server last saw.                        *)
Unread == unreadLoops + unreadPositions

(* getBufferPositionAndLoopCount(): once the server acted upon the last    *)
(* request, its word, if there is news and poll() gets it; else our own.   *)
News == ack = "DONE" /\ posLoopUnread
Observed(hit) == IF hit THEN posLoop ELSE view
Observe(hit) == /\ hit => News
                /\ posLoopUnread' = (posLoopUnread /\ ~hit)
                /\ exact' = (exact \/ hit)

Get ==
  /\ next = None /\ News
  /\ Observe(TRUE) /\ view' = Observed(TRUE)
  /\ UNCHANGED <<request, next, ack, posLoop, serverVars, lastCall, unreadLoops,
                 unreadPositions>>

(* A position beyond the end of a loop goes back to its start.             *)
Wrapped(l, p) == IF l.count # 0 /\ p >= l.end THEN l.start ELSE p

(* setLoop(), with the illusion of a synchronous change in view.           *)
SetLoop(l, hit) ==
  /\ next = None /\ Unread < MaxUnread
  /\ request' = [request EXCEPT
       !.loop = l,
       !.loopSequence = incrementSequence(@, request.positionSequence)]
  /\ Observe(hit)
  /\ view' = [position |-> Wrapped(l, Observed(hit).position),
              loopCount |-> l.count]
  /\ ack' = "PENDING"
  /\ lastCall' = "loop" /\ unreadLoops' = unreadLoops + 1
  /\ UNCHANGED <<posLoop, serverVars, unreadPositions>>

SetBufferPosition(p, hit) ==
  /\ next \in {None, p} /\ Unread < MaxUnread
  /\ request' = [request EXCEPT
       !.position = p,
       !.positionSequence = incrementSequence(@, request.loopSequence)]
  /\ hit => request.loop.count > 0
  /\ Observe(hit)
  /\ view' = [position |-> p,
              loopCount |-> IF p >= request.loop.end THEN 0
                            ELSE Observed(hit).loopCount]
  /\ ack' = "PENDING" /\ next' = None
  /\ lastCall' = "position" /\ unreadPositions' = unreadPositions + 1
  /\ UNCHANGED <<posLoop, serverVars, unreadLoops>>

SetLoopOnly(l, hit) == Valid(l) /\ SetLoop(l, hit) /\ UNCHANGED next

(* stop(): setBufferPositionAndLoop() to the beginning, without a loop.    *)
Stop(hit) == SetLoop(NoLoop, hit) /\ next' = 0

(* restoreTrack_l(): the server died, or invalidated the track.  There are *)
(* a new control block and new proxies, and playback goes on from where    *)
(* the client believes it was.                                             *)
Restore(hit) ==
  /\ next = None /\ (hit => News)
  /\ LET v == Observed(hit)
         l == [request.loop EXCEPT !.count = v.loopCount]
     IN  IF v.loopCount # 0
         THEN /\ request' = [Start EXCEPT !.loop = l, !.loopSequence = 1]
              /\ view' = [position |-> 0, loopCount |-> v.loopCount]
              /\ next' = v.position /\ lastCall' = "loop"
              /\ unreadLoops' = 1 /\ unreadPositions' = 0
         ELSE /\ request' = [Start EXCEPT !.position = v.position,
                                          !.positionSequence = 1]
              /\ view' = v
              /\ UNCHANGED next /\ lastCall' = "position"
              /\ unreadLoops' = 0 /\ unreadPositions' = 1
  /\ ack' = "PENDING" /\ exact' = TRUE
  /\ posLoop' = ViewOf(Start) /\ posLoopUnread' = FALSE
  /\ spc' = "idle" /\ obtaining' = FALSE /\ mState' = Start
  /\ mFramesReady' = mFrameCount /\ mUnreleased' = 0
  /\ mIsShutdown' = FALSE /\ holding' = FALSE
-----------------------------------------------------------------------------
(* Server *)

LoopChanges(s, u) == s.loopSequence # u.loopSequence
PositionChanges(s, u) == s.positionSequence # u.positionSequence

updateStateWithLoop(s, u) ==
  IF LoopChanges(s, u)
  THEN [s EXCEPT !.position = Wrapped(u.loop, @), !.loop = u.loop,
                 !.loopSequence = u.loopSequence]
  ELSE s

(* A position beyond the end of the loop ends it.                          *)
updateStateWithPosition(s, u) ==
  IF PositionChanges(s, u)
  THEN [s EXCEPT !.position = u.position,
                 !.loop.count = IF u.position >= s.loop.end THEN 0 ELSE @,
                 !.positionSequence = u.positionSequence]
  ELSE s

(* Otherwise they return NO_INIT.                                          *)
Accepted(s, u) ==
  /\ LoopChanges(s, u) => /\ Valid(u.loop) /\ u.loop.end <= mFrameCount
                          /\ s.position <= mFrameCount
  /\ PositionChanges(s, u) => u.position <= mFrameCount

(* Faulty variant: the loop always comes first.                            *)
UpdatedLoopFirst(s, u) == updateStateWithPosition(updateStateWithLoop(s, u), u)

(* The call with the smaller sequence was made first.                      *)
Updated(s, u) ==
  IF (u.loopSequence - u.positionSequence) % W >= W \div 2
  THEN updateStateWithPosition(updateStateWithLoop(s, u), u)
  ELSE updateStateWithLoop(updateStateWithPosition(s, u), u)

(* Frames to play, with all loops.                                         *)
Remaining(s) ==
  IF s.loop.count = -1 THEN Infinite
  ELSE s.loop.count * (s.loop.end - s.loop.start) + mFrameCount - s.position

(* pollPosition(), of framesReady() and Track::start() or obtainBuffer().  *)
(* The mixer does not look at a track while it holds a buffer of it, but   *)
(* for a resampler that keeps one.  poll() finds nothing if there was no   *)
(* push, and may miss one that is going on.                                *)
PollPosition(forBuffer) ==
  /\ spc = "idle"
  /\ IF forBuffer THEN ~holding /\ ~mIsShutdown ELSE KeepsBuffer \/ ~holding
  /\ obtaining' = forBuffer
  /\ \/ /\ ack = "PENDING" /\ Accepted(mState, request)
        /\ mState' = Updated(mState, request)
        /\ mFramesReady' = Remaining(mState')
        /\ ack' = "READ" /\ spc' = "push"
        /\ exact' = (exact /\ unreadLoops <= 1 /\ unreadPositions <= 1)
        /\ unreadLoops' = 0 /\ unreadPositions' = 0
        /\ UNCHANGED <<mUnreleased, mIsShutdown>>
     \/ /\ ack = "PENDING" /\ ~Accepted(mState, request)
        /\ mIsShutdown' = TRUE /\ ack' = "DONE"
        /\ mUnreleased' = IF forBuffer THEN 0 ELSE mUnreleased
        /\ UNCHANGED <<spc, mState, mFramesReady, unreadLoops, unreadPositions,
                       exact>>
     \/ /\ forBuffer /\ spc' = "buffer"
        /\ UNCHANGED <<ack, mState, mFramesReady, mUnreleased, mIsShutdown,
                       unreadLoops, unreadPositions, exact>>
  /\ UNCHANGED <<request, view, next, posLoop, posLoopUnread, holding, lastCall>>

(* done(), unless a later push came.                                       *)
Done == ack' = IF ack = "READ" THEN "DONE" ELSE ack

(* Faulty variant: done() before the position is pushed.                   *)
PushPosLoopLate ==
  /\ spc = "push" /\ spc' = "done"
  /\ Done
  /\ UNCHANGED <<request, view, next, posLoop, posLoopUnread, obtaining, mState,
                 mFramesReady, mUnreleased, mIsShutdown, holding, lastCall,
                 unreadLoops, unreadPositions, exact>>

PushPosLoop ==
  /\ spc = "push" /\ spc' = "done"
  /\ posLoop' = ViewOf(mState) /\ posLoopUnread' = TRUE
  /\ UNCHANGED <<request, view, next, ack, obtaining, mState, mFramesReady,
                 mUnreleased, mIsShutdown, holding, lastCall, unreadLoops,
                 unreadPositions, exact>>

PollDone ==
  /\ spc = "done" /\ spc' = IF obtaining THEN "buffer" ELSE "idle"
  /\ Done
  /\ UNCHANGED <<request, view, next, posLoop, posLoopUnread, obtaining, mState,
                 mFramesReady, mUnreleased, mIsShutdown, holding, lastCall,
                 unreadLoops, unreadPositions, exact>>

(* obtainBuffer(): up to the end of the loop, or of the buffer.            *)
End(s) == IF s.loop.count # 0 THEN s.loop.end ELSE mFrameCount
Obtainable == IF mState.position < End(mState)
              THEN 1 .. End(mState) - mState.position ELSE {0}

ObtainBuffer ==
  /\ spc = "buffer" /\ spc' = "idle"
  /\ mUnreleased' \in Obtainable
  /\ holding' = (mUnreleased' > 0)
  /\ UNCHANGED <<request, view, next, ack, posLoop, posLoopUnread, obtaining,
                 mState, mFramesReady, mIsShutdown, lastCall, unreadLoops,
                 unreadPositions, exact>>

(* Faulty variant: a loop of one turn is not counted down.                 *)
AdvancedStuck(s, n) ==
  LET p == s.position + n
  IN  IF p > mFrameCount THEN [s EXCEPT !.position = mFrameCount]
      ELSE IF s.loop.count # 0 /\ p = s.loop.end
      THEN [s EXCEPT !.position = s.loop.start,
                     !.loop.count = IF @ \in {-1, 1} THEN @ ELSE @ - 1]
      ELSE [s EXCEPT !.position = p]

(* Faulty variant: a loop without end is counted down, too.                *)
AdvancedEndless(s, n) ==
  LET p == s.position + n
  IN  IF s.loop.count # 0 /\ p = s.loop.end
      THEN [s EXCEPT !.position = s.loop.start, !.loop.count = @ - 1]
      ELSE [s EXCEPT !.position = IF p > mFrameCount THEN mFrameCount ELSE p]

(* A turn of a loop is over.                                               *)
Turned(l) == [l EXCEPT !.count = IF @ = -1 THEN -1 ELSE @ - 1]

(* Where releaseBuffer() moves on to.                                      *)
Advanced(s, n) ==
  LET p == s.position + n
  IN  IF p > mFrameCount THEN [s EXCEPT !.position = mFrameCount]
      ELSE IF s.loop.count # 0 /\ p = s.loop.end
      THEN [s EXCEPT !.position = s.loop.start, !.loop = Turned(@)]
      ELSE [s EXCEPT !.position = p]

(* releaseBuffer(), of all of the buffer or of a part.                     *)
ReleaseBuffer(n) ==
  /\ spc = "idle" /\ holding /\ n <= mUnreleased
  /\ mUnreleased' = mUnreleased - n
  /\ holding' \in {FALSE, n < mUnreleased}
  /\ mState' = Advanced(mState, n)
  /\ mFramesReady' = IF mFramesReady = Infinite THEN Infinite
                     ELSE mFramesReady - n
  /\ posLoop' = ViewOf(mState') /\ posLoopUnread' = TRUE
  /\ exact' = FALSE
  /\ UNCHANGED <<request, view, next, ack, spc, obtaining, mIsShutdown, lastCall,
                 unreadLoops, unreadPositions>>
-----------------------------------------------------------------------------
Client ==
  \/ Get
  \/ \E hit \in BOOLEAN :
       \/ \E l \in Loops : SetLoopOnly(l, hit)
       \/ \E p \in Position : SetBufferPosition(p, hit)
       \/ Stop(hit) \/ Restore(hit)

Server ==
  \/ \E forBuffer \in BOOLEAN : PollPosition(forBuffer)
  \/ PushPosLoop \/ PollDone \/ ObtainBuffer
  \/ \E n \in 1 .. mFrameCount : ReleaseBuffer(n)

Next == Client \/ Server

Spec == Init /\ [][Next]_vars
-----------------------------------------------------------------------------
(* Properties *)

State == [loop : Loop, loopSequence : Sequence,
          position : Position, positionSequence : Sequence]
View == [position : Position, loopCount : LoopCount]

TypeOK ==
  /\ request \in State /\ mState \in State
  /\ view \in View /\ posLoop \in View /\ next \in Position \cup {None}
  /\ ack \in {"PENDING", "READ", "DONE"} /\ posLoopUnread \in BOOLEAN
  /\ spc \in {"idle", "push", "done", "buffer"} /\ obtaining \in BOOLEAN
  /\ mFramesReady \in Int /\ mUnreleased \in Position
  /\ mIsShutdown \in BOOLEAN /\ holding \in BOOLEAN
  /\ lastCall \in {"none", "loop", "position"} /\ exact \in BOOLEAN
  /\ unreadLoops \in Nat /\ unreadPositions \in Nat

(* "The sequence counter also currently indicates whether loop or position *)
(* is first": however many calls one poll finds, and whatever their        *)
(* sequences wrapped to, it acts upon each kind and ends where the last    *)
(* call of all says.                                                       *)
LastCallWins ==
  [][ack = "PENDING" /\ ack' = "READ" =>
       /\ unreadLoops > 0 => <<mState'.loop.start, mState'.loop.end>>
                               = <<request.loop.start, request.loop.end>>
       /\ lastCall = "loop" =>
            /\ mState'.loop = request.loop
            /\ request.loop.count # 0 => mState'.position < request.loop.end
            /\ unreadPositions > 0 =>
                 mState'.position = Wrapped(request.loop, request.position)
       /\ lastCall = "position" => mState'.position = request.position]_vars

(* LOG_ALWAYS_FATAL_IF(): the server process aborts if it hands out or     *)
(* takes back more frames than it counts as ready.                         *)
Ready(n) == mFramesReady = Infinite \/ n <= mFramesReady

(* The server aborts neither in obtainBuffer() nor in releaseBuffer():     *)
(* what it counts as ready is what is left to play, loops included, and it *)
(* never runs past the end of a loop.                                      *)
NeverAborts ==
  /\ spc = "buffer" => \A n \in Obtainable : Ready(n)
  /\ holding => Ready(mUnreleased)
  /\ mFramesReady = Remaining(mState)
  /\ mState.loop.count # 0 => mState.position < mState.loop.end

(* "to give the illusion of a synchronous change": the server accepts what *)
(* the client asks for; once it has acted upon the last request, what it   *)
(* says is where it is; and if it did not play meanwhile, that is just     *)
(* what the client's getters returned since the call, also after the track *)
(* was restored.                                                           *)
IllusionIsKept ==
  /\ ~mIsShutdown
  /\ ack = "DONE" => /\ posLoop = ViewOf(mState)
                     /\ exact => view = posLoop
=============================================================================
