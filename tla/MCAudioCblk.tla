---------------------------- MODULE MCAudioCblk -----------------------------
(* TLC instances of AudioCblk: for playback and for record.                *)
EXTENDS AudioCblk

Uses(frames, slots, flushes, chunks, calls) ==
  {[mIsOut |-> out, mFrameCount |-> frames, mFrameCountP2 |-> slots,
    flushes |-> flushes, chunks |-> chunks, calls |-> calls] : out \in BOOLEAN}

(* A ring of two frames that is flushed, and one of three frames in four   *)
(* slots, released in chunks, that another thread of the server polls and  *)
(* that is invalidated.                                                    *)
SafetyTracks ==
  Uses(2, 2, TRUE, FALSE, {"start"})
    \cup Uses(3, 4, FALSE, TRUE, {"framesReady", "invalidate"})

(* Tracks whose client is called by other threads.                         *)
CalledTracks ==
  Uses(2, 2, FALSE, FALSE, {"interrupt", "binderDied", "streamEnd"})

(* Tracks that are only released in chunks, polled by another thread of    *)
(* the server, or flushed.                                                 *)
ChunkTracks == Uses(4, 4, FALSE, TRUE, {})
PolledTracks == Uses(2, 2, FALSE, FALSE, {"framesReady"})
FlushedTracks == Uses(2, 2, TRUE, FALSE, {})

InvalidTracks == Uses(1, 1, FALSE, FALSE, {"invalidate"})
=============================================================================
