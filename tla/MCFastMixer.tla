---------------------------- MODULE MCFastMixer -----------------------------
(* TLC instance of FastMixer: two fast tracks that use the same slot.      *)
EXTENDS FastMixer

CONSTANTS t1, t2

MCTrack == {t1, t2}
MCIndex == [t \in MCTrack |-> 1]
=============================================================================
