---------------------------- MODULE LatestValue -----------------------------
(***************************************************************************)
(* What include/media/SingleStateQueue.h promises: a "single-reader /      *)
(* single-writer multi-word atomic load / store".  Each value pushed       *)
(* replaces the one before, at once and whole, and the observer takes      *)
(* whatever value is the latest.                                           *)
(***************************************************************************)
CONSTANT Value, Initial

VARIABLES latest,    \* the last value pushed
          observed   \* the last value polled

vars == <<latest, observed>>

Init == latest = Initial /\ observed = Initial

Publish == latest' \in Value /\ UNCHANGED observed

Observe == observed' = latest /\ UNCHANGED latest

Spec == Init /\ [][Publish \/ Observe]_vars
=============================================================================
