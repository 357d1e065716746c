---------------------------- MODULE StateChannel ----------------------------
(***************************************************************************)
(* What services/audioflinger/StateQueue.h promises its two users, without *)
(* slots or pointers: one mutator edits a private draft and publishes it,  *)
(* one observer takes the latest published state and may still look at the *)
(* state it held before that one.                                          *)
(*                                                                         *)
(* A published state that the observer has not taken yet is "fresh".  The  *)
(* channel holds at most one such state: the mutator publishes again only  *)
(* after the observer caught up, so a state once published is never        *)
(* overwritten under the observer.                                         *)
(***************************************************************************)
CONSTANTS Value,    \* the states the mutator may publish (type T)
          Nothing   \* what the observer holds before the first publication

VARIABLES draft,      \* the mutator's private copy
          published,  \* the latest published state
          fresh,      \* published, and not taken by the observer yet
          current,    \* the state the observer works with
          previous    \* the state it worked with before that one

vars == <<draft, published, fresh, current, previous>>

Init == /\ draft \in Value
        /\ published = Nothing
        /\ fresh = FALSE
        /\ current = Nothing
        /\ previous = Nothing

Edit == /\ draft' \in Value
        /\ UNCHANGED <<published, fresh, current, previous>>

Publish == /\ ~fresh
           /\ published' = draft
           /\ fresh' = TRUE
           /\ UNCHANGED <<draft, current, previous>>

Observe == /\ fresh
           /\ fresh' = FALSE
           /\ current' = published
           /\ previous' = current
           /\ UNCHANGED <<draft, published>>

Next == Edit \/ Publish \/ Observe

Spec == Init /\ [][Next]_vars

(* "Observer must always be able to poll for and view the latest pushed    *)
(* state; it must never be blocked from seeing that state."                *)
PublishedIsSeen == fresh ~> ~fresh
=============================================================================
