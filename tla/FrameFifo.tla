----------------------------- MODULE FrameFifo ------------------------------
(***************************************************************************)
(* What a circular buffer of audio frames promises its writer and reader,  *)
(* without indices: frames come out in the order they went in, each once,  *)
(* none invented, and there are never more than capacity of them inside.   *)
(* Frames are numbered in writing order, modulo W.                         *)
(***************************************************************************)
EXTENDS Integers, Sequences

CONSTANT W

VARIABLES capacity,  \* fixed when the buffer is made
          fifo,      \* the frames inside, oldest first
          next       \* the number of the next frame to be written

vars == <<capacity, fifo, next>>

Init == capacity \in Nat \ {0} /\ fifo = <<>> /\ next = 0

Put(n) == /\ Len(fifo) + n <= capacity
          /\ fifo' = fifo \o [k \in 1 .. n |-> (next + k - 1) % W]
          /\ next' = (next + n) % W

(* Frames leave at the old end, whether they are played or discarded.      *)
Take(n) == /\ n <= Len(fifo)
           /\ fifo' = SubSeq(fifo, n + 1, Len(fifo))
           /\ UNCHANGED next

Next == /\ \E n \in 1 .. capacity : Put(n) \/ Take(n)
        /\ UNCHANGED capacity

Spec == Init /\ [][Next]_vars
=============================================================================
