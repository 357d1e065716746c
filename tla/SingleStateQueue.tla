-------------------------- MODULE SingleStateQueue --------------------------
(***************************************************************************)
(* include/media/SingleStateQueue.h: the sequence lock through which the   *)
(* client of a static track sends loop and position requests to the server *)
(* and gets its position back, and by which playback rates travel.         *)
(*                                                                         *)
(* A value has several words, copied one by one in any order.  The value   *)
(* that a push() gives sequence number s has s in each of its words, so    *)
(* that a mixture of two values shows.  Sequence numbers count pushes      *)
(* without bound; where the code compares two of them, their W-wide images *)
(* are compared.                                                           *)
(***************************************************************************)
EXTENDS Integers

CONSTANTS
  Word,        \* the words of T
  W,           \* sequence numbers wrap here, 2^32 in the code
  MAX_TRIES,   \* of poll()
  MaxPushes    \* bound of the model, for TLC

ASSUME SizeAssumption ==
  /\ W \in Nat /\ W >= 8 /\ W % 4 = 0
  /\ MAX_TRIES \in Nat \ {0} /\ MaxPushes \in Nat

Pushed == {2 * n : n \in 0 .. MaxPushes}   \* numbers of whole values

VARIABLES
  mSequence, mAck, mValue,    \* Shared
  mpc, mutator, unwritten,    \* Mutator: its mSequence, words left to store
  opc, observer, before,      \* Observer: its mSequence; poll()'s locals
  temp, unread, tries,
  value,                      \* what the last successful poll() returned
  doneWith                    \* history: the last value done() was called for

sharedVars == <<mSequence, mAck, mValue>>
mutatorVars == <<mpc, mutator, unwritten>>
observerVars == <<opc, observer, before, temp, unread, tries, value, doneWith>>
vars == <<sharedVars, mutatorVars, observerVars>>

Whole(s) == [w \in Word |-> s]

Init ==
  /\ mSequence = 0 /\ mAck = 0 /\ mValue = Whole(0)
  /\ mpc = "idle" /\ mutator = 0 /\ unwritten = {}
  /\ opc = "idle" /\ observer = 0 /\ before = 0
  /\ temp = Whole(0) /\ unread = {} /\ tries = 0
  /\ value = Whole(0) /\ doneWith = Whole(0)

(* Equality, and sign of the difference, of two W-wide numbers.            *)
Same(a, b) == a % W = b % W
AtLeast(a, b) == (a - b) % W < W \div 2

(* Less than half of all sequence numbers are in use: nobody pushes 2^30   *)
(* times between two successful polls.                                     *)
NeverLaps == 2 * (mutator + 2 - observer) < W
-----------------------------------------------------------------------------
(* Mutator::push() *)

PushBegin ==
  /\ mpc = "idle" /\ mutator < 2 * MaxPushes /\ NeverLaps
  /\ mSequence' = mutator + 1
  /\ unwritten' = Word
  /\ mpc' = "write"
  /\ UNCHANGED <<mAck, mValue, mutator, observerVars>>

PushWord(w) ==
  /\ mpc = "write" /\ w \in unwritten
  /\ mValue' = [mValue EXCEPT ![w] = mutator + 2]
  /\ unwritten' = unwritten \ {w}
  /\ UNCHANGED <<mSequence, mAck, mpc, mutator, observerVars>>

PushEnd ==
  /\ mpc = "write" /\ unwritten = {}
  /\ mSequence' = mutator + 2
  /\ mutator' = mutator + 2
  /\ mpc' = "idle"
  /\ UNCHANGED <<mAck, mValue, unwritten, observerVars>>

(* Mutator::ack(): of the last push, and of the one numbered s.            *)
Acked == IF Same(mAck, mutator) THEN "READ"
         ELSE IF Same(mAck, mutator + 1) THEN "DONE" ELSE "PENDING"
AckedUpTo(s) == AtLeast(mAck, s)
-----------------------------------------------------------------------------
(* Observer::poll(), done() *)

Poll ==
  /\ opc = "idle" /\ ~Same(mSequence, observer)
  /\ before' = mSequence /\ tries' = 0
  /\ opc' = "try" /\ unread' = Word
  /\ UNCHANGED <<sharedVars, mutatorVars, observer, temp, value, doneWith>>

(* Another try, or give up.                                                *)
Retry ==
  /\ tries' = tries + 1
  /\ IF tries + 1 >= MAX_TRIES THEN opc' = "idle" ELSE opc' = "try"
  /\ before' = mSequence /\ unread' = Word
  /\ UNCHANGED <<observer, value, doneWith>>

(* Faulty variant: waits for the mutator, however long it takes.           *)
PollOddForEver ==
  /\ opc = "try" /\ before \notin Pushed
  /\ before' = mSequence
  /\ UNCHANGED <<sharedVars, mutatorVars, opc, observer, temp, unread, tries,
                 value, doneWith>>

PollOdd ==
  /\ opc = "try" /\ before \notin Pushed
  /\ Retry
  /\ UNCHANGED <<sharedVars, mutatorVars, temp>>

PollWord(w) ==
  /\ opc = "try" /\ before \in Pushed /\ w \in unread
  /\ temp' = [temp EXCEPT ![w] = mValue[w]]
  /\ unread' = unread \ {w}
  /\ UNCHANGED <<sharedVars, mutatorVars, opc, observer, before, tries, value,
                 doneWith>>

(* Faulty variant: accepts what it read if the mutator is not pushing now. *)
PollAfterEven ==
  /\ opc = "try" /\ before \in Pushed /\ unread = {}
  /\ IF mSequence \in Pushed
     THEN /\ value' = temp /\ opc' = "ack"
          /\ UNCHANGED <<observer, before, unread, tries, doneWith>>
     ELSE Retry
  /\ UNCHANGED <<sharedVars, mutatorVars, temp>>

PollAfter ==
  /\ opc = "try" /\ before \in Pushed /\ unread = {}
  /\ IF Same(mSequence, before)
     THEN /\ value' = temp /\ opc' = "ack"
          /\ UNCHANGED <<observer, before, unread, tries, doneWith>>
     ELSE Retry
  /\ UNCHANGED <<sharedVars, mutatorVars, temp>>

(* Faulty variant: takes the number of the latest value for the one it read*)
PollAckLatest ==
  /\ opc = "ack"
  /\ mAck' = mSequence /\ observer' = mSequence
  /\ opc' = "idle"
  /\ UNCHANGED <<mSequence, mValue, mutatorVars, before, temp, unread, tries,
                 value, doneWith>>

PollAck ==
  /\ opc = "ack"
  /\ mAck' = before /\ observer' = before
  /\ opc' = "idle"
  /\ UNCHANGED <<mSequence, mValue, mutatorVars, before, temp, unread, tries,
                 value, doneWith>>

(* The observer acted upon the value; once per successful poll().          *)
Done ==
  /\ opc = "idle" /\ observer # 0 /\ mAck = observer
  /\ mAck' = mAck + 1
  /\ doneWith' = value
  /\ UNCHANGED <<mSequence, mValue, mutatorVars, opc, observer, before, temp,
                 unread, tries, value>>
-----------------------------------------------------------------------------
PushStep == (\E w \in Word : PushWord(w)) \/ PushEnd
Mutator == PushBegin \/ PushStep

PollStep ==
  \/ PollOdd \/ (\E w \in Word : PollWord(w)) \/ PollAfter \/ PollAck
Observer == Poll \/ PollStep \/ Done

Next == Mutator \/ Observer

Spec == Init /\ [][Next]_vars

(* A poll() in progress is not abandoned; the mutator may stop anywhere.   *)
PollSpec == Spec /\ WF_vars(PollStep)
-----------------------------------------------------------------------------
(* Properties *)

TypeOK ==
  /\ mSequence \in Nat /\ mAck \in Nat /\ mValue \in [Word -> Pushed]
  /\ mpc \in {"idle", "write"} /\ mutator \in Pushed /\ unwritten \subseteq Word
  /\ opc \in {"idle", "try", "ack"} /\ observer \in Pushed /\ before \in Nat
  /\ temp \in [Word -> Pushed] /\ unread \subseteq Word
  /\ tries \in 0 .. MAX_TRIES
  /\ value \in [Word -> Pushed] /\ doneWith \in [Word -> Pushed]

(* "multi-word atomic load": poll() returns one of the values pushed, the  *)
(* one its sequence number names, and never a mixture of two.              *)
ReadIsWhole == value = Whole(IF opc = "ack" THEN before ELSE observer)

(* What the mutator concludes from mAck is so: the last value was read, or *)
(* acted upon, and a push acknowledged by number, or a later one, observed.*)
AckNeverLies ==
  /\ mpc = "idle" /\ Acked = "READ" => value = Whole(mutator)
  /\ mpc = "idle" /\ Acked = "DONE" => doneWith = Whole(mutator)
  /\ \A n \in 1 .. MaxPushes :
       2 * n <= mutator /\ AckedUpTo(2 * n) => observer >= 2 * n

(* A push stores a value, and a poll loads the latest one, atomically.     *)
Cell == INSTANCE LatestValue WITH
  Value <- {Whole(s) : s \in Pushed}, Initial <- Whole(0),
  latest <- Whole(mutator), observed <- value
ImplementsLatestValue == Cell!Spec

(* "Non-blocking": poll() returns, even if the mutator stops in mid-push.  *)
(* Once pushes stop (and MaxPushes stops them), polling finds the last.    *)
PollFinds ==
  /\ opc # "idle" ~> opc = "idle"
  /\ WF_vars(PushStep) /\ WF_vars(Poll) => <>[](value = Whole(mutator))
=============================================================================
