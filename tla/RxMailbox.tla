----------------------------- MODULE RxMailbox -----------------------------
(***************************************************************************)
(* What the receive path promises the command engine: a mailbox of one     *)
(* frame.  Frames are numbered in the order in which the MAC received      *)
(* them; one that finds the mailbox full never enters it.  Each frame that *)
(* enters is handled once, as it arrived and in the order of arrival.      *)
(***************************************************************************)
EXTENDS Naturals

CONSTANT Frames   \* numbers of the frames, from 1

VARIABLES
  arrived,  \* the frame that entered last, or 0
  box,      \* the frame in the mailbox, or 0
  handled   \* the frame handled last, or 0

vars == <<arrived, box, handled>>

Init == arrived = 0 /\ box = 0 /\ handled = 0

Enter(n) ==
  /\ box = 0 /\ n > arrived
  /\ arrived' = n /\ box' = n
  /\ UNCHANGED handled

Handle ==
  /\ box # 0
  /\ handled' = box /\ box' = 0
  /\ UNCHANGED arrived

Next == (\E n \in Frames : Enter(n)) \/ Handle

Spec == Init /\ [][Next]_vars

\* What is in the mailbox is younger than everything handled before it.
NeverBackwards ==
  /\ handled <= arrived
  /\ box # 0 => box = arrived /\ handled < box
============================================================================
