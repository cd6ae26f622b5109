------------------------------- MODULE TxFifo -------------------------------
(***************************************************************************)
(* What the BLE transmit queue promises to the services that use it: a     *)
(* bounded first-in first-out queue.  A packet that is accepted is handed  *)
(* to the radio once, whole and in its turn, unless the queue is flushed.  *)
(* The promise is void once its users broke the rules of the queue.        *)
(***************************************************************************)
EXTENDS Naturals, Sequences

CONSTANTS Packets, Capacity

VARIABLES
  waiting, \* packets accepted and not yet handed over, oldest first
  handed,  \* packets handed to the radio, oldest first
  void     \* two users were inside the queue at once

Init == waiting = <<>> /\ handed = <<>> /\ void = FALSE

Accept(p) ==
  /\ Len(waiting) < Capacity
  /\ waiting' = Append(waiting, p)
  /\ UNCHANGED handed

HandOver ==
  /\ waiting # <<>>
  /\ waiting' = Tail(waiting)
  /\ handed' = Append(handed, Head(waiting))

Flush == waiting' = <<>> /\ UNCHANGED handed

Next == \/ ((\E p \in Packets : Accept(p)) \/ HandOver \/ Flush) /\ UNCHANGED void
        \/ void'

Spec == Init /\ [][Next]_<<waiting, handed, void>>
=============================================================================
