------------------------------- MODULE DmaFifo -------------------------------
(***************************************************************************)
(* What a descriptor ring promises to the two sides that share it: a       *)
(* bounded first-in first-out queue.  One side (software for the transmit  *)
(* ring, the GMAC for the receive ring) puts items in, the other takes     *)
(* them out, in order, each exactly once.  Gmac.tla shows that the rings   *)
(* of src/driver/gmac.c implement this module.                             *)
(***************************************************************************)
EXTENDS Naturals, Sequences

CONSTANTS
  Capacity,   \* the number of descriptors of the ring
  Item        \* what the ring carries

VARIABLE queue

Init == queue = <<>>

Put ==
  /\ Len(queue) < Capacity
  /\ \E x \in Item : queue' = Append(queue, x)

Get ==
  /\ queue # <<>>
  /\ queue' = Tail(queue)

Spec == Init /\ [][Put \/ Get]_queue
==============================================================================
