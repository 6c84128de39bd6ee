------------------------------- MODULE Mailbox -------------------------------
(***************************************************************************)
(* What udp.c promises for one port: once opened, a queue of at most       *)
(* `capacity` packets; a packet that arrives when it is full pushes the    *)
(* oldest out; packets are taken in the order of their arrival.  Opening   *)
(* again starts with an empty queue.                                       *)
(***************************************************************************)
EXTENDS Integers, Sequences

CONSTANTS Item, Capacities

VARIABLES queue, capacity   \* capacity -1: not open

Init == queue = <<>> /\ capacity = -1

Open(n) == queue' = <<>> /\ capacity' = n

Arrive(item) ==
  /\ capacity # -1
  /\ queue' = IF Len(queue) = capacity THEN Tail(Append(queue, item))
                                       ELSE Append(queue, item)
  /\ UNCHANGED capacity

Take ==
  /\ queue # <<>>
  /\ queue' = Tail(queue)
  /\ UNCHANGED capacity

Next == Take \/ (\E n \in Capacities : Open(n)) \/ (\E item \in Item : Arrive(item))

Spec == Init /\ [][Next]_<<queue, capacity>>
==============================================================================
