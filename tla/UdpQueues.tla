------------------------------ MODULE UdpQueues ------------------------------
(***************************************************************************)
(* The connections of src/udp.c as values.  A table of connections is the  *)
(* sequence of those on the list used_connections, the newest first; Udp   *)
(* and the protocols above it keep one in a variable.                      *)
(***************************************************************************)
EXTENDS Integers, SequencesExt

\* The connection udp_listen sets up; a connection is never given back, so
\* the queue of the one it takes off the free list has never been used.
NewConnection(port, max_packet_count) ==
  [port |-> port, packet_queue |-> <<>>, packet_count |-> 0,
   max_packet_count |-> max_packet_count]

Listening(table, port, max_packet_count) ==
  <<NewConnection(port, max_packet_count)>> \o table

\* The index of the connection find_connection returns, 0 if there is none.
FindConnection(table, port) == SelectInSeq(table, LAMBDA c : c.port = port)

\* udp_receive_zero_copy: whether there is a packet, which, and what is left.
HasPacket(table, port) ==
  LET c == FindConnection(table, port) IN c # 0 /\ table[c].packet_count # 0

FirstPacket(table, port) == Head(table[FindConnection(table, port)].packet_queue)

WithoutFirstLinked(table, port) ==   \* mutant: the packet stays in the queue
  [table EXCEPT ![FindConnection(table, port)] = [@ EXCEPT !.packet_count = @ - 1]]

Dequeued(connection) ==
  [connection EXCEPT !.packet_queue = Tail(@), !.packet_count = @ - 1]

WithoutFirst(table, port) ==
  [table EXCEPT ![FindConnection(table, port)] = Dequeued(@)]

\* handle_udp: the packet is queued at the back first; a queue that has become
\* too long loses the packet at its front.
OverflowsLate(connection) ==   \* mutant: off by one
  connection.packet_count > connection.max_packet_count

Overflows(connection) == connection.packet_count + 1 > connection.max_packet_count

DeliveredFirst(connection, packet) ==   \* mutant: queued at the front
  LET queue == <<packet>> \o connection.packet_queue IN
  [connection EXCEPT
     !.packet_queue = IF Overflows(connection) THEN Tail(queue) ELSE queue,
     !.packet_count = IF Overflows(connection) THEN @ ELSE @ + 1]

Delivered(connection, packet) ==
  LET queue == Append(connection.packet_queue, packet) IN
  [connection EXCEPT
     !.packet_queue = IF Overflows(connection) THEN Tail(queue) ELSE queue,
     !.packet_count = IF Overflows(connection) THEN @ ELSE @ + 1]

Evicted(connection, packet) ==
  IF Overflows(connection) THEN {Head(Append(connection.packet_queue, packet))} ELSE {}

WithPacket(table, port, packet) ==
  [table EXCEPT ![FindConnection(table, port)] = Delivered(@, packet)]
==============================================================================
