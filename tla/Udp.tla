--------------------------------- MODULE Udp ---------------------------------
(***************************************************************************)
(* src/udp.c: the table of connections and their packet queues, between    *)
(* handle_udp, which the stack calls for every datagram, and the           *)
(* application, which listens on ports and receives.  All of it runs in    *)
(* one thread, so a call is one step.  A datagram is its number.           *)
(***************************************************************************)
EXTENDS UdpQueues

CONSTANTS
  ConnectionCount,  \* UDP_CONNECTION_COUNT
  Ports,            \* ports the application listens on or the wire names
  MaxCounts,        \* values of max_packet_count the application asks for
  MaxDatagrams      \* bound: datagrams in one behaviour

ASSUME UdpAssumption ==
  /\ ConnectionCount \in Nat
  /\ MaxCounts \subseteq Nat
  /\ MaxDatagrams \in Nat

VARIABLES
  used_connections,  \* newest first
  datagrams,         \* what became of each datagram handed to handle_udp
  crashed            \* udp_listen followed a null pointer

vars == <<used_connections, datagrams, crashed>>

Init ==
  /\ used_connections = <<>>
  /\ datagrams = <<>>
  /\ crashed = FALSE

FreeConnections == ConnectionCount - Len(used_connections)

UdpListen(port, max_packet_count) ==
  /\ ~crashed
  /\ FreeConnections > 0
  /\ used_connections' = Listening(used_connections, port, max_packet_count)
  /\ UNCHANGED <<datagrams, crashed>>

\* list_remove_first returns 0 and the result is not tested.
UdpListenCrashes ==
  /\ ~crashed
  /\ FreeConnections = 0
  /\ crashed' = TRUE
  /\ UNCHANGED <<used_connections, datagrams>>

Datagram == Len(datagrams) + 1

\* No connection for the port: the packet is freed.
HandleUdpFrees(port) ==
  /\ FindConnection(used_connections, port) = 0
  /\ datagrams' = Append(datagrams, [port |-> port, state |-> "freed"])
  /\ UNCHANGED <<used_connections, crashed>>

HandleUdpQueues(port) ==
  /\ FindConnection(used_connections, port) # 0
  /\ LET dropped == Evicted(used_connections[FindConnection(used_connections, port)],
                            Datagram)
         known   == Append(datagrams, [port |-> port, state |-> "queued"])
     IN  datagrams' = [d \in DOMAIN known |->
                         IF d \in dropped THEN [known[d] EXCEPT !.state = "freed"]
                                          ELSE known[d]]
  /\ used_connections' = WithPacket(used_connections, port, Datagram)
  /\ UNCHANGED crashed

HandleUdp(port) ==
  /\ ~crashed
  /\ Len(datagrams) < MaxDatagrams
  /\ HandleUdpFrees(port) \/ HandleUdpQueues(port)

\* udp_receive_zero_copy passes the packet on; udp_receive copies the data out
\* and frees it.
UdpReceive(port) ==
  /\ ~crashed
  /\ HasPacket(used_connections, port)
  /\ datagrams' = [datagrams EXCEPT
       ![FirstPacket(used_connections, port)].state = "received"]
  /\ used_connections' = WithoutFirst(used_connections, port)
  /\ UNCHANGED crashed

Next ==
  \/ \E port \in Ports :
       \/ \E n \in MaxCounts : UdpListen(port, n)
       \/ HandleUdp(port)
       \/ UdpReceive(port)
  \/ UdpListenCrashes

Spec == Init /\ [][Next]_vars

-----------------------------------------------------------------------------

\* The table never has more connections than there are, and packet_count
\* is the length of the queue and respects max_packet_count.
TypeOK ==
  /\ used_connections \in Seq([port : Ports, packet_queue : Seq(1 .. MaxDatagrams),
                               packet_count : Nat, max_packet_count : MaxCounts])
  /\ Len(used_connections) =< ConnectionCount
  /\ \A i \in DOMAIN used_connections :
       LET c == used_connections[i] IN
       c.packet_count = Len(c.packet_queue) /\ c.packet_count =< c.max_packet_count
  /\ datagrams \in Seq([port : Ports, state : {"queued", "freed", "received"}])
  /\ crashed \in BOOLEAN

Places(d) == {i \in DOMAIN used_connections :
                d \in Range(used_connections[i].packet_queue)}

\* Every datagram is in exactly one queue, of a connection for its own port,
\* or was freed or received exactly once: handle_udp and udp_receive neither
\* leak a packet nor free one that is still linked, whichever connections
\* shadow each other.
DatagramsAccounted ==
  /\ \A i \in DOMAIN used_connections :
       /\ IsInjective(used_connections[i].packet_queue)
       /\ \A d \in Range(used_connections[i].packet_queue) :
            datagrams[d].port = used_connections[i].port
  /\ \A d \in DOMAIN datagrams :
       Cardinality(Places(d)) = IF datagrams[d].state = "queued" THEN 1 ELSE 0

\* For each port the newest connection is a mailbox: bounded, the oldest out
\* first, and never changed by traffic or listeners of another port.
PortQueue(port) ==
  LET c == FindConnection(used_connections, port) IN
  IF c = 0 THEN <<>> ELSE used_connections[c].packet_queue

PortCapacity(port) ==
  LET c == FindConnection(used_connections, port) IN
  IF c = 0 THEN -1 ELSE used_connections[c].max_packet_count

Box(port) == INSTANCE Mailbox WITH queue <- PortQueue(port),
                                   capacity <- PortCapacity(port),
                                   Item <- 1 .. MaxDatagrams, Capacities <- MaxCounts

PortsAreMailboxes ==
  /\ \A port \in Ports : Box(port)!Init
  /\ [][\A port \in Ports :
           Box(port)!Next \/ UNCHANGED <<PortQueue(port), PortCapacity(port)>>]_vars
==============================================================================
