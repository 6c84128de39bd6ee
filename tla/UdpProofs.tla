------------------------------ MODULE UdpProofs ------------------------------
(***************************************************************************)
(* Theorems about Udp.tla, for every size of the table, every set of ports *)
(* and limits, and any number of datagrams.                                *)
(*                                                                         *)
(* DatagramsAccounted says of each datagram in how many queues it is.  Its *)
(* inductive form says in which one, that a queued number is the number of *)
(* a datagram that arrived, and that the datagrams are as many as the      *)
(* bound allows.                                                           *)
(***************************************************************************)
EXTENDS Udp, QueueLemmas

Numbers    == 1 .. MaxDatagrams
Connection == ConnectionsOf(Ports, Numbers, MaxCounts)

\* Whatever is in a queue arrived, for the port of the queue, and is in it once.
QueuesLinked ==
  \A i \in DOMAIN used_connections :
    /\ IsInjective(used_connections[i].packet_queue)
    /\ \A d \in Range(used_connections[i].packet_queue) :
         d \in DOMAIN datagrams /\ datagrams[d].port = used_connections[i].port

\* Whatever arrived is in one queue, or it is in none and was freed or received.
PlacedOnce ==
  \A d \in DOMAIN datagrams :
    IF datagrams[d].state = "queued" THEN \E i \in Places(d) : Places(d) = {i}
                                     ELSE Places(d) = {}

IInv == TypeOK /\ Len(datagrams) =< MaxDatagrams /\ QueuesLinked /\ PlacedOnce

-----------------------------------------------------------------------------

\* The types of the variables, in the words of the lemmas about queues.
LEMMA TypeOKSplit ==
  TypeOK <=> /\ used_connections \in Seq(Connection)
             /\ Len(used_connections) =< ConnectionCount
             /\ \A i \in DOMAIN used_connections : Counted(used_connections[i])
             /\ datagrams \in Seq([port : Ports, state : {"queued", "freed", "received"}])
             /\ crashed \in BOOLEAN
<1>1. Connection = [port : Ports, packet_queue : Seq(1 .. MaxDatagrams),
                    packet_count : Nat, max_packet_count : MaxCounts]
  BY DEF Numbers, Connection, ConnectionsOf
<1>2. ASSUME used_connections \in Seq(Connection), NEW i \in DOMAIN used_connections
      PROVE  used_connections[i].max_packet_count \in Nat
  <2>1. used_connections[i] \in Connection
    BY <1>2
  <2>2. QED
    BY <1>1, <2>1, UdpAssumption
<1>3. QED
  BY <1>1, <1>2 DEF TypeOK, Counted

\* A queue of a connection in the table.
LEMMA InTable ==
  ASSUME IInv, NEW i \in DOMAIN used_connections
  PROVE  /\ i \in 1 .. Len(used_connections)
         /\ used_connections[i] \in Connection /\ Counted(used_connections[i])
         /\ used_connections[i].packet_queue \in Seq(Numbers)
         /\ Range(used_connections[i].packet_queue) \subseteq DOMAIN datagrams
<1>1. /\ used_connections \in Seq(Connection) /\ Counted(used_connections[i])
  BY TypeOKSplit DEF IInv
<1>2. i \in 1 .. Len(used_connections) /\ used_connections[i] \in Connection
  BY <1>1
<1>3. QED
  BY <1>1, <1>2 DEF Connection, ConnectionsOf, IInv, QueuesLinked

\* Before any udp_listen there is neither a connection nor a datagram.
LEMMA InitIInv == Init => IInv
<1> SUFFICES ASSUME Init PROVE IInv
  OBVIOUS
<1>1. used_connections = <<>> /\ datagrams = <<>> /\ crashed = FALSE
  BY DEF Init
<1>2. TypeOK
  <2>1. \A S : <<>> \in Seq(S) /\ Len(<<>>) = 0 /\ DOMAIN <<>> = {}
    OBVIOUS
  <2>2. QED
    <3>1. used_connections \in Seq(Connection)
      BY <1>1, <2>1
    <3>2. datagrams \in Seq([port : Ports, state : {"queued", "freed", "received"}])
      BY <1>1, <2>1
    <3>3. Len(used_connections) =< ConnectionCount /\ DOMAIN used_connections = {}
      BY <1>1, <2>1, UdpAssumption
    <3>4. QED
      BY <1>1, <3>1, <3>2, <3>3, TypeOKSplit
<1>3. QED
  BY <1>1, <1>2, UdpAssumption DEF IInv, QueuesLinked, PlacedOnce

\* udp_listen moves every connection by one place and no packet.
LEMMA UdpListenPreserves ==
  ASSUME IInv, NEW port \in Ports, NEW max \in MaxCounts, UdpListen(port, max)
  PROVE  IInv'
<1> DEFINE n == Len(used_connections)
           new == NewConnection(port, max)
<1>1. /\ used_connections \in Seq(Connection) /\ n \in Nat /\ n < ConnectionCount
      /\ used_connections' = Listening(used_connections, port, max)
      /\ UNCHANGED <<datagrams, crashed>>
  BY TypeOKSplit, UdpAssumption DEF IInv, UdpListen, FreeConnections
<1>2. /\ new \in Connection /\ Counted(new) /\ new.packet_queue = <<>>
  <2>1. max \in Nat
    BY UdpAssumption
  <2>2. QED
    BY <2>1, NewConnectionCounted DEF Connection
<1>3. /\ used_connections' \in Seq(Connection) /\ Len(used_connections') = n + 1
      /\ used_connections'[1] = new
      /\ \A i \in 1 .. n : used_connections'[i + 1] = used_connections[i]
  BY <1>1, <1>2, ListeningShifts
<1> HIDE DEF n, new
<1>4. /\ DOMAIN used_connections' = 1 .. n + 1 /\ DOMAIN used_connections = 1 .. n
      /\ \A i \in 2 .. n + 1 : i - 1 \in 1 .. n
                               /\ used_connections'[i] = used_connections[i - 1]
  BY <1>1, <1>3 DEF n
<1>5. TypeOK'
  <2>1. ASSUME NEW i \in 1 .. n + 1 PROVE Counted(used_connections'[i])
    <3>1. CASE i = 1
      BY <1>2, <1>3, <3>1
    <3>2. CASE i # 1
      <4>1. i - 1 \in 1 .. n /\ used_connections'[i] = used_connections[i - 1]
        BY <1>1, <1>4, <3>2
      <4>2. Counted(used_connections[i - 1])
        BY <1>4, <4>1, TypeOKSplit DEF IInv
      <4>3. QED
        BY <4>1, <4>2
    <3>3. QED
      BY <3>1, <3>2
  <2>2. Len(used_connections') =< ConnectionCount
    BY <1>1, <1>3, UdpAssumption
  <2>3. /\ datagrams' \in Seq([port : Ports, state : {"queued", "freed", "received"}])
        /\ crashed' \in BOOLEAN
    BY <1>1, TypeOKSplit DEF IInv
  <2>4. QED
    BY <1>3, <1>4, <2>1, <2>2, <2>3 DEF TypeOK, Numbers, Connection, ConnectionsOf, Counted
<1>6. IsInjective(<<>>) /\ Range(<<>>) = {}
  BY DEF IsInjective, Range
<1>7. QueuesLinked'
  <2>1. SUFFICES ASSUME NEW i \in 1 .. n + 1
                 PROVE  /\ IsInjective(used_connections'[i].packet_queue)
                        /\ \A d \in Range(used_connections'[i].packet_queue) :
                             /\ d \in DOMAIN datagrams
                             /\ datagrams[d].port = used_connections'[i].port
    BY <1>1, <1>4 DEF QueuesLinked
  <2>2. CASE i = 1
    BY <1>2, <1>3, <1>6, <2>2
  <2>3. CASE i # 1
    <3>1. i - 1 \in 1 .. n /\ used_connections'[i] = used_connections[i - 1]
      BY <1>1, <1>4, <2>3
    <3>2. QED
      BY <1>4, <3>1 DEF IInv, QueuesLinked
  <2>4. QED
    BY <2>2, <2>3
<1>8. \A d : \A i \in 1 .. n : i \in Places(d) <=> i + 1 \in Places(d)'
  BY <1>1, <1>3, <1>4 DEF Places
<1>9. \A d : Places(d) \subseteq 1 .. n /\ Places(d)' \subseteq 2 .. n + 1
  <2>1. \A d : 1 \notin Places(d)'
    BY <1>2, <1>3, <1>6 DEF Places
  <2>2. QED
    BY <1>1, <1>4, <2>1 DEF Places
<1>10. PlacedOnce'
  <2>1. SUFFICES ASSUME NEW d \in DOMAIN datagrams
                 PROVE  IF datagrams[d].state = "queued"
                        THEN \E i \in Places(d)' : Places(d)' = {i}
                        ELSE Places(d)' = {}
    BY <1>1 DEF PlacedOnce, Places
  <2>2. \A i \in Places(d)' : i - 1 \in Places(d)
    BY <1>1, <1>8, <1>9
  <2>3. CASE datagrams[d].state = "queued"
    <3>1. PICK i \in Places(d) : Places(d) = {i}
      BY <2>3 DEF IInv, PlacedOnce
    <3>2. i + 1 \in Places(d)' /\ \A j \in Places(d)' : j - 1 = i
      BY <1>8, <1>9, <2>2, <3>1
    <3>3. Places(d)' = {i + 1}
      BY <1>1, <1>9, <3>2
    <3>4. QED
      BY <2>3, <3>3
  <2>4. CASE datagrams[d].state # "queued"
    BY <2>2, <2>4 DEF IInv, PlacedOnce
  <2>5. QED
    BY <2>3, <2>4
<1>11. Len(datagrams') =< MaxDatagrams
  BY <1>1 DEF IInv
<1>12. QED
  BY <1>5, <1>7, <1>10, <1>11 DEF IInv

\* handle_udp without a connection for the port.
LEMMA HandleUdpFreesPreserves ==
  ASSUME IInv, NEW port \in Ports, HandleUdpFrees(port), Len(datagrams) < MaxDatagrams
  PROVE  IInv'
<1> DEFINE new == [port |-> port, state |-> "freed"]
           Record == [port : Ports, state : {"queued", "freed", "received"}]
<1>1. /\ datagrams \in Seq(Record) /\ new \in Record
      /\ datagrams' = Append(datagrams, new)
      /\ UNCHANGED <<used_connections, crashed>>
  BY TypeOKSplit DEF IInv, HandleUdpFrees
<1>2. new.port = port /\ new.state = "freed"
  OBVIOUS
<1> HIDE DEF new, Record
<1>3. /\ datagrams' \in Seq(Record)
      /\ Len(datagrams') = Len(datagrams) + 1 /\ Len(datagrams) \in Nat
      /\ DOMAIN datagrams = 1 .. Len(datagrams)
      /\ DOMAIN datagrams' = 1 .. Len(datagrams) + 1
      /\ \A d \in 1 .. Len(datagrams) : datagrams'[d] = datagrams[d]
      /\ datagrams'[Len(datagrams) + 1] = new
  BY <1>1
<1>4. TypeOK'
  BY <1>1, <1>3 DEF IInv, TypeOK, Record
<1>5. QueuesLinked'
  BY <1>1, <1>3 DEF IInv, QueuesLinked
<1>6. \A d : Places(d)' = Places(d)
  BY <1>1 DEF Places
<1>7. Places(Len(datagrams) + 1) = {}
  <2>1. Len(datagrams) + 1 \notin DOMAIN datagrams
    BY <1>3
  <2>2. QED
    BY <2>1 DEF IInv, QueuesLinked, Places
<1>8. PlacedOnce'
  <2>1. SUFFICES ASSUME NEW d \in 1 .. Len(datagrams) + 1
                 PROVE  IF datagrams'[d].state = "queued"
                        THEN \E i \in Places(d) : Places(d) = {i}
                        ELSE Places(d) = {}
    BY <1>3, <1>6 DEF PlacedOnce
  <2>2. CASE d = Len(datagrams) + 1
    BY <1>2, <1>3, <1>7, <2>2
  <2>3. CASE d # Len(datagrams) + 1
    BY <1>3, <2>3 DEF IInv, PlacedOnce
  <2>4. QED
    BY <2>2, <2>3
<1>9. Len(datagrams') =< MaxDatagrams
  BY <1>3, UdpAssumption
<1>10. QED
  BY <1>4, <1>5, <1>8, <1>9 DEF IInv

\* The connection find_connection returns is one of the table.
LEMMA Found ==
  ASSUME IInv, NEW port, FindConnection(used_connections, port) # 0
  PROVE  /\ FindConnection(used_connections, port) \in DOMAIN used_connections
         /\ used_connections[FindConnection(used_connections, port)].port = port
<1>1. used_connections \in Seq(Connection)
  BY TypeOKSplit DEF IInv
<1>2. QED
  BY <1>1, FindConnectionFinds

\* A datagram that is in a queue is in no other.
LEMMA OnlyPlace ==
  ASSUME IInv, NEW c \in DOMAIN used_connections,
         NEW d \in Range(used_connections[c].packet_queue)
  PROVE  /\ d \in DOMAIN datagrams /\ datagrams[d].state = "queued"
         /\ Places(d) = {c}
<1>1. c \in Places(d) /\ d \in DOMAIN datagrams
  BY DEF IInv, QueuesLinked, Places
<1>2. QED
  BY <1>1 DEF IInv, PlacedOnce

\* handle_udp with a connection for the port.
LEMMA HandleUdpQueuesPreserves ==
  ASSUME IInv, NEW port \in Ports, HandleUdpQueues(port), Len(datagrams) < MaxDatagrams
  PROVE  IInv'
<1> DEFINE c       == FindConnection(used_connections, port)
           conn    == used_connections[c]
           dropped == Evicted(conn, Datagram)
           new     == [port |-> port, state |-> "queued"]
           known   == Append(datagrams, new)
           Record  == [port : Ports, state : {"queued", "freed", "received"}]
<1>1. /\ c \in DOMAIN used_connections /\ conn.port = port
      /\ conn \in Connection /\ Counted(conn)
  BY Found, InTable DEF HandleUdpQueues
<1>2. /\ used_connections \in Seq(Connection) /\ datagrams \in Seq(Record)
      /\ crashed' = crashed /\ new \in Record
  BY TypeOKSplit DEF IInv, HandleUdpQueues
<1>3. /\ used_connections' = [used_connections EXCEPT ![c] = Delivered(conn, Datagram)]
      /\ datagrams' = [d \in DOMAIN known |->
                         IF d \in dropped THEN [known[d] EXCEPT !.state = "freed"]
                                          ELSE known[d]]
  BY DEF HandleUdpQueues, WithPacket
<1>4. /\ Datagram = Len(datagrams) + 1 /\ Len(datagrams) \in Nat
      /\ Datagram \in Numbers
      /\ DOMAIN datagrams = 1 .. Len(datagrams)
      /\ Datagram \notin DOMAIN datagrams
  BY <1>2, UdpAssumption DEF Datagram, Numbers
<1>5. /\ IsInjective(conn.packet_queue)
      /\ Range(conn.packet_queue) \subseteq DOMAIN datagrams
      /\ Datagram \notin Range(conn.packet_queue)
  BY <1>1, <1>4 DEF IInv, QueuesLinked
<1> DEFINE later == Delivered(conn, Datagram)
<1>6. /\ later \in Connection /\ Counted(later) /\ later.port = port
      /\ IsInjective(later.packet_queue)
      /\ Range(later.packet_queue) = (Range(conn.packet_queue) \cup {Datagram}) \ dropped
      /\ dropped \subseteq Range(conn.packet_queue) \cup {Datagram}
  <2> HIDE DEF conn
  <2>1. QED
    BY <1>1, <1>4, <1>5, DeliveredQueue DEF Connection
<1>7. /\ known \in Seq(Record) /\ DOMAIN known = 1 .. Len(datagrams) + 1
      /\ \A d \in DOMAIN datagrams : known[d] = datagrams[d]
      /\ known[Datagram] = new
  BY <1>2, <1>4
<1>8. new.port = port /\ new.state = "queued"
  OBVIOUS
<1> HIDE DEF c, conn, dropped, new, known, later
<1>9. \A d \in DOMAIN known :
        /\ datagrams'[d] \in Record /\ datagrams'[d].port = known[d].port
        /\ d \in dropped => datagrams'[d].state = "freed"
        /\ d \notin dropped => datagrams'[d] = known[d]
  <2>1. SUFFICES ASSUME NEW d \in DOMAIN known
                 PROVE  /\ datagrams'[d] \in Record /\ datagrams'[d].port = known[d].port
                        /\ d \in dropped => datagrams'[d].state = "freed"
                        /\ d \notin dropped => datagrams'[d] = known[d]
    OBVIOUS
  <2>2. known[d] \in Record
    <3> HIDE DEF Record
    <3>1. QED
      BY <1>7
  <2>3. datagrams'[d] = IF d \in dropped THEN [known[d] EXCEPT !.state = "freed"]
                                         ELSE known[d]
    BY <1>3
  <2>4. QED
    BY <2>2, <2>3
<1>10. /\ datagrams' \in Seq(Record) /\ DOMAIN datagrams' = DOMAIN known
       /\ Len(datagrams') = Len(datagrams) + 1
  <2>1. datagrams' \in [1 .. Len(datagrams) + 1 -> Record]
    BY <1>3, <1>7, <1>9
  <2> HIDE DEF Record
  <2>2. QED
    BY <1>4, <1>7, <2>1
<1>11. /\ used_connections' \in Seq(Connection)
       /\ Len(used_connections') = Len(used_connections)
       /\ DOMAIN used_connections' = DOMAIN used_connections
       /\ used_connections'[c] = later
       /\ \A i \in DOMAIN used_connections \ {c} : used_connections'[i] = used_connections[i]
  BY <1>1, <1>2, <1>3, <1>6 DEF later
<1>12. TypeOK'
  <2>1. \A i \in DOMAIN used_connections' : Counted(used_connections'[i])
    BY <1>6, <1>11, TypeOKSplit DEF IInv
  <2>2. Len(used_connections') =< ConnectionCount /\ crashed' \in BOOLEAN
    BY <1>2, <1>11 DEF IInv, TypeOK
  <2>3. QED
    BY <1>10, <1>11, <2>1, <2>2 DEF TypeOK, Numbers, Connection, ConnectionsOf, Counted
<1>13. \A d \in DOMAIN datagrams : d \in DOMAIN datagrams' /\ datagrams'[d].port = datagrams[d].port
  BY <1>4, <1>7, <1>9, <1>10
<1>14. Datagram \in DOMAIN datagrams' /\ datagrams'[Datagram].port = port
  BY <1>4, <1>7, <1>8, <1>9, <1>10
<1>15. QueuesLinked'
  <2>1. SUFFICES ASSUME NEW i \in DOMAIN used_connections
                 PROVE  /\ IsInjective(used_connections'[i].packet_queue)
                        /\ \A d \in Range(used_connections'[i].packet_queue) :
                             /\ d \in DOMAIN datagrams'
                             /\ datagrams'[d].port = used_connections'[i].port
    BY <1>11 DEF QueuesLinked
  <2>2. CASE i = c
    BY <1>1, <1>6, <1>11, <1>13, <1>14, <2>2 DEF IInv, QueuesLinked, conn
  <2>3. CASE i # c
    BY <1>11, <1>13, <2>3 DEF IInv, QueuesLinked
  <2>4. QED
    BY <2>2, <2>3
<1>16. \A d : Places(d)' = (Places(d) \ {c}) \cup
                           (IF d \in Range(later.packet_queue) THEN {c} ELSE {})
  BY <1>1, <1>11 DEF Places
<1>17. Places(Datagram) = {}
  BY <1>4 DEF IInv, QueuesLinked, Places
<1>18. PlacedOnce'
  <2>1. SUFFICES ASSUME NEW d \in DOMAIN known
                 PROVE  IF datagrams'[d].state = "queued"
                        THEN \E i \in Places(d)' : Places(d)' = {i}
                        ELSE Places(d)' = {}
    BY <1>10 DEF PlacedOnce, Places
  <2>2. CASE d \in dropped
    <3>1. Places(d) \subseteq {c}
      BY <1>1, <1>6, <1>17, <2>2, OnlyPlace DEF conn
    <3>2. Places(d)' = {}
      BY <1>6, <1>16, <2>2, <3>1
    <3>3. QED
      BY <1>9, <2>2, <3>2
  <2>3. CASE d \notin dropped /\ d = Datagram
    <3>1. Places(d)' = {c}
      BY <1>6, <1>16, <1>17, <2>3
    <3>2. QED
      BY <1>7, <1>8, <1>9, <2>3, <3>1
  <2>4. CASE d \notin dropped /\ d # Datagram
    <3>1. d \in DOMAIN datagrams /\ datagrams'[d] = datagrams[d]
      BY <1>4, <1>7, <1>9, <2>4
    <3>2. d \in Range(later.packet_queue) <=> c \in Places(d)
      BY <1>1, <1>6, <2>4 DEF Places, conn
    <3>3. Places(d)' = Places(d)
      BY <1>16, <3>2
    <3>4. QED
      BY <3>1, <3>3 DEF IInv, PlacedOnce
  <2>5. QED
    BY <2>2, <2>3, <2>4
<1>19. Len(datagrams') =< MaxDatagrams
  BY <1>4, <1>10, UdpAssumption
<1>20. QED
  BY <1>12, <1>15, <1>18, <1>19 DEF IInv

\* udp_receive and udp_receive_zero_copy.
LEMMA UdpReceivePreserves ==
  ASSUME IInv, NEW port \in Ports, UdpReceive(port)
  PROVE  IInv'
<1> DEFINE c      == FindConnection(used_connections, port)
           conn   == used_connections[c]
           first  == Head(conn.packet_queue)
           later  == Dequeued(conn)
           Record == [port : Ports, state : {"queued", "freed", "received"}]
<1>1. /\ c \in DOMAIN used_connections /\ conn.port = port /\ conn.packet_count # 0
      /\ conn \in Connection /\ Counted(conn) /\ IsInjective(conn.packet_queue)
  BY Found, InTable DEF UdpReceive, HasPacket, IInv, QueuesLinked
<1>2. /\ used_connections \in Seq(Connection) /\ datagrams \in Seq(Record)
      /\ UNCHANGED crashed
      /\ used_connections' = [used_connections EXCEPT ![c] = later]
      /\ datagrams' = [datagrams EXCEPT ![first].state = "received"]
  BY TypeOKSplit DEF IInv, UdpReceive, WithoutFirst, FirstPacket
<1>3. /\ later \in Connection /\ Counted(later) /\ later.port = port
      /\ IsInjective(later.packet_queue) /\ first \in Range(conn.packet_queue)
      /\ Range(later.packet_queue) = Range(conn.packet_queue) \ {first}
  <2> HIDE DEF conn
  <2>1. QED
    BY <1>1, DequeuedQueue DEF Connection
<1> HIDE DEF c, later
<1>4. /\ first \in DOMAIN datagrams /\ datagrams[first].state = "queued"
      /\ Places(first) = {c}
  BY <1>1, <1>3, OnlyPlace
<1> HIDE DEF conn, first
<1>5. /\ used_connections' \in Seq(Connection)
      /\ Len(used_connections') = Len(used_connections)
      /\ DOMAIN used_connections' = DOMAIN used_connections
      /\ used_connections'[c] = later
      /\ \A i \in DOMAIN used_connections \ {c} : used_connections'[i] = used_connections[i]
  BY <1>1, <1>2, <1>3
<1>6. /\ datagrams' \in Seq(Record) /\ Len(datagrams') = Len(datagrams)
      /\ DOMAIN datagrams' = DOMAIN datagrams
      /\ datagrams'[first].port = datagrams[first].port
      /\ datagrams'[first].state = "received"
      /\ \A d \in DOMAIN datagrams \ {first} : datagrams'[d] = datagrams[d]
  <2> DEFINE new == [datagrams[first] EXCEPT !.state = "received"]
  <2>1. datagrams[first] \in Record
    <3> HIDE DEF Record
    <3>1. QED
      BY <1>2, <1>4
  <2>2. new \in Record /\ new.port = datagrams[first].port /\ new.state = "received"
    BY <2>1
  <2>3. datagrams' = [datagrams EXCEPT ![first] = new]
    BY <1>2
  <2> HIDE DEF new, Record
  <2>4. QED
    BY <1>2, <1>4, <2>2, <2>3
<1>7. TypeOK'
  <2>1. \A i \in DOMAIN used_connections' : Counted(used_connections'[i])
    BY <1>3, <1>5, TypeOKSplit DEF IInv
  <2>2. Len(used_connections') =< ConnectionCount /\ crashed' \in BOOLEAN
    BY <1>2, <1>5 DEF IInv, TypeOK
  <2>3. QED
    BY <1>5, <1>6, <2>1, <2>2 DEF TypeOK, Numbers, Connection, ConnectionsOf, Counted
<1>8. QueuesLinked'
  <2>1. \A d \in DOMAIN datagrams : datagrams'[d].port = datagrams[d].port
    BY <1>6
  <2>2. SUFFICES ASSUME NEW i \in DOMAIN used_connections
                 PROVE  /\ IsInjective(used_connections'[i].packet_queue)
                        /\ \A d \in Range(used_connections'[i].packet_queue) :
                             /\ d \in DOMAIN datagrams'
                             /\ datagrams'[d].port = used_connections'[i].port
    BY <1>5 DEF QueuesLinked
  <2>3. CASE i = c
    BY <1>1, <1>3, <1>5, <1>6, <2>1, <2>3 DEF IInv, QueuesLinked, conn
  <2>4. CASE i # c
    BY <1>5, <1>6, <2>1, <2>4 DEF IInv, QueuesLinked
  <2>5. QED
    BY <2>3, <2>4
<1>9. \A d : Places(d)' = (Places(d) \ {c}) \cup
                          (IF d \in Range(later.packet_queue) THEN {c} ELSE {})
  BY <1>1, <1>5 DEF Places
<1>10. PlacedOnce'
  <2>1. SUFFICES ASSUME NEW d \in DOMAIN datagrams
                 PROVE  IF datagrams'[d].state = "queued"
                        THEN \E i \in Places(d)' : Places(d)' = {i}
                        ELSE Places(d)' = {}
    BY <1>6 DEF PlacedOnce, Places
  <2>2. CASE d = first
    <3>1. Places(d)' = {}
      BY <1>3, <1>4, <1>9, <2>2
    <3>2. QED
      BY <1>6, <2>2, <3>1
  <2>3. CASE d # first
    <3>1. d \in Range(later.packet_queue) <=> c \in Places(d)
      BY <1>1, <1>3, <2>3 DEF Places, conn
    <3>2. Places(d)' = Places(d)
      BY <1>9, <3>1
    <3>3. QED
      BY <1>6, <2>3, <3>2 DEF IInv, PlacedOnce
  <2>4. QED
    BY <2>2, <2>3
<1>11. QED
  BY <1>6, <1>7, <1>8, <1>10 DEF IInv

\* Every call of udp.c keeps the invariant.
LEMMA NextIInv == IInv /\ [Next]_vars => IInv'
<1> SUFFICES ASSUME IInv, [Next]_vars PROVE IInv'
  OBVIOUS
<1>1. ASSUME NEW port \in Ports, HandleUdp(port) PROVE IInv'
  BY <1>1, HandleUdpFreesPreserves, HandleUdpQueuesPreserves DEF HandleUdp
<1>2. CASE UdpListenCrashes
  BY <1>2 DEF UdpListenCrashes, IInv, TypeOK, QueuesLinked, PlacedOnce, Places
<1>3. CASE UNCHANGED vars
  BY <1>3 DEF vars, IInv, TypeOK, QueuesLinked, PlacedOnce, Places
<1>4. QED
  BY <1>1, <1>2, <1>3, UdpListenPreserves, UdpReceivePreserves DEF Next

\* The invariant, of every behaviour.
LEMMA Invariance == Spec => []IInv
BY InitIInv, NextIInv, PTL DEF Spec

-----------------------------------------------------------------------------

\* The table never has more connections than there are, and every packet_count
\* is the length of its queue and within its limit.
THEOREM TypeCorrect == Spec => []TypeOK
<1>1. IInv => TypeOK
  BY DEF IInv
<1>2. QED
  BY <1>1, Invariance, PTL

\* handle_udp and udp_receive neither leak a packet nor free one that is still
\* linked: a datagram is in exactly one queue, of its own port, or it was freed
\* or received, once.
THEOREM NoDatagramLost == Spec => []DatagramsAccounted
<1>1. IInv => DatagramsAccounted
  <2> SUFFICES ASSUME IInv PROVE DatagramsAccounted
    OBVIOUS
  <2>1. \A d \in DOMAIN datagrams :
          Cardinality(Places(d)) = IF datagrams[d].state = "queued" THEN 1 ELSE 0
    <3> SUFFICES ASSUME NEW d \in DOMAIN datagrams
                 PROVE  Cardinality(Places(d)) =
                          IF datagrams[d].state = "queued" THEN 1 ELSE 0
      OBVIOUS
    <3>1. CASE datagrams[d].state = "queued"
      <4>1. PICK i \in Places(d) : Places(d) = {i}
        BY <3>1 DEF IInv, PlacedOnce
      <4>2. QED
        BY <3>1, <4>1, FS_Singleton
    <3>2. CASE datagrams[d].state # "queued"
      BY <3>2, FS_EmptySet DEF IInv, PlacedOnce
    <3>3. QED
      BY <3>1, <3>2
  <2>2. QED
    BY <2>1 DEF IInv, QueuesLinked, DatagramsAccounted
<1>2. QED
  BY <1>1, Invariance, PTL

-----------------------------------------------------------------------------
(* Each port is a mailbox. *)

\* A step of the table that leaves the connection of a port where it is, and
\* its queue as it is, does nothing to the mailbox.
LEMMA OtherPortKept ==
  ASSUME NEW port,
         LET c == FindConnection(used_connections, port)
             d == FindConnection(used_connections, port)'
         IN  /\ c = 0 <=> d = 0
             /\ c # 0 => used_connections'[d] = used_connections[c]
  PROVE  UNCHANGED <<PortQueue(port), PortCapacity(port)>>
BY DEF PortQueue, PortCapacity

\* udp_listen opens the mailbox of its port and touches no other.
LEMMA UdpListenOpens ==
  ASSUME IInv, NEW port \in Ports, NEW max \in MaxCounts, UdpListen(port, max),
         NEW other \in Ports
  PROVE  Box(other)!Next \/ UNCHANGED <<PortQueue(other), PortCapacity(other)>>
<1> DEFINE c == FindConnection(used_connections, other)
           later == used_connections'
<1>1. /\ used_connections \in Seq(Connection)
      /\ later = Listening(used_connections, port, max)
  BY TypeOKSplit DEF IInv, UdpListen
<1>2. NewConnection(port, max) \in Connection
  BY UdpAssumption, NewConnectionCounted DEF Connection
<1>3. /\ later[1] = NewConnection(port, max)
      /\ \A i \in 1 .. Len(used_connections) : later[i + 1] = used_connections[i]
  BY <1>1, <1>2, ListeningShifts
<1>4. FindConnection(later, other) = IF other = port THEN 1
                                     ELSE IF c = 0 THEN 0 ELSE c + 1
  BY <1>1, <1>2, ListeningFinds
<1>5. CASE other = port
  <2>1. PortQueue(other)' = <<>> /\ PortCapacity(other)' = max
    BY <1>3, <1>4, <1>5 DEF PortQueue, PortCapacity, NewConnection
  <2>2. QED
    BY <2>1 DEF Box!Next, Box!Open
<1>6. CASE other # port
  <2>1. c # 0 => c \in 1 .. Len(used_connections)
    BY <1>1, FindConnectionFinds
  <2>2. c # 0 => later[c + 1] = used_connections[c]
    BY <1>3, <2>1
  <2>3. c \in Nat
    BY <1>1, FindConnectionFinds
  <2>4. QED
    BY <1>4, <1>6, <2>2, <2>3, OtherPortKept
<1>7. QED
  BY <1>5, <1>6

\* A packet queued or taken leaves every connection in its place, with its port,
\* and all but one of them as they are.
LEMMA TrafficFinds ==
  ASSUME IInv, NEW c \in DOMAIN used_connections, NEW later \in Connection,
         later.port = used_connections[c].port,
         used_connections' = [used_connections EXCEPT ![c] = later],
         NEW other
  PROVE  /\ FindConnection(used_connections, other)' = FindConnection(used_connections, other)
         /\ used_connections'[c] = later
         /\ \A i \in DOMAIN used_connections \ {c} : used_connections'[i] = used_connections[i]
<1>1. used_connections \in Seq(Connection)
  BY TypeOKSplit DEF IInv
<1>2. /\ used_connections' \in Seq(Connection)
      /\ Len(used_connections') = Len(used_connections)
      /\ used_connections'[c] = later
      /\ \A i \in DOMAIN used_connections \ {c} : used_connections'[i] = used_connections[i]
  BY <1>1
<1>3. \A i \in 1 .. Len(used_connections) : used_connections'[i].port = used_connections[i].port
  BY <1>1, <1>2
<1>4. FindConnection(used_connections', other) = FindConnection(used_connections, other)
  BY <1>1, <1>2, <1>3, FindConnectionStable
<1>5. QED
  BY <1>2, <1>4

\* A port other than the one of a changed connection is served by another one.
LEMMA OtherTraffic ==
  ASSUME IInv, NEW port, FindConnection(used_connections, port) # 0,
         NEW later \in Connection, later.port = port,
         used_connections' =
           [used_connections EXCEPT ![FindConnection(used_connections, port)] = later],
         NEW other, other # port
  PROVE  UNCHANGED <<PortQueue(other), PortCapacity(other)>>
<1> DEFINE c == FindConnection(used_connections, port)
           d == FindConnection(used_connections, other)
<1>1. c \in DOMAIN used_connections /\ used_connections[c].port = port
  BY Found
<1>2. /\ FindConnection(used_connections, other)' = d
      /\ \A i \in DOMAIN used_connections \ {c} : used_connections'[i] = used_connections[i]
  <2> HIDE DEF c, d
  <2>1. used_connections' = [used_connections EXCEPT ![c] = later]
    BY DEF c
  <2>2. QED
    BY <1>1, <2>1, TrafficFinds DEF d
<1>3. d # 0 => d \in DOMAIN used_connections /\ d # c
  BY <1>1, Found
<1>4. QED
  BY <1>2, <1>3, OtherPortKept

\* A datagram that is queued arrives in the mailbox of its port.
LEMMA HandleUdpArrives ==
  ASSUME IInv, NEW port \in Ports, HandleUdpQueues(port), Len(datagrams) < MaxDatagrams,
         NEW other \in Ports
  PROVE  Box(other)!Next \/ UNCHANGED <<PortQueue(other), PortCapacity(other)>>
<1> DEFINE c     == FindConnection(used_connections, port)
           conn  == used_connections[c]
           later == Delivered(conn, Datagram)
<1>1. /\ c # 0 /\ c \in DOMAIN used_connections /\ conn.port = port
      /\ conn \in Connection /\ Counted(conn)
      /\ used_connections' = [used_connections EXCEPT ![c] = later]
  BY Found, InTable DEF HandleUdpQueues, WithPacket
<1>2. Datagram \in Numbers /\ Datagram \in 1 .. MaxDatagrams
  <2>1. Len(datagrams) \in Nat
    BY TypeOKSplit DEF IInv
  <2>2. QED
    BY <2>1, UdpAssumption DEF Datagram, Numbers
<1>3. /\ later \in Connection /\ later.port = port
      /\ later.max_packet_count = conn.max_packet_count
      /\ later.packet_queue = IF Len(conn.packet_queue) = conn.max_packet_count
                              THEN Tail(Append(conn.packet_queue, Datagram))
                              ELSE Append(conn.packet_queue, Datagram)
  <2> HIDE DEF conn
  <2>1. QED
    BY <1>1, <1>2, DeliveredQueue DEF Connection
<1>4. CASE other = port
  <2> HIDE DEF c, later
  <2>1. FindConnection(used_connections, port)' = c /\ used_connections'[c] = later
    BY <1>1, <1>3, TrafficFinds DEF c
  <2>2. /\ PortQueue(port) = conn.packet_queue /\ PortQueue(port)' = later.packet_queue
        /\ PortCapacity(port) = conn.max_packet_count
        /\ PortCapacity(port)' = later.max_packet_count
    BY <1>1, <2>1 DEF PortQueue, PortCapacity, c
  <2>3. conn.max_packet_count # -1
    BY <1>1 DEF Counted
  <2>4. Box(port)!Arrive(Datagram)
    BY <1>3, <2>2, <2>3 DEF Box!Arrive
  <2>5. QED
    BY <1>2, <1>4, <2>4 DEF Box!Next
<1>5. CASE other # port
  <2> HIDE DEF later
  <2>1. QED
    BY <1>1, <1>3, <1>5, OtherTraffic
<1>6. QED
  BY <1>4, <1>5

\* udp_receive takes the oldest packet out of the mailbox of its port.
LEMMA UdpReceiveTakes ==
  ASSUME IInv, NEW port \in Ports, UdpReceive(port), NEW other \in Ports
  PROVE  Box(other)!Next \/ UNCHANGED <<PortQueue(other), PortCapacity(other)>>
<1> DEFINE c     == FindConnection(used_connections, port)
           conn  == used_connections[c]
           later == Dequeued(conn)
<1>1. /\ c # 0 /\ c \in DOMAIN used_connections /\ conn.port = port
      /\ conn \in Connection /\ Counted(conn) /\ conn.packet_count # 0
      /\ used_connections' = [used_connections EXCEPT ![c] = later]
  BY Found, InTable DEF UdpReceive, HasPacket, WithoutFirst
<1>2. /\ later \in Connection /\ later.port = port
      /\ later.max_packet_count = conn.max_packet_count
      /\ conn.packet_queue # <<>> /\ later.packet_queue = Tail(conn.packet_queue)
  <2> HIDE DEF conn
  <2>1. QED
    BY <1>1, DequeuedQueue DEF Connection
<1>3. CASE other = port
  <2> HIDE DEF c, later
  <2>1. FindConnection(used_connections, port)' = c /\ used_connections'[c] = later
    BY <1>1, <1>2, TrafficFinds DEF c
  <2>2. /\ PortQueue(port) = conn.packet_queue /\ PortQueue(port)' = later.packet_queue
        /\ PortCapacity(port) = conn.max_packet_count
        /\ PortCapacity(port)' = later.max_packet_count
    BY <1>1, <2>1 DEF PortQueue, PortCapacity, c
  <2>3. Box(port)!Take
    BY <1>2, <2>2 DEF Box!Take
  <2>4. QED
    BY <1>3, <2>3 DEF Box!Next
<1>4. CASE other # port
  <2> HIDE DEF later
  <2>1. QED
    BY <1>1, <1>2, <1>4, OtherTraffic
<1>5. QED
  BY <1>3, <1>4

\* Before the first udp_listen no mailbox is open.
LEMMA InitMailboxes == Init => \A port \in Ports : Box(port)!Init
<1> SUFFICES ASSUME Init, NEW port \in Ports PROVE Box(port)!Init
  OBVIOUS
<1>1. used_connections = <<>> /\ <<>> \in Seq(Connection) /\ Len(<<>>) = 0
  BY DEF Init
<1>2. FindConnection(used_connections, port) \in 0 .. 0
  BY <1>1, FindConnectionFinds
<1>3. FindConnection(used_connections, port) = 0
  BY <1>2
<1>4. QED
  BY <1>3 DEF Box!Init, PortQueue, PortCapacity

\* udp.c implements a bounded mailbox for every port, however the connections
\* shadow each other and whatever the other ports do.
THEOREM MailboxPerPort == Spec => PortsAreMailboxes
<1>1. IInv /\ [Next]_vars =>
        [\A port \in Ports :
           Box(port)!Next \/ UNCHANGED <<PortQueue(port), PortCapacity(port)>>]_vars
  <2> SUFFICES ASSUME IInv, Next, NEW other \in Ports
               PROVE  Box(other)!Next \/ UNCHANGED <<PortQueue(other), PortCapacity(other)>>
    OBVIOUS
  <2>1. ASSUME UNCHANGED used_connections
        PROVE  UNCHANGED <<PortQueue(other), PortCapacity(other)>>
    BY <2>1 DEF PortQueue, PortCapacity
  <2>2. ASSUME NEW port \in Ports, HandleUdp(port)
        PROVE  Box(other)!Next \/ UNCHANGED <<PortQueue(other), PortCapacity(other)>>
    BY <2>1, <2>2, HandleUdpArrives DEF HandleUdp, HandleUdpFrees
  <2>3. CASE UdpListenCrashes
    BY <2>1, <2>3 DEF UdpListenCrashes
  <2>4. QED
    BY <2>2, <2>3, UdpListenOpens, UdpReceiveTakes DEF Next
<1>2. QED
  BY <1>1, Invariance, InitMailboxes, PTL DEF Spec, PortsAreMailboxes
==============================================================================
