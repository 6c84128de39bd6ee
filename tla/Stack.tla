-------------------------------- MODULE Stack --------------------------------
(***************************************************************************)
(* The way of a packet through the whole stack: network_task of            *)
(* src/network.c and the handlers and senders of mac.c, ip.c, icmp.c,      *)
(* udp.c and arp.c, called by the application and by the DHCP and TFTP     *)
(* clients, over the packet pool and the descriptor rings of Gmac.         *)
(*                                                                         *)
(* The software is one thread.  Its control state is `calls`, the calls    *)
(* that remain to be made or finished, the innermost first: a step takes   *)
(* the first one, changes the pool or the rings by at most one action of   *)
(* Gmac, and puts what the call does next in its place.  The DMA engine    *)
(* runs between any two steps.  A packet in the hands of a call is a field *)
(* of that call.                                                           *)
(*                                                                         *)
(* What a frame holds is chosen when a handler reads it, what a timer says *)
(* when it is asked.  The connections are open from the start.  The ARP    *)
(* table is the one of Arp, without MAC addresses and times.  A call that  *)
(* gets to a `while (1);` - a transmit error, an allocation from an empty  *)
(* pool - sets `halted`, and the software takes no further step.           *)
(***************************************************************************)
EXTENDS Gmac, UdpQueues, IntrusiveLists

CONSTANTS
  Hosts,           \* the unicast addresses packets are sent to
  Everybody,       \* the addresses should_broadcast says yes to
  NONE,            \* the address of an entry that was never used
  MaxQueueSize,    \* ARP_ENTRY_MAX_QUEUE_SIZE
  DhcpPort,        \* DHCP_CLIENT_PORT
  TftpPort,        \* TFTP_CLIENT_PORT, and any port the application reads
  MaxPacketCount,  \* what TftpPort was opened with; dhcp_start says 1
  HeaderLengths,   \* the field header_length of the IP headers on the wire
  HeaderSize,      \* NETWORK_PACKET_HEADER_SIZE
  DatagramSizes    \* "short" for less than a TFTP opcode, "enough" for the rest

MacHeader == 14   \* sizeof(MacHeader), and so on
IpHeader  == 20
UdpHeader == 8

\* The pool has a packet for every slot and every place in a queue that is kept
\* to its limit, one for the packet a call works on and one for the packet it
\* needs meanwhile; all the headers of a datagram fit in front of its data.  The
\* length of an IP header is a field of four bits, which nothing checks.
ASSUME StackAssumption ==
  /\ {Everybody, NONE} \cap Hosts = {}
  /\ MaxQueueSize \in Nat \ {0} /\ MaxPacketCount \in Nat \ {0}
  /\ DhcpPort # TftpPort
  /\ HeaderLengths \subseteq 0 .. 15
  /\ HeaderSize \in Nat /\ HeaderSize >= MacHeader + IpHeader + UdpHeader
  /\ DatagramSizes \subseteq {"short", "enough"}
  /\ PacketCount >= TxCount + RxCount + Cardinality(Entries) * MaxQueueSize
                      + MaxPacketCount + 1 + 2

VARIABLES
  calls,         \* what the software has yet to do
  links,         \* the pointers of the list nodes of the ARP entries
  arp_entries,
  connections,   \* used_connections
  index          \* packet->index: where the data of each packet starts

layers    == <<links, arp_entries, connections>>
stackVars == <<vars, calls, layers, index>>

-----------------------------------------------------------------------------
(* Calls. *)

Call(name)              == [call |-> name]
With(name, packet)      == [call |-> name, packet |-> packet]
IpSend(packet, ip)      == [call |-> "ip_send", packet |-> packet, ip |-> ip]
UdpSend(ip)             == [call |-> "udp_send", ip |-> ip]
OnEntry(name, entry)    == [call |-> name, entry |-> entry]
ArpSend(packet, ip, entry) ==
  [call |-> "arp_send", packet |-> packet, ip |-> ip, entry |-> entry]
Receiving(left)         == [call |-> "network_task", left |-> left]
ArpTaskAt(node)         == [call |-> "arp_task_at", node |-> node]

Runs(name) == ~halted /\ calls # <<>> /\ Head(calls).call = name
Current    == Head(calls)
Continues(next) == calls' = next \o Tail(calls)
Returns    == Continues(<<>>)

Driver(action) == action /\ UNCHANGED <<layers, index>>
NoDriver       == UNCHANGED vars

\* A header of `size` bytes is stripped (or, if negative, put in front).
Moved(packet, size) == index' = [index EXCEPT ![packet] = @ + size]

\* A zeroed entry of the static array.
ZeroEntry == [ip |-> NONE, contain_valid_mapping |-> FALSE,
              packet_queue |-> <<>>, packet_count |-> 0]

StackInit ==
  /\ Init
  /\ calls = <<>>
  /\ \E order \in SetToSeqs(Entries) : links = ListOf(Nodes, order, FREE)
  /\ arp_entries = [e \in Entries |-> ZeroEntry]
  /\ connections = <<NewConnection(TftpPort, MaxPacketCount), NewConnection(DhcpPort, 1)>>
  /\ index = [p \in Packets |-> HeaderSize]

-----------------------------------------------------------------------------
(* Sending. *)

\* allocate_network_packet, for a message of the protocol that calls it: the
\* data starts at `start`, and the call `next` is made with the packet.
Allocates(name, packet, start, next) ==
  /\ Runs(name)
  /\ IF free_network_packets = <<>>
     THEN AllocateHangs /\ UNCHANGED <<calls, index>>
     ELSE /\ packet = Head(free_network_packets) /\ Allocate
          /\ index' = [index EXCEPT ![packet] = start]
          /\ Continues(<<next>>)
  /\ UNCHANGED layers

\* udp_send and what the clients send: udp_send_zero_copy on a new packet.
UdpSends ==
  \E packet \in Packets :
    Allocates("udp_send", packet, HeaderSize - UdpHeader, IpSend(packet, Current.ip))

SendsArpPacket ==
  \E packet \in Packets :
    Allocates("send_arp_packet", packet, HeaderSize, With("mac_send", packet))

\* mac_send and gmac_send, which a transmit error never lets return.
MacSends ==
  /\ Runs("mac_send")
  /\ Moved(Current.packet, -MacHeader)
  /\ \/ (SendDrops(Current.packet) \/ SendLinks(Current.packet)) /\ Returns
     \/ SendHangs(Current.packet) /\ Continues(<<With("gmac_send", Current.packet)>>)
  /\ UNCHANGED layers

\* ip_send up to the decision where to.
IpSends(ip) ==
  /\ Runs("ip_send") /\ Current.ip = ip
  /\ Moved(Current.packet, -IpHeader)

\* Where find_arp_entry stops: at an entry, at USED when there is none for ip.
\* FREE is a walk that strayed into the other list, NONE a walk without end.
Find(ip) ==
  LET visit == Visits(links, USED)
      stops == {k \in DOMAIN visit : \/ visit[k] \in {FREE, USED}
                                     \/ arp_entries[visit[k]].ip = ip}
  IN  IF stops = {} THEN NONE ELSE visit[Min(stops)]

Mapped(ip)  == Find(ip) \in Entries /\ arp_entries[Find(ip)].contain_valid_mapping
Awaited(ip) == Find(ip) \in Entries /\ ~arp_entries[Find(ip)].contain_valid_mapping

IpSendsAtOnce(ip) ==
  /\ IpSends(ip)
  /\ ip \in Hosts => Mapped(ip)
  /\ Continues(<<With("mac_send", Current.packet)>>)
  /\ NoDriver /\ UNCHANGED layers

FullNever(entry) == FALSE   \* mutant: the size of the queue is not limited

Full(entry) == entry.packet_count = MaxQueueSize

Queued(entry, packet) ==
  IF Full(entry)
  THEN [entry EXCEPT !.packet_queue = Append(Tail(@), packet)]
  ELSE [entry EXCEPT !.packet_queue = Append(@, packet), !.packet_count = @ + 1]

\* arp_send while the mapping is awaited; a full queue loses its first packet.
IpSendWaits(ip) ==
  /\ IpSends(ip)
  /\ ip \in Hosts /\ Awaited(ip)
  /\ LET entry == arp_entries[Find(ip)] IN
     /\ IF Full(entry) THEN Free(Head(entry.packet_queue)) ELSE NoDriver
     /\ arp_entries' = [arp_entries EXCEPT ![Find(ip)] = Queued(entry, Current.packet)]
  /\ Returns
  /\ UNCHANGED <<links, connections>>

\* arp_send to a new address, up to the entry that allocate_entry takes off the
\* free list or, when there is none, frees for it.
IpSendAsks(ip) ==
  /\ IpSends(ip)
  /\ ip \in Hosts /\ Find(ip) = USED
  /\ LET entry  == ListFirst(links, IF ListIsEmpty(links, FREE) THEN USED ELSE FREE)
         queues == ArpSend(Current.packet, ip, entry)
     IN  /\ entry \in Entries
         /\ IF ListIsEmpty(links, FREE)
            THEN Continues(<<OnEntry("free_entry", entry), queues>>) /\ UNCHANGED links
            ELSE Continues(<<queues>>) /\ links' = ListRemove(links, entry)
  /\ NoDriver /\ UNCHANGED <<arp_entries, connections>>

\* The queue of the entry is not emptied here: it is expected to be empty.
SetUp(entry, ip, packet) ==
  [ip |-> ip, contain_valid_mapping |-> FALSE,
   packet_queue |-> Append(entry.packet_queue, packet), packet_count |-> 1]

\* The rest of allocate_entry and of arp_send.
ArpSendQueues ==
  /\ Runs("arp_send")
  /\ links' = ListAddLast(links, Current.entry, USED)
  /\ arp_entries' = [arp_entries EXCEPT ![Current.entry] =
                       SetUp(@, Current.ip, Current.packet)]
  /\ Continues(<<Call("send_arp_packet")>>)
  /\ NoDriver /\ UNCHANGED <<connections, index>>

-----------------------------------------------------------------------------
(* network_task and the handlers. *)

\* The header of one layer was fine: the packet goes to the next.
PassesUnmoved(name, next, size) ==   \* mutant: the header is not skipped
  /\ Runs(name)
  /\ Continues(<<With(next, Current.packet)>>)
  /\ NoDriver /\ UNCHANGED <<layers, index>>

Passes(name, next, size) ==
  /\ Runs(name)
  /\ Moved(Current.packet, size)
  /\ Continues(<<With(next, Current.packet)>>)
  /\ NoDriver /\ UNCHANGED layers

\* It is too short, wrong, not for us or of an unknown kind.
DropsKept(name) ==   \* mutant: a handler returns without freeing the packet
  Runs(name) /\ Returns /\ Driver(NoDriver)

Drops(name) == Runs(name) /\ Returns /\ Driver(Free(Current.packet))

\* gmac_receive returns a packet, if it gets one for the ring.
NetworkTaskReceives ==
  /\ Runs("network_task") /\ Current.left > 0
  /\ IF free_network_packets = <<>>
     THEN ReceiveHangs /\ UNCHANGED <<calls, index>>
     ELSE /\ ReceiveFrame
          /\ index' = [index EXCEPT ![rx_packets[rx_index]] = 0,
                                    ![Head(free_network_packets)] = HeaderSize]
          /\ Continues(<<With("handle_mac", rx_packets[rx_index]),
                         Receiving(Current.left - 1)>>)
  /\ UNCHANGED layers

\* gmac_receive returned 0, after giving back part of a frame or not.
NetworkTaskBreaks ==
  /\ Runs("network_task")
  /\ \/ Current.left = 0 /\ NoDriver
     \/ Current.left > 0 /\ rx_descriptors[rx_index].owner = "GMAC" /\ NoDriver
     \/ Current.left > 0 /\ ReceiveDropsFragment
  /\ Returns
  /\ UNCHANGED <<layers, index>>

HandleMac ==
  \/ Drops("handle_mac")
  \/ Passes("handle_mac", "handle_arp", MacHeader)
  \/ Passes("handle_mac", "handle_ip", MacHeader)

HandleIp ==
  \/ Drops("handle_ip")
  \/ \E length \in HeaderLengths : \/ Passes("handle_ip", "handle_udp", 4 * length)
                                   \/ Passes("handle_ip", "handle_icmp", 4 * length)

\* The packet of a ping goes back to its sender.
HandleIcmp ==
  \/ Drops("handle_icmp")
  \/ \E ip \in Hosts \cup {Everybody} :
       /\ Runs("handle_icmp")
       /\ Continues(<<IpSend(Current.packet, ip)>>)
       /\ NoDriver /\ UNCHANGED <<layers, index>>

HandleUdp ==
  \/ Drops("handle_udp")
  \/ \E port \in {DhcpPort, TftpPort} :
       /\ Runs("handle_udp")
       /\ LET connection == connections[FindConnection(connections, port)]
              oldest     == Head(Append(connection.packet_queue, Current.packet))
          IN  IF Overflows(connection) THEN Free(oldest) ELSE NoDriver
       /\ connections' = WithPacket(connections, port, Current.packet)
       /\ Moved(Current.packet, UdpHeader)
       /\ Returns
       /\ UNCHANGED <<links, arp_entries>>

\* A reply that resolves an address, a request for ours, and all the others.
HandleArp ==
  \/ Drops("handle_arp")
  \/ \E ip \in Hosts :
       /\ Runs("handle_arp")
       /\ Awaited(ip)
       /\ arp_entries' = [arp_entries EXCEPT ![Find(ip)].contain_valid_mapping = TRUE]
       /\ Continues(<<OnEntry("send_packets_on_entry", Find(ip)),
                      With("free", Current.packet)>>)
       /\ NoDriver /\ UNCHANGED <<links, connections, index>>
  \/ /\ Runs("handle_arp")
     /\ Continues(<<Call("send_arp_packet"), With("free", Current.packet)>>)
     /\ NoDriver /\ UNCHANGED <<layers, index>>

FreePacket == Drops("free")

\* packet_count stays what it was.
SendPacketsOnEntry ==
  /\ Runs("send_packets_on_entry")
  /\ LET queue == arp_entries[Current.entry].packet_queue IN
     IF queue = <<>>
     THEN Returns /\ UNCHANGED arp_entries
     ELSE /\ calls' = <<With("mac_send", Head(queue))>> \o calls
          /\ arp_entries' = [arp_entries EXCEPT ![Current.entry].packet_queue = Tail(@)]
  /\ NoDriver /\ UNCHANGED <<links, connections, index>>

FreeLinksForgets(node) == ListRemove(links, node)   \* mutant: not put on the free list

FreeLinks(node) == ListAddFirst(ListRemove(links, node), node, FREE)

FreeEntry ==
  /\ Runs("free_entry")
  /\ LET queue == arp_entries[Current.entry].packet_queue IN
     IF queue = <<>>
     THEN /\ Returns
          /\ links' = FreeLinks(Current.entry)
          /\ NoDriver /\ UNCHANGED arp_entries
     ELSE /\ Free(Head(queue))
          /\ arp_entries' = [arp_entries EXCEPT ![Current.entry] = Dequeued(@)]
          /\ UNCHANGED <<calls, links>>
  /\ UNCHANGED <<connections, index>>

\* arp_task comes to one entry after the other.  The next one is looked up
\* before this one is freed, left alone or, if it has no mapping, asked for again.
ArpTaskStarts ==
  /\ Runs("arp_task")
  /\ Continues(<<ArpTaskAt(ListFirst(links, USED))>>)
  /\ NoDriver /\ UNCHANGED <<layers, index>>

NextStays(node) == node   \* mutant: the walk does not advance

NextNode(node) == links.next[node]

ArpTaskVisits ==
  /\ Runs("arp_task_at")
  /\ \/ Current.node = USED /\ Returns
     \/ /\ Current.node \in Entries
        /\ LET later == ArpTaskAt(NextNode(Current.node)) IN
           \/ Continues(<<later>>)
           \/ Continues(<<OnEntry("free_entry", Current.node), later>>)
           \/ /\ ~arp_entries[Current.node].contain_valid_mapping
              /\ Continues(<<Call("send_arp_packet"), later>>)
  /\ NoDriver /\ UNCHANGED <<layers, index>>

-----------------------------------------------------------------------------
(* The clients and the application. *)

\* Outside DISCOVER, REQUESTING and RENEWING dhcp_task looks at no packet.
DhcpTask ==
  /\ Runs("dhcp_task")
  /\ \/ Returns
     \/ Continues(<<Call("dhcp_read")>>)
     \/ Continues(<<UdpSend(Everybody), Call("dhcp_read")>>)
  /\ NoDriver /\ UNCHANGED <<layers, index>>

\* udp_receive_zero_copy: a packet is taken out of a queue.
Takes(name, port) ==
  /\ Runs(name)
  /\ HasPacket(connections, port)
  /\ connections' = WithoutFirst(connections, port)
  /\ UNCHANGED <<links, arp_entries, index>>

ReadsNothing(name, port) ==
  /\ Runs(name)
  /\ ~HasPacket(connections, port)
  /\ Returns
  /\ Driver(NoDriver)

DhcpRead ==
  \/ ReadsNothing("dhcp_read", DhcpPort)
  \/ /\ Takes("dhcp_read", DhcpPort)
     /\ Free(FirstPacket(connections, DhcpPort))
     /\ Returns

\* try_read_oack, and udp_receive by the application.  try_read_oack takes a
\* short packet for none at all and does not free it.
TftpReadsOack ==
  \/ ReadsNothing("tftp_read", TftpPort)
  \/ \E size \in DatagramSizes :
       /\ Takes("tftp_read", TftpPort)
       /\ IF size = "short" THEN NoDriver ELSE Free(FirstPacket(connections, TftpPort))
       /\ Returns

\* try_read_data, and the ACK of the last block.  An error or a repeated ACK is
\* sent while the packet is in hand.
TftpReadsData ==
  \E ip \in Hosts :
    /\ Takes("tftp_read", TftpPort)
    /\ LET frees == With("free", FirstPacket(connections, TftpPort)) IN
       \/ Continues(<<frees>>)
       \/ Continues(<<frees, UdpSend(ip)>>)
       \/ Continues(<<UdpSend(ip), frees>>)
    /\ NoDriver

\* The main loop calls network_task, tftp_read (whose timer may have something
\* sent first), udp_receive or udp_send.
Application ==
  /\ ~halted /\ calls = <<>>
  /\ \/ calls' = <<Receiving(RxCount), Call("arp_task"), Call("dhcp_task")>>
     \/ calls' = <<Call("tftp_read")>>
     \/ \E ip \in Hosts : calls' = <<UdpSend(ip), Call("tftp_read")>>
     \/ \E ip \in Hosts \cup {Everybody} : calls' = <<UdpSend(ip)>>
  /\ NoDriver /\ UNCHANGED <<layers, index>>

-----------------------------------------------------------------------------

Step ==
  \/ UdpSends \/ SendsArpPacket \/ MacSends
  \/ \E ip \in Hosts \cup {Everybody} : IpSendsAtOnce(ip) \/ IpSendWaits(ip) \/ IpSendAsks(ip)
  \/ ArpSendQueues
  \/ NetworkTaskReceives \/ NetworkTaskBreaks
  \/ HandleMac \/ HandleIp \/ HandleIcmp \/ HandleUdp \/ HandleArp
  \/ FreePacket \/ SendPacketsOnEntry \/ FreeEntry \/ ArpTaskStarts \/ ArpTaskVisits
  \/ DhcpTask \/ DhcpRead \/ TftpReadsOack \/ TftpReadsData

Hardware == (DmaTransmit \/ DmaTransmitFails \/ DmaReceive) /\ UNCHANGED <<calls, layers, index>>

StackNext == Application \/ Step \/ Hardware

StackSpec == StackInit /\ [][StackNext]_stackVars

\* The processor goes on with the call it is in.
StackLive == StackSpec /\ WF_stackVars(Step)

-----------------------------------------------------------------------------

\* The calls in progress, the ARP table and the connections stay in their types,
\* and no connection has more packets than it may.
StackTypeOK ==
  /\ TypeOK
  /\ \A k \in DOMAIN calls :
       "packet" \in DOMAIN calls[k] => calls[k].packet \in Packets
  /\ links \in [next : [Nodes -> Nodes], prev : [Nodes -> Nodes]]
  /\ arp_entries \in [Entries -> [ip : Hosts \cup {NONE}, contain_valid_mapping : BOOLEAN,
                                  packet_queue : Seq(Packets), packet_count : Int]]
  /\ Len(connections) = 2
  /\ \A i \in 1 .. 2 :
       LET c == connections[i] IN
       /\ c.packet_queue \in Seq(Packets)
       /\ c.packet_count = Len(c.packet_queue) /\ c.packet_count =< c.max_packet_count
  /\ index \in [Packets -> Int]

\* The places in the software where a packet is.
Places(queue, packet) == {k \in DOMAIN queue : queue[k] = packet}

InCalls(packet) ==
  {<<"calls", k>> : k \in {k \in DOMAIN calls : /\ "packet" \in DOMAIN calls[k]
                                                /\ calls[k].packet = packet}}

InEntries(packet) ==
  UNION {{<<"arp", e, k>> : k \in Places(arp_entries[e].packet_queue, packet)} : e \in Entries}

InConnections(packet) ==
  UNION {{<<"udp", i, k>> : k \in Places(connections[i].packet_queue, packet)}
           : i \in DOMAIN connections}

Where(packet) == InCalls(packet) \cup InEntries(packet) \cup InConnections(packet)

\* Whoever is given a packet frees it, queues it or passes it on, once, on every
\* path of every handler: a packet that was taken from the pool or the receive
\* ring is always in exactly one place, and one that is back is in none.
NothingLeaked ==
  \A packet \in Packets :
    IF packet \in held THEN \E place \in Where(packet) : Where(packet) = {place}
                       ELSE Where(packet) = {}

\* An address that has no entry yet finds a free one: entries come back from
\* free_entry, and no address has two.  Holds with an entry for each address.
NothingEvicted ==
  Runs("ip_send") /\ Current.ip \in Hosts /\ Find(Current.ip) = USED
    => ~ListIsEmpty(links, FREE)

\* A call that is about to allocate finds a packet in the pool, however full
\* the rings and the queues are: allocate_network_packet never gets to its
\* `while (1);`.  Holds as long as nothing is evicted.
NeedsPacket ==
  \/ Runs("udp_send") \/ Runs("send_arp_packet")
  \/ /\ Runs("network_task") /\ Current.left > 0
     /\ rx_descriptors[rx_index].owner = "CPU" /\ WholeFrame(rx_descriptors[rx_index])

PoolSuffices == NeedsPacket => free_network_packets # <<>>

\* Headers are put in front of a packet within its buffer, whether it was
\* allocated for sending or came in, was stripped of its headers, and goes back.
HeaderRoom == \A packet \in held \cup Range(tx_packets) : index[packet] >= 0

\* Every call the application makes returns, unless a transmit error hangs it:
\* no other loop of the stack spins and nothing it waits for fails to come.
TaskReturns == calls # <<>> ~> (calls = <<>> \/ (halted /\ tsr_error))

-----------------------------------------------------------------------------

\* States that differ in the numbers of the packets only are the same to TLC.
\* While NothingLeaked holds, this is all that tells two states apart (that the
\* driver conserves packets is a theorem about Gmac).
Shape ==
  <<Len(free_network_packets), tx_index, tx_dma, [i \in TxSlots |-> tx_descriptors[i].owner],
    rx_index, rx_dma, mid_frame, buffers,
    [i \in RxSlots |-> <<rx_descriptors[i].owner, rx_descriptors[i].sof, rx_descriptors[i].eof>>],
    [k \in DOMAIN calls |-> IF "packet" \in DOMAIN calls[k]
                            THEN [calls[k] EXCEPT !.packet = index[@]] ELSE calls[k]],
    links,
    [e \in Entries |-> [arp_entries[e] EXCEPT !.packet_queue = [k \in DOMAIN @ |-> index[@[k]]]]],
    [i \in DOMAIN connections |-> Len(connections[i].packet_queue)],
    tsr_error, halted, NothingLeaked, HeaderRoom, PacketConservation>>
==============================================================================
