--------------------------------- MODULE Arp ---------------------------------
(***************************************************************************)
(* src/arp.c: the table of address mappings and the packets that wait in   *)
(* it for a mapping.                                                       *)
(*                                                                         *)
(* The code is called from one thread, so a call is one step, except       *)
(* arp_task: it is one step per entry, because get_time() is read again    *)
(* for every entry and the clock goes on meanwhile.                        *)
(*                                                                         *)
(* The entries are on the lists free_entries and used_entries, modelled    *)
(* with their pointers: an entry can come to be linked in both.  A MAC     *)
(* address is represented by the IP address of its owner; the network is   *)
(* honest, but loses, repeats and delays ARP frames freely.  A packet is   *)
(* the number of the arp_send call that brought it.                        *)
(***************************************************************************)
EXTENDS IntrusiveLists

CONSTANTS
  NONE,               \* no MAC address, no frame
  OurIp,              \* get_our_ip()
  Ips,                \* the addresses of the other hosts, as tuples of bytes
  MaxQueueSize,       \* ARP_ENTRY_MAX_QUEUE_SIZE
  RetryMaxCount,      \* ARP_RETRY_MAX_COUNT
  RetryInterval,      \* ARP_RETRY_INTERVAL, in clock ticks
  ExpirationInterval, \* ARP_ENTRY_EXPIRATION_INTERVAL, in clock ticks
  MaxSends            \* bound: calls of arp_send in one behaviour

ASSUME ArpAssumption ==
  /\ OurIp \notin Ips
  /\ MaxQueueSize \in Nat \ {0}
  /\ RetryMaxCount \in Nat
  /\ RetryInterval \in Nat /\ ExpirationInterval \in Nat
  /\ RetryInterval =< ExpirationInterval
  /\ MaxSends \in Nat

\* An age above both intervals is not told apart from a greater one.
Ages == 0 .. ExpirationInterval + 1

VARIABLES
  links,         \* the pointers of the list nodes
  arp_entries,   \* the entries; `age` is the time elapsed since entry->time
  cursor,        \* the entry arp_task looks at next, USED outside arp_task
  packets,       \* what became of each packet given to arp_send
  arp_out        \* the ARP frame sent in the last step, NONE if none was

vars == <<links, arp_entries, cursor, packets, arp_out>>

-----------------------------------------------------------------------------

\* A zeroed entry of the static array.
ZeroEntry == [ip |-> NONE, mac |-> NONE, contain_valid_mapping |-> FALSE, age |-> 0,
              retry_count |-> 0, packet_queue |-> <<>>, packet_count |-> 0]

\* arp_init adds the entries one by one in front of the free list.
Init ==
  /\ \E order \in SetToSeqs(Entries) : links = ListOf(Nodes, order, FREE)
  /\ arp_entries = [e \in Entries |-> ZeroEntry]
  /\ cursor = USED
  /\ packets = <<>>
  /\ arp_out = NONE

Fate(state, mac, numbers) ==
  [p \in DOMAIN packets |-> IF p \in numbers
                            THEN [packets[p] EXCEPT !.state = state, !.mac = mac]
                            ELSE packets[p]]

Request(ip) == [operation |-> "request", to |-> "everybody", target_ip |-> ip]

\* write_be32 on a value that was not read with read_be32: the bytes of the
\* header turned round, the processor being little-endian.
ByteSwap(ip) == Reverse(ip)

Reply(senders_mac, senders_ip) ==
  [operation |-> "reply", to |-> senders_mac, target_ip |-> ByteSwap(senders_ip)]

\* Where find_arp_entry stops: at an entry, at USED when there is none for ip.
\* FREE is a walk that strayed into the other list, NONE a walk without end.
FindFirst(ip) ==   \* mutant: the address of the entry is not compared
  ListFirst(links, USED)

Find(ip) ==
  LET visit == Visits(links, USED)
      stops == {k \in DOMAIN visit : \/ visit[k] \in {FREE, USED}
                                     \/ arp_entries[visit[k]].ip = ip}
  IN  IF stops = {} THEN NONE ELSE visit[Min(stops)]

Ready == cursor = USED

-----------------------------------------------------------------------------
(* arp_send *)

\* add_to_arp_entry_queue: a full queue gives up its least recent packet.
FullTooLate(entry) ==   \* mutant: off by one
  entry.packet_count > MaxQueueSize

Full(entry) == entry.packet_count = MaxQueueSize

QueueDrops(entry) == IF Full(entry) THEN {Head(entry.packet_queue)} ELSE {}

QueuedFirst(entry, packet) ==   \* mutant: the new packet goes to the front
  [entry EXCEPT
     !.packet_queue = <<packet>> \o (IF Full(entry) THEN Tail(@) ELSE @),
     !.packet_count = IF Full(entry) THEN @ ELSE @ + 1]

Queued(entry, packet) ==
  [entry EXCEPT
     !.packet_queue = Append(IF Full(entry) THEN Tail(@) ELSE @, packet),
     !.packet_count = IF Full(entry) THEN @ ELSE @ + 1]

Packet == Len(packets) + 1

NewPacket(ip) == [ip |-> ip, state |-> "queued", mac |-> NONE]

SendResolved(ip) ==
  /\ Find(ip) \in Entries
  /\ arp_entries[Find(ip)].contain_valid_mapping
  /\ packets' = Append(packets, [ip |-> ip, state |-> "sent",
                                 mac |-> arp_entries[Find(ip)].mac])
  /\ arp_out' = NONE
  /\ UNCHANGED <<links, arp_entries, cursor>>

SendWaits(ip) ==
  /\ Find(ip) \in Entries
  /\ LET entry == arp_entries[Find(ip)] IN
     /\ ~entry.contain_valid_mapping
     /\ arp_entries' = [arp_entries EXCEPT ![Find(ip)] = Queued(entry, Packet)]
     /\ packets' = Append(Fate("freed", NONE, QueueDrops(entry)), NewPacket(ip))
  /\ arp_out' = NONE
  /\ UNCHANGED <<links, cursor>>

\* The tail of allocate_entry and of arp_send.  The queue of the entry is not
\* emptied here: it is expected to be empty.
SetUp(entry, ip) ==
  Queued([entry EXCEPT !.contain_valid_mapping = FALSE, !.retry_count = 0,
                       !.packet_count = 0, !.ip = ip, !.age = 0], Packet)

SendAllocates(ip) ==
  /\ Find(ip) = USED
  /\ ~ListIsEmpty(links, FREE)
  /\ LET node == ListFirst(links, FREE) IN
     /\ node \in Entries
     /\ links' = ListAddLast(ListRemove(links, node), node, USED)
     /\ arp_entries' = [arp_entries EXCEPT ![node] = SetUp(@, ip)]
  /\ packets' = Append(packets, NewPacket(ip))
  /\ arp_out' = Request(ip)
  /\ UNCHANGED <<cursor>>

\* free_entry: what it does to the entry, and to the lists.
EmptiedNot(entry) ==   \* mutant: the packets are freed but stay linked
  entry

Emptied(entry) ==
  [entry EXCEPT !.packet_queue = <<>>,
                !.packet_count = @ - Len(entry.packet_queue)]

FreeLinksTwice(node) ==   \* mutant: the entry stays in the used list
  ListAddFirst(links, node, FREE)

FreeLinks(node) == ListAddFirst(ListRemove(links, node), node, FREE)

\* No free entry: the oldest used one is freed and used again.  It stays in
\* the list free_entries as well.
SendEvicts(ip) ==
  /\ Find(ip) = USED
  /\ ListIsEmpty(links, FREE)
  /\ LET node == ListFirst(links, USED) IN
     /\ node \in Entries
     /\ links' = ListAddLast(FreeLinks(node), node, USED)
     /\ arp_entries' = [arp_entries EXCEPT ![node] = SetUp(Emptied(@), ip)]
     /\ packets' = Append(Fate("freed", NONE, Range(arp_entries[node].packet_queue)),
                          NewPacket(ip))
  /\ arp_out' = Request(ip)
  /\ UNCHANGED <<cursor>>

ArpSend(ip) ==
  /\ Ready
  /\ Len(packets) < MaxSends
  /\ SendResolved(ip) \/ SendWaits(ip) \/ SendAllocates(ip) \/ SendEvicts(ip)

-----------------------------------------------------------------------------
(* handle_arp *)

\* A reply of the host `ip`: update_arp_mapping, only if not valid already.
HandleReply(ip, target_ip) ==
  /\ Ready
  /\ ip # target_ip /\ target_ip = OurIp
  /\ Find(ip) \in Entries
  /\ LET entry == arp_entries[Find(ip)] IN
     /\ ~entry.contain_valid_mapping
     /\ arp_entries' = [arp_entries EXCEPT ![Find(ip)] =
          [entry EXCEPT !.mac = ip, !.contain_valid_mapping = TRUE,
                        !.age = 0, !.packet_queue = <<>>]]
     /\ packets' = Fate("sent", ip, Range(entry.packet_queue))
  /\ arp_out' = NONE
  /\ UNCHANGED <<links, cursor>>

\* A request of the host `senders_ip`.  It teaches the table nothing.
HandleRequest(senders_ip, target_ip) ==
  /\ Ready
  /\ senders_ip # target_ip /\ target_ip = OurIp
  /\ arp_out' = Reply(senders_ip, senders_ip)
  /\ UNCHANGED <<links, arp_entries, cursor, packets>>

-----------------------------------------------------------------------------
(* arp_task and the clock *)

TaskStarts ==
  /\ Ready
  /\ ~ListIsEmpty(links, USED)
  /\ cursor' = ListFirst(links, USED)
  /\ arp_out' = NONE
  /\ UNCHANGED <<links, arp_entries, packets>>

\* The next node is read before the body of the loop runs.
TaskEntry ==
  /\ cursor \in Entries
  /\ cursor' = links.next[cursor]

ExpiredNever(entry) ==   \* mutant: off by one, no entry gives up
  IF entry.contain_valid_mapping
  THEN entry.age > ExpirationInterval
  ELSE entry.age > RetryInterval /\ entry.retry_count > RetryMaxCount

Expired(entry) ==
  IF entry.contain_valid_mapping
  THEN entry.age > ExpirationInterval
  ELSE entry.age > RetryInterval /\ entry.retry_count >= RetryMaxCount

RetryDueAlways(entry) ==   \* mutant: the retries are not limited
  ~entry.contain_valid_mapping /\ entry.age > RetryInterval

RetryDue(entry) ==
  /\ ~entry.contain_valid_mapping
  /\ entry.age > RetryInterval
  /\ entry.retry_count < RetryMaxCount

TaskFrees ==
  /\ TaskEntry
  /\ Expired(arp_entries[cursor])
  /\ links' = FreeLinks(cursor)
  /\ arp_entries' = [arp_entries EXCEPT ![cursor] = Emptied(@)]
  /\ packets' = Fate("freed", NONE, Range(arp_entries[cursor].packet_queue))
  /\ arp_out' = NONE

TaskRetries ==
  /\ TaskEntry
  /\ RetryDue(arp_entries[cursor])
  /\ arp_entries' = [arp_entries EXCEPT ![cursor].retry_count = @ + 1,
                                        ![cursor].age = 0]
  /\ arp_out' = Request(arp_entries[cursor].ip)
  /\ UNCHANGED <<links, packets>>

TaskPasses ==
  /\ TaskEntry
  /\ ~Expired(arp_entries[cursor]) /\ ~RetryDue(arp_entries[cursor])
  /\ arp_out' = NONE
  /\ UNCHANGED <<links, arp_entries, packets>>

ArpTask == TaskStarts \/ TaskFrees \/ TaskRetries \/ TaskPasses

Tick ==
  /\ arp_entries' = [e \in Entries |->
       [arp_entries[e] EXCEPT !.age = Min({@ + 1, ExpirationInterval + 1})]]
  /\ arp_out' = NONE
  /\ UNCHANGED <<links, cursor, packets>>

-----------------------------------------------------------------------------

Next ==
  \/ \E ip \in Ips : \/ ArpSend(ip)
                     \/ \E target_ip \in Ips \cup {OurIp} :
                          HandleReply(ip, target_ip) \/ HandleRequest(ip, target_ip)
  \/ ArpTask
  \/ Tick

Spec == Init /\ [][Next]_vars

\* The main loop keeps calling arp_task, and time goes on.
LiveSpec == Spec /\ WF_vars(ArpTask) /\ WF_vars(Tick)

-----------------------------------------------------------------------------

\* The pointers, the entries and the packets stay in their types.
TypeOK ==
  /\ links \in [next : [Nodes -> Nodes], prev : [Nodes -> Nodes]]
  /\ arp_entries \in [Entries ->
       [ip : Ips \cup {NONE}, mac : Ips \cup {NONE}, contain_valid_mapping : BOOLEAN,
        age : Ages, retry_count : 0 .. RetryMaxCount,
        packet_queue : Seq(1 .. MaxSends), packet_count : Int]]
  /\ cursor \in Nodes
  /\ packets \in Seq([ip : Ips, state : {"queued", "sent", "freed"},
                      mac : Ips \cup {NONE}])
  /\ Len(packets) =< MaxSends

UsedEntries == Elements(links, USED)

Waiting(e) == Range(arp_entries[e].packet_queue)

\* Each entry is on exactly one of the two lists, whose rings are closed, and
\* no address has two used entries: arp_send, handle_arp and arp_task can rely
\* on find_arp_entry.  Holds as long as nothing is evicted.
TableIntact ==
  /\ \A n \in Nodes : links.prev[links.next[n]] = n
  /\ UsedEntries \cap Elements(links, FREE) = {}
  /\ UsedEntries \cup Elements(links, FREE) = Entries
  /\ \A d, e \in UsedEntries : arp_entries[d].ip = arp_entries[e].ip => d = e

\* No list walk runs on forever or takes a list head for an ArpEntry, and
\* allocate_entry always gets hold of an entry - in spite of the entry that an
\* eviction leaves linked in both lists.
WalksStayInList ==
  /\ cursor # FREE
  /\ \A ip \in Ips :
       \/ Find(ip) \in Entries
       \/ /\ Find(ip) = USED
          /\ ListFirst(links, IF ListIsEmpty(links, FREE) THEN USED ELSE FREE) \in Entries

\* Only an unresolved entry has packets waiting, at least one and at most
\* ARP_ENTRY_MAX_QUEUE_SIZE, all of them for its address, and packet_count is
\* then their number (it is not, once the packets have been sent).
QueuesMatch ==
  \A e \in Entries :
    LET entry == arp_entries[e] IN
    IF e \in UsedEntries /\ ~entry.contain_valid_mapping
    THEN /\ entry.packet_count = Len(entry.packet_queue)
         /\ entry.packet_count \in 1 .. MaxQueueSize
         /\ \A p \in Waiting(e) : packets[p].ip = entry.ip
    ELSE entry.packet_queue = <<>>

\* A packet that is neither sent nor freed is in exactly one queue, once; one
\* that was sent or freed is in none.  No leak, no double free, no packet
\* given to the driver while it is still queued - eviction or not.
PacketsAccounted ==
  /\ \A e \in Entries : IsInjective(arp_entries[e].packet_queue)
  /\ \A p \in DOMAIN packets :
       Cardinality({e \in Entries : p \in Waiting(e)}) =
         IF packets[p].state = "queued" THEN 1 ELSE 0

\* Packets for one address leave the table oldest first, sent or freed: a
\* later packet never overtakes one that still waits for the mapping.
NoOvertaking ==
  \A p, q \in DOMAIN packets :
    p < q /\ packets[p].ip = packets[q].ip /\ packets[p].state = "queued"
      => packets[q].state = "queued"

\* A packet for an address is sent to the owner of that address.  Violated
\* after an eviction: the entry is taken from the free list again with the
\* packets of its last address still in its queue.
SentToOwner ==
  \A p \in DOMAIN packets : packets[p].state = "sent" => packets[p].mac = packets[p].ip

\* The reply to a request names the host that asked.
ReplyNamesAsker ==
  arp_out # NONE => (arp_out.operation = "reply" => arp_out.target_ip = arp_out.to)

\* A queued packet is sent or given up after the retries.
QueuedIsDecided ==
  \A p \in 1 .. MaxSends :
    (p \in DOMAIN packets /\ packets[p].state = "queued")
      ~> (p \in DOMAIN packets /\ packets[p].state # "queued")
==============================================================================
