# TLA+ specifications of mini-ip

mini-ip is a small network stack for one microcontroller: an Ethernet driver
with two DMA rings, ARP, IPv4, ICMP echo, UDP, and on top of UDP a DHCP client
and a TFTP client. This directory models each protocol with the state it keeps,
the way of a packet through all of them, and the pure functions they use, checks
them with TLC on small instances, and proves with TLAPS, for every size, the
safety properties of the driver and its pool, of the stack as a whole, of ARP,
UDP, TFTP, DHCP and the back-off timer, and of the conversions.

Contents: [inventory](#inventory), [modules](#modules-and-how-they-correspond-to-the-code),
[runs](#runs-and-what-they-show), [departures](#departures-that-the-models-show),
[fairness](#fairness), [proofs](#proofs), [limits](#what-is-only-model-checked-and-what-is-not-modelled),
[plan](#plan).

## Inventory

All software runs in one thread: an application whose main loop calls
`network_task` and, if it wants to, `tftp_read` and `udp_receive`. There are no
interrupts. What runs beside it is hardware (the DMA engine of the GMAC), time,
and the hosts on the network.

`network_task` (network.c:61-73) takes up to 32 frames out of the receive ring,
hands each to `handle_mac`, then calls `arp_task` and `dhcp_task`. `handle_mac`
dispatches to `handle_arp` and `handle_ip`, and `handle_ip` to `handle_udp` and
`handle_icmp`. Sending goes down: `udp_send_zero_copy`, `ip_send`, then
`mac_broadcast` or, through `arp_send`, `mac_send`; both end in `gmac_send`.
A packet is never copied on the way; whoever is given it must free it or pass
it on.

| Component | State | Operations | What is hard | What makes it correct |
|---|---|---|---|---|
| packet pool (network.c) | `free_network_packets` | `allocate_network_packet`, `free_network_packet` | every layer and both rings hold packets; an empty pool is an endless loop | no packet lost, doubled, or in two places |
| driver (driver/gmac.c) | two descriptor rings, `tx_packets`, `rx_packets`, two indices | `gmac_init`, `gmac_send`, `gmac_receive`, `gmac_deinit` | the DMA engine works concurrently on the same descriptors; ring wrap; ring full; frames longer than a buffer | rings are FIFOs; the engine only touches buffers parked for it; good frames are returned |
| mac.c | none (our address in network.c) | `mac_send`, `mac_broadcast`, `handle_mac`, conversions | header space | dispatch passes every packet on or frees it; headers fit; addresses survive conversion |
| arp.c | 8 entries on two intrusive lists, a packet queue each | `arp_send`, `handle_arp`, `arp_task` | eviction, retries, expiry during iteration, late or repeated replies | packets go, in order, to the owner of their address, or are freed; none is lost or kept for ever |
| ip.c | none | `ip_send`, `handle_ip`, conversions | the address filter depends on what DHCP did; headers with options; carries in the checksum | what is for us is passed on, the rest freed; a receiver accepts the header |
| udp.c | 16 connections with a bounded queue each | `udp_listen`, `udp_send`, `udp_receive`, `handle_udp` | full queue, shadowed ports, table exhausted | each port is a bounded mailbox; packets are accounted for |
| icmp.c | none | `handle_icmp` | sends the received packet back in its own buffer | there is room for the headers; the packet has one owner; the checksum verifies |
| backoff.c | `Backoff` structure | `backoff_init`, `backoff_timeout`, `next_backoff`, `backoff_reset` | 32-bit clock wraps | never early, never late |
| dhcp.c | state machine, lease, the static `options` | `dhcp_start`, `dhcp_task`, `dhcp_release` | several servers, loss, reordering, refusals, expiry, overflow of times | configured as one server granted; an address is obtained; a lease is not outlived |
| tftp.c | `TftpConnection` | `tftp_download_file`, `tftp_read`, `tftp_abort_download` | loss, repetition, two transfers for one request, errors | the file, whole and in order; the download ends |
| utilities | none | byte order, `memory_*`, `format_string` | widths, signs, the end of the buffer | what is written reads back |

`list.h`, `time.h`, `random.h`, `registers.h`, `gpio.h`, `clock.h` are not in
the repository. Lists and time are modelled from their use and marked external.
`PROJECT.json` lists every component with its status and every hazard with the
line it concerns.

## Modules and how they correspond to the code

| Module | Models | Extends |
|---|---|---|
| `Gmac` | packet pool and descriptor rings, DMA engine, wire | |
| `DmaFifo` | abstract: a bounded FIFO | |
| `IntrusiveLists` | list.h: doubly linked rings through a sentinel | |
| `Arp`, `MCArp` | arp.c over its two linked lists | `IntrusiveLists` |
| `UdpQueues` | udp.c's connection table as values | |
| `Udp` | udp.c between the stack and the application | `UdpQueues` |
| `Mailbox` | abstract: what udp.c promises for one port | |
| `Tftp` | tftp.c, a TFTP server, the network | `UdpQueues` |
| `Download` | abstract: what tftp.c promises its caller | |
| `Backoff` | backoff.c and a clock that wraps | |
| `Dhcp`, `MCDhcp` | dhcp.c, the filter of ip.c, DHCP servers, the network | `UdpQueues` |
| `Stack` | network_task and all handlers and senders, over pool, rings, queues and the ARP table | `Gmac`, `UdpQueues`, `IntrusiveLists` |
| `Conversions` | addresses as text, checksums and headers, numbers as text, `memory_move` | |
| `FormatString` | `format_string` | `Conversions` |
| `DhcpOptions` | the options of a DHCP message as bytes | |
| `MCConversions` | inputs for the three above | `FormatString`, `DhcpOptions` |
| `QueueLemmas` | lemmas: induction with a bound, sequences, queues with a capacity, the connection table, linked lists | `UdpQueues`, `IntrusiveLists`, `TLAPS` |
| `StackProofs` | theorems about `Gmac` and `Stack` | `Stack`, `QueueLemmas` |
| `ArpProofs`, `UdpProofs`, `TftpProofs`, `DhcpProofs` | theorems about `Arp`, `Udp`, `Tftp`, `Dhcp` | the module, `QueueLemmas` |
| `BackoffProofs` | theorems about `Backoff` | `Backoff`, `TLAPS` |
| `ConversionsProofs` | theorems about the conversions | `MCConversions`, `QueueLemmas` |

Names follow the C source; a variable that has no counterpart there (what became
of a packet, the datagrams on the wire, what a server remembers) is said so in
its comment. An operator marked `mutant` is not used: it is the operator that
follows it with a plausible mistake, and each property is known to fail with
one of them in its place.

**Gmac.** The fields of a descriptor that matter are the owner bit, the address
(the packet whose buffer it is) and, on the receive side, the start- and
end-of-frame bits; a frame is its number. `gmac_send` is `SendHangs`,
`SendDrops` or `SendLinks`; `gmac_receive` is `ReceiveDropsFragment`,
`ReceiveFrame` or `ReceiveHangs`, or has no effect. A call is one step: the
write of the owner bit is the last one the engine depends on. `Allocate` and
`Free` stand for the layers above, which do both at any time; what they hold is
`held`. `while (1);` sets `halted`, after which only the hardware moves. The first
`WholeFrames` frames fit one buffer; those behind them may be longer and are then
split.

**Stack.** The software is one thread, so its control state is a stack of calls:
`calls` is the sequence of those that remain to be made or finished. A step
takes the first, does what that function does up to its next call, and puts
the calls it makes in its place. The packet a function was given is a field of
its call, so "who owns this packet" can be asked of a state. The steps that
touch the pool or the rings are the actions of `Gmac`, unchanged, and
`Hardware` is its DMA engine, between any two steps. The data of a packet is
reduced to `index`, where it starts in the buffer: each layer moves it by its
header. What a frame contains is chosen when a handler reads it (`HandleIp`:
dropped, UDP or ICMP, with a header of any of `HeaderLengths`), what a timer
says when it is asked (`ArpTaskVisits`, `DhcpTask`, `Application`). The length
of an IP header is any number of four bits, since `verify_ip_header` compares it
with the length of the packet only. The ARP table is the one of `Arp` with its
pointers, its queues and its evictions (`IpSendAsks`, `FreeEntry`,
`ArpSendQueues`), but without MAC addresses and times. The TFTP and DHCP ports are
open from the start with the capacities the clients ask for. A call that runs into a
`while (1);`, be it a transmit error (gmac.c:225-228) or an allocation from an empty pool,
sets `halted` and remains in `calls`: it never returns. `PoolSuffices` and `TaskReturns`
say when that does not happen.

**Arp.** The two entry lists are modelled with their pointers, since an evicted
entry gets linked in both. `arp_send` is one of `SendResolved`, `SendWaits`,
`SendAllocates`, `SendEvicts`; `arp_task` is a loop with the variable `cursor`,
one entry a step, because `get_time()` is read for each. Ages are counted in
ticks, up to one more than the longest interval. A MAC address is represented
by the address of its owner; replies arrive at any time, any number of times.

**UdpQueues, Udp.** The connections are the sequence of those on
`used_connections`, the newest first, as `find_connection` meets them.
`UdpListenCrashes` is the null pointer `udp_listen` follows when no connection
is free: the program ends there.

**Tftp.** One call of `tftp_read` is one step and each branch an action.
`backoff_timeout` answers yes when the count is 0, anything otherwise: `Backoff`
says when. A datagram stays on the wire until it is lost, so it may arrive
again and late. The server follows RFC 1350 and RFC 2347, retransmits, and
starts a transfer with a new port for every request it sees. Bytes 2 and 3 of
an OACK, which the client reads as a block number, are the letters `bl`:
`OackNumber`, 25196 in the code. `filename` is what the structure holds up to its
first zero, or to its end: tftp.c:62-68 copies at most `MaxFilenameLength`
characters and not the final zero of a name, and a name without one is sent with
what lies behind the structure (`Requests`). `BufferSize` is the `size` the caller
passes. tftp.c:192 and 214 compare ports and no addresses, so another host may send
from a port of `StrayPorts` (`Strays`): a transfer of its own, at any time.

**Backoff.** The structure, the clock (any start, modulo `TimeModulus`), and two
observers: the real time waited and the time since the last poll.

**Dhcp.** One call of `dhcp_task` is one step and each state an action. The
client has one transaction id, so any reply to it matches. `Accepted` is
`should_filter_away` of ip.c; arrival goes through it and `handle_udp`. Of the
static `options` only the netmask is kept: the other fields are read only when
the packet at hand has set their bit. A tick is a fixed share of the lease;
within one, datagrams arrive and the states that read the queue have read it.
Servers offer any address that is not taken, grant, refuse, and forget
bindings after `Lease` ticks; an unbound address may go to another client.

**Conversions, FormatString, DhcpOptions.** Texts are sequences of character
codes, addresses and messages sequences of bytes, flags sets of names. A loop
is a recursive function, a fold, or a `CHOOSE` of the position where it stops; a
function of turns has as many turns as the loop can take, and one that has
nothing left to do changes nothing. `FragmentDigits` is three turns, as many as
the buffer of ip.c:62 has places.
The three checksum functions have the same loop and share `SumOfWords` and
`Checksum`. `WriteText` is `write_char` for each character of a text.
`NumberText` is the text `write_number` writes, and `WriteNumber` writes it as far as
there is room. Words are below `WordModulus`, 2^8 in the runs, so that
`BIG_NUMBER`, which doubles them, stays small enough for TLC. `DhcpRead` is the loop of
`dhcp_read`, with the length that remains computed from the position; `ReadOption` is
one turn of it. The loop looks for the end option before it looks at the length, so in
front of an empty field it looks at the byte `Behind` the message (dhcp.c:268).
`Turn` is one turn of `format_string`: a character, or a directive (`Directive` reads
it, `Convert` writes what it asks for). A place in the format and the number of
arguments taken so far stand for `string` and the `va_list`.

## Runs and what they show

| Run | Instance | Shows |
|---|---|---|
| `Stack` | 1+2 descriptors, 9 packets, 1 address and an ARP entry for it, whole and split frames, 4 buffers, IP headers of 20 and 24 bytes, transmit errors | `NothingLeaked`: on every path through every handler a packet has exactly one owner; `NothingEvicted`: an address without an entry finds a free one; `PoolSuffices`: the pool never runs empty; `HeaderRoom`: headers fit, also in front of a ping that goes back; `TaskReturns`: every call returns, unless a transmit error hangs it |
| `Gmac_safety` | 2+2 descriptors, 6 packets, 5 buffers, long frames from the fourth on | `PacketConservation`, `DmaBuffersReserved`; both rings implement `DmaFifo` (`TxRingIsFifo`; `RxRingIsFifo` up to the first long frame); every frame stored before a long one is returned or the program hangs (`EarlyFrameIsTaken`) |
| `Gmac_split` | 1+3 descriptors, long frames from the first on | `StoredFrameIsTaken` is violated |
| `MCArp_fits` | 2 entries, 2 hosts, 3 packets | `TableIntact`, `QueuesMatch`, `NoOvertaking`, `SentToOwner`, and that a queued packet is sent or given up (`QueuedIsDecided`) |
| `MCArp_evicts` | 2 entries, 3 hosts, 4 packets | despite evictions: `PacketsAccounted`, `WalksStayInList` |
| `MCArp_misdelivers` | 2 entries, 3 hosts, 5 packets | `SentToOwner` is violated by evictions |
| `Udp` | 3 connections, 2 ports, 4 datagrams | `DatagramsAccounted`, and each port is a `Mailbox` (`PortsAreMailboxes`) |
| `Tftp_download` | 3 blocks, up to 2 transfers, 2 losses | tftp.c implements `Download` (`IsDownload`); `OwnTransferLives`, `FinishedTogether`, `DownloadEnds` |
| `Tftp_hostile` | 2 downloads, any of them given up, server errors, empty last block, another host at a port of the server | `OneTransfer`: blocks of two transfers never mix |
| `Backoff` | timeouts 2 to 7, clock modulo 18, polls up to 3 ticks apart | `NeverEarly`, `NeverLate` |
| `MCDhcp_leases` | 2 servers with an address each, lease of 4 ticks, 5 ticks, 1 loss | `ConfiguredAsGranted`, `AddressObtained`; a lease that is over is given up or was renewed, from every state that counts on it (`LeaseIsGivenUp`) |
| `MCConversions` | up to 6 bytes out of 5 values, up to 4 options out of 8 | `AddressesReadBack`, `ChecksumsVerify`, `NumbersReadBack`, `OptionsRead` |

Bounds and why they are enough:

- `Stack`: the pool has exactly what `StackAssumption` demands: a packet for each
  descriptor, each place in an ARP queue and each place in a UDP queue, the one
  the current call works on and the one it allocates meanwhile. With
  one packet less TLC finds `PoolSuffices` violated; the code has 96 for
  8 + 32 + 8*2 + 2 and the capacities of its ports, so ports may be opened for
  38 packets in all. The count is one of the code only as long as no more
  addresses are sent to than there are entries: a queue that outlives an
  eviction is counted from zero again and has no bound (`Stack_evicts.cfg`). The configuration has a `VIEW`: `Shape` drops the
  identity of packets, which no action looks at, and keeps where they are, how
  their headers stand, and whether `NothingLeaked`, `HeaderRoom` and
  `PacketConservation` hold; the last is a theorem about `Gmac`.
  With two addresses on one entry (4.6 million states) `StackTypeOK`, `NothingLeaked` and
  `HeaderRoom` still hold.
- Rings of 2 and 3 descriptors wrap several times within the bound of buffers;
  two spare packets let the pool run empty. The theorems remove these bounds.
- Two ARP entries with a queue of 2 (as in the code) and three packets fill a
  queue and drop from it; one more host than entries forces an eviction,
  after which the evicted entry is allocated again while in use. One retry instead of three: the count
  only has to reach its limit. Intervals of 1 or 2 ticks separate "not yet" and
  "over".
- Three UDP connections on two ports give a shadowed connection and a table
  that runs out; capacities 1 and 2 and four datagrams overflow both.
- TFTP: three blocks are a first, a middle and a last one; two server ports are
  the right and the wrong transfer; block numbers modulo 8 do not wrap, and the
  number of an OACK, 6, is not that of a block, nor of the one behind the last.
- The back-off clock wraps within a single wait, from any start.
- DHCP: lease times are chosen such that each of the two thresholds falls on a
  tick of its own and the lease ends within the run; `MaxOnWire` keeps the
  client from sending while the wire holds more than a round of datagrams,
  which still leaves old and new answers in flight together.
- `MCConversions`: the bytes have one, two and three decimal digits, with and
  without letters in hexadecimal, and produce carries; lengths are even and odd;
  four options give two of one type with another or padding between them. Numbers
  are zero, the ends of one word and of two, of either sign, and some between; the
  40 directives are the five number conversions, each with and without `l`, and with
  no mark, `<`, `0` or `+`.

`CHECK_DEADLOCK FALSE` is said where the system may really stop: the driver
(`while (1);`), UDP (crash), TFTP (download over), DHCP (bounded time used up),
conversions (input complete), the stack (a transmit error hangs the software, and
the engine has nothing left to send).

## Departures that the models show

Two are runs of their own:

- `Gmac_split`: gmac.c:264-269 drops one buffer of a split frame and does not
  advance `rx_index`; the engine has gone on, and complete frames stay behind.
- `MCArp_misdelivers`: arp.c:101-121 uses an evicted entry while it is still on
  the free list; taken again, it sends queued packets to another host.

The models have further properties that state what one would expect and that
the code does not keep. Each has a configuration with which TLC shows the
behaviour:

| Property | Configuration | What happens |
|---|---|---|
| `Arp!ReplyNamesAsker` | `MCArp_reply.cfg` | arp.c:293 passes the undecoded address: the reply carries it byte-swapped |
| `Stack!NothingLeaked` | `Stack_short.cfg` | tftp.c:165 treats a datagram shorter than an opcode as none, after taking it out of the queue: it is never freed |
| `Stack!PoolSuffices` | `Stack_evicts.cfg` | arp.c:117 counts the queue of an entry that was evicted, and is allocated again, from zero while its packets are still there: with more addresses than entries, as when pings come from more than eight senders (icmp.c:62), the queue grows until the pool is empty and network.c:43 loops |
| `Stack!HeaderRoom` | `Stack.cfg` with `HeaderLengths = {1, 5}` | ip.c:145-159 accepts an IP header of less than 20 bytes: the headers of the reply to a ping start in front of the buffer |
| `Tftp!OnlyFileData` | `Tftp_error.cfg` | tftp.c:209-228 ignores the opcode; the text of an ERROR whose code is the next block number becomes file data, although src/README.md:27 says errors are supported |
| `Tftp!OnlyFileData` | `Tftp_oack.cfg` | the same of a repeated OACK: its letters are block 25196, and 10 bytes of it end the download |
| `Tftp!OnlyFileData` | `Tftp_stray.cfg` | tftp.c:192 and 214 compare ports only: the client reads the file of another host |
| `Tftp!RequestsNamedFile` | `Tftp_name.cfg` | tftp.c:62-68 copies a name without its zero: a shorter name has the end of the last one |
| `Tftp!RequestsNamedFile` | `Tftp_name.cfg` with `NamesShrink = FALSE` and `MaxFilenameLength = 2` | a name of 64 characters has no zero, and what lies behind the structure is sent as its end; a longer one is cut as well |
| `Tftp!IsDownload` | `Tftp_buffer.cfg` | with a buffer below 512 bytes the rest of the block is lost and the download is taken for complete |
| `Tftp!DownloadEnds` | `Tftp_wrap.cfg` | `block_number + 1` is an int: after the largest block number no block is the next |
| `Tftp!DownloadEnds` | `Tftp_empty.cfg` | an empty last block looks like no packet; DONE is never reached |
| `Tftp!OnlyFileData` | `Tftp_stale.cfg` | the client port is constant: a late OACK makes the second download read the first file |
| `Tftp!LastBlockConfirmed` | `Tftp_lastack.cfg` | after DONE nobody answers the repeated last block |
| `Dhcp!AddressObtained` | `MCDhcp_unicast.cfg` | `our_ip` keeps a lost address and ip.c:167 drops answers sent to the new one |
| `Dhcp!AddressObtained` | `MCDhcp_nack.cfg` | dhcp.c:365 demands a lease time of a NACK too, which RFC 2131 forbids: REQUESTING never ends |
| `Dhcp!AddressObtained` | `MCDhcp_netmask.cfg` | the netmask of another server's late offer stays in `options`, and dhcp.c:380 refuses every ACK |
| `Dhcp!LeaseHonoured` | `MCDhcp_lease.cfg` | a second ACK waits in the queue during BOUND and renews a lease no server renewed |
| `Dhcp!RenewingHasItsTime` | `MCDhcp_overflow.cfg` | `3 * lease_time` wraps above 16.5 days: RENEWING ends at once |
| `Backoff!JitterShortens` | `Backoff.cfg` with `INVARIANT JitterShortens` | backoff.h:20-21 says that jitter is "added or subtracted"; the remainder of backoff.c:32 is unsigned, so it is only ever added |
| `Dhcp!RebindIsTried` | `MCDhcp_rebind.cfg` | nothing is sent in REBINDING, although src/README.md:31 names it |
| `MCConversions!FragmentsRefused` | `MCConversions_departures.cfg` with `INVARIANT FragmentsRefused` | ip.c:12 has bit 15 for the more-fragments flag, which is bit 13 |
| `MCConversions!ChecksumIsSent` | `MCConversions_zero.cfg` | a UDP checksum of zero is sent as zero, which means none |
| `MCConversions!PaddingFirst` | `MCConversions_departures.cfg` | padding in front of the first DHCP option is read as an option |
| `MCConversions!EmptyRefused` | `MCConversions_departures.cfg` with `INVARIANT EmptyRefused` | dhcp.c:268 looks for the end before the length: an empty options field is accepted when the byte behind the message happens to be 255 |
| `MCConversions!SignFirst` | `MCConversions_departures.cfg` with `INVARIANT SignFirst` | a negative number padded with zeros reads `00-5` |
| `MCConversions!TextsPadded` | `MCConversions_departures.cfg` with `INVARIANT TextsPadded` | `{_t}` ignores a positive width from the arguments (utilities.c:125-131) |
| `MCConversions!MovesExactly` | `MCConversions_departures.cfg` | memory_move upwards copies byte `size` too (utilities.h:76) |

## Fairness

- `Stack`: weak fairness of `Step`: the processor goes on with the call it is
  in, unless it is in a `while (1);`, where no step is enabled. That the application makes calls, and that the engine or the wire does
  anything, is not assumed.
- `Gmac`: weak fairness of `gmac_receive`. The application's loop calls
  `network_task`, which calls it. Nothing is assumed of the engine or the wire.
- `Arp`: weak fairness of `arp_task` and of the clock, for the same reason.
  Replies need not come.
- `Tftp`: the application polls `tftp_read`; the back-off timer fires when its
  time has come (weak fairness of a poll in which it fires, which `Backoff!NeverLate`
  justifies); what is on the wire and is not lost arrives; the server does its
  part. Losses are finite. The queue holds one datagram, and a newer one pushes
  the older out, so weak fairness of arrival would allow the awaited datagram
  to be pushed out before each poll for ever: strong fairness of a poll that
  makes progress (`UsefulRead`) excludes it. Polling is much faster than
  retransmission.
- `Dhcp`: likewise for `dhcp_task`, the servers, arrival, and the clock.

## Proofs

The theorems hold for every value of the constants that satisfies the `ASSUME`
of the module concerned: ring and pool sizes, numbers of hosts, ports,
datagrams, blocks, servers, clock widths. Where a theorem has a hypothesis of
its own, the code does not keep the property without it, and the departure that
shows this is named. In each module the invariant that the runs check is
strengthened to an inductive one, and the proof that a step preserves it goes
through the actions one by one.

**QueueLemmas** holds what the proofs share: induction over the numbers up
to a bound (`UpTo`, `LoopsExist`), what `Head`, `Tail`, `Append` and
removing by index do to the range and the injectivity of a sequence, the queue
of a connection and its `packet_count` under `handle_udp` and `udp_receive`,
the connection table (`IsTable`) with what it holds (`InQueue`), and the linked lists
(`ListAssumption`: at least one entry, and heads that are none). A ring of linked
nodes stands for a sequence (`IsRing`); `ListRemove`, `ListAddFirst` and
`ListAddLast` are `Removed` and `Inserted` on sequences (`RingRemove`, `RingInsert`), a
walk visits the sequence in order and ends (`RingWalk`), and `Move` takes a node from
one ring to another. `Visits` and `ListOf` are recursive functions with a
bound; they are unfolded with `UpTo`, induction over the numbers up to a bound
stated about a set, which needs no operator as a parameter.

**StackProofs, the driver** (`RingAssumption`: at least one descriptor in each ring, and
enough packets to fill both, without which `gmac_init` itself would hang).

- `TypeCorrect`: the indices stay within the rings over every wrap.
- `PacketsConserved`, `DmaBuffersAreReserved`. `DmaBuffersReserved` speaks of
  the addresses in the descriptors, while the actions move what is recorded in
  `tx_packets` and `rx_packets`. The link is `AddressesMatch`: a descriptor the
  engine may use has the address of the packet recorded for its slot. The
  inductive invariant is `IInv == TypeOK /\ PacketConservation /\ AddressesMatch`,
  with `PacketConservation` split into injectivity of the three sequences,
  disjointness of the four places, and completeness.
- `TransmitsInOrder`, `ReceivesInOrder`: both rings implement `DmaFifo`, the
  receive ring for the frames in front of the first long one. What a ring holds
  is a window of consecutive slots that may run over its end (`TxWindow(n)`,
  `RxWindow(n)`, slots counted by `At`). Every step keeps a window, and moves,
  lengthens or shortens it by one slot as the abstract `Put` and `Get` do. That
  the queue has as many members as the window has slots is a cardinality lemma
  (`RingQueue`).

**StackProofs, the layers above** (`StackAssumption`).

- `RefinesDriver`: `StackSpec => Spec`, a step of the stack is a step of the
  driver and its pool or leaves their variables alone. The theorems about the
  driver therefore hold under the stack too (`DriverSafeUnderStack`,
  `RingsUnderStack`).
- `StackTypeCorrect`, and `NeverInTwoPlaces`: no packet has two owners, whatever
  datagrams arrive.
- `NoPacketLeaked`: every packet software holds has exactly one owner. Hypothesis:
  no datagram is shorter than an opcode (`Stack_short.cfg`).
- `HeadersFit`: no header is written in front of its buffer. Hypothesis: IP headers
  have at least 20 bytes, `HeaderLengths \subseteq 5 .. 15`, which the code does not
  check (`Stack.cfg` with `HeaderLengths = {1, 5}`).
- `EntriesSuffice`: nothing is evicted (`NothingEvicted`). Hypothesis: an entry for each
  address (`EnoughEntries`).
- `PoolLargeEnough`: a pool of the size `StackAssumption` demands is never empty
  when a packet is needed. Both hypotheses, an entry for each address
  (`Stack_evicts.cfg`) and no short datagram, since a leak empties any pool. By counting: a
  packet is free, in a ring, in one of the bounded queues, or in hand, and at most one
  is in hand when another is allocated.

The inductive invariant is `SInv == IInv /\ LInv /\ QInv`. `IInv` is the invariant of
the driver. `LInv`: the types of calls, ARP entries and connections (`LayerTypes`),
`Ownership`, `Complete` (unless there are short datagrams), how calls nest (`Nested`: at
most one call below the first one has a packet in hand, none if the first is a handler or a
task), and the room in front of the data that each call counts on (`Roomy`,
`ArpRoom`), less by `Shortfall` when IP headers may be short. `QInv`: a call that is in the
middle of changing the ARP table has at most one call above it, one it makes itself
(`Ordered`), and a `packet_count` that will be compared with the limit is not too
high (`CountHolds`), so that a packet is only dropped from a queue that has one. The
lemma `Transfer` says once what moving packets between the calls,
one queue and the driver does to `Ownership` and `Complete`; each action cites
it with its own move.

`EntriesSuffice` and `PoolLargeEnough` need one more, `TableOK`, which evictions would
break: the free and the used entries are two disjoint rings (`Rings`), each used entry
is for a host of its own, its queue is within the limit and counted, on a free entry
nothing waits (`EntriesFit`), and `arp_task` is one entry ahead of the one it frees
(`CallsFit`). Between the two steps of `arp_send` the entry in hand is on neither
list (`Given`). A full table that does not know an address would then map the entries one
to one into the other hosts.

**ArpProofs** (`ArpAssumption`, `ListAssumption`), with the lists as in `QueueLemmas`.

Whatever is evicted, from `IInv == TypeOK /\ Accounted /\ CountsHold`:

- `TypeCorrect`.
- `EveryPacketAccounted`: a packet is in exactly one queue, once, until it is sent
  or freed. `Accounted` states this without cardinalities, and `CountsHold` says
  that `packet_count` of an unresolved entry is never too high, so that a packet is
  only dropped from a queue that has one.

With an entry for every host (`EnoughEntries`; without it an eviction leaves an
entry on both lists and delivers packets to the wrong host, `MCArp_misdelivers`),
from `Fits(F, U)`: the entries are two disjoint rings `F` and `U`, `cursor` is in
`U` or at its end, each used entry is for one host and has its MAC address, the
queues match (`AllMatched`) and hold the packets in turn:

- `TableStaysIntact`, `QueuesStayMatched`, `EveryPacketToItsOwner`, `NothingOvertakes`
  (the properties `TableIntact`, `QueuesMatch`, `SentToOwner`, `NoOvertaking`).
- That nothing is evicted is itself a step of the proof (`NothingEvicted`): a full
  table that does not know an address would map the entries one to one into the
  other hosts.

And again whatever is evicted:

- `WalksEnd` (`WalksStayInList`): every walk through the used list ends, and
  `allocate_entry` always gets an entry. An eviction links an entry into both lists,
  which are then no longer rings, and later calls tangle them further. The invariant
  `Iterates(W)` says what can still be relied on: `Joins(heap, X, Y)`, the nodes `Y` follow
  the nodes `X` one to one, and `Ends(heap, X)`, no part of `X` is closed under `next`. Before
  the first eviction the lists are `Rings`; afterwards the links have one of two
  shapes, and every call leads from one to the other or stays. `FreeStrays`: the used
  list is a ring, the free list leads into it or back into itself. `UsedStrays`: the
  free list ends in `USED`, and the used list joins it at some entry. Either way the
  entries `W` that a walk from `USED` meets are closed under `next` up to `USED`, and by
  counting a walk longer than the number of nodes would have closed a loop in `W`
  (`FindEnds`). The lemmas `OpenLoses`, `OpenGrows`, `StrayedPushed`, `UsedStraysLoses` and so
  on say what `list_remove`, `list_add_last` and `list_add_first` do to the shapes. In both,
  an entry follows `FREE`: after the first eviction the free list never looks empty,
  so that `allocate_entry` does not evict again but takes whatever follows `FREE`,
  in use or not.

**UdpProofs** (`UdpAssumption`). `TypeCorrect`; `NoDatagramLost`: each datagram is not
yet there, queued once, with the application, or freed; `MailboxPerPort`: each
open port implements `Mailbox`. Invariant: types (queues within their capacity),
`QueuesLinked` (what is in a queue arrived for its port, and is in it once) and
`PlacedOnce` (a datagram recorded as queued is in one queue, any other in none).

**TftpProofs** (`TftpAssumption`; a transfer's port is never 69, the port the
request goes to). `IInv == TypeOK /\ Table /\ Origins /\ Follows`: what is in
flight or queued from a port that no other host uses comes from a transfer that has
started, of its one file, up to the block it has reached, and a client that reads
follows such a transfer or another host.

- `TypeCorrect`.
- `TransfersDoNotMix` (`OneTransfer`), for any number of downloads and any
  `StrayPorts`, from `InOrder`: what was returned is the blocks of the followed
  transfer from the first on. Hypotheses: no ERROR whose code is a block number
  (`Tftp_error.cfg`), and `LastBlock + 1 < OackNumber` (`Tftp_oack.cfg`): files of at
  most 25194 blocks in the code. The one more is the block that the client waits for
  behind an empty last one. Block numbers then do not wrap either (`Tftp_wrap.cfg`).
- `ImplementsDownload`: tftp.c implements `Download`. Hypotheses: one download
  (`Tftp_stale.cfg`), no other host (`Tftp_stray.cfg`), the two of
  `TransfersDoNotMix`, a buffer for a block (`Tftp_buffer.cfg`).
- `RightTransferLives`: from `ToldOff`, errors go to other transfers only.
  Hypotheses: one download and no `tftp_abort_download`; an aborting client means
  to end the transfer, and a second download may follow one told off in the first.
- `FinishTogether`: from `Acknowledged`, `Requested`, `NotAtEnd`: of the transfers
  of the current file only the followed one is acknowledged, up to the block the
  client has. Hypotheses: names that do not get shorter and that the structure has
  room for (`Tftp_name.cfg`), no other host, no more blocks than above, a last
  block that is not empty (`Tftp_empty.cfg`). That the name in the structure is then
  the right one is the lemma `AlwaysNamed`.

**DhcpProofs** (`DhcpAssumption`). `IInv` consists of the types, the connection
table, and: requests and renewals name an address (`RequestsAddress`); a client
that holds an address knows its server (`LeaseKnown`); an ACK in flight or queued
was granted (`AcksGranted`); a configured client has a granted address (`Configured`).

- `TypeCorrect`.
- `ConfiguredFromOneLease`: address, server and netmask are those of one lease. The
  netmask comes from the static `options`, which also late offers of other servers
  write; `Agreed` relates it to `server_ip`. Hypothesis: every server sends its
  netmask, otherwise the one of another server stays (`MCDhcp_netmask.cfg`).

**BackoffProofs** (`BackoffAssumption`: the longest wait and a poll interval fit
the clock; `PowersOfTwo`: what `^` means for 2, which the provers do not know and
TLC evaluates). `TypeCorrect`, `NotLate`, and `NotEarly`, an action property. From
`IInv == TypeOK /\ TimeoutDoubled /\ ClockAgrees`: the timeout is the doubled one,
and the modular difference of the clock readings is the real time waited, because
the wait never reaches the clock's modulus. `NeverEarly` takes no side on the
sign of the jitter: that it is never negative is a departure (`JitterShortens`).

**ConversionsProofs** (`ConversionsAssumption`: words are not empty;
`MCConversionsAssumption`: what is converted is made of bytes and integers). `TypeCorrect`: padding
never comes before the first option. The other four theorems hold in every state
because they hold of every input, of any length:

- `AllChecksumsVerify`. `SumOfWords` is the total of the bytes at their weights
  (`TotalOf`), by induction over the length with `UpTo`; each carry that is added
  back keeps the sum modulo 2^16 - 1 (`CarriedIsCongruent`). A header that has its own
  checksum in it then adds up to a multiple of 2^16 - 1.
- `AllAddressesReadBack`. The pieces of an address are decimal or hexadecimal
  digits that read back as their byte (`IsDecimal`, `HexReadBack`); the rest of the
  proof is about where in the text each piece stands (`Pieces`, `StandsAt`).
- `AllOptionsRead`. `Layout` says where in the field each item starts; the loop
  invariant `Walked` says that after k turns `dhcp_read` stands at the start of
  an item and has the last option of each type in front of it (`IsRead`). When the
  field ends early the turn in which the reader would pass its end refuses it.
- `AllNumbersReadBack`: every integer that fits the word or the two words of its
  directive, of either sign, in four steps. (1) The digits are what is left after each
  division, and a reader of a text in which they stand behind blanks, signs and
  zeros finds the number again (`IsLeft`, `IsNumber`, `ArrangedShows`); with the sign and
  the padding this is `NumberShown`. (2) A directive of the given form, wherever it
  stands in a format, is parsed into its flags and its width
  (`HasDirective`, `Stands`, `PlainDirective`, `TakenDirective`). (3) So it writes the number
  and goes on behind its brace (`Writes`), also with the width from the arguments.
  (4) The turns of `format_string` follow each other (`Reaches`), for a format that
  is one directive and for one in which others stand around it (`OneDirective`,
  `CompoundWritten`).

The loops of `Conversions`, `FormatString` and `DhcpOptions` are recursive
functions, never `RECURSIVE` operators, so that they can be unfolded in a proof.
`memory_move` (`MemoryMove`) has no theorem, since the code does not do what is
expected of it (`MCConversions_departures.cfg`).

## What is only model-checked, and what is not modelled

Only checked on the instances above:

- all liveness (`TaskReturns`, `EarlyFrameIsTaken`, `QueuedIsDecided`, `DownloadEnds`,
  `AddressObtained`, `LeaseIsGivenUp`), which is out of the prover's reach, as is anything about
  `ENABLED`;
- the two expectations that the code does not meet (`StoredFrameIsTaken`, and
  `SentToOwner` with evictions), and those listed under departures.

Not modelled, and why:

- PHY, pin and clock set-up, the MAC address registers (driver/gmac.c): I/O on
  registers, without control flow the rest of the stack sees.
- Gratuitous ARP, probes and announcements: `send_arp_packet` knows them, nobody
  sends them.
- In `Stack`: `gmac_deinit` (in `Gmac`), the addresses and times of ARP entries
  (in `Arp`), opening of further ports (in `Udp`), what the clients make
  of what they read (in `Tftp`, `Dhcp`).
- Messages shorter than the fixed header their reader assumes (DHCP, TFTP DATA):
  the code then works with whatever is in the buffer.
- `compare_option` (tftp.c): an OACK is one or it is not. `memory_copy`,
  `memory_fill`, `memory_compare` are the copies and comparisons of the modules
  where they are used; `align_up` has no caller.
- A network of two mini-ip hosts: because of the byte order of arp.c:293 neither
  ever resolves the other, so there is nothing further to see.

## Plan

Done: all modules and runs; every safety property and every action property that
a passing run checks is a theorem. With TLC stays what is named above.
