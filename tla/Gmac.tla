-------------------------------- MODULE Gmac --------------------------------
(***************************************************************************)
(* The packet allocator of src/network.c and the two descriptor rings of   *)
(* src/driver/gmac.c, driven by three parties that run concurrently:       *)
(*                                                                         *)
(*   - the software above the driver, which allocates, frees, sends and    *)
(*     receives packets (its own bookkeeping is the set `held`);           *)
(*   - the DMA engine of the GMAC, which takes frames out of the transmit  *)
(*     ring and puts frames into the receive ring, in ring order;          *)
(*   - the wire, which carries frames that fit one buffer and, from some   *)
(*     point on, also frames that are longer than a buffer.                *)
(*                                                                         *)
(* A call of the driver is one step: in gmac_send and in gmac_receive the  *)
(* write of `owner` comes after every write the DMA engine depends on, and *)
(* until that write the engine leaves the descriptor alone.                *)
(***************************************************************************)
EXTENDS Integers, Sequences, FiniteSets, Functions

CONSTANTS
  PacketCount,   \* NETWORK_PACKET_COUNT
  TxCount,       \* TRANSMIT_DESCRIPTOR_COUNT
  RxCount,       \* RECEIVE_DESCRIPTOR_COUNT
  WholeFrames,   \* how many frames come before the first one that may be long
  MaxBuffers     \* bound: receive buffers the GMAC fills in one behaviour

ASSUME RingAssumption ==
  /\ TxCount \in Nat \ {0}
  /\ RxCount \in Nat \ {0}
  /\ PacketCount \in Nat
  /\ TxCount + RxCount =< PacketCount
  /\ WholeFrames \in Nat
  /\ MaxBuffers \in Nat

Packets == 0 .. PacketCount - 1
TxSlots == 0 .. TxCount - 1
RxSlots == 0 .. RxCount - 1

VARIABLES
  free_network_packets,   \* the free list, first element first
  held,                   \* packets in the hands of the layers above
  tx_descriptors,         \* owner bit and DMA address of each descriptor
  tx_packets,             \* the packet last linked into each descriptor
  tx_index,               \* the descriptor gmac_send uses next
  rx_descriptors,         \* owner, start/end-of-frame bits, address, frame
  rx_packets,
  rx_index,               \* the descriptor gmac_receive looks at next
  tx_dma,                 \* the descriptor the engine transmits next
  rx_dma,                 \* the descriptor the engine fills next
  mid_frame,              \* the engine still has the rest of a frame to write
  buffers,                \* buffers filled so far: numbers the received frames
  enabled,                \* receiver and transmitter enabled in NCR
  tsr_error,              \* an error bit of the transmit status register
  halted                  \* the software is in one of its `while (1);`

software == <<free_network_packets, held>>
txRing   == <<tx_descriptors, tx_packets, tx_index, tx_dma>>
rxRing   == <<rx_descriptors, rx_packets, rx_index, rx_dma, mid_frame, buffers>>
vars     == <<software, txRing, rxRing, enabled, tsr_error, halted>>

NextTxUnwrapped(i) == i + 1   \* mutant: the index is never reset

NextTx(i) == IF i + 1 = TxCount THEN 0 ELSE i + 1
NextRx(i) == IF i + 1 = RxCount THEN 0 ELSE i + 1

-----------------------------------------------------------------------------
(* network_init puts packet 0, 1, ... at the front of the free list; then  *)
(* gmac_init takes TxCount and RxCount packets off it.                     *)

TxInitial(i) == PacketCount - 1 - i
RxInitial(i) == PacketCount - 1 - TxCount - i

Init ==
  /\ free_network_packets =
       [k \in 1 .. PacketCount - TxCount - RxCount |->
          PacketCount - TxCount - RxCount - k]
  /\ held = {}
  /\ tx_packets = [i \in TxSlots |-> TxInitial(i)]
  /\ tx_descriptors = [i \in TxSlots |-> [owner |-> "CPU", address |-> TxInitial(i)]]
  /\ tx_index = 0
  /\ rx_packets = [i \in RxSlots |-> RxInitial(i)]
  /\ rx_descriptors = [i \in RxSlots |->
       [owner |-> "GMAC", sof |-> FALSE, eof |-> FALSE,
        address |-> RxInitial(i), frame |-> 0]]
  /\ rx_index = 0
  /\ tx_dma = 0
  /\ rx_dma = 0
  /\ mid_frame = FALSE
  /\ buffers = 0
  /\ enabled = TRUE
  /\ tsr_error = FALSE
  /\ halted = FALSE

-----------------------------------------------------------------------------
(* network.c: the allocator. *)

Halt == halted' = TRUE /\ UNCHANGED <<software, txRing, rxRing, enabled, tsr_error>>

Allocate ==
  /\ ~halted
  /\ free_network_packets # <<>>
  /\ held' = held \cup {Head(free_network_packets)}
  /\ free_network_packets' = Tail(free_network_packets)
  /\ UNCHANGED <<txRing, rxRing, enabled, tsr_error, halted>>

\* All packets have been allocated: allocate_network_packet never returns.
AllocateHangs ==
  /\ ~halted
  /\ free_network_packets = <<>>
  /\ Halt

AddFirstForgets(packet, list) == list   \* mutant: the packet is not linked

AddFirst(packet, list) == <<packet>> \o list

Free(packet) ==
  /\ ~halted
  /\ packet \in held
  /\ free_network_packets' = AddFirst(packet, free_network_packets)
  /\ held' = held \ {packet}
  /\ UNCHANGED <<txRing, rxRing, enabled, tsr_error, halted>>

-----------------------------------------------------------------------------
(* gmac.c: gmac_send. *)

\* The descriptor gmac_send would use still belongs to the GMAC.
TxBusyNever == FALSE   \* mutant: the owner bit is not looked at

TxBusy == tx_descriptors[tx_index].owner = "GMAC"

\* A transmit error is never handled: the call does not return.
SendHangs(packet) ==
  /\ ~halted
  /\ packet \in held
  /\ tsr_error
  /\ Halt

\* Network saturation.
SendDrops(packet) ==
  /\ ~halted
  /\ packet \in held
  /\ ~tsr_error
  /\ TxBusy
  /\ free_network_packets' = AddFirst(packet, free_network_packets)
  /\ held' = held \ {packet}
  /\ UNCHANGED <<txRing, rxRing, enabled, tsr_error, halted>>

SendLinks(packet) ==
  /\ ~halted
  /\ packet \in held
  /\ ~tsr_error
  /\ ~TxBusy
  /\ free_network_packets' = AddFirst(tx_packets[tx_index], free_network_packets)
  /\ held' = held \ {packet}
  /\ tx_packets' = [tx_packets EXCEPT ![tx_index] = packet]
  /\ tx_descriptors' = [tx_descriptors EXCEPT ![tx_index] =
                          [owner |-> "GMAC", address |-> packet]]
  /\ tx_index' = NextTx(tx_index)
  /\ UNCHANGED <<tx_dma, rxRing, enabled, tsr_error, halted>>

-----------------------------------------------------------------------------
(* gmac.c: gmac_receive.  It returns 0 without any effect while the         *)
(* descriptor at rx_index belongs to the GMAC.                              *)

WholeFrameInverted(descriptor) ==   \* mutant: the wrong frames are dropped
  ~(descriptor.sof /\ descriptor.eof)

WholeFrame(descriptor) == descriptor.sof /\ descriptor.eof

\* One buffer of a split frame is handed back; rx_index stays where it is.
ReceiveDropsFragment ==
  /\ ~halted
  /\ rx_descriptors[rx_index].owner = "CPU"
  /\ ~WholeFrame(rx_descriptors[rx_index])
  /\ rx_descriptors' = [rx_descriptors EXCEPT ![rx_index].owner = "GMAC"]
  /\ UNCHANGED <<software, txRing, rx_packets, rx_index, rx_dma, mid_frame,
                 buffers, enabled, tsr_error, halted>>

\* The descriptor is given a new packet, then given back to the GMAC.
RearmedStale(descriptor, packet) ==   \* mutant: the address is not updated
  [descriptor EXCEPT !.owner = "GMAC"]

RearmedKept(descriptor, packet) ==    \* mutant: the owner bit is not cleared
  [descriptor EXCEPT !.address = packet]

Rearmed(descriptor, packet) ==
  [descriptor EXCEPT !.owner = "GMAC", !.address = packet]

ReceiveFrame ==
  /\ ~halted
  /\ rx_descriptors[rx_index].owner = "CPU"
  /\ WholeFrame(rx_descriptors[rx_index])
  /\ free_network_packets # <<>>
  /\ LET fresh == Head(free_network_packets) IN
     /\ held' = held \cup {rx_packets[rx_index]}
     /\ rx_packets' = [rx_packets EXCEPT ![rx_index] = fresh]
     /\ rx_descriptors' = [rx_descriptors EXCEPT ![rx_index] = Rearmed(@, fresh)]
  /\ free_network_packets' = Tail(free_network_packets)
  /\ rx_index' = NextRx(rx_index)
  /\ UNCHANGED <<txRing, rx_dma, mid_frame, buffers, enabled, tsr_error, halted>>

\* A frame is waiting and the pool is empty: the nested allocation hangs.
ReceiveHangs ==
  /\ ~halted
  /\ rx_descriptors[rx_index].owner = "CPU"
  /\ WholeFrame(rx_descriptors[rx_index])
  /\ free_network_packets = <<>>
  /\ Halt

GmacReceive == ReceiveDropsFragment \/ ReceiveFrame \/ ReceiveHangs

Deinit ==
  /\ ~halted
  /\ enabled
  /\ enabled' = FALSE
  /\ UNCHANGED <<software, txRing, rxRing, tsr_error, halted>>

-----------------------------------------------------------------------------
(* The DMA engine (hardware). *)

DmaTransmit ==
  /\ enabled
  /\ tx_descriptors[tx_dma].owner = "GMAC"
  /\ tx_descriptors' = [tx_descriptors EXCEPT ![tx_dma].owner = "CPU"]
  /\ tx_dma' = NextTx(tx_dma)
  /\ UNCHANGED <<software, tx_packets, tx_index, rxRing, enabled, tsr_error, halted>>

DmaTransmitFails ==
  /\ enabled
  /\ tx_descriptors[tx_dma].owner = "GMAC"
  /\ ~tsr_error
  /\ tsr_error' = TRUE
  /\ UNCHANGED <<software, txRing, rxRing, enabled, halted>>

\* The engine fills the buffer of its current descriptor.  A frame that does
\* not fit continues in the next one.
DmaFill(sof, eof) ==
  /\ enabled
  /\ rx_descriptors[rx_dma].owner = "GMAC"
  /\ buffers < MaxBuffers
  /\ rx_descriptors' = [rx_descriptors EXCEPT ![rx_dma] =
       [owner |-> "CPU", sof |-> sof, eof |-> eof,
        address |-> @.address, frame |-> buffers + 1]]
  /\ buffers' = buffers + 1
  /\ rx_dma' = NextRx(rx_dma)
  /\ mid_frame' = ~eof
  /\ UNCHANGED <<software, txRing, rx_packets, rx_index, enabled, tsr_error, halted>>

DmaReceive ==
  \/ ~mid_frame /\ DmaFill(TRUE, TRUE)
  \/ ~mid_frame /\ buffers >= WholeFrames /\ DmaFill(TRUE, FALSE)
  \/ mid_frame /\ DmaFill(FALSE, TRUE)

-----------------------------------------------------------------------------

Next ==
  \/ Allocate
  \/ AllocateHangs
  \/ \E packet \in held :
       Free(packet) \/ SendHangs(packet) \/ SendDrops(packet) \/ SendLinks(packet)
  \/ GmacReceive
  \/ Deinit
  \/ DmaTransmit
  \/ DmaTransmitFails
  \/ DmaReceive

Spec == Init /\ [][Next]_vars

\* The application's main loop keeps calling network_task.
LiveSpec == Spec /\ WF_vars(GmacReceive)

-----------------------------------------------------------------------------

\* Every variable stays in its C type's useful range; the indices in bounds.
TypeOK ==
  /\ free_network_packets \in Seq(Packets)
  /\ held \subseteq Packets
  /\ tx_descriptors \in [TxSlots -> [owner : {"CPU", "GMAC"}, address : Packets]]
  /\ tx_packets \in [TxSlots -> Packets]
  /\ tx_index \in TxSlots
  /\ rx_descriptors \in [RxSlots ->
       [owner : {"CPU", "GMAC"}, sof : BOOLEAN, eof : BOOLEAN,
        address : Packets, frame : 0 .. MaxBuffers]]
  /\ rx_packets \in [RxSlots -> Packets]
  /\ rx_index \in RxSlots
  /\ tx_dma \in TxSlots
  /\ rx_dma \in RxSlots
  /\ mid_frame \in BOOLEAN
  /\ buffers \in 0 .. MaxBuffers
  /\ enabled \in BOOLEAN
  /\ tsr_error \in BOOLEAN
  /\ halted \in BOOLEAN

\* The places a packet can be are pairwise disjoint, no place holds a packet
\* twice, and no packet is lost: what allocate_network_packet, gmac_send and
\* gmac_receive owe each other across every path that moves a packet.
NothingTwice ==
  /\ IsInjective(free_network_packets)
  /\ IsInjective(tx_packets)
  /\ IsInjective(rx_packets)

PlacesDisjoint ==
  /\ Range(free_network_packets) \cap held = {}
  /\ Range(free_network_packets) \cap Range(tx_packets) = {}
  /\ Range(free_network_packets) \cap Range(rx_packets) = {}
  /\ held \cap Range(tx_packets) = {}
  /\ held \cap Range(rx_packets) = {}
  /\ Range(tx_packets) \cap Range(rx_packets) = {}

NothingLost ==
  Packets = Range(free_network_packets) \cup held
              \cup Range(tx_packets) \cup Range(rx_packets)

PacketConservation == NothingTwice /\ PlacesDisjoint /\ NothingLost

\* The DMA engine only ever reads or writes a buffer that the driver parked
\* in that very slot: never a packet that is free, or that the software is
\* filling or reading, or that another descriptor also points to.
InDma(packet) ==
  \/ \E i \in TxSlots : tx_descriptors[i] = [owner |-> "GMAC", address |-> packet]
  \/ \E i \in RxSlots : /\ rx_descriptors[i].owner = "GMAC"
                        /\ rx_descriptors[i].address = packet

DmaBuffersReserved ==
  /\ \A packet \in Packets : InDma(packet) =>
       packet \notin held \cup Range(free_network_packets)
  /\ \A i \in TxSlots, j \in RxSlots :
       tx_descriptors[i].owner = "GMAC" =>
         tx_descriptors[i].address # rx_descriptors[j].address

-----------------------------------------------------------------------------
(* The rings as queues. *)

Owned(descriptors, who) == {i \in DOMAIN descriptors : descriptors[i].owner = who}

TxQueue == [k \in 1 .. Cardinality(Owned(tx_descriptors, "GMAC")) |->
              tx_descriptors[(tx_dma + k - 1) % TxCount].address]

\* The frames that wait for gmac_receive, of those before any long one.
EarlyWaiting == {i \in RxSlots : /\ rx_descriptors[i].owner = "CPU"
                                 /\ rx_descriptors[i].frame =< WholeFrames}

RxQueue == [k \in 1 .. Cardinality(EarlyWaiting) |->
              rx_descriptors[(rx_index + k - 1) % RxCount].frame]

TxFifo == INSTANCE DmaFifo WITH queue <- TxQueue, Capacity <- TxCount, Item <- Packets
RxFifo == INSTANCE DmaFifo WITH queue <- RxQueue, Capacity <- RxCount,
                                Item <- 1 .. MaxBuffers

\* Packets leave on the wire in the order gmac_send accepted them, once each.
TxRingIsFifo == TxFifo!Spec

\* gmac_receive returns frames in the order the GMAC stored them, once each, up
\* to the first frame that does not fit one buffer.
RxRingIsFifo == RxFifo!Spec

\* A frame the GMAC stored whole is returned by gmac_receive sooner or later,
\* unless the software hangs: network_task never gets stuck in front of a
\* descriptor while good frames wait behind it.
Waiting(n) == \E i \in RxSlots : /\ rx_descriptors[i].owner = "CPU"
                                 /\ rx_descriptors[i].frame = n
                                 /\ rx_descriptors[i].sof /\ rx_descriptors[i].eof

Taken(n) == Waiting(n) ~> (~Waiting(n) \/ halted)

\* The frames before the first long one, whatever comes behind them.
EarlyFrameIsTaken == \A n \in 1 .. WholeFrames : Taken(n)

\* All frames, as the comment in gmac_receive has it: only the long one is
\* dropped.
StoredFrameIsTaken == \A n \in 1 .. MaxBuffers : Taken(n)
==============================================================================
