----------------------------- MODULE StackProofs -----------------------------
(***************************************************************************)
(* Theorems about Gmac.tla and about Stack.tla, which extends it, for      *)
(* every number of packets, descriptors, addresses and places in the       *)
(* queues.                                                                 *)
(*                                                                         *)
(* First the driver alone.  The inductive invariant IInv adds to the type  *)
(* invariant and to the conservation of packets that the address in a      *)
(* descriptor the engine may use is the one of the packet that the driver  *)
(* recorded for the slot.  That the rings are queues rests on a second     *)
(* one: what a ring holds is a window of consecutive slots between the two *)
(* parties' indices.                                                       *)
(*                                                                         *)
(* Then the stack.  Every step of it is a step of the driver or leaves it  *)
(* alone, so IInv holds.  To it the invariant of the stack                 *)
(* adds where the packets are that the driver counts as held (each in one  *)
(* call or in one queue), how the calls nest (under any call at most one   *)
(* has a packet in hand, which is what bounds the pool), the room in front *)
(* of the data that each call with a packet counts on, less by what a      *)
(* short IP header may take of it (Shortfall), and in which calls the ARP  *)
(* table is not at rest (QInv).                                            *)
(*                                                                         *)
(* The last part needs an entry for each address (EnoughEntries): the      *)
(* lists of the ARP table are then the free and the used entries           *)
(* (TableOK), nothing is evicted, and no queue grows past its limit.       *)
(***************************************************************************)
EXTENDS Stack, QueueLemmas

-----------------------------------------------------------------------------
(* The driver: its invariant. *)

AddressesMatch ==
  /\ \A i \in TxSlots : tx_descriptors[i].owner = "GMAC" =>
                          tx_descriptors[i].address = tx_packets[i]
  /\ \A i \in RxSlots : rx_descriptors[i].address = rx_packets[i]

IInv == TypeOK /\ PacketConservation /\ AddressesMatch

-----------------------------------------------------------------------------
(* What the list and array operations of the allocator and the driver do   *)
(* to the set of packets they hold.                                        *)

\* Putting a packet in front of a list that does not hold it adds exactly it
\* (list_add_first in free_network_packet).
LEMMA AddFirstAdds ==
  ASSUME NEW S, NEW s \in Seq(S), IsInjective(s), NEW p \in S, p \notin Range(s)
  PROVE  /\ AddFirst(p, s) \in Seq(S)
         /\ IsInjective(AddFirst(p, s))
         /\ Range(AddFirst(p, s)) = {p} \cup Range(s)
<1> DEFINE t == AddFirst(p, s)
<1>1. /\ Len(s) \in Nat /\ DOMAIN s = 1 .. Len(s)
      /\ t \in Seq(S) /\ DOMAIN t = 1 .. Len(s) + 1
      /\ t[1] = p /\ \A k \in 1 .. Len(s) : t[k + 1] = s[k]
  BY DEF AddFirst
<1> HIDE DEF t
<1>2. \A k \in 2 .. Len(s) + 1 : k - 1 \in 1 .. Len(s) /\ t[k] = s[k - 1]
  BY <1>1
<1>3. \A k \in 2 .. Len(s) + 1 : t[k] # p
  BY <1>1, <1>2 DEF Range
<1>4. IsInjective(t)
  <2>1. SUFFICES ASSUME NEW a \in 1 .. Len(s) + 1, NEW b \in 1 .. Len(s) + 1, t[a] = t[b]
                 PROVE  a = b
    BY <1>1 DEF IsInjective
  <2>2. CASE a = 1 \/ b = 1
    BY <1>1, <1>3, <2>1, <2>2
  <2>3. CASE a # 1 /\ b # 1
    <3>1. /\ a - 1 \in 1 .. Len(s) /\ b - 1 \in 1 .. Len(s)
          /\ s[a - 1] = s[b - 1]
      BY <1>1, <1>2, <2>1, <2>3
    <3>2. a - 1 = b - 1
      BY <1>1, <3>1 DEF IsInjective
    <3>3. QED
      BY <1>1, <3>2
  <2>4. QED
    BY <2>2, <2>3
<1>5. ASSUME NEW x \in Range(t)
      PROVE  x \in {p} \cup Range(s)
  <2>1. PICK k \in 1 .. Len(s) + 1 : t[k] = x
    BY <1>1, <1>5 DEF Range
  <2>2. QED
    BY <1>1, <1>2, <2>1 DEF Range
<1>6. ASSUME NEW x \in {p} \cup Range(s)
      PROVE  x \in Range(t)
  <2>1. CASE x = p
    BY <1>1, <2>1 DEF Range
  <2>2. CASE x \in Range(s)
    <3>1. PICK k \in 1 .. Len(s) : s[k] = x
      BY <1>1, <2>2 DEF Range
    <3>2. k + 1 \in 1 .. Len(s) + 1 /\ t[k + 1] = x
      BY <1>1, <3>1
    <3>3. QED
      BY <1>1, <3>2 DEF Range
  <2>3. QED
    BY <1>6, <2>1, <2>2
<1>7. QED
  BY <1>1, <1>4, <1>5, <1>6 DEF t

-----------------------------------------------------------------------------
(* Type correctness. *)

\* Both rings have a first slot.
LEMMA SlotsNonEmpty == 0 \in TxSlots /\ 0 \in RxSlots
BY RingAssumption DEF TxSlots, RxSlots

\* tx_index and tx_dma wrap within the ring.
LEMMA NextTxInRange == \A i \in TxSlots : NextTx(i) \in TxSlots
BY RingAssumption DEF TxSlots, NextTx

\* rx_index and rx_dma wrap within the ring.
LEMMA NextRxInRange == \A i \in RxSlots : NextRx(i) \in RxSlots
BY RingAssumption DEF RxSlots, NextRx

\* gmac_init puts packets of the pool into the rings.
LEMMA InitialPackets ==
  /\ \A i \in TxSlots : TxInitial(i) \in Packets
  /\ \A i \in RxSlots : RxInitial(i) \in Packets
BY RingAssumption DEF TxSlots, RxSlots, Packets, TxInitial, RxInitial

\* network_init followed by gmac_init builds a well-typed state.
LEMMA InitTypeOK == Init => TypeOK
<1> SUFFICES ASSUME Init PROVE TypeOK
  OBVIOUS
<1> DEFINE spare == PacketCount - TxCount - RxCount
<1>1. spare \in Nat
  BY RingAssumption
<1>2. free_network_packets \in [1 .. spare -> Packets]
  BY RingAssumption, <1>1 DEF Init, Packets
<1>3. free_network_packets \in Seq(Packets)
  BY <1>1, <1>2
<1>4. buffers \in 0 .. MaxBuffers
  BY RingAssumption DEF Init
<1>5. 0 \in 0 .. MaxBuffers
  BY RingAssumption
<1>6. QED
  BY <1>3, <1>4, <1>5, InitialPackets, SlotsNonEmpty DEF Init, TypeOK

\* Every operation of the driver, the allocator and the DMA engine keeps it.
LEMMA NextTypeOK == TypeOK /\ [Next]_vars => TypeOK'
<1> SUFFICES ASSUME TypeOK, [Next]_vars PROVE TypeOK'
  OBVIOUS
<1> USE DEF TypeOK
<1>1. CASE Allocate
  BY <1>1 DEF Allocate, txRing, rxRing
<1>2. CASE AllocateHangs
  BY <1>2 DEF AllocateHangs, Halt, software, txRing, rxRing
<1>3. ASSUME NEW packet \in held,
             Free(packet) \/ SendHangs(packet) \/ SendDrops(packet) \/ SendLinks(packet)
      PROVE  TypeOK'
  <2>1. \A p \in Packets : AddFirst(p, free_network_packets) \in Seq(Packets)
    BY DEF AddFirst
  <2>2. CASE Free(packet)
    BY <2>1, <2>2 DEF Free, txRing, rxRing
  <2>3. CASE SendHangs(packet)
    BY <2>3 DEF SendHangs, Halt, software, txRing, rxRing
  <2>4. CASE SendDrops(packet)
    BY <2>1, <2>4 DEF SendDrops, txRing, rxRing
  <2>5. CASE SendLinks(packet)
    BY <2>1, <2>5, NextTxInRange DEF SendLinks, TxBusy, rxRing
  <2>6. QED
    BY <1>3, <2>2, <2>3, <2>4, <2>5
<1>4. CASE ReceiveDropsFragment
  BY <1>4 DEF ReceiveDropsFragment, software, txRing
<1>5. CASE ReceiveFrame
  <2>1. /\ Head(free_network_packets) \in Packets
        /\ Tail(free_network_packets) \in Seq(Packets)
    BY <1>5 DEF ReceiveFrame
  <2>2. QED
    BY <1>5, <2>1, NextRxInRange DEF ReceiveFrame, Rearmed, txRing
<1>6. CASE ReceiveHangs
  BY <1>6 DEF ReceiveHangs, Halt, software, txRing, rxRing
<1>7. CASE Deinit
  BY <1>7 DEF Deinit, software, txRing, rxRing
<1>8. CASE DmaTransmit
  BY <1>8, NextTxInRange DEF DmaTransmit, software, rxRing
<1>9. CASE DmaTransmitFails
  BY <1>9 DEF DmaTransmitFails, software, txRing, rxRing
<1>10. ASSUME NEW sof \in BOOLEAN, NEW eof \in BOOLEAN, DmaFill(sof, eof)
       PROVE  TypeOK'
  <2>1. buffers + 1 \in 0 .. MaxBuffers
    BY <1>10, RingAssumption DEF DmaFill
  <2>2. rx_descriptors' \in [RxSlots ->
          [owner : {"CPU", "GMAC"}, sof : BOOLEAN, eof : BOOLEAN,
           address : Packets, frame : 0 .. MaxBuffers]]
    BY <1>10, <2>1 DEF DmaFill
  <2>3. mid_frame' \in BOOLEAN
    BY <1>10 DEF DmaFill
  <2>4. QED
    BY <1>10, <2>1, <2>2, <2>3, NextRxInRange DEF DmaFill, software, txRing
<1>11. CASE DmaReceive
  BY <1>10, <1>11 DEF DmaReceive
<1>12. CASE UNCHANGED vars
  BY <1>12 DEF vars, software, txRing, rxRing
<1>13. QED
  BY <1>1, <1>2, <1>3, <1>4, <1>5, <1>6, <1>7, <1>8, <1>9, <1>11, <1>12
     DEF Next, GmacReceive

\* The state of the allocator, the driver and the engine is always well typed:
\* tx_index and rx_index wrap and never leave their rings.
THEOREM TypeCorrect == Spec => []TypeOK
<1>1. QED
  BY InitTypeOK, NextTypeOK, PTL DEF Spec

-----------------------------------------------------------------------------
(* Conservation of packets. *)

\* After network_init and gmac_init the packets are dealt out without overlap.
LEMMA InitIInv == Init => IInv
<1> SUFFICES ASSUME Init PROVE IInv
  OBVIOUS
<1> DEFINE spare == PacketCount - TxCount - RxCount
<1>1. /\ spare \in Nat /\ TxCount \in Nat /\ RxCount \in Nat
      /\ PacketCount = spare + TxCount + RxCount
  BY RingAssumption
<1>2. /\ DOMAIN free_network_packets = 1 .. spare
      /\ \A k \in 1 .. spare : free_network_packets[k] = spare - k
  BY DEF Init
<1>3. /\ DOMAIN tx_packets = TxSlots
      /\ \A i \in TxSlots : tx_packets[i] = PacketCount - 1 - i
  BY DEF Init, TxInitial
<1>4. /\ DOMAIN rx_packets = RxSlots
      /\ \A i \in RxSlots : rx_packets[i] = PacketCount - 1 - TxCount - i
  BY DEF Init, RxInitial
<1> HIDE DEF spare
<1>5. NothingTwice
  <2>1. IsInjective(free_network_packets)
    BY <1>1, <1>2 DEF IsInjective
  <2>2. IsInjective(tx_packets)
    BY <1>1, <1>3 DEF IsInjective, TxSlots
  <2>3. IsInjective(rx_packets)
    BY <1>1, <1>4 DEF IsInjective, RxSlots
  <2>4. QED
    BY <2>1, <2>2, <2>3 DEF NothingTwice
<1>6. Range(free_network_packets) = 0 .. spare - 1
  <2>1. \A n \in 0 .. spare - 1 : spare - n \in 1 .. spare
                                 /\ free_network_packets[spare - n] = n
    BY <1>1, <1>2
  <2>2. \A k \in 1 .. spare : free_network_packets[k] \in 0 .. spare - 1
    BY <1>1, <1>2
  <2>3. QED
    BY <1>2, <2>1, <2>2 DEF Range
<1>7. Range(rx_packets) = spare .. spare + RxCount - 1
  <2>1. \A n \in spare .. spare + RxCount - 1 :
          spare + RxCount - 1 - n \in RxSlots
          /\ rx_packets[spare + RxCount - 1 - n] = n
    BY <1>1, <1>4 DEF RxSlots
  <2>2. \A i \in RxSlots : rx_packets[i] \in spare .. spare + RxCount - 1
    BY <1>1, <1>4 DEF RxSlots
  <2>3. QED
    BY <1>4, <2>1, <2>2 DEF Range
<1>8. Range(tx_packets) = spare + RxCount .. PacketCount - 1
  <2>1. \A n \in spare + RxCount .. PacketCount - 1 :
          PacketCount - 1 - n \in TxSlots /\ tx_packets[PacketCount - 1 - n] = n
    BY <1>1, <1>3 DEF TxSlots
  <2>2. \A i \in TxSlots : tx_packets[i] \in spare + RxCount .. PacketCount - 1
    BY <1>1, <1>3 DEF TxSlots
  <2>3. QED
    BY <1>3, <2>1, <2>2 DEF Range
<1>9. held = {}
  BY DEF Init
<1>10. PlacesDisjoint
  BY <1>1, <1>6, <1>7, <1>8, <1>9 DEF PlacesDisjoint
<1>11. NothingLost
  BY <1>1, <1>6, <1>7, <1>8, <1>9 DEF NothingLost, Packets
<1>12. AddressesMatch
  BY DEF Init, AddressesMatch
<1>13. QED
  BY <1>5, <1>10, <1>11, <1>12, InitTypeOK DEF IInv, PacketConservation

\* Returning a packet to the free list (Free, SendDrops).
LEMMA ReturnPreserves ==
  ASSUME IInv, NEW packet \in held,
         free_network_packets' = AddFirst(packet, free_network_packets),
         held' = held \ {packet},
         UNCHANGED <<txRing, rxRing>>
  PROVE  PacketConservation' /\ AddressesMatch'
<1>1. /\ free_network_packets \in Seq(Packets) /\ packet \in Packets
      /\ IsInjective(free_network_packets)
      /\ packet \notin Range(free_network_packets)
  BY DEF IInv, TypeOK, PacketConservation, NothingTwice, PlacesDisjoint
<1>2. /\ IsInjective(free_network_packets')
      /\ Range(free_network_packets') = {packet} \cup Range(free_network_packets)
  BY <1>1, AddFirstAdds
<1>3. PacketConservation'
  BY <1>2 DEF IInv, PacketConservation, NothingTwice, PlacesDisjoint, NothingLost,
              txRing, rxRing
<1>4. AddressesMatch'
  BY DEF IInv, AddressesMatch, txRing, rxRing
<1>5. QED
  BY <1>3, <1>4

\* The packet moved into a transmit slot and the one it replaces change places
\* with each other, not with a third one.
LEMMA SendLinksPreserves ==
  ASSUME IInv, NEW packet \in held, SendLinks(packet)
  PROVE  PacketConservation' /\ AddressesMatch'
<1> DEFINE old == tx_packets[tx_index]
<1>1. /\ free_network_packets \in Seq(Packets) /\ packet \in Packets
      /\ tx_packets \in [TxSlots -> Packets] /\ tx_index \in TxSlots
      /\ IsInjective(free_network_packets) /\ IsInjective(tx_packets)
      /\ packet \notin Range(tx_packets)
  BY DEF IInv, TypeOK, PacketConservation, NothingTwice, PlacesDisjoint
<1>2. tx_packets' = [tx_packets EXCEPT ![tx_index] = packet]
  BY DEF SendLinks, TxBusy
<1>3. /\ old \in Range(tx_packets)
      /\ IsInjective(tx_packets')
      /\ Range(tx_packets') = (Range(tx_packets) \ {old}) \cup {packet}
  BY <1>1, <1>2 DEF Range, IsInjective
<1>4. old \in Packets /\ old \notin Range(free_network_packets)
  BY <1>1, <1>3 DEF IInv, PacketConservation, PlacesDisjoint
<1>5. free_network_packets' = AddFirst(old, free_network_packets)
  BY DEF SendLinks, TxBusy
<1>6. /\ IsInjective(free_network_packets')
      /\ Range(free_network_packets') = {old} \cup Range(free_network_packets)
  BY <1>1, <1>4, <1>5, AddFirstAdds
<1>7. held' = held \ {packet} /\ rx_packets' = rx_packets
  BY DEF SendLinks, TxBusy, rxRing
<1>8. PlacesDisjoint'
  BY <1>3, <1>6, <1>7 DEF IInv, PacketConservation, PlacesDisjoint
<1>9. NothingLost' /\ NothingTwice'
  BY <1>3, <1>6, <1>7 DEF IInv, PacketConservation, NothingLost, NothingTwice
<1>10. AddressesMatch'
  BY <1>1 DEF IInv, TypeOK, AddressesMatch, SendLinks, TxBusy, rxRing
<1>11. QED
  BY <1>8, <1>9, <1>10 DEF PacketConservation

\* gmac_receive passes up the filled packet and parks a fresh one in its slot.
LEMMA ReceiveFramePreserves ==
  ASSUME IInv, ReceiveFrame
  PROVE  PacketConservation' /\ AddressesMatch'
<1> DEFINE fresh  == Head(free_network_packets)
           filled == rx_packets[rx_index]
<1>1. /\ free_network_packets \in Seq(Packets) /\ free_network_packets # <<>>
      /\ rx_packets \in [RxSlots -> Packets] /\ rx_index \in RxSlots
      /\ IsInjective(free_network_packets) /\ IsInjective(rx_packets)
  BY DEF IInv, TypeOK, PacketConservation, NothingTwice, ReceiveFrame
<1>2. free_network_packets' = Tail(free_network_packets)
  BY DEF ReceiveFrame
<1>3. /\ fresh \in Packets /\ fresh \in Range(free_network_packets)
      /\ IsInjective(free_network_packets')
      /\ Range(free_network_packets') = Range(free_network_packets) \ {fresh}
  BY <1>1, <1>2, TailRemoves
<1>4. fresh \notin Range(rx_packets)
  BY <1>3 DEF IInv, PacketConservation, PlacesDisjoint
<1>5. rx_packets' = [rx_packets EXCEPT ![rx_index] = fresh]
  BY DEF ReceiveFrame
<1>6. /\ filled \in Range(rx_packets)
      /\ IsInjective(rx_packets')
      /\ Range(rx_packets') = (Range(rx_packets) \ {filled}) \cup {fresh}
  BY <1>1, <1>3, <1>4, <1>5 DEF Range, IsInjective
<1>7. held' = held \cup {filled} /\ tx_packets' = tx_packets
  BY DEF ReceiveFrame, Rearmed, txRing
<1>8. PlacesDisjoint'
  BY <1>3, <1>6, <1>7 DEF IInv, PacketConservation, PlacesDisjoint
<1>9. NothingLost' /\ NothingTwice'
  BY <1>3, <1>6, <1>7 DEF IInv, PacketConservation, NothingLost, NothingTwice
<1>10. AddressesMatch'
  BY <1>1 DEF IInv, TypeOK, AddressesMatch, ReceiveFrame, Rearmed, txRing
<1>11. QED
  BY <1>8, <1>9, <1>10 DEF PacketConservation

\* No step of the software or of the engine loses, duplicates or shares a packet.
LEMMA NextIInv == IInv /\ [Next]_vars => IInv'
<1> SUFFICES ASSUME IInv, [Next]_vars PROVE IInv'
  OBVIOUS
<1>0. TypeOK'
  BY NextTypeOK DEF IInv
<1>1. SUFFICES PacketConservation' /\ AddressesMatch'
  BY <1>0 DEF IInv
<1>2. CASE Allocate
  <2>1. /\ Head(free_network_packets) \in Range(free_network_packets)
        /\ IsInjective(free_network_packets')
        /\ Range(free_network_packets') =
             Range(free_network_packets) \ {Head(free_network_packets)}
    BY <1>2, TailRemoves DEF Allocate, IInv, TypeOK, PacketConservation, NothingTwice
  <2>2. PacketConservation'
    BY <1>2, <2>1 DEF Allocate, IInv, PacketConservation, NothingTwice,
                      PlacesDisjoint, NothingLost, txRing, rxRing
  <2>3. AddressesMatch'
    BY <1>2 DEF Allocate, IInv, AddressesMatch, txRing, rxRing
  <2>4. QED
    BY <2>2, <2>3
<1>3. ASSUME UNCHANGED <<software, tx_packets, rx_packets>>
      PROVE  PacketConservation'
  BY <1>3 DEF IInv, PacketConservation, NothingTwice, PlacesDisjoint, NothingLost,
              software
<1>4. ASSUME UNCHANGED <<software, txRing, rxRing>>
      PROVE  PacketConservation' /\ AddressesMatch'
  BY <1>3, <1>4 DEF IInv, AddressesMatch, txRing, rxRing
<1>5. CASE AllocateHangs \/ ReceiveHangs \/ Deinit \/ DmaTransmitFails \/ UNCHANGED vars
  BY <1>4, <1>5 DEF AllocateHangs, ReceiveHangs, Halt, Deinit, DmaTransmitFails, vars
<1>6. ASSUME NEW packet \in held,
             Free(packet) \/ SendHangs(packet) \/ SendDrops(packet) \/ SendLinks(packet)
      PROVE  PacketConservation' /\ AddressesMatch'
  <2>1. CASE Free(packet)
    BY <2>1, ReturnPreserves DEF Free
  <2>2. CASE SendHangs(packet)
    BY <1>4, <2>2 DEF SendHangs, Halt
  <2>3. CASE SendDrops(packet)
    BY <2>3, ReturnPreserves DEF SendDrops
  <2>4. CASE SendLinks(packet)
    BY <2>4, SendLinksPreserves
  <2>5. QED
    BY <1>6, <2>1, <2>2, <2>3, <2>4
<1>7. CASE ReceiveDropsFragment
  <2>1. AddressesMatch'
    BY <1>7 DEF ReceiveDropsFragment, IInv, TypeOK, AddressesMatch, txRing
  <2>2. QED
    BY <1>3, <1>7, <2>1 DEF ReceiveDropsFragment, txRing
<1>8. CASE ReceiveFrame
  BY <1>8, ReceiveFramePreserves
<1>9. CASE DmaTransmit
  <2>1. AddressesMatch'
    BY <1>9 DEF DmaTransmit, IInv, TypeOK, AddressesMatch, rxRing
  <2>2. QED
    BY <1>3, <1>9, <2>1 DEF DmaTransmit, rxRing
<1>10. ASSUME NEW sof \in BOOLEAN, NEW eof \in BOOLEAN, DmaFill(sof, eof)
       PROVE  PacketConservation' /\ AddressesMatch'
  <2>1. AddressesMatch'
    BY <1>10 DEF DmaFill, IInv, TypeOK, AddressesMatch, txRing
  <2>2. QED
    BY <1>3, <1>10, <2>1 DEF DmaFill, txRing
<1>11. CASE DmaReceive
  BY <1>10, <1>11 DEF DmaReceive
<1>12. QED
  BY <1>2, <1>5, <1>6, <1>7, <1>8, <1>9, <1>11 DEF Next, GmacReceive

\* The inductive invariant always holds.
LEMMA Inductive == Spec => []IInv
BY InitIInv, NextIInv, PTL DEF Spec

\* allocate_network_packet, free_network_packet, gmac_send and gmac_receive
\* together never lose a packet, never free one twice and never let a packet
\* be in two places at once.
THEOREM PacketsConserved == Spec => []PacketConservation
<1>1. IInv => PacketConservation
  BY DEF IInv
<1>2. QED
  BY <1>1, Inductive, PTL

\* The DMA engine never works on a packet that is free, that the software
\* holds, or that the other ring uses.
THEOREM DmaBuffersAreReserved == Spec => []DmaBuffersReserved
<1>1. IInv => DmaBuffersReserved
  <2> SUFFICES ASSUME IInv PROVE DmaBuffersReserved
    OBVIOUS
  <2>1. /\ \A i \in TxSlots : tx_packets[i] \in Range(tx_packets)
        /\ \A i \in RxSlots : rx_packets[i] \in Range(rx_packets)
    BY DEF IInv, TypeOK, Range
  <2>2. \A packet \in Packets : InDma(packet) =>
          packet \in Range(tx_packets) \cup Range(rx_packets)
    BY <2>1 DEF InDma, IInv, AddressesMatch
  <2>3. QED
    BY <2>1, <2>2 DEF IInv, PacketConservation, PlacesDisjoint, AddressesMatch,
                      DmaBuffersReserved
<1>2. QED
  BY <1>1, Inductive, PTL

-----------------------------------------------------------------------------
(* The rings as queues.  What the rings hold is a window of consecutive    *)
(* slots, which may run over the end of the ring.                          *)

\* The slot that is k slots behind slot i, for k up to the size N of the ring.
At(i, k, N) == IF i + k < N THEN i + k ELSE i + k - N

\* The descriptors the engine owns are n, from tx_dma up to tx_index.
TxWindow(n) ==
  /\ tx_index = At(tx_dma, n, TxCount)
  /\ \A k \in 0 .. TxCount - 1 : tx_descriptors[At(tx_dma, k, TxCount)].owner = "GMAC" <=> k < n

\* The number of frames stored so far that come before any long one.
LastEarly == IF buffers < WholeFrames THEN buffers ELSE WholeFrames

\* The descriptors in the order gmac_receive will look at them.
RxSlot(k) == rx_descriptors[At(rx_index, k, RxCount)]

\* The first n of them hold the newest n of the early frames, whole and in order;
\* the others are the engine's or hold later ones.  The engine has not left this
\* window as long as it has stored no frame behind the early ones.
RxWindow(n) ==
  /\ \A k \in 0 .. n - 1 : /\ RxSlot(k).owner = "CPU" /\ WholeFrame(RxSlot(k))
                           /\ RxSlot(k).frame = LastEarly - n + 1 + k
  /\ \A k \in n .. RxCount - 1 : RxSlot(k).owner = "CPU" => RxSlot(k).frame > WholeFrames
  /\ buffers =< WholeFrames => ~mid_frame /\ rx_dma = At(rx_index, n, RxCount)
  /\ \A i \in RxSlots : rx_descriptors[i].frame =< buffers

TxIsWindow == \E n \in 0 .. TxCount : TxWindow(n)
RxIsWindow == \E n \in 0 .. RxCount : RxWindow(n)

\* What gmac_receive has to return before any long frame.
Early(descriptor) == descriptor.owner = "CPU" /\ descriptor.frame =< WholeFrames

TxDescriptors == [TxSlots -> [owner : {"CPU", "GMAC"}, address : Packets]]

RxDescriptors ==
  [RxSlots -> [owner : {"CPU", "GMAC"}, sof : BOOLEAN, eof : BOOLEAN,
               address : Packets, frame : 0 .. MaxBuffers]]

-----------------------------------------------------------------------------

\* The index computed with % is that slot.
LEMMA Wraps ==
  ASSUME NEW N \in Nat \ {0}, NEW i \in 0 .. N - 1, NEW k \in 0 .. N - 1
  PROVE  (i + (k + 1) - 1) % N = At(i, k, N) /\ At(i, k, N) \in 0 .. N - 1
<1>1. \A a \in Nat : a < N => a % N = a
  OBVIOUS
<1>2. \A a \in Nat : N =< a /\ a < N + N => a % N = a - N
  OBVIOUS
<1>3. i + (k + 1) - 1 = i + k
  OBVIOUS
<1>4. QED
  BY <1>1, <1>2, <1>3 DEF At

\* Within one round no slot is met twice.
LEMMA AtInjective ==
  ASSUME NEW N \in Nat \ {0}, NEW i \in 0 .. N - 1, NEW j \in 0 .. N - 1, NEW k \in 0 .. N - 1,
         At(i, j, N) = At(i, k, N)
  PROVE  j = k
BY DEF At

\* Within one round every slot is met.
LEMMA AtOnto ==
  ASSUME NEW N \in Nat \ {0}, NEW i \in 0 .. N - 1, NEW s \in 0 .. N - 1
  PROVE  \E k \in 0 .. N - 1 : At(i, k, N) = s
<1>1. CASE s >= i
  <2>1. s - i \in 0 .. N - 1 /\ At(i, s - i, N) = s
    BY <1>1 DEF At
  <2>2. QED
    BY <2>1
<1>2. CASE s < i
  <2>1. s - i + N \in 0 .. N - 1 /\ At(i, s - i + N, N) = s
    BY <1>2 DEF At
  <2>2. QED
    BY <2>1
<1>3. QED
  BY <1>1, <1>2

\* n consecutive slots are n slots.
LEMMA ArcSize ==
  ASSUME NEW N \in Nat \ {0}, NEW i \in 0 .. N - 1, NEW n \in 0 .. N
  PROVE  Cardinality({At(i, k, N) : k \in 0 .. n - 1}) = n
<1> DEFINE f == [k \in 0 .. n - 1 |-> At(i, k, N)]
           S == {At(i, k, N) : k \in 0 .. n - 1}
<1>1. f \in Bijection(0 .. n - 1, S)
  <2>1. \A j, k \in 0 .. n - 1 : j \in 0 .. N - 1 /\ k \in 0 .. N - 1
    OBVIOUS
  <2>2. \A j, k \in 0 .. n - 1 : f[j] = f[k] => j = k
    BY <2>1, AtInjective
  <2>3. f \in [0 .. n - 1 -> S] /\ \A s \in S : \E k \in 0 .. n - 1 : f[k] = s
    OBVIOUS
  <2>4. QED
    BY <2>2, <2>3 DEF Bijection, Injection, Surjection, IsInjective
<1>2. IsFiniteSet(0 .. n - 1) /\ Cardinality(0 .. n - 1) = n
  BY FS_Interval
<1>3. ExistsBijection(0 .. n - 1, S)
  BY <1>1 DEF ExistsBijection
<1>4. QED
  BY <1>2, <1>3, FS_Bijection
\* Advancing either end of a window, with the test for the end of the ring.
LEMMA AtNext ==
  ASSUME NEW N \in Nat \ {0}, NEW i \in 0 .. N - 1, NEW k \in 0 .. N - 1
  PROVE  /\ (IF At(i, k, N) + 1 = N THEN 0 ELSE At(i, k, N) + 1) = At(i, k + 1, N)
         /\ At(IF i + 1 = N THEN 0 ELSE i + 1, k, N) = At(i, k + 1, N)
         /\ At(i, 0, N) = i /\ At(i, N, N) = i
BY DEF At

\* Sequences of which one is the other and an element more.
LEMMA PutAtEnd ==
  ASSUME NEW S, NEW n \in Nat, NEW a \in [1 .. n -> S], NEW b \in [1 .. n + 1 -> S],
         \A k \in 1 .. n : b[k] = a[k]
  PROVE  Len(a) = n /\ b = Append(a, b[n + 1])
<1>1. a \in Seq(S) /\ Len(a) = n /\ b \in Seq(S) /\ Len(b) = n + 1
  OBVIOUS
<1>2. b[n + 1] \in S
  OBVIOUS
<1>3. Append(a, b[n + 1]) \in Seq(S) /\ Len(Append(a, b[n + 1])) = n + 1
  BY <1>1, <1>2
<1>4. \A k \in 1 .. n + 1 : b[k] = Append(a, b[n + 1])[k]
  BY <1>1, <1>2
<1>5. QED
  BY <1>1, <1>3, <1>4

\* Sequences of which one is the other without its first element.
LEMMA TakenAtFront ==
  ASSUME NEW S, NEW n \in Nat, NEW a \in [1 .. n + 1 -> S], NEW b \in [1 .. n -> S],
         \A k \in 1 .. n : b[k] = a[k + 1]
  PROVE  a # <<>> /\ b = Tail(a)
<1>1. a \in Seq(S) /\ Len(a) = n + 1 /\ b \in Seq(S) /\ Len(b) = n
  OBVIOUS
<1>2. a # <<>> /\ Tail(a) \in Seq(S) /\ Len(Tail(a)) = n
  BY <1>1
<1>3. \A k \in 1 .. n : b[k] = Tail(a)[k]
  BY <1>1
<1>4. QED
  BY <1>1, <1>2, <1>3

\* A set that consists of the n slots from i on, and how the index runs through them.
LEMMA RingQueue ==
  ASSUME NEW N \in Nat \ {0}, NEW i \in 0 .. N - 1, NEW n \in 0 .. N, NEW S,
         S \subseteq 0 .. N - 1, \A k \in 0 .. N - 1 : At(i, k, N) \in S <=> k < n
  PROVE  /\ Cardinality(S) = n
         /\ \A k \in 1 .. n : (i + k - 1) % N = At(i, k - 1, N)
<1>1. \A k \in 0 .. n - 1 : k \in 0 .. N - 1
  OBVIOUS
<1>2. S = {At(i, k, N) : k \in 0 .. n - 1}
  <2>1. ASSUME NEW s \in S PROVE \E k \in 0 .. n - 1 : s = At(i, k, N)
    <3>1. PICK k \in 0 .. N - 1 : At(i, k, N) = s
      BY AtOnto
    <3>2. k < n
      BY <3>1
    <3>3. k \in 0 .. n - 1
      BY <3>2
    <3>4. QED
      BY <3>1, <3>3
  <2>2. \A k \in 0 .. n - 1 : At(i, k, N) \in S
    BY <1>1
  <2>3. QED
    BY <2>1, <2>2
<1>3. ASSUME NEW k \in 1 .. n PROVE (i + k - 1) % N = At(i, k - 1, N)
  <2>1. k - 1 \in 0 .. N - 1 /\ (k - 1) + 1 = k
    OBVIOUS
  <2>2. QED
    BY <2>1, Wraps
<1>4. QED
  BY <1>2, <1>3, ArcSize

\* TxQueue reads the window from tx_dma on.
LEMMA TxQueueIs ==
  ASSUME NEW D \in TxDescriptors,
         NEW dma \in TxSlots, NEW n \in 0 .. TxCount,
         \A k \in 0 .. TxCount - 1 : D[At(dma, k, TxCount)].owner = "GMAC" <=> k < n,
         NEW q,
         q = [k \in 1 .. Cardinality(Owned(D, "GMAC")) |-> D[(dma + k - 1) % TxCount].address]
  PROVE  /\ q \in [1 .. n -> Packets]
         /\ \A k \in 1 .. n : q[k] = D[At(dma, k - 1, TxCount)].address
<1>1. TxCount \in Nat \ {0} /\ dma \in 0 .. TxCount - 1
  BY RingAssumption DEF TxSlots
<1>2. Owned(D, "GMAC") \subseteq 0 .. TxCount - 1
  BY DEF Owned, TxSlots, TxDescriptors
<1>3. \A k \in 0 .. TxCount - 1 : At(dma, k, TxCount) \in 0 .. TxCount - 1
  BY <1>1, Wraps
<1>4. \A k \in 0 .. TxCount - 1 : At(dma, k, TxCount) \in Owned(D, "GMAC") <=> k < n
  BY <1>3 DEF Owned, TxSlots, TxDescriptors
<1>5. /\ Cardinality(Owned(D, "GMAC")) = n
      /\ \A k \in 1 .. n : (dma + k - 1) % TxCount = At(dma, k - 1, TxCount)
  BY <1>1, <1>2, <1>4, RingQueue
<1>6. \A k \in 1 .. n : k - 1 \in 0 .. TxCount - 1
  BY <1>1
<1>7. \A k \in 1 .. n : D[At(dma, k - 1, TxCount)].address \in Packets
  <2> SUFFICES ASSUME NEW k \in 1 .. n PROVE D[At(dma, k - 1, TxCount)].address \in Packets
    OBVIOUS
  <2>1. At(dma, k - 1, TxCount) \in TxSlots
    BY <1>3, <1>6 DEF TxSlots
  <2>2. QED
    BY <2>1 DEF TxDescriptors
<1>8. QED
  BY <1>5, <1>7

\* What TxQueue is then.
TxHolds(n) ==
  /\ TxQueue \in [1 .. n -> Packets]
  /\ \A k \in 1 .. n : TxQueue[k] = tx_descriptors[At(tx_dma, k - 1, TxCount)].address

\* It is that in every state with a window.
LEMMA TxQueueNow == \A n \in 0 .. TxCount : TypeOK /\ TxWindow(n) => TxHolds(n)
<1> SUFFICES ASSUME NEW n \in 0 .. TxCount, TypeOK, TxWindow(n) PROVE TxHolds(n)
  OBVIOUS
<1>1. /\ tx_descriptors \in TxDescriptors /\ tx_dma \in TxSlots
      /\ \A k \in 0 .. TxCount - 1 :
           tx_descriptors[At(tx_dma, k, TxCount)].owner = "GMAC" <=> k < n
  BY DEF TypeOK, TxWindow, TxDescriptors
<1>2. TxQueue = [k \in 1 .. Cardinality(Owned(tx_descriptors, "GMAC")) |->
                   tx_descriptors[(tx_dma + k - 1) % TxCount].address]
  BY DEF TxQueue
<1>3. QED
  BY <1>1, <1>2, TxQueueIs DEF TxHolds

\* The same in the next state.
LEMMA TxQueueNext == (\A n \in 0 .. TxCount : TypeOK /\ TxWindow(n) => TxHolds(n))'
BY TxQueueNow, PTL

\* gmac_send puts its packet at the end; it finds the ring full when it is.
LEMMA SendLinksPuts ==
  ASSUME TypeOK, TypeOK', NEW n \in 0 .. TxCount, TxWindow(n), NEW packet \in held, SendLinks(packet)
  PROVE  TxIsWindow' /\ TxFifo!Put
<1>1. TxCount \in Nat \ {0} /\ tx_dma \in 0 .. TxCount - 1 /\ packet \in Packets
  BY RingAssumption DEF TypeOK, TxSlots
<1>2. /\ tx_descriptors[tx_index].owner # "GMAC"
      /\ tx_descriptors' = [tx_descriptors EXCEPT ![tx_index] = [owner |-> "GMAC", address |-> packet]]
      /\ tx_index' = NextTx(tx_index) /\ tx_dma' = tx_dma
  BY DEF SendLinks, TxBusy
<1>3. n < TxCount
  <2>1. CASE n = TxCount
    <3>1. 0 \in 0 .. TxCount - 1 /\ At(tx_dma, 0, TxCount) = tx_dma /\ At(tx_dma, n, TxCount) = tx_dma
      BY <1>1, <2>1, AtNext
    <3>2. QED
      BY <1>1, <1>2, <2>1, <3>1 DEF TxWindow
  <2>2. QED
    BY <1>1, <2>1
<1>4. n \in 0 .. TxCount - 1 /\ n + 1 \in 0 .. TxCount
  BY <1>1, <1>3
<1>5. tx_index = At(tx_dma, n, TxCount)
  BY DEF TxWindow
<1>6. tx_index' = At(tx_dma', n + 1, TxCount)
  BY <1>1, <1>2, <1>4, <1>5, AtNext DEF NextTx
<1>7. \A k \in 0 .. TxCount - 1 : At(tx_dma, k, TxCount) \in TxSlots
  BY <1>1, Wraps DEF TxSlots
<1>8. \A k \in 0 .. TxCount - 1 : k # n => At(tx_dma, k, TxCount) # tx_index
  BY <1>1, <1>4, <1>5, AtInjective
<1>9. \A k \in 0 .. TxCount - 1 :
        tx_descriptors'[At(tx_dma, k, TxCount)] =
          IF k = n THEN [owner |-> "GMAC", address |-> packet]
                   ELSE tx_descriptors[At(tx_dma, k, TxCount)]
  BY <1>2, <1>5, <1>7, <1>8 DEF TypeOK
<1>10. TxWindow(n + 1)'
  <2>1. \A k \in 0 .. TxCount - 1 :
          tx_descriptors'[At(tx_dma', k, TxCount)].owner = "GMAC" <=> k < n + 1
    <3> SUFFICES ASSUME NEW k \in 0 .. TxCount - 1
                 PROVE  tx_descriptors'[At(tx_dma, k, TxCount)].owner = "GMAC" <=> k < n + 1
      BY <1>2
    <3>1. CASE k = n
      BY <1>4, <1>9, <3>1
    <3>2. CASE k # n
      BY <1>4, <1>9, <3>2 DEF TxWindow
    <3>3. QED
      BY <3>1, <3>2
  <2>2. QED
    BY <1>6, <2>1 DEF TxWindow
<1>11. TxFifo!Put
  <2> DEFINE a == TxQueue
             b == TxQueue'
  <2>1. /\ a \in [1 .. n -> Packets]
        /\ \A k \in 1 .. n : a[k] = tx_descriptors[At(tx_dma, k - 1, TxCount)].address
    BY TxQueueNow DEF TxHolds
  <2>2. /\ b \in [1 .. n + 1 -> Packets]
        /\ \A k \in 1 .. n + 1 : b[k] = tx_descriptors'[At(tx_dma', k - 1, TxCount)].address
    BY <1>4, <1>10, TxQueueNext DEF TxHolds
  <2>3. \A k \in 1 .. n + 1 : k - 1 \in 0 .. TxCount - 1
    BY <1>1, <1>4
  <2> HIDE DEF a, b
  <2>4. \A k \in 1 .. n : b[k] = a[k]
    BY <1>2, <1>4, <1>9, <2>1, <2>2, <2>3
  <2>5. b[n + 1] = packet
    BY <1>2, <1>4, <1>9, <2>2, <2>3
  <2>6. Len(a) = n /\ b = Append(a, packet)
    BY <1>4, <2>1, <2>2, <2>4, <2>5, PutAtEnd
  <2>7. QED
    BY <1>1, <1>3, <2>6 DEF TxFifo!Put, a, b
<1>12. QED
  BY <1>4, <1>10, <1>11 DEF TxIsWindow

\* The engine takes the first packet out.
LEMMA DmaTransmitGets ==
  ASSUME TypeOK, TypeOK', NEW n \in 0 .. TxCount, TxWindow(n), DmaTransmit
  PROVE  TxIsWindow' /\ TxFifo!Get
<1>1. TxCount \in Nat \ {0} /\ tx_dma \in 0 .. TxCount - 1
  BY RingAssumption DEF TypeOK, TxSlots
<1>2. /\ tx_descriptors[tx_dma].owner = "GMAC"
      /\ tx_descriptors' = [tx_descriptors EXCEPT ![tx_dma].owner = "CPU"]
      /\ tx_index' = tx_index /\ tx_dma' = NextTx(tx_dma)
  BY DEF DmaTransmit
<1>3. At(tx_dma, 0, TxCount) = tx_dma /\ At(tx_dma, TxCount, TxCount) = tx_dma
  BY <1>1, AtNext
<1>4. n > 0 /\ n - 1 \in 0 .. TxCount - 1 /\ n - 1 \in 0 .. TxCount /\ n - 1 \in Nat
  BY <1>1, <1>2, <1>3 DEF TxWindow
<1>5. \A k \in 0 .. TxCount - 1 : At(tx_dma', k, TxCount) = At(tx_dma, k + 1, TxCount)
  BY <1>1, <1>2, AtNext DEF NextTx
<1>6. \A k \in 0 .. TxCount - 2 :
        /\ k \in 0 .. TxCount - 1 /\ k + 1 \in 0 .. TxCount - 1
        /\ tx_descriptors'[At(tx_dma', k, TxCount)] = tx_descriptors[At(tx_dma, k + 1, TxCount)]
  <2> SUFFICES ASSUME NEW k \in 0 .. TxCount - 2
               PROVE  /\ k \in 0 .. TxCount - 1 /\ k + 1 \in 0 .. TxCount - 1
                      /\ tx_descriptors'[At(tx_dma', k, TxCount)] = tx_descriptors[At(tx_dma, k + 1, TxCount)]
    OBVIOUS
  <2>1. k \in 0 .. TxCount - 1 /\ k + 1 \in 0 .. TxCount - 1 /\ 0 \in 0 .. TxCount - 1 /\ k + 1 # 0
    BY <1>1
  <2>2. At(tx_dma, k + 1, TxCount) # tx_dma /\ At(tx_dma, k + 1, TxCount) \in TxSlots
    BY <1>1, <1>3, <2>1, AtInjective, Wraps DEF TxSlots
  <2>3. QED
    BY <1>2, <1>5, <2>1, <2>2 DEF TypeOK
<1>7. TxWindow(n - 1)'
  <2>1. \A k \in 0 .. TxCount - 1 :
          tx_descriptors'[At(tx_dma', k, TxCount)].owner = "GMAC" <=> k < n - 1
    <3> SUFFICES ASSUME NEW k \in 0 .. TxCount - 1
                 PROVE  tx_descriptors'[At(tx_dma', k, TxCount)].owner = "GMAC" <=> k < n - 1
      OBVIOUS
    <3>1. CASE k = TxCount - 1
      <4>1. At(tx_dma', k, TxCount) = tx_dma
        BY <1>1, <1>3, <1>5, <3>1
      <4>2. tx_descriptors'[tx_dma].owner = "CPU"
        BY <1>1, <1>2 DEF TypeOK
      <4>3. QED
        BY <1>1, <1>4, <3>1, <4>1, <4>2
    <3>2. CASE k # TxCount - 1
      <4>1. k \in 0 .. TxCount - 2
        BY <1>1, <3>2
      <4>2. QED
        BY <1>4, <1>6, <4>1 DEF TxWindow
    <3>3. QED
      BY <3>1, <3>2
  <2>2. tx_index' = At(tx_dma', n - 1, TxCount)
    <3>1. (n - 1) + 1 = n
      BY <1>4
    <3>2. QED
      BY <1>2, <1>4, <1>5, <3>1 DEF TxWindow
  <2>3. QED
    BY <2>1, <2>2 DEF TxWindow
<1>8. TxFifo!Get
  <2> DEFINE a == TxQueue
             b == TxQueue'
             m == n - 1
  <2>1. /\ a \in [1 .. m + 1 -> Packets] /\ m + 1 = n
        /\ \A k \in 1 .. n : a[k] = tx_descriptors[At(tx_dma, k - 1, TxCount)].address
    BY <1>4, TxQueueNow DEF TxHolds
  <2>2. /\ b \in [1 .. m -> Packets]
        /\ \A k \in 1 .. m : b[k] = tx_descriptors'[At(tx_dma', k - 1, TxCount)].address
    BY <1>4, <1>7, TxQueueNext DEF TxHolds
  <2>3. m \in Nat /\ m < TxCount
    BY <1>1, <1>4
  <2> HIDE DEF a, b, m
  <2>4. ASSUME NEW k \in 1 .. m PROVE b[k] = a[k + 1]
    <3>1. k - 1 \in 0 .. TxCount - 2 /\ (k - 1) + 1 = k /\ k + 1 \in 1 .. n /\ (k + 1) - 1 = k
      BY <1>1, <2>1, <2>3
    <3>2. tx_descriptors'[At(tx_dma', k - 1, TxCount)] = tx_descriptors[At(tx_dma, k, TxCount)]
      BY <1>6, <3>1
    <3>3. QED
      BY <2>1, <2>2, <3>1, <3>2
  <2>5. a # <<>> /\ b = Tail(a)
    BY <2>1, <2>2, <2>3, <2>4, TakenAtFront
  <2>6. QED
    BY <2>5 DEF TxFifo!Get, a, b
<1>9. QED
  BY <1>4, <1>7, <1>8 DEF TxIsWindow

\* RxQueue reads the window from rx_index on.
LEMMA RxQueueIs ==
  ASSUME NEW D \in RxDescriptors, NEW at \in RxSlots, NEW n \in 0 .. RxCount,
         \A k \in 0 .. RxCount - 1 : Early(D[At(at, k, RxCount)]) <=> k < n,
         NEW q,
         q = [k \in 1 .. Cardinality({i \in RxSlots : Early(D[i])}) |->
                D[(at + k - 1) % RxCount].frame]
  PROVE  /\ q \in [1 .. n -> 0 .. MaxBuffers]
         /\ \A k \in 1 .. n : q[k] = D[At(at, k - 1, RxCount)].frame
<1>1. RxCount \in Nat \ {0} /\ at \in 0 .. RxCount - 1
  BY RingAssumption DEF RxSlots
<1> DEFINE E == {i \in RxSlots : Early(D[i])}
<1>2. E \subseteq 0 .. RxCount - 1
  BY DEF RxSlots
<1>3. \A k \in 0 .. RxCount - 1 : At(at, k, RxCount) \in 0 .. RxCount - 1
  BY <1>1, Wraps
<1>4. \A k \in 0 .. RxCount - 1 : At(at, k, RxCount) \in E <=> k < n
  BY <1>3 DEF RxSlots
<1>5. /\ Cardinality(E) = n
      /\ \A k \in 1 .. n : (at + k - 1) % RxCount = At(at, k - 1, RxCount)
  <2> HIDE DEF E
  <2>1. QED
    BY <1>1, <1>2, <1>4, RingQueue
<1>6. \A k \in 1 .. n : k - 1 \in 0 .. RxCount - 1
  BY <1>1
<1>7. \A k \in 1 .. n : D[At(at, k - 1, RxCount)].frame \in 0 .. MaxBuffers
  <2> SUFFICES ASSUME NEW k \in 1 .. n PROVE D[At(at, k - 1, RxCount)].frame \in 0 .. MaxBuffers
    OBVIOUS
  <2>1. At(at, k - 1, RxCount) \in RxSlots
    BY <1>3, <1>6 DEF RxSlots
  <2>2. QED
    BY <2>1 DEF RxDescriptors
<1>8. QED
  BY <1>5, <1>7

\* What RxQueue is then.
RxHolds(n) ==
  /\ RxQueue \in [1 .. n -> 0 .. MaxBuffers]
  /\ \A k \in 1 .. n : RxQueue[k] = RxSlot(k - 1).frame

\* It is that in every state with a window.
LEMMA RxQueueNow == \A n \in 0 .. RxCount : TypeOK /\ RxWindow(n) => RxHolds(n)
<1> SUFFICES ASSUME NEW n \in 0 .. RxCount, TypeOK, RxWindow(n) PROVE RxHolds(n)
  OBVIOUS
<1>1. RxCount \in Nat \ {0} /\ WholeFrames \in Nat /\ MaxBuffers \in Nat /\ n \in Nat
  BY RingAssumption
<1>2. rx_descriptors \in RxDescriptors /\ rx_index \in RxSlots /\ buffers \in Nat
  BY <1>1 DEF TypeOK, RxDescriptors
<1>3. ASSUME NEW k \in 0 .. n - 1 PROVE Early(RxSlot(k))
  BY <1>1, <1>2 DEF RxWindow, Early, LastEarly
<1>4. ASSUME NEW k \in n .. RxCount - 1 PROVE ~Early(RxSlot(k))
  <2>1. RxSlot(k).frame \in Nat
    <3>1. At(rx_index, k, RxCount) \in RxSlots
      BY <1>1, <1>2, Wraps DEF RxSlots
    <3>2. QED
      BY <1>2, <3>1 DEF RxDescriptors, RxSlot
  <2>2. QED
    BY <1>1, <2>1 DEF RxWindow, Early
<1>5. \A k \in 0 .. RxCount - 1 : Early(RxSlot(k)) <=> k < n
  BY <1>1, <1>3, <1>4
<1>6. RxQueue = [k \in 1 .. Cardinality({i \in RxSlots : Early(rx_descriptors[i])}) |->
                   rx_descriptors[(rx_index + k - 1) % RxCount].frame]
  BY DEF RxQueue, EarlyWaiting, Early
<1>7. QED
  BY <1>2, <1>5, <1>6, RxQueueIs DEF RxHolds, RxSlot

\* The same in the next state.
LEMMA RxQueueNext == (\A n \in 0 .. RxCount : TypeOK /\ RxWindow(n) => RxHolds(n))'
BY RxQueueNow, PTL

\* How the slots as gmac_receive counts them change when rx_index advances.
LEMMA RxIndexAdvances ==
  ASSUME TypeOK, rx_index' = NextRx(rx_index), NEW d,
         rx_descriptors' = [rx_descriptors EXCEPT ![rx_index] = d]
  PROVE  /\ \A k \in 0 .. RxCount - 2 : RxSlot(k)' = RxSlot(k + 1)
         /\ RxSlot(RxCount - 1)' = d
         /\ \A k \in 0 .. RxCount - 1 : At(rx_index', k, RxCount) = At(rx_index, k + 1, RxCount)
<1>1. /\ RxCount \in Nat \ {0} /\ rx_index \in 0 .. RxCount - 1
      /\ DOMAIN rx_descriptors = 0 .. RxCount - 1
  BY RingAssumption DEF TypeOK, RxSlots
<1>2. \A k \in 0 .. RxCount - 1 : At(rx_index', k, RxCount) = At(rx_index, k + 1, RxCount)
  BY <1>1, AtNext DEF NextRx
<1>3. At(rx_index, 0, RxCount) = rx_index /\ At(rx_index, RxCount, RxCount) = rx_index
  BY <1>1, AtNext
<1>4. ASSUME NEW k \in 0 .. RxCount - 2 PROVE RxSlot(k)' = RxSlot(k + 1)
  <2>1. k \in 0 .. RxCount - 1 /\ k + 1 \in 0 .. RxCount - 1 /\ 0 \in 0 .. RxCount - 1 /\ k + 1 # 0
    BY <1>1
  <2>2. At(rx_index, k + 1, RxCount) # rx_index
    BY <1>1, <1>3, <2>1, AtInjective
  <2>3. At(rx_index, k + 1, RxCount) \in 0 .. RxCount - 1
    BY <1>1, <2>1, Wraps
  <2>4. QED
    BY <1>1, <1>2, <2>1, <2>2, <2>3 DEF RxSlot
<1>5. RxSlot(RxCount - 1)' = d
  <2>1. RxCount - 1 \in 0 .. RxCount - 1 /\ (RxCount - 1) + 1 = RxCount
    BY <1>1
  <2>2. At(rx_index', RxCount - 1, RxCount) = rx_index
    BY <1>2, <1>3, <2>1
  <2>3. QED
    BY <1>1, <2>2 DEF RxSlot
<1>6. QED
  BY <1>2, <1>4, <1>5

\* How they change when the slot j from rx_index on changes and rx_index does not.
LEMMA RxSlotChanges ==
  ASSUME TypeOK, rx_index' = rx_index, NEW d, NEW j \in 0 .. RxCount - 1,
         rx_descriptors' = [rx_descriptors EXCEPT ![At(rx_index, j, RxCount)] = d]
  PROVE  \A k \in 0 .. RxCount - 1 : RxSlot(k)' = IF k = j THEN d ELSE RxSlot(k)
<1>1. /\ RxCount \in Nat \ {0} /\ rx_index \in 0 .. RxCount - 1
      /\ DOMAIN rx_descriptors = 0 .. RxCount - 1
  BY RingAssumption DEF TypeOK, RxSlots
<1>2. \A k \in 0 .. RxCount - 1 : At(rx_index, k, RxCount) \in 0 .. RxCount - 1
  BY <1>1, Wraps
<1>3. \A k \in 0 .. RxCount - 1 : k # j => At(rx_index, k, RxCount) # At(rx_index, j, RxCount)
  BY <1>1, AtInjective
<1>4. QED
  BY <1>1, <1>2, <1>3 DEF RxSlot

\* What holds of the frame numbers in the slots.
LEMMA RxTypes ==
  ASSUME TypeOK
  PROVE  /\ RxCount \in Nat \ {0} /\ WholeFrames \in Nat /\ MaxBuffers \in Nat /\ buffers \in Nat
         /\ rx_index \in 0 .. RxCount - 1 /\ rx_dma \in 0 .. RxCount - 1
         /\ \A k \in 0 .. RxCount - 1 : RxSlot(k).owner \in {"CPU", "GMAC"} /\ RxSlot(k).frame \in Nat
<1>1. /\ RxCount \in Nat \ {0} /\ WholeFrames \in Nat /\ MaxBuffers \in Nat
      /\ rx_index \in 0 .. RxCount - 1 /\ rx_dma \in 0 .. RxCount - 1 /\ buffers \in Nat
  BY RingAssumption DEF TypeOK, RxSlots
<1>2. ASSUME NEW k \in 0 .. RxCount - 1
      PROVE  RxSlot(k).owner \in {"CPU", "GMAC"} /\ RxSlot(k).frame \in Nat
  <2>1. At(rx_index, k, RxCount) \in RxSlots
    BY <1>1, Wraps DEF RxSlots
  <2>2. RxSlot(k).owner \in {"CPU", "GMAC"} /\ RxSlot(k).frame \in 0 .. MaxBuffers
    BY <2>1 DEF TypeOK, RxSlot
  <2>3. QED
    BY <1>1, <2>2
<1>3. QED
  BY <1>1, <1>2

\* The engine puts an early frame at the end, and never into a slot still waiting.
LEMMA FillPuts ==
  ASSUME TypeOK, TypeOK', NEW n \in 0 .. RxCount, RxWindow(n), buffers < WholeFrames, DmaReceive
  PROVE  RxIsWindow' /\ RxFifo!Put
<1> DEFINE d == [owner |-> "CPU", sof |-> TRUE, eof |-> TRUE,
                 address |-> rx_descriptors[rx_dma].address, frame |-> buffers + 1]
<1>1. /\ RxCount \in Nat \ {0} /\ WholeFrames \in Nat /\ MaxBuffers \in Nat /\ buffers \in Nat
      /\ rx_index \in 0 .. RxCount - 1 /\ rx_dma \in 0 .. RxCount - 1
      /\ \A k \in 0 .. RxCount - 1 : RxSlot(k).frame \in Nat
  BY RxTypes
<1>2. ~mid_frame /\ rx_dma = At(rx_index, n, RxCount)
  BY <1>1 DEF RxWindow
<1>3. /\ rx_descriptors[rx_dma].owner = "GMAC" /\ buffers < MaxBuffers
      /\ rx_descriptors' = [rx_descriptors EXCEPT ![rx_dma] = d]
      /\ buffers' = buffers + 1 /\ rx_dma' = NextRx(rx_dma) /\ ~mid_frame'
      /\ rx_index' = rx_index
  <2>1. ~(buffers >= WholeFrames)
    BY <1>1
  <2>2. DmaFill(TRUE, TRUE)
    BY <1>2, <2>1, Zenon DEF DmaReceive
  <2>3. QED
    BY <2>2 DEF DmaFill
<1>4. n < RxCount
  <2>1. CASE n = RxCount
    <3>1. /\ At(rx_index, 0, RxCount) = rx_index /\ At(rx_index, n, RxCount) = rx_index
          /\ 0 \in 0 .. n - 1
      BY <1>1, <2>1, AtNext
    <3>2. QED
      BY <1>2, <1>3, <3>1 DEF RxWindow, RxSlot
  <2>2. QED
    BY <1>1, <2>1
<1>5. n \in 0 .. RxCount - 1 /\ n + 1 \in 0 .. RxCount /\ n \in Nat
  BY <1>1, <1>4
<1> HIDE DEF d
<1>6. \A k \in 0 .. RxCount - 1 : RxSlot(k)' = IF k = n THEN d ELSE RxSlot(k)
  BY <1>2, <1>3, <1>5, RxSlotChanges
<1>7. d.owner = "CPU" /\ WholeFrame(d) /\ d.frame = buffers + 1
  BY DEF d, WholeFrame
<1>8. LastEarly = buffers /\ LastEarly' = buffers + 1
  BY <1>1, <1>3 DEF LastEarly
<1>9. RxWindow(n + 1)'
  <2>1. ASSUME NEW k \in 0 .. n
        PROVE  /\ RxSlot(k)'.owner = "CPU" /\ WholeFrame(RxSlot(k)')
               /\ RxSlot(k)'.frame = LastEarly' - (n + 1) + 1 + k
    <3>1. k \in 0 .. RxCount - 1
      BY <1>1, <1>5
    <3>2. CASE k = n
      BY <1>1, <1>5, <1>6, <1>7, <1>8, <3>1, <3>2
    <3>3. CASE k # n
      <4>1. k \in 0 .. n - 1
        BY <1>5, <3>3
      <4>2. RxSlot(k)' = RxSlot(k)
        BY <1>6, <3>1, <3>3
      <4>3. /\ RxSlot(k).owner = "CPU" /\ WholeFrame(RxSlot(k))
            /\ RxSlot(k).frame = LastEarly - n + 1 + k
        BY <4>1 DEF RxWindow
      <4>4. LastEarly - n + 1 + k = LastEarly' - (n + 1) + 1 + k
        BY <1>1, <1>5, <1>8
      <4>5. QED
        BY <4>2, <4>3, <4>4
    <3>4. QED
      BY <3>2, <3>3
  <2>2. ASSUME NEW k \in n + 1 .. RxCount - 1
        PROVE  RxSlot(k)'.owner = "CPU" => RxSlot(k)'.frame > WholeFrames
    BY <1>1, <1>5, <1>6 DEF RxWindow
  <2>3. ~mid_frame' /\ rx_dma' = At(rx_index', n + 1, RxCount)
    BY <1>1, <1>2, <1>3, <1>5, AtNext DEF NextRx
  <2>4. \A i \in RxSlots : rx_descriptors'[i].frame =< buffers'
    <3> SUFFICES ASSUME NEW i \in RxSlots PROVE rx_descriptors'[i].frame =< buffers + 1
      BY <1>3
    <3>1. CASE i = rx_dma
      BY <1>1, <1>3, <1>7, <3>1 DEF TypeOK
    <3>2. CASE i # rx_dma
      <4>1. rx_descriptors'[i] = rx_descriptors[i] /\ rx_descriptors[i].frame \in Nat
        BY <1>3, <3>2 DEF TypeOK
      <4>2. QED
        BY <1>1, <4>1 DEF RxWindow
    <3>3. QED
      BY <3>1, <3>2
  <2>5. (n + 1) - 1 = n
    BY <1>5
  <2>6. QED
    BY <2>1, <2>2, <2>3, <2>4, <2>5 DEF RxWindow
<1>10. RxFifo!Put
  <2> DEFINE a == RxQueue
             b == RxQueue'
  <2>1. /\ a \in [1 .. n -> 0 .. MaxBuffers]
        /\ \A k \in 1 .. n : a[k] = RxSlot(k - 1).frame
    BY RxQueueNow DEF RxHolds
  <2>2. /\ b \in [1 .. n + 1 -> 0 .. MaxBuffers]
        /\ \A k \in 1 .. n + 1 : b[k] = RxSlot(k - 1)'.frame
    BY <1>5, <1>9, RxQueueNext DEF RxHolds
  <2> HIDE DEF a, b
  <2>3. \A k \in 1 .. n + 1 : k - 1 \in 0 .. RxCount - 1
    BY <1>1, <1>5
  <2>4. ASSUME NEW k \in 1 .. n PROVE b[k] = a[k]
    <3>1. k \in 1 .. n + 1 /\ k - 1 # n /\ k - 1 \in 0 .. RxCount - 1
      BY <1>5, <2>3
    <3>2. RxSlot(k - 1)' = RxSlot(k - 1)
      BY <1>6, <3>1
    <3>3. QED
      BY <2>1, <2>2, <3>1, <3>2
  <2>5. b[n + 1] = buffers + 1
    BY <1>5, <1>6, <1>7, <2>2, <2>3
  <2>6. Len(a) = n /\ b = Append(a, buffers + 1)
    BY <1>5, <2>1, <2>2, <2>4, <2>5, PutAtEnd
  <2>7. buffers + 1 \in 1 .. MaxBuffers
    BY <1>1, <1>3
  <2>8. QED
    BY <1>4, <2>6, <2>7 DEF RxFifo!Put, a, b
<1>11. QED
  BY <1>5, <1>9, <1>10 DEF RxIsWindow

\* The frames of both states are the same.
LEMMA RxQueueSame ==
  ASSUME TypeOK, TypeOK', NEW n \in 0 .. RxCount, RxWindow(n), RxWindow(n)',
         \A k \in 0 .. n - 1 : RxSlot(k)' = RxSlot(k)
  PROVE  RxIsWindow' /\ RxQueue' = RxQueue
<1>1. n \in Nat
  BY RingAssumption
<1>2. RxHolds(n) /\ RxHolds(n)'
  BY RxQueueNow, RxQueueNext
<1>3. \A k \in 1 .. n : k - 1 \in 0 .. n - 1
  BY <1>1
<1>4. QED
  BY <1>2, <1>3 DEF RxHolds, RxIsWindow

\* What it stores behind the early frames does not touch them.
LEMMA FillBehind ==
  ASSUME TypeOK, TypeOK', NEW n \in 0 .. RxCount, RxWindow(n), ~(buffers < WholeFrames), DmaReceive
  PROVE  RxIsWindow' /\ RxQueue' = RxQueue
<1>1. /\ RxCount \in Nat \ {0} /\ WholeFrames \in Nat /\ MaxBuffers \in Nat /\ buffers \in Nat
      /\ rx_index \in 0 .. RxCount - 1 /\ rx_dma \in 0 .. RxCount - 1
      /\ \A k \in 0 .. RxCount - 1 : RxSlot(k).frame \in Nat
  BY RxTypes
<1>2. PICK sof \in BOOLEAN, eof \in BOOLEAN : DmaFill(sof, eof)
  BY DEF DmaReceive
<1> DEFINE d == [owner |-> "CPU", sof |-> sof, eof |-> eof,
                 address |-> rx_descriptors[rx_dma].address, frame |-> buffers + 1]
<1>3. /\ rx_descriptors[rx_dma].owner = "GMAC"
      /\ rx_descriptors' = [rx_descriptors EXCEPT ![rx_dma] = d]
      /\ buffers' = buffers + 1 /\ rx_index' = rx_index
  BY <1>2 DEF DmaFill
<1>4. d.frame = buffers + 1
  OBVIOUS
<1> HIDE DEF d
<1>5. PICK j \in 0 .. RxCount - 1 : At(rx_index, j, RxCount) = rx_dma
  BY <1>1, AtOnto
<1>6. \A k \in 0 .. RxCount - 1 : RxSlot(k)' = IF k = j THEN d ELSE RxSlot(k)
  BY <1>3, <1>5, RxSlotChanges
<1>7. j \notin 0 .. n - 1
  BY <1>3, <1>5 DEF RxWindow, RxSlot
<1>8. LastEarly' = LastEarly /\ ~(buffers' =< WholeFrames)
  BY <1>1, <1>3 DEF LastEarly
<1>9. \A k \in 0 .. n - 1 : k \in 0 .. RxCount - 1 /\ RxSlot(k)' = RxSlot(k)
  BY <1>1, <1>6, <1>7
<1>10. RxWindow(n)'
  <2>1. ASSUME NEW k \in n .. RxCount - 1
        PROVE  RxSlot(k)'.owner = "CPU" => RxSlot(k)'.frame > WholeFrames
    <3>1. k \in 0 .. RxCount - 1
      BY <1>1
    <3>2. CASE k = j
      BY <1>1, <1>4, <1>6, <3>1, <3>2
    <3>3. CASE k # j
      BY <1>6, <3>1, <3>3 DEF RxWindow
    <3>4. QED
      BY <3>2, <3>3
  <2>2. \A i \in RxSlots : rx_descriptors'[i].frame =< buffers'
    <3> SUFFICES ASSUME NEW i \in RxSlots PROVE rx_descriptors'[i].frame =< buffers + 1
      BY <1>3
    <3>1. CASE i = rx_dma
      BY <1>1, <1>3, <1>4, <3>1 DEF TypeOK
    <3>2. CASE i # rx_dma
      <4>1. rx_descriptors'[i] = rx_descriptors[i] /\ rx_descriptors[i].frame \in Nat
        BY <1>3, <3>2 DEF TypeOK
      <4>2. QED
        BY <1>1, <4>1 DEF RxWindow
    <3>3. QED
      BY <3>1, <3>2
  <2>3. \A k \in 0 .. n - 1 : /\ RxSlot(k)'.owner = "CPU" /\ WholeFrame(RxSlot(k)')
                              /\ RxSlot(k)'.frame = LastEarly' - n + 1 + k
    BY <1>8, <1>9 DEF RxWindow
  <2>4. QED
    BY <1>8, <2>1, <2>2, <2>3 DEF RxWindow
<1>11. QED
  BY <1>9, <1>10, RxQueueSame

\* gmac_receive takes the first frame out, or one behind all early ones.
LEMMA FrameGets ==
  ASSUME TypeOK, TypeOK', NEW n \in 0 .. RxCount, RxWindow(n), ReceiveFrame
  PROVE  RxIsWindow' /\ (RxFifo!Get \/ RxQueue' = RxQueue)
<1>1. /\ RxCount \in Nat \ {0} /\ WholeFrames \in Nat /\ MaxBuffers \in Nat /\ buffers \in Nat
      /\ rx_index \in 0 .. RxCount - 1 /\ rx_dma \in 0 .. RxCount - 1
      /\ \A k \in 0 .. RxCount - 1 : RxSlot(k).frame \in Nat
  BY RxTypes
<1> DEFINE old == rx_descriptors[rx_index]
           d   == Rearmed(old, Head(free_network_packets))
<1>2. /\ old.owner = "CPU" /\ WholeFrame(old)
      /\ rx_descriptors' = [rx_descriptors EXCEPT ![rx_index] = d]
      /\ rx_index' = NextRx(rx_index) /\ UNCHANGED <<buffers, mid_frame, rx_dma>>
  BY DEF ReceiveFrame
<1>3. d.owner = "GMAC" /\ d.frame = old.frame
  <2>1. old \in [owner : {"CPU", "GMAC"}, sof : BOOLEAN, eof : BOOLEAN,
                 address : Packets, frame : 0 .. MaxBuffers]
    BY <1>1 DEF TypeOK, RxSlots
  <2> HIDE DEF old
  <2>2. QED
    BY <2>1 DEF Rearmed
<1>4. RxSlot(0) = old /\ old.frame =< buffers
  BY <1>1, AtNext DEF RxSlot, RxWindow, RxSlots
<1> HIDE DEF old, d
<1>5. /\ \A k \in 0 .. RxCount - 2 : RxSlot(k)' = RxSlot(k + 1)
      /\ RxSlot(RxCount - 1)' = d
      /\ \A k \in 0 .. RxCount - 1 : At(rx_index', k, RxCount) = At(rx_index, k + 1, RxCount)
  BY <1>2, RxIndexAdvances
<1>6. LastEarly' = LastEarly
  BY <1>2 DEF LastEarly
<1>7. \A i \in RxSlots : rx_descriptors'[i].frame =< buffers'
  BY <1>2, <1>3, <1>4 DEF RxWindow, TypeOK
<1>8. ASSUME NEW m \in 0 .. RxCount - 1, n =< m + 1, NEW k \in m .. RxCount - 1
      PROVE  RxSlot(k)'.owner = "CPU" => RxSlot(k)'.frame > WholeFrames
  <2>1. CASE k = RxCount - 1
    BY <1>3, <1>5, <2>1
  <2>2. CASE k # RxCount - 1
    <3>1. k \in 0 .. RxCount - 2 /\ k + 1 \in n .. RxCount - 1
      BY <1>1, <1>8, <2>2
    <3>2. QED
      BY <1>5, <3>1 DEF RxWindow
  <2>3. QED
    BY <2>1, <2>2
<1>9. CASE n = 0
  <2>1. old.frame > WholeFrames /\ ~(buffers =< WholeFrames)
    <3>1. 0 \in n .. RxCount - 1
      BY <1>1, <1>9
    <3>2. old.frame > WholeFrames
      BY <1>2, <1>4, <3>1 DEF RxWindow
    <3>3. old.frame \in Nat
      BY <1>1, <1>4
    <3>4. QED
      BY <1>1, <1>4, <3>2, <3>3
  <2>2. 0 \in 0 .. RxCount - 1
    BY <1>1
  <2>3. RxWindow(0)'
    BY <1>2, <1>7, <1>8, <1>9, <2>1, <2>2 DEF RxWindow
  <2>4. QED
    BY <1>9, <2>3, RxQueueSame
<1>10. CASE n # 0
  <2> DEFINE m == n - 1
  <2>1. m \in 0 .. RxCount - 1 /\ m \in 0 .. RxCount /\ m \in Nat /\ n = m + 1
    BY <1>1, <1>10
  <2> HIDE DEF m
  <2>2. ASSUME NEW k \in 0 .. m - 1
        PROVE  k \in 0 .. RxCount - 2 /\ k + 1 \in 0 .. n - 1 /\ RxSlot(k)' = RxSlot(k + 1)
    BY <1>1, <1>5, <2>1
  <2>3. RxWindow(m)'
    <3>1. ASSUME NEW k \in 0 .. m - 1
          PROVE  /\ RxSlot(k)'.owner = "CPU" /\ WholeFrame(RxSlot(k)')
                 /\ RxSlot(k)'.frame = LastEarly' - m + 1 + k
      <4>1. /\ RxSlot(k + 1).owner = "CPU" /\ WholeFrame(RxSlot(k + 1))
            /\ RxSlot(k + 1).frame = LastEarly - n + 1 + (k + 1)
        BY <2>2 DEF RxWindow
      <4>2. LastEarly \in Nat
        BY <1>1 DEF LastEarly
      <4>3. LastEarly - n + 1 + (k + 1) = LastEarly' - m + 1 + k
        BY <1>6, <2>1, <4>2
      <4>4. QED
        BY <2>2, <4>1, <4>3
    <3>2. \A k \in m .. RxCount - 1 : RxSlot(k)'.owner = "CPU" => RxSlot(k)'.frame > WholeFrames
      BY <1>8, <2>1
    <3>3. buffers' =< WholeFrames => ~mid_frame' /\ rx_dma' = At(rx_index', m, RxCount)
      BY <1>2, <1>5, <2>1 DEF RxWindow
    <3>4. QED
      BY <1>7, <3>1, <3>2, <3>3 DEF RxWindow
  <2>4. RxFifo!Get
    <3> DEFINE a == RxQueue
               b == RxQueue'
    <3>1. /\ a \in [1 .. m + 1 -> 0 .. MaxBuffers]
          /\ \A k \in 1 .. m + 1 : a[k] = RxSlot(k - 1).frame
      BY <2>1, RxQueueNow DEF RxHolds
    <3>2. /\ b \in [1 .. m -> 0 .. MaxBuffers]
          /\ \A k \in 1 .. m : b[k] = RxSlot(k - 1)'.frame
      BY <2>1, <2>3, RxQueueNext DEF RxHolds
    <3> HIDE DEF a, b
    <3>3. ASSUME NEW k \in 1 .. m PROVE b[k] = a[k + 1]
      <4>1. k - 1 \in 0 .. m - 1 /\ (k - 1) + 1 = k /\ k + 1 \in 1 .. m + 1 /\ (k + 1) - 1 = k
        BY <2>1
      <4>2. RxSlot(k - 1)' = RxSlot(k)
        BY <2>2, <4>1
      <4>3. QED
        BY <3>1, <3>2, <4>1, <4>2
    <3>4. a # <<>> /\ b = Tail(a)
      BY <2>1, <3>1, <3>2, <3>3, TakenAtFront
    <3>5. QED
      BY <3>4 DEF RxFifo!Get, a, b
  <2>5. QED
    BY <2>1, <2>3, <2>4 DEF RxIsWindow
<1>11. QED
  BY <1>9, <1>10

\* A fragment is dropped only when no early frame waits any more.
LEMMA FragmentKeeps ==
  ASSUME TypeOK, TypeOK', NEW n \in 0 .. RxCount, RxWindow(n), ReceiveDropsFragment
  PROVE  RxIsWindow' /\ RxQueue' = RxQueue
<1>1. /\ RxCount \in Nat \ {0} /\ WholeFrames \in Nat /\ MaxBuffers \in Nat /\ buffers \in Nat
      /\ rx_index \in 0 .. RxCount - 1 /\ rx_dma \in 0 .. RxCount - 1
      /\ \A k \in 0 .. RxCount - 1 : RxSlot(k).frame \in Nat
  BY RxTypes
<1> DEFINE old == rx_descriptors[rx_index]
           d   == [old EXCEPT !.owner = "GMAC"]
<1>2. /\ ~WholeFrame(old) /\ rx_descriptors' = [rx_descriptors EXCEPT ![rx_index] = d]
      /\ UNCHANGED <<rx_index, buffers, mid_frame, rx_dma>>
  BY DEF ReceiveDropsFragment
<1>3. d.owner = "GMAC" /\ d.frame = old.frame
  <2>1. old \in [owner : {"CPU", "GMAC"}, sof : BOOLEAN, eof : BOOLEAN,
                 address : Packets, frame : 0 .. MaxBuffers]
    BY <1>1 DEF TypeOK, RxSlots
  <2> HIDE DEF old
  <2>2. QED
    BY <2>1
<1>4. RxSlot(0) = old /\ old.frame =< buffers /\ At(rx_index, 0, RxCount) = rx_index
  BY <1>1, AtNext DEF RxSlot, RxWindow, RxSlots
<1> HIDE DEF old, d
<1>5. n = 0
  <2>1. 0 \notin 0 .. n - 1
    BY <1>2, <1>4 DEF RxWindow
  <2>2. QED
    BY <1>1, <2>1
<1>6. 0 \in 0 .. RxCount - 1
  BY <1>1
<1>7. \A k \in 0 .. RxCount - 1 : RxSlot(k)' = IF k = 0 THEN d ELSE RxSlot(k)
  BY <1>2, <1>4, <1>6, RxSlotChanges
<1>8. RxWindow(0)'
  <2>1. \A k \in 0 .. RxCount - 1 : RxSlot(k)'.owner = "CPU" => RxSlot(k)'.frame > WholeFrames
    BY <1>3, <1>5, <1>7 DEF RxWindow
  <2>2. \A i \in RxSlots : rx_descriptors'[i].frame =< buffers'
    BY <1>2, <1>3, <1>4 DEF RxWindow, TypeOK
  <2>3. buffers' =< WholeFrames => ~mid_frame' /\ rx_dma' = At(rx_index', 0, RxCount)
    BY <1>2, <1>5 DEF RxWindow
  <2>4. QED
    BY <2>1, <2>2, <2>3 DEF RxWindow
<1>9. QED
  BY <1>5, <1>8, RxQueueSame

\* gmac_init: no descriptor of the transmit ring is in use, all of the receive
\* ring wait for a frame.
LEMMA InitRings == Init => TxIsWindow /\ RxIsWindow /\ TxFifo!Init /\ RxFifo!Init
<1> SUFFICES ASSUME Init PROVE TxIsWindow /\ RxIsWindow /\ TxFifo!Init /\ RxFifo!Init
  OBVIOUS
<1>1. TypeOK
  BY InitTypeOK
<1>2. /\ TxCount \in Nat \ {0} /\ RxCount \in Nat \ {0} /\ WholeFrames \in Nat
      /\ 0 \in 0 .. TxCount - 1 /\ 0 \in 0 .. RxCount - 1 /\ 0 \in 0 .. TxCount /\ 0 \in 0 .. RxCount
  BY RingAssumption
<1>3. At(0, 0, TxCount) = 0 /\ At(0, 0, RxCount) = 0
  BY <1>2, AtNext
<1>4. TxWindow(0)
  <2>1. ASSUME NEW k \in 0 .. TxCount - 1
        PROVE  tx_descriptors[At(0, k, TxCount)].owner = "CPU"
    <3>1. At(0, k, TxCount) \in TxSlots
      BY <1>2, Wraps DEF TxSlots
    <3>2. QED
      BY <3>1 DEF Init
  <2>2. QED
    BY <1>2, <1>3, <2>1 DEF Init, TxWindow
<1>5. RxWindow(0)
  <2>1. ASSUME NEW i \in RxSlots
        PROVE  rx_descriptors[i].owner = "GMAC" /\ rx_descriptors[i].frame = 0
    BY DEF Init
  <2>2. ASSUME NEW k \in 0 .. RxCount - 1 PROVE RxSlot(k).owner = "GMAC"
    <3>1. At(rx_index, k, RxCount) \in RxSlots
      BY <1>2, Wraps DEF RxSlots, Init
    <3>2. QED
      BY <2>1, <3>1 DEF RxSlot
  <2>3. buffers = 0 /\ ~mid_frame /\ rx_dma = 0 /\ rx_index = 0
    BY DEF Init
  <2>4. QED
    BY <1>2, <1>3, <2>1, <2>2, <2>3 DEF RxWindow
<1>6. TxQueue \in [1 .. 0 -> Packets] /\ RxQueue \in [1 .. 0 -> 0 .. MaxBuffers]
  BY <1>1, <1>2, <1>4, <1>5, TxQueueNow, RxQueueNow DEF TxHolds, RxHolds
<1>7. TxQueue = <<>> /\ RxQueue = <<>>
  BY <1>6
<1>8. QED
  BY <1>2, <1>4, <1>5, <1>7 DEF TxIsWindow, RxIsWindow, TxFifo!Init, RxFifo!Init

\* Every step is one of the queue or leaves it alone.
LEMMA TxRingSteps ==
  ASSUME TypeOK, TypeOK', TxIsWindow, [Next]_vars
  PROVE  TxIsWindow' /\ (TxFifo!Put \/ TxFifo!Get \/ UNCHANGED TxQueue)
<1>1. PICK n \in 0 .. TxCount : TxWindow(n)
  BY DEF TxIsWindow
<1>2. ASSUME UNCHANGED <<tx_descriptors, tx_index, tx_dma>>
      PROVE  TxIsWindow' /\ UNCHANGED TxQueue
  BY <1>1, <1>2 DEF TxIsWindow, TxWindow, TxQueue, Owned
<1>3. ASSUME NEW packet \in held,
             Free(packet) \/ SendHangs(packet) \/ SendDrops(packet) \/ SendLinks(packet)
      PROVE  TxIsWindow' /\ (TxFifo!Put \/ UNCHANGED TxQueue)
  <2>1. CASE SendLinks(packet)
    BY <1>1, <2>1, SendLinksPuts
  <2>2. CASE ~SendLinks(packet)
    BY <1>2, <1>3, <2>2 DEF Free, SendHangs, SendDrops, Halt, txRing
  <2>3. QED
    BY <2>1, <2>2
<1>4. CASE DmaTransmit
  BY <1>1, <1>4, DmaTransmitGets
<1>5. CASE \/ Allocate \/ AllocateHangs \/ GmacReceive \/ Deinit \/ DmaTransmitFails
           \/ DmaReceive \/ UNCHANGED vars
  BY <1>2, <1>5 DEF Allocate, AllocateHangs, GmacReceive, ReceiveDropsFragment, ReceiveFrame,
       ReceiveHangs, Halt, Deinit, DmaTransmitFails, DmaReceive, DmaFill, vars, txRing
<1>6. QED
  BY <1>3, <1>4, <1>5 DEF Next

\* Likewise for the receive ring.
LEMMA RxRingSteps ==
  ASSUME TypeOK, TypeOK', RxIsWindow, [Next]_vars
  PROVE  RxIsWindow' /\ (RxFifo!Put \/ RxFifo!Get \/ UNCHANGED RxQueue)
<1>1. PICK n \in 0 .. RxCount : RxWindow(n)
  BY DEF RxIsWindow
<1>2. ASSUME UNCHANGED rxRing
      PROVE  RxIsWindow' /\ UNCHANGED RxQueue
  BY <1>1, <1>2 DEF RxIsWindow, RxWindow, RxSlot, LastEarly, RxQueue, EarlyWaiting, rxRing
<1>3. ASSUME NEW packet \in held,
             Free(packet) \/ SendHangs(packet) \/ SendDrops(packet) \/ SendLinks(packet)
      PROVE  RxIsWindow' /\ UNCHANGED RxQueue
  BY <1>2, <1>3 DEF Free, SendHangs, SendDrops, SendLinks, Halt
<1>4. CASE DmaReceive
  BY <1>1, <1>4, FillPuts, FillBehind
<1>5. CASE GmacReceive
  <2>1. CASE ReceiveFrame
    BY <1>1, <2>1, FrameGets
  <2>2. CASE ReceiveDropsFragment
    BY <1>1, <2>2, FragmentKeeps
  <2>3. CASE ReceiveHangs
    BY <1>2, <2>3 DEF ReceiveHangs, Halt
  <2>4. QED
    BY <1>5, <2>1, <2>2, <2>3 DEF GmacReceive
<1>6. CASE Allocate \/ AllocateHangs \/ Deinit \/ DmaTransmit \/ DmaTransmitFails \/ UNCHANGED vars
  BY <1>2, <1>6 DEF Allocate, AllocateHangs, Halt, Deinit, DmaTransmit, DmaTransmitFails, vars
<1>7. QED
  BY <1>3, <1>4, <1>5, <1>6 DEF Next

\* Packets leave the transmit ring in the order gmac_send accepted them, each
\* once, for every size of the ring: the descriptors the engine owns are those
\* from tx_dma up to tx_index, over every wrap and when the ring is full.
THEOREM TransmitsInOrder == Spec => TxRingIsFifo
<1>1. TypeOK /\ TypeOK' /\ TxIsWindow /\ [Next]_vars =>
        TxIsWindow' /\ [TxFifo!Put \/ TxFifo!Get]_TxQueue
  BY TxRingSteps
<1>2. Init => TxIsWindow /\ TxFifo!Init
  BY InitRings
<1>3. QED
  BY <1>1, <1>2, TypeCorrect, PTL DEF Spec, TxRingIsFifo, TxFifo!Spec

\* gmac_receive returns the frames in the order the GMAC stored them, each
\* once, for every size of the ring, up to the first frame that does not fit
\* one buffer; that frame, and all behind it, do not disturb the earlier ones.
THEOREM ReceivesInOrder == Spec => RxRingIsFifo
<1>1. TypeOK /\ TypeOK' /\ RxIsWindow /\ [Next]_vars =>
        RxIsWindow' /\ [RxFifo!Put \/ RxFifo!Get]_RxQueue
  BY RxRingSteps
<1>2. Init => RxIsWindow /\ RxFifo!Init
  BY InitRings
<1>3. QED
  BY <1>1, <1>2, TypeCorrect, PTL DEF Spec, RxRingIsFifo, RxFifo!Spec

-----------------------------------------------------------------------------
(* Calls, and the packets they have in hand. *)

Carries(call) == "packet" \in DOMAIN call
Carried(call) == IF Carries(call) THEN {call.packet} ELSE {}

Destinations == Hosts \cup {Everybody}

\* The calls with a packet in hand, and what a call looks like.
Plain  == {"send_arp_packet", "arp_task", "dhcp_task", "dhcp_read", "tftp_read"}
InHand == {"mac_send", "gmac_send", "handle_mac", "handle_arp", "handle_ip", "handle_udp",
           "handle_icmp", "free"}
Sends  == {"ip_send", "arp_send"}
Entry  == {"send_packets_on_entry", "free_entry"}

CallSet ==
  {Call(name) : name \in Plain}
  \cup {With(name, packet) : name \in InHand, packet \in Packets}
  \cup {IpSend(packet, ip) : packet \in Packets, ip \in Destinations}
  \cup {UdpSend(ip) : ip \in Destinations}
  \cup {OnEntry(name, entry) : name \in Entry, entry \in Entries}
  \cup {ArpSend(packet, ip, entry) : packet \in Packets, ip \in Hosts, entry \in Entries}
  \cup {Receiving(left) : left \in 0 .. RxCount}
  \cup {ArpTaskAt(node) : node \in Nodes}

\* The packets in the hands of the calls s, and that no two have the same.
PacketsOf(s) == UNION {Carried(s[k]) : k \in DOMAIN s}

Distinct(s) == \A k, l \in DOMAIN s : k # l => Carried(s[k]) \cap Carried(s[l]) = {}

\* The fields of the records the operators for calls make.
LEMMA CallFields ==
  /\ \A name : Call(name).call = name /\ Carried(Call(name)) = {}
  /\ \A name, packet :
       /\ With(name, packet).call = name /\ With(name, packet).packet = packet
       /\ Carried(With(name, packet)) = {packet}
  /\ \A packet, ip :
       /\ IpSend(packet, ip).call = "ip_send" /\ IpSend(packet, ip).packet = packet
       /\ IpSend(packet, ip).ip = ip /\ Carried(IpSend(packet, ip)) = {packet}
  /\ \A ip : /\ UdpSend(ip).call = "udp_send" /\ UdpSend(ip).ip = ip
             /\ Carried(UdpSend(ip)) = {}
  /\ \A name, entry : /\ OnEntry(name, entry).call = name /\ OnEntry(name, entry).entry = entry
                      /\ Carried(OnEntry(name, entry)) = {}
  /\ \A packet, ip, entry :
       /\ ArpSend(packet, ip, entry).call = "arp_send"
       /\ ArpSend(packet, ip, entry).packet = packet /\ ArpSend(packet, ip, entry).ip = ip
       /\ ArpSend(packet, ip, entry).entry = entry /\ Carried(ArpSend(packet, ip, entry)) = {packet}
  /\ \A left : /\ Receiving(left).call = "network_task" /\ Receiving(left).left = left
               /\ Carried(Receiving(left)) = {}
  /\ \A node : /\ ArpTaskAt(node).call = "arp_task_at" /\ ArpTaskAt(node).node = node
               /\ Carried(ArpTaskAt(node)) = {}
BY DEF Call, With, IpSend, UdpSend, OnEntry, ArpSend, Receiving, ArpTaskAt, Carried, Carries

\* The name of a call says what it has in hand.
LEMMA CallShape ==
  ASSUME NEW call \in CallSet
  PROVE  /\ call.call \in InHand \cup Sends =>
              call.packet \in Packets /\ Carried(call) = {call.packet}
         /\ call.call \notin InHand \cup Sends => Carried(call) = {}
         /\ Carried(call) \subseteq Packets
         /\ call.call \in {"ip_send", "udp_send"} => call.ip \in Destinations
         /\ call.call \in Entry => call.entry \in Entries
         /\ call.call = "arp_send" => call.ip \in Hosts /\ call.entry \in Entries
         /\ call.call = "network_task" => call.left \in 0 .. RxCount
         /\ call.call = "arp_task_at" => call.node \in Nodes
<1>1. CASE \E name \in Plain : call = Call(name)
  BY <1>1, CallFields DEF Plain, InHand, Sends, Entry
<1>2. CASE \E name \in InHand, packet \in Packets : call = With(name, packet)
  BY <1>2, CallFields DEF InHand, Entry
<1>3. CASE \E packet \in Packets, ip \in Destinations : call = IpSend(packet, ip)
  BY <1>3, CallFields DEF Sends, Entry
<1>4. CASE \E ip \in Destinations : call = UdpSend(ip)
  BY <1>4, CallFields DEF InHand, Sends, Entry
<1>5. CASE \E name \in Entry, entry \in Entries : call = OnEntry(name, entry)
  BY <1>5, CallFields DEF InHand, Sends, Entry
<1>6. CASE \E packet \in Packets, ip \in Hosts, entry \in Entries : call = ArpSend(packet, ip, entry)
  BY <1>6, CallFields DEF Sends, Entry
<1>7. CASE \E left \in 0 .. RxCount : call = Receiving(left)
  BY <1>7, CallFields DEF InHand, Sends, Entry
<1>8. CASE \E node \in Nodes : call = ArpTaskAt(node)
  BY <1>8, CallFields DEF InHand, Sends, Entry
<1>9. QED
  BY <1>1, <1>2, <1>3, <1>4, <1>5, <1>6, <1>7, <1>8 DEF CallSet

\* A call that returns takes its packet with it.
LEMMA CallReturns ==
  ASSUME NEW s \in Seq(CallSet), s # <<>>
  PROVE  /\ Head(s) \in CallSet /\ Tail(s) \in Seq(CallSet)
         /\ PacketsOf(s) = Carried(Head(s)) \cup PacketsOf(Tail(s))
         /\ Distinct(s) => Distinct(Tail(s)) /\ Carried(Head(s)) \cap PacketsOf(Tail(s)) = {}
<1>1. /\ Len(s) \in Nat /\ Len(s) # 0 /\ DOMAIN s = 1 .. Len(s) /\ Head(s) = s[1]
      /\ Head(s) \in CallSet
  OBVIOUS
<1>2. /\ Tail(s) \in Seq(CallSet) /\ DOMAIN Tail(s) = 1 .. Len(s) - 1
      /\ \A k \in 1 .. Len(s) - 1 : Tail(s)[k] = s[k + 1]
  BY <1>1
<1>3. \A k \in 2 .. Len(s) : k - 1 \in DOMAIN Tail(s) /\ s[k] = Tail(s)[k - 1]
  BY <1>1, <1>2
<1>4. \A k \in DOMAIN Tail(s) : k + 1 \in 2 .. Len(s) /\ Tail(s)[k] = s[k + 1]
  BY <1>1, <1>2
<1>5. PacketsOf(s) = Carried(Head(s)) \cup PacketsOf(Tail(s))
  <2>1. ASSUME NEW p \in PacketsOf(s) PROVE p \in Carried(Head(s)) \cup PacketsOf(Tail(s))
    <3>1. PICK k \in DOMAIN s : p \in Carried(s[k])
      BY <2>1 DEF PacketsOf
    <3>2. CASE k = 1
      BY <1>1, <3>1, <3>2
    <3>3. CASE k # 1
      <4>1. k - 1 \in DOMAIN Tail(s) /\ s[k] = Tail(s)[k - 1]
        BY <1>1, <1>3, <3>3
      <4>2. QED
        BY <3>1, <4>1 DEF PacketsOf
    <3>4. QED
      BY <3>2, <3>3
  <2>2. ASSUME NEW p \in Carried(Head(s)) \cup PacketsOf(Tail(s)) PROVE p \in PacketsOf(s)
    <3>1. 1 \in DOMAIN s
      BY <1>1
    <3>2. CASE p \in Carried(Head(s))
      BY <1>1, <3>1, <3>2 DEF PacketsOf
    <3>3. CASE p \in PacketsOf(Tail(s))
      <4>1. PICK k \in DOMAIN Tail(s) : p \in Carried(Tail(s)[k])
        BY <3>3 DEF PacketsOf
      <4>2. k + 1 \in DOMAIN s /\ Tail(s)[k] = s[k + 1]
        BY <1>1, <1>4
      <4>3. QED
        BY <4>1, <4>2 DEF PacketsOf
    <3>4. QED
      BY <2>2, <3>2, <3>3
  <2>3. QED
    BY <2>1, <2>2
<1>6. ASSUME Distinct(s)
      PROVE  Distinct(Tail(s)) /\ Carried(Head(s)) \cap PacketsOf(Tail(s)) = {}
  <2>1. Distinct(Tail(s))
    <3>1. SUFFICES ASSUME NEW k \in DOMAIN Tail(s), NEW l \in DOMAIN Tail(s), k # l
                   PROVE  Carried(Tail(s)[k]) \cap Carried(Tail(s)[l]) = {}
      BY DEF Distinct
    <3>2. /\ k + 1 \in DOMAIN s /\ l + 1 \in DOMAIN s /\ k + 1 # l + 1
          /\ Tail(s)[k] = s[k + 1] /\ Tail(s)[l] = s[l + 1]
      BY <1>1, <1>2, <1>4, <3>1
    <3>3. QED
      BY <1>6, <3>2 DEF Distinct
  <2>2. ASSUME NEW p \in Carried(Head(s)), p \in PacketsOf(Tail(s)) PROVE FALSE
    <3>1. PICK k \in DOMAIN Tail(s) : p \in Carried(Tail(s)[k])
      BY <2>2 DEF PacketsOf
    <3>2. k + 1 \in DOMAIN s /\ 1 \in DOMAIN s /\ k + 1 # 1 /\ Tail(s)[k] = s[k + 1]
      BY <1>1, <1>2, <1>4
    <3>3. Carried(s[1]) \cap Carried(s[k + 1]) = {}
      BY <1>6, <3>2 DEF Distinct
    <3>4. QED
      BY <1>1, <2>2, <3>1, <3>2, <3>3
  <2>3. QED
    BY <2>1, <2>2
<1>7. QED
  BY <1>1, <1>2, <1>5, <1>6

\* A call that is made comes first.
LEMMA CallMade ==
  ASSUME NEW s \in Seq(CallSet), NEW x \in CallSet
  PROVE  LET t == <<x>> \o s IN
         /\ t \in Seq(CallSet) /\ t # <<>> /\ Head(t) = x /\ Tail(t) = s
         /\ PacketsOf(t) = Carried(x) \cup PacketsOf(s)
         /\ Distinct(s) /\ Carried(x) \cap PacketsOf(s) = {} => Distinct(t)
<1> DEFINE t == <<x>> \o s
<1>1. /\ t \in Seq(CallSet) /\ t # <<>> /\ Head(t) = x /\ Tail(t) = s
      /\ Len(s) \in Nat /\ DOMAIN s = 1 .. Len(s) /\ DOMAIN t = 1 .. Len(s) + 1
      /\ t[1] = x /\ \A k \in 1 .. Len(s) : t[k + 1] = s[k]
  OBVIOUS
<1> HIDE DEF t
<1>2. PacketsOf(t) = Carried(x) \cup PacketsOf(s)
  BY <1>1, CallReturns
<1>3. ASSUME Distinct(s), Carried(x) \cap PacketsOf(s) = {} PROVE Distinct(t)
  <2>1. \A k \in DOMAIN t : k = 1 \/ (k - 1 \in DOMAIN s /\ t[k] = s[k - 1])
    BY <1>1
  <2>2. \A k \in DOMAIN s : Carried(x) \cap Carried(s[k]) = {}
    BY <1>3 DEF PacketsOf
  <2>3. SUFFICES ASSUME NEW k \in DOMAIN t, NEW l \in DOMAIN t, k # l
                 PROVE  Carried(t[k]) \cap Carried(t[l]) = {}
    BY DEF Distinct
  <2>4. CASE k = 1
    BY <1>1, <2>1, <2>2, <2>3, <2>4
  <2>5. CASE l = 1
    BY <1>1, <2>1, <2>2, <2>3, <2>5
  <2>6. CASE k # 1 /\ l # 1
    <3>1. /\ k - 1 \in DOMAIN s /\ l - 1 \in DOMAIN s /\ k - 1 # l - 1
          /\ t[k] = s[k - 1] /\ t[l] = s[l - 1]
      BY <1>1, <2>1, <2>3, <2>6
    <3>2. QED
      BY <1>3, <3>1 DEF Distinct
  <2>7. QED
    BY <2>4, <2>5, <2>6
<1>4. QED
  BY <1>1, <1>2, <1>3 DEF t

-----------------------------------------------------------------------------
(* The invariant. *)

Queues == ({"arp"} \X Entries) \cup ({"udp"} \X {1, 2})

QueueOf(q) == IF q[1] = "arp" THEN arp_entries[q[2]].packet_queue ELSE connections[q[2]].packet_queue

QueuePackets(q) == Range(QueueOf(q))

Connection == ConnectionsOf({TftpPort, DhcpPort}, Packets, {MaxPacketCount, 1})

ArpEntry == [ip : Hosts \cup {NONE}, contain_valid_mapping : BOOLEAN,
             packet_queue : Seq(Packets), packet_count : Int]

\* The calls, the ARP entries, the connections and the indices have their types.
LayerTypes ==
  /\ calls \in Seq(CallSet)
  /\ arp_entries \in [Entries -> ArpEntry]
  /\ connections \in Seq(Connection) /\ Len(connections) = 2
  /\ Counted(connections[1]) /\ Counted(connections[2])
  /\ connections[1].port = TftpPort /\ connections[1].max_packet_count = MaxPacketCount
  /\ connections[2].port = DhcpPort /\ connections[2].max_packet_count = 1
  /\ index \in [Packets -> Int]

\* A packet in a place is held, is there once, and is in no other place.
Ownership ==
  /\ Distinct(calls)
  /\ PacketsOf(calls) \subseteq held
  /\ \A q \in Queues : /\ IsInjective(QueueOf(q))
                       /\ QueuePackets(q) \subseteq held
                       /\ QueuePackets(q) \cap PacketsOf(calls) = {}
  /\ \A q, r \in Queues : q # r => QueuePackets(q) \cap QueuePackets(r) = {}

\* A packet that is held is in a place.
Complete == \A packet \in held : \/ packet \in PacketsOf(calls)
                                 \/ \E q \in Queues : packet \in QueuePackets(q)

\* Packets move between the calls and one queue q; those of N come from the
\* driver and those of E go back to it.
LEMMA Transfer ==
  ASSUME Ownership, NEW q \in Queues, NEW N, NEW E,
         N \cap held = {}, E \subseteq PacketsOf(calls) \cup QueuePackets(q),
         Distinct(calls'), IsInjective(QueueOf(q)'),
         PacketsOf(calls)' \cap QueuePackets(q)' = {},
         PacketsOf(calls)' \cup QueuePackets(q)' \subseteq
           (PacketsOf(calls) \cup QueuePackets(q) \cup N) \ E,
         held' = (held \cup N) \ E,
         \A r \in Queues \ {q} : QueueOf(r)' = QueueOf(r)
  PROVE  /\ Ownership'
         /\ Complete /\ PacketsOf(calls)' \cup QueuePackets(q)' =
                          (PacketsOf(calls) \cup QueuePackets(q) \cup N) \ E
              => Complete'
<1> DEFINE C  == PacketsOf(calls)
           S(r) == QueuePackets(r)
<1>1. \A r \in Queues \ {q} : S(r)' = S(r)
  BY DEF QueuePackets
<1>2. /\ C \subseteq held
      /\ \A r \in Queues : S(r) \subseteq held /\ S(r) \cap C = {}
      /\ \A r, t \in Queues : r # t => S(r) \cap S(t) = {}
  BY DEF Ownership
<1>3. \A r \in Queues \ {q} : S(r) \cap (C' \cup S(q)') = {} /\ S(r) \cap E = {}
  BY <1>2
<1>4. C' \subseteq held' /\ S(q)' \subseteq held'
  BY <1>2
<1>5. \A r \in Queues \ {q} : S(r)' \subseteq held' /\ S(r)' \cap C' = {}
  BY <1>1, <1>2, <1>3
<1>6. \A r \in Queues : IsInjective(QueueOf(r)')
  BY DEF Ownership
<1>7. \A r, t \in Queues : r # t => S(r)' \cap S(t)' = {}
  BY <1>1, <1>2, <1>3
<1>8. Ownership'
  BY <1>4, <1>5, <1>6, <1>7 DEF Ownership
<1>9. ASSUME Complete, C' \cup S(q)' = (C \cup S(q) \cup N) \ E
      PROVE  Complete'
  <2>1. SUFFICES ASSUME NEW p \in held'
                 PROVE  p \in C' \/ \E r \in Queues : p \in S(r)'
    BY DEF Complete
  <2>2. CASE p \in C \cup S(q) \cup N
    BY <1>9, <2>1, <2>2
  <2>3. CASE p \notin C \cup S(q) \cup N
    <3>1. PICK r \in Queues : p \in S(r)
      BY <1>9, <2>1, <2>3 DEF Complete
    <3>2. QED
      BY <1>1, <2>3, <3>1
  <2>4. QED
    BY <2>2, <2>3
<1>10. QED
  BY <1>8, <1>9

\* Transfer when no packet is allocated.
LEMMA TransferAndFree ==
  ASSUME Ownership, NEW q \in Queues, NEW E,
         E \subseteq PacketsOf(calls) \cup QueuePackets(q),
         Distinct(calls'), IsInjective(QueueOf(q)'),
         PacketsOf(calls)' \cap QueuePackets(q)' = {},
         PacketsOf(calls)' \cup QueuePackets(q)' \subseteq
           (PacketsOf(calls) \cup QueuePackets(q)) \ E,
         held' = held \ E,
         \A r \in Queues \ {q} : QueueOf(r)' = QueueOf(r)
  PROVE  /\ Ownership'
         /\ Complete /\ PacketsOf(calls)' \cup QueuePackets(q)' =
                          (PacketsOf(calls) \cup QueuePackets(q)) \ E
              => Complete'
<1> DEFINE N == {}
<1>1. /\ N \cap held = {} /\ held' = (held \cup N) \ E
      /\ (PacketsOf(calls) \cup QueuePackets(q) \cup N) \ E =
           (PacketsOf(calls) \cup QueuePackets(q)) \ E
  OBVIOUS
<1> HIDE DEF N
<1>2. QED
  BY <1>1, Transfer

\* What may be missing in front of a packet: nothing checks that an IP header is
\* as long as the one a reply will need.
Shortfall == IF HeaderLengths \subseteq 5 .. 15 THEN 0 ELSE IpHeader

\* The room in front of the data that a call with a packet in hand counts on.
Needs(call) ==
  IF call.call \in {"ip_send", "handle_udp", "handle_icmp"}
  THEN MacHeader + IpHeader - Shortfall
  ELSE IF call.call \in {"handle_arp", "handle_ip"} THEN MacHeader
  ELSE IF call.call \in {"mac_send", "arp_send"} THEN MacHeader - Shortfall
  ELSE IF call.call = "handle_mac" THEN 0
  ELSE 0 - Shortfall

Roomy(s, room) == \A k \in DOMAIN s : \A packet \in Carried(s[k]) : room[packet] >= Needs(s[k])

ArpRoom ==
  \A e \in Entries : \A packet \in Range(arp_entries[e].packet_queue) :
    index[packet] >= MacHeader - Shortfall

RoomLeft == \A packet \in held \cup Range(tx_packets) : index[packet] >= 0 - Shortfall

\* A call of the outermost level has nothing below it that has a packet in
\* hand, and under any call but free_entry at most one has.
Outer == {"handle_mac", "handle_arp", "handle_ip", "handle_udp", "handle_icmp",
          "network_task", "arp_task", "arp_task_at", "dhcp_task", "tftp_read"}

AtMostOne(s) ==
  \A k, l \in DOMAIN s : k # l => Carried(s[k]) = {} \/ Carried(s[l]) = {}

Nested(s) ==
  /\ \A k, l \in DOMAIN s : k < l /\ s[k].call \in Outer => Carried(s[l]) = {}
  /\ \A j, k, l \in DOMAIN s :
       j < k /\ j < l /\ k # l /\ s[j].call # "free_entry" =>
         Carried(s[k]) = {} \/ Carried(s[l]) = {}

\* When the first call returns, the nesting and the room of the others remain.
LEMMA NestedReturns ==
  ASSUME NEW s \in Seq(CallSet), s # <<>>, NEW room
  PROVE  /\ Nested(s) => /\ Nested(Tail(s))
                         /\ Head(s).call # "free_entry" => AtMostOne(Tail(s))
                         /\ Head(s).call \in Outer => PacketsOf(Tail(s)) = {}
         /\ Roomy(s, room) =>
              /\ Roomy(Tail(s), room)
              /\ \A packet \in Carried(Head(s)) : room[packet] >= Needs(Head(s))
<1>1. /\ Len(s) \in Nat /\ Len(s) # 0 /\ DOMAIN s = 1 .. Len(s) /\ Head(s) = s[1]
      /\ DOMAIN Tail(s) = 1 .. Len(s) - 1
      /\ \A k \in 1 .. Len(s) - 1 : Tail(s)[k] = s[k + 1]
  OBVIOUS
<1>2. \A k \in DOMAIN Tail(s) : /\ k + 1 \in DOMAIN s /\ 1 \in DOMAIN s /\ 1 < k + 1
                                /\ k \in Nat /\ Tail(s)[k] = s[k + 1]
  BY <1>1
<1>3. ASSUME Nested(s)
      PROVE  /\ Nested(Tail(s))
             /\ Head(s).call # "free_entry" => AtMostOne(Tail(s))
             /\ Head(s).call \in Outer => PacketsOf(Tail(s)) = {}
  <2>1. \A k, l \in DOMAIN Tail(s) :
          k < l /\ Tail(s)[k].call \in Outer => Carried(Tail(s)[l]) = {}
    <3>1. SUFFICES ASSUME NEW k \in DOMAIN Tail(s), NEW l \in DOMAIN Tail(s),
                          k < l, Tail(s)[k].call \in Outer
                   PROVE  Carried(Tail(s)[l]) = {}
      OBVIOUS
    <3>2. k + 1 < l + 1
      BY <1>2, <3>1
    <3>3. QED
      BY <1>2, <1>3, <3>1, <3>2 DEF Nested
  <2>2. ASSUME Head(s).call # "free_entry" PROVE AtMostOne(Tail(s))
    <3>1. SUFFICES ASSUME NEW k \in DOMAIN Tail(s), NEW l \in DOMAIN Tail(s), k # l
                   PROVE  Carried(Tail(s)[k]) = {} \/ Carried(Tail(s)[l]) = {}
      BY DEF AtMostOne
    <3>2. k + 1 # l + 1 /\ s[1].call # "free_entry"
      BY <1>1, <1>2, <2>2, <3>1
    <3>3. QED
      BY <1>2, <1>3, <3>1, <3>2 DEF Nested
  <2>3. Nested(Tail(s))
    <3>1. ASSUME NEW j \in DOMAIN Tail(s), NEW k \in DOMAIN Tail(s), NEW l \in DOMAIN Tail(s),
                 j < k, j < l, k # l, Tail(s)[j].call # "free_entry"
          PROVE  Carried(Tail(s)[k]) = {} \/ Carried(Tail(s)[l]) = {}
      <4>1. j + 1 < k + 1 /\ j + 1 < l + 1 /\ k + 1 # l + 1
        BY <1>2, <3>1
      <4>2. QED
        BY <1>2, <1>3, <3>1, <4>1 DEF Nested
    <3>2. QED
      BY <2>1, <3>1 DEF Nested
  <2>4. ASSUME Head(s).call \in Outer PROVE PacketsOf(Tail(s)) = {}
    <3>1. \A k \in DOMAIN Tail(s) : Carried(Tail(s)[k]) = {}
      BY <1>1, <1>2, <1>3, <2>4 DEF Nested
    <3>2. QED
      BY <3>1 DEF PacketsOf
  <2>5. QED
    BY <2>2, <2>3, <2>4
<1>4. ASSUME Roomy(s, room)
      PROVE  /\ Roomy(Tail(s), room)
             /\ \A packet \in Carried(Head(s)) : room[packet] >= Needs(Head(s))
  <2>1. 1 \in DOMAIN s
    BY <1>1
  <2>2. QED
    BY <1>1, <1>2, <1>4, <2>1 DEF Roomy
<1>5. QED
  BY <1>3, <1>4

\* What a new first call needs for the nesting and the room to hold with it.
LEMMA NestedMade ==
  ASSUME NEW s \in Seq(CallSet), NEW x \in CallSet, NEW room
  PROVE  LET t == <<x>> \o s IN
         /\ /\ Nested(s) /\ (x.call # "free_entry" => AtMostOne(s))
            /\ x.call \in Outer => PacketsOf(s) = {}
            => Nested(t)
         /\ AtMostOne(s) /\ (Carried(x) = {} \/ PacketsOf(s) = {}) => AtMostOne(t)
         /\ Roomy(s, room) /\ (\A packet \in Carried(x) : room[packet] >= Needs(x)) =>
              Roomy(t, room)
<1> DEFINE t == <<x>> \o s
<1>1. /\ Len(s) \in Nat /\ DOMAIN s = 1 .. Len(s) /\ DOMAIN t = 1 .. Len(s) + 1
      /\ t[1] = x /\ \A k \in 1 .. Len(s) : t[k + 1] = s[k]
  OBVIOUS
<1> HIDE DEF t
<1>2. \A k \in DOMAIN t : k \in Nat /\ (k = 1 \/ (1 < k /\ k - 1 \in DOMAIN s /\ t[k] = s[k - 1]))
  BY <1>1
<1>3. PacketsOf(s) = {} => \A k \in DOMAIN s : Carried(s[k]) = {}
  BY DEF PacketsOf
<1>4. ASSUME AtMostOne(s),
             NEW k \in DOMAIN t, NEW l \in DOMAIN t, 1 < k, 1 < l, k # l
      PROVE  Carried(t[k]) = {} \/ Carried(t[l]) = {}
  <2>1. /\ k - 1 \in DOMAIN s /\ l - 1 \in DOMAIN s /\ k - 1 # l - 1
        /\ t[k] = s[k - 1] /\ t[l] = s[l - 1]
    BY <1>1, <1>2, <1>4
  <2>2. QED
    BY <1>4, <2>1 DEF AtMostOne
<1>5. ASSUME Nested(s), x.call # "free_entry" => AtMostOne(s),
             x.call \in Outer => PacketsOf(s) = {}
      PROVE  Nested(t)
  <2>1. ASSUME NEW k \in DOMAIN t, NEW l \in DOMAIN t, k < l, t[k].call \in Outer
        PROVE  Carried(t[l]) = {}
    <3>1. l - 1 \in DOMAIN s /\ t[l] = s[l - 1]
      BY <1>2, <2>1
    <3>2. CASE k = 1
      BY <1>1, <1>3, <1>5, <2>1, <3>1, <3>2
    <3>3. CASE k # 1
      <4>1. k - 1 \in DOMAIN s /\ t[k] = s[k - 1] /\ k - 1 < l - 1
        BY <1>2, <2>1, <3>3
      <4>2. QED
        BY <1>5, <2>1, <3>1, <4>1 DEF Nested
    <3>4. QED
      BY <3>2, <3>3
  <2>2. ASSUME NEW j \in DOMAIN t, NEW k \in DOMAIN t, NEW l \in DOMAIN t,
               j < k, j < l, k # l, t[j].call # "free_entry"
        PROVE  Carried(t[k]) = {} \/ Carried(t[l]) = {}
    <3>1. 1 < k /\ 1 < l
      BY <1>2, <2>2
    <3>2. CASE j = 1
      BY <1>1, <1>4, <1>5, <2>2, <3>1, <3>2
    <3>3. CASE j # 1
      <4>1. /\ j - 1 \in DOMAIN s /\ t[j] = s[j - 1] /\ k - 1 \in DOMAIN s /\ t[k] = s[k - 1]
            /\ l - 1 \in DOMAIN s /\ t[l] = s[l - 1]
            /\ j - 1 < k - 1 /\ j - 1 < l - 1 /\ k - 1 # l - 1
        BY <1>2, <2>2, <3>1, <3>3
      <4>2. QED
        BY <1>5, <2>2, <4>1 DEF Nested
    <3>4. QED
      BY <3>2, <3>3
  <2>3. QED
    BY <2>1, <2>2 DEF Nested
<1>6. ASSUME AtMostOne(s), Carried(x) = {} \/ PacketsOf(s) = {}
      PROVE  AtMostOne(t)
  <2>1. SUFFICES ASSUME NEW k \in DOMAIN t, NEW l \in DOMAIN t, k # l
                 PROVE  Carried(t[k]) = {} \/ Carried(t[l]) = {}
    BY DEF AtMostOne
  <2>2. CASE 1 < k /\ 1 < l
    BY <1>4, <1>6, <2>1, <2>2
  <2>3. CASE k = 1
    BY <1>1, <1>2, <1>3, <1>6, <2>1, <2>3
  <2>4. CASE l = 1
    BY <1>1, <1>2, <1>3, <1>6, <2>1, <2>4
  <2>5. QED
    BY <1>2, <2>2, <2>3, <2>4
<1>7. ASSUME Roomy(s, room), \A packet \in Carried(x) : room[packet] >= Needs(x)
      PROVE  Roomy(t, room)
  <2>1. SUFFICES ASSUME NEW k \in DOMAIN t, NEW packet \in Carried(t[k])
                 PROVE  room[packet] >= Needs(t[k])
    BY DEF Roomy
  <2>2. CASE k = 1
    BY <1>1, <1>7, <2>2
  <2>3. CASE k # 1
    <3>1. k - 1 \in DOMAIN s /\ t[k] = s[k - 1]
      BY <1>2, <2>3
    <3>2. QED
      BY <1>7, <3>1 DEF Roomy
  <2>4. QED
    BY <2>2, <2>3
<1>8. QED
  BY <1>5, <1>6, <1>7 DEF t

LInv ==
  /\ LayerTypes
  /\ Ownership /\ ("short" \notin DatagramSizes => Complete)
  /\ Nested(calls)
  /\ RoomLeft /\ Roomy(calls, index) /\ ArpRoom

\* Calls that stand at most second, under a call that leaves the ARP table as
\* they found it.
Above(name) ==
  IF name = "send_packets_on_entry" THEN {"mac_send", "gmac_send"}
  ELSE IF name = "arp_task_at" THEN {"mac_send", "gmac_send", "send_arp_packet", "free_entry"}
  ELSE IF name = "arp_send" THEN {"free_entry"}
  ELSE {}

OnTable == {"send_packets_on_entry", "arp_task_at", "arp_send", "free_entry"}

Ordered(s) ==
  \A k \in DOMAIN s : s[k].call \in OnTable =>
    k = 1 \/ (k = 2 /\ s[1].call \in Above(s[k].call))

\* The mapping of an entry stays valid while its packets are sent.
Sending ==
  \A k \in DOMAIN calls : calls[k].call = "send_packets_on_entry" =>
    arp_entries[calls[k].entry].contain_valid_mapping

\* A packet_count that is compared with the limit stands for packets.
CountHolds(entry) ==
  ~entry.contain_valid_mapping => entry.packet_count =< Len(entry.packet_queue)

QInv ==
  /\ Ordered(calls) /\ Sending /\ \A e \in Entries : CountHolds(arp_entries[e])
  /\ links \in Heap

SInv == IInv /\ LInv /\ QInv

tables == <<arp_entries, connections>>

-----------------------------------------------------------------------------
(* The parts of a state. *)

\* The queues by their names.
LEMMA QueueNames ==
  /\ \A h \in Entries : /\ <<"arp", h>> \in Queues
                      /\ QueueOf(<<"arp", h>>) = arp_entries[h].packet_queue
                      /\ QueueOf(<<"arp", h>>)' = arp_entries'[h].packet_queue
  /\ \A i \in {1, 2} : /\ <<"udp", i>> \in Queues
                       /\ QueueOf(<<"udp", i>>) = connections[i].packet_queue
                       /\ QueueOf(<<"udp", i>>)' = connections'[i].packet_queue
  /\ \A q \in Queues : \/ \E h \in Entries : q = <<"arp", h>>
                       \/ \E i \in {1, 2} : q = <<"udp", i>>
BY DEF Queues, QueueOf

\* The first call, and the others below it.
LEMMA FirstCall ==
  ASSUME SInv, calls # <<>>
  PROVE  LET first == Head(calls)
             rest  == Tail(calls)
         IN  /\ first \in CallSet /\ rest \in Seq(CallSet)
             /\ PacketsOf(calls) = Carried(first) \cup PacketsOf(rest)
             /\ Carried(first) \cap PacketsOf(rest) = {}
             /\ Carried(first) \subseteq Packets
             /\ Distinct(rest) /\ Nested(rest) /\ Roomy(rest, index)
             /\ first.call # "free_entry" => AtMostOne(rest)
             /\ first.call \in Outer => PacketsOf(rest) = {}
             /\ \A packet \in Carried(first) : index[packet] >= Needs(first)
             /\ \A packet \in Carried(first) :
                  packet \in held /\ \A q \in Queues : packet \notin QueuePackets(q)
<1>1. calls \in Seq(CallSet) /\ Distinct(calls) /\ Nested(calls) /\ Roomy(calls, index)
  BY DEF SInv, LInv, LayerTypes, Ownership
<1>2. /\ Head(calls) \in CallSet /\ Tail(calls) \in Seq(CallSet)
      /\ PacketsOf(calls) = Carried(Head(calls)) \cup PacketsOf(Tail(calls))
      /\ Distinct(Tail(calls)) /\ Carried(Head(calls)) \cap PacketsOf(Tail(calls)) = {}
  BY <1>1, CallReturns
<1>3. /\ Nested(Tail(calls)) /\ Roomy(Tail(calls), index)
      /\ Head(calls).call # "free_entry" => AtMostOne(Tail(calls))
      /\ Head(calls).call \in Outer => PacketsOf(Tail(calls)) = {}
      /\ \A packet \in Carried(Head(calls)) : index[packet] >= Needs(Head(calls))
  BY <1>1, NestedReturns
<1>4. Carried(Head(calls)) \subseteq Packets
  BY <1>2, CallShape
<1>5. \A packet \in Carried(Head(calls)) :
        packet \in held /\ \A q \in Queues : packet \notin QueuePackets(q)
  BY <1>2 DEF SInv, LInv, Ownership
<1>6. QED
  BY <1>2, <1>3, <1>4, <1>5

\* Calls whose packets keep their indices keep their room.
LEMMA RoomElsewhere ==
  ASSUME NEW s, Roomy(s, index), \A packet \in PacketsOf(s) : index'[packet] = index[packet]
  PROVE  Roomy(s, index')
BY DEF Roomy, PacketsOf

\* The same for the packets in the ARP queues.
LEMMA ArpRoomElsewhere ==
  ASSUME ArpRoom,
         \A h \in Entries : \A packet \in Range(arp_entries'[h].packet_queue) :
            packet \in Range(arp_entries[h].packet_queue) /\ index'[packet] = index[packet]
  PROVE  ArpRoom'
BY DEF ArpRoom

\* While no queue changes, neither do the types of the layers.
LEMMA LayersKept ==
  ASSUME SInv, UNCHANGED tables, calls' \in Seq(CallSet), index' \in [Packets -> Int]
  PROVE  LayerTypes' /\ \A q \in Queues : QueueOf(q)' = QueueOf(q)
<1>1. arp_entries' = arp_entries /\ connections' = connections
  BY DEF tables
<1>2. LayerTypes'
  BY <1>1 DEF SInv, LInv, LayerTypes
<1>3. QED
  BY <1>1, <1>2 DEF QueueOf

-----------------------------------------------------------------------------
(* The driver under the stack. *)

\* What the stack does to the pool and the rings it does by the operations of
\* the allocator and the driver, one at a time.
LEMMA DriverSteps == [StackNext]_stackVars => [Next]_vars
<1> SUFFICES ASSUME [StackNext]_stackVars PROVE [Next]_vars
  OBVIOUS
<1>1. /\ Allocate \/ AllocateHangs => Next
      /\ \A packet : Free(packet) \/ SendHangs(packet) \/ SendDrops(packet) \/ SendLinks(packet) => Next
      /\ ReceiveDropsFragment \/ ReceiveFrame \/ ReceiveHangs => Next
      /\ DmaTransmit \/ DmaTransmitFails \/ DmaReceive => Next
  <2>1. \A packet : Free(packet) \/ SendHangs(packet) \/ SendDrops(packet) \/ SendLinks(packet) =>
          packet \in held
    BY DEF Free, SendHangs, SendDrops, SendLinks
  <2>2. QED
    BY <2>1 DEF Next, GmacReceive
<1>2. ASSUME \/ Allocate \/ AllocateHangs \/ ReceiveDropsFragment \/ ReceiveFrame \/ ReceiveHangs
             \/ DmaTransmit \/ DmaTransmitFails \/ DmaReceive
             \/ \E packet : Free(packet) \/ SendHangs(packet) \/ SendDrops(packet) \/ SendLinks(packet)
             \/ NoDriver
      PROVE  [Next]_vars
  BY <1>1, <1>2 DEF NoDriver
<1>3. CASE UNCHANGED stackVars
  BY <1>3 DEF stackVars
<1>4. CASE Application
  BY <1>2, <1>4 DEF Application
<1>5. CASE Hardware
  BY <1>2, <1>5 DEF Hardware
<1>6. CASE UdpSends \/ SendsArpPacket
  BY <1>2, <1>6 DEF UdpSends, SendsArpPacket, Allocates
<1>7. CASE MacSends
  BY <1>2, <1>7 DEF MacSends
<1>8. ASSUME NEW ip, IpSendsAtOnce(ip) \/ IpSendWaits(ip) \/ IpSendAsks(ip) PROVE [Next]_vars
  BY <1>2, <1>8 DEF IpSendsAtOnce, IpSendWaits, IpSendAsks
<1>9. CASE NetworkTaskReceives \/ NetworkTaskBreaks
  BY <1>2, <1>9 DEF NetworkTaskReceives, NetworkTaskBreaks
<1>10. \A name : Drops(name) => [Next]_vars
  BY <1>2 DEF Drops, Driver
<1>11. \A name, next, size : Passes(name, next, size) => [Next]_vars
  BY <1>2 DEF Passes
<1>12. CASE HandleMac \/ HandleIp \/ HandleIcmp \/ FreePacket
  BY <1>2, <1>10, <1>11, <1>12 DEF HandleMac, HandleIp, HandleIcmp, FreePacket
<1>13. CASE HandleUdp
  BY <1>2, <1>10, <1>13 DEF HandleUdp
<1>14. CASE HandleArp
  BY <1>2, <1>10, <1>14 DEF HandleArp
<1>15. CASE ArpSendQueues \/ SendPacketsOnEntry \/ FreeEntry
  BY <1>2, <1>15 DEF ArpSendQueues, SendPacketsOnEntry, FreeEntry
<1>16. CASE ArpTaskStarts \/ ArpTaskVisits \/ DhcpTask
  BY <1>2, <1>16 DEF ArpTaskStarts, ArpTaskVisits, DhcpTask
<1>17. CASE DhcpRead \/ TftpReadsOack \/ TftpReadsData
  BY <1>2, <1>17 DEF DhcpRead, TftpReadsOack, TftpReadsData, ReadsNothing, Driver
<1>18. QED
  BY <1>3, <1>4, <1>5, <1>6, <1>7, <1>8, <1>9, <1>12, <1>13, <1>14, <1>15, <1>16, <1>17
     DEF StackNext, Step

\* The stack runs the driver as the driver is specified: what is proved of the
\* driver alone holds of it under the stack.
THEOREM RefinesDriver == StackSpec => Spec
<1>1. StackInit => Init
  BY DEF StackInit
<1>2. QED
  BY <1>1, DriverSteps, PTL DEF StackSpec, Spec

-----------------------------------------------------------------------------
(* Steps by what they change. *)

\* A step that leaves the queues alone: the packets N come from the driver into
\* the hands of the calls, the packets E go back to it.
LEMMA CallsChange ==
  ASSUME SInv, NEW N, NEW E, UNCHANGED tables,
         N \cap held = {}, E \subseteq PacketsOf(calls), held' = (held \cup N) \ E,
         calls' \in Seq(CallSet), Distinct(calls'), Nested(calls'),
         PacketsOf(calls)' = (PacketsOf(calls) \cup N) \ E,
         index' \in [Packets -> Int], Roomy(calls', index'), RoomLeft',
         \A packet \in held \ PacketsOf(calls) : index'[packet] = index[packet]
  PROVE  LInv'
<1> DEFINE q == <<"udp", 1>>
<1>1. LayerTypes' /\ \A r \in Queues : QueueOf(r)' = QueueOf(r)
  BY LayersKept
<1>2. q \in Queues
  BY QueueNames
<1> HIDE DEF q
<1>3. /\ Ownership /\ IsInjective(QueueOf(q)) /\ QueuePackets(q) \subseteq held
      /\ QueuePackets(q) \cap PacketsOf(calls) = {}
  BY <1>2 DEF SInv, LInv, Ownership
<1>4. QueuePackets(q)' = QueuePackets(q) /\ IsInjective(QueueOf(q)')
  BY <1>1, <1>2, <1>3 DEF QueuePackets
<1>5. /\ PacketsOf(calls)' \cap QueuePackets(q)' = {}
      /\ PacketsOf(calls)' \cup QueuePackets(q)' =
           (PacketsOf(calls) \cup QueuePackets(q) \cup N) \ E
  BY <1>3, <1>4
<1>6. Ownership' /\ (Complete => Complete')
  BY <1>1, <1>2, <1>3, <1>4, <1>5, Transfer
<1>7. ArpRoom'
  <2>1. arp_entries' = arp_entries
    BY DEF tables
  <2>2. \A h \in Entries : \A packet \in Range(arp_entries[h].packet_queue) :
           packet \in held \ PacketsOf(calls)
    BY QueueNames DEF SInv, LInv, Ownership, QueuePackets
  <2>3. QED
    BY <2>1, <2>2, ArpRoomElsewhere DEF SInv, LInv
<1>8. QED
  BY <1>1, <1>6, <1>7 DEF SInv, LInv

\* A step that changes the ARP entry h.
LEMMA EntryChanges ==
  ASSUME SInv, NEW N, NEW E, NEW h \in Entries, NEW entry \in ArpEntry,
         arp_entries' = [arp_entries EXCEPT ![h] = entry], connections' = connections,
         IsInjective(entry.packet_queue),
         N \cap held = {}, E \subseteq PacketsOf(calls) \cup Range(arp_entries[h].packet_queue),
         held' = (held \cup N) \ E,
         calls' \in Seq(CallSet), Distinct(calls'), Nested(calls'),
         PacketsOf(calls)' \cap Range(entry.packet_queue) = {},
         PacketsOf(calls)' \cup Range(entry.packet_queue) =
           (PacketsOf(calls) \cup Range(arp_entries[h].packet_queue) \cup N) \ E,
         index' \in [Packets -> Int], Roomy(calls', index'), RoomLeft',
         \A packet \in Range(entry.packet_queue) : index'[packet] >= MacHeader - Shortfall,
         \A packet \in held \ PacketsOf(calls) : index'[packet] = index[packet]
  PROVE  LInv'
<1> DEFINE q == <<"arp", h>>
<1>0. arp_entries \in [Entries -> ArpEntry]
  BY DEF SInv, LInv, LayerTypes
<1>1. arp_entries'[h] = entry /\ \A g \in Entries \ {h} : arp_entries'[g] = arp_entries[g]
  BY <1>0
<1>2. LayerTypes'
  <2>1. arp_entries' \in [Entries -> ArpEntry]
    BY <1>0
  <2>2. QED
    BY <2>1 DEF SInv, LInv, LayerTypes
<1>3. q \in Queues /\ QueueOf(q) = arp_entries[h].packet_queue /\ QueueOf(q)' = entry.packet_queue
  BY <1>1, QueueNames
<1>4. \A r \in Queues \ {q} : QueueOf(r)' = QueueOf(r)
  <2>1. SUFFICES ASSUME NEW r \in Queues, r # q PROVE QueueOf(r)' = QueueOf(r)
    OBVIOUS
  <2>2. CASE \E g \in Entries : r = <<"arp", g>>
    <3>1. PICK g \in Entries : r = <<"arp", g>>
      BY <2>2
    <3>2. g # h
      BY <2>1, <3>1
    <3>3. arp_entries'[g] = arp_entries[g]
      BY <1>1, <3>1, <3>2
    <3>4. /\ QueueOf(<<"arp", g>>) = arp_entries[g].packet_queue
          /\ QueueOf(<<"arp", g>>)' = arp_entries'[g].packet_queue
      BY QueueNames
    <3>5. QED
      BY <3>1, <3>3, <3>4
  <2>3. CASE \E i \in {1, 2} : r = <<"udp", i>>
    BY <2>3, QueueNames
  <2>4. QED
    BY <2>2, <2>3, QueueNames
<1> HIDE DEF q
<1>5. /\ QueuePackets(q) = Range(arp_entries[h].packet_queue)
      /\ QueuePackets(q)' = Range(entry.packet_queue) /\ IsInjective(QueueOf(q)')
  BY <1>3 DEF QueuePackets
<1>6. Ownership' /\ (Complete => Complete')
  BY <1>3, <1>4, <1>5, Transfer DEF SInv, LInv
<1>7. ArpRoom'
  <2>1. \A g \in Entries : \A packet \in Range(arp_entries[g].packet_queue) :
           packet \in held \ PacketsOf(calls)
    BY QueueNames DEF SInv, LInv, Ownership, QueuePackets
  <2>2. \A g \in Entries \ {h} : \A packet \in Range(arp_entries'[g].packet_queue) :
          index'[packet] >= MacHeader - Shortfall
    BY <1>1, <2>1 DEF SInv, LInv, ArpRoom
  <2>3. QED
    BY <1>1, <2>2 DEF ArpRoom
<1>8. QED
  BY <1>2, <1>6, <1>7 DEF SInv, LInv

\* An assignment to an element of a sequence changes nothing else of it.
LEMMA ElementReplaced ==
  ASSUME NEW S, NEW s \in Seq(S), NEW i \in DOMAIN s, NEW x \in S
  PROVE  LET t == [s EXCEPT ![i] = x] IN
         /\ t \in Seq(S) /\ Len(t) = Len(s) /\ DOMAIN t = DOMAIN s
         /\ t[i] = x /\ \A j \in DOMAIN s \ {i} : t[j] = s[j]
OBVIOUS

\* A step that changes connection i; where a packet may be forgotten, those in
\* the hands of the calls and in the queue are some of the ones there were.
LEMMA ConnectionChanges ==
  ASSUME SInv, NEW E, NEW i \in {1, 2}, NEW connection \in Connection,
         connections' = [connections EXCEPT ![i] = connection], arp_entries' = arp_entries,
         Counted(connection), connection.port = connections[i].port,
         connection.max_packet_count = connections[i].max_packet_count,
         IsInjective(connection.packet_queue),
         E \subseteq PacketsOf(calls) \cup Range(connections[i].packet_queue),
         held' = held \ E,
         calls' \in Seq(CallSet), Distinct(calls'), Nested(calls'),
         PacketsOf(calls)' \cap Range(connection.packet_queue) = {},
         PacketsOf(calls)' \cup Range(connection.packet_queue) \subseteq
           (PacketsOf(calls) \cup Range(connections[i].packet_queue)) \ E,
         "short" \notin DatagramSizes =>
           PacketsOf(calls)' \cup Range(connection.packet_queue) =
             (PacketsOf(calls) \cup Range(connections[i].packet_queue)) \ E,
         index' \in [Packets -> Int], Roomy(calls', index'), RoomLeft',
         \A packet \in held \ PacketsOf(calls) : index'[packet] = index[packet]
  PROVE  LInv'
<1> DEFINE q == <<"udp", i>>
<1>0. connections \in Seq(Connection) /\ Len(connections) = 2 /\ DOMAIN connections = {1, 2}
  <2>1. connections \in Seq(Connection) /\ Len(connections) = 2
    BY DEF SInv, LInv, LayerTypes
  <2>2. QED
    BY <2>1
<1>1. connections'[i] = connection /\ \A j \in {1, 2} \ {i} : connections'[j] = connections[j]
  BY <1>0, ElementReplaced
<1>2. LayerTypes'
  <2>1. connections' \in Seq(Connection) /\ Len(connections') = 2
    BY <1>0, ElementReplaced
  <2>2. /\ Counted(connections'[1]) /\ Counted(connections'[2])
        /\ connections'[1].port = TftpPort /\ connections'[1].max_packet_count = MaxPacketCount
        /\ connections'[2].port = DhcpPort /\ connections'[2].max_packet_count = 1
    BY <1>1 DEF SInv, LInv, LayerTypes
  <2>3. QED
    BY <2>1, <2>2 DEF SInv, LInv, LayerTypes
<1>3. /\ q \in Queues /\ QueueOf(q) = connections[i].packet_queue
      /\ QueueOf(q)' = connection.packet_queue
  BY <1>1, QueueNames
<1>4. \A r \in Queues \ {q} : QueueOf(r)' = QueueOf(r)
  <2>1. SUFFICES ASSUME NEW r \in Queues, r # q PROVE QueueOf(r)' = QueueOf(r)
    OBVIOUS
  <2>2. CASE \E g \in Entries : r = <<"arp", g>>
    BY <2>2, QueueNames
  <2>3. CASE \E j \in {1, 2} : r = <<"udp", j>>
    <3>1. PICK j \in {1, 2} : r = <<"udp", j>>
      BY <2>3
    <3>2. j # i
      BY <2>1, <3>1
    <3>3. connections'[j] = connections[j]
      BY <1>1, <3>1, <3>2
    <3>4. /\ QueueOf(<<"udp", j>>) = connections[j].packet_queue
          /\ QueueOf(<<"udp", j>>)' = connections'[j].packet_queue
      BY QueueNames
    <3>5. QED
      BY <3>1, <3>3, <3>4
  <2>4. QED
    BY <2>2, <2>3, QueueNames
<1> HIDE DEF q
<1>5. /\ QueuePackets(q) = Range(connections[i].packet_queue)
      /\ QueuePackets(q)' = Range(connection.packet_queue) /\ IsInjective(QueueOf(q)')
  BY <1>3 DEF QueuePackets
<1>6. Ownership' /\ ("short" \notin DatagramSizes /\ Complete => Complete')
  <2>1. /\ PacketsOf(calls)' \cup QueuePackets(q)' \subseteq
             (PacketsOf(calls) \cup QueuePackets(q)) \ E
        /\ "short" \notin DatagramSizes =>
             PacketsOf(calls)' \cup QueuePackets(q)' =
               (PacketsOf(calls) \cup QueuePackets(q)) \ E
    BY <1>5
  <2>2. /\ Ownership /\ E \subseteq PacketsOf(calls) \cup QueuePackets(q)
        /\ PacketsOf(calls)' \cap QueuePackets(q)' = {}
    BY <1>5 DEF SInv, LInv
  <2>3. /\ Ownership'
        /\ Complete /\ PacketsOf(calls)' \cup QueuePackets(q)' =
                         (PacketsOf(calls) \cup QueuePackets(q)) \ E
             => Complete'
    BY <1>3, <1>4, <1>5, <2>1, <2>2, TransferAndFree
  <2>4. QED
    BY <2>1, <2>3
<1>7. ArpRoom'
  <2>1. \A g \in Entries : \A packet \in Range(arp_entries[g].packet_queue) :
           packet \in held \ PacketsOf(calls)
    BY QueueNames DEF SInv, LInv, Ownership, QueuePackets
  <2>2. QED
    BY <2>1, ArpRoomElsewhere DEF SInv, LInv
<1>8. QED
  BY <1>2, <1>6, <1>7 DEF SInv, LInv

-----------------------------------------------------------------------------
(* What comes after the first call. *)

\* It returns.
LEMMA FirstReturns ==
  ASSUME SInv, calls # <<>>, Returns,
         \A packet \in PacketsOf(Tail(calls)) : index'[packet] = index[packet]
  PROVE  /\ calls' \in Seq(CallSet) /\ Distinct(calls') /\ Nested(calls')
         /\ PacketsOf(calls)' = PacketsOf(Tail(calls))
         /\ PacketsOf(calls)' = PacketsOf(calls) \ Carried(Head(calls))
         /\ Roomy(calls', index')
<1> DEFINE rest == Tail(calls)
<1>1. /\ rest \in Seq(CallSet) /\ Distinct(rest) /\ Nested(rest) /\ Roomy(rest, index)
      /\ PacketsOf(rest) = PacketsOf(calls) \ Carried(Head(calls))
  BY FirstCall
<1>2. calls' = rest
  BY <1>1 DEF Returns, Continues
<1>3. Roomy(rest, index')
  <2> HIDE DEF rest
  <2>1. QED
    BY <1>1, RoomElsewhere DEF rest
<1>4. QED
  BY <1>1, <1>2, <1>3

\* It is replaced by the call x.
LEMMA FirstBecomes ==
  ASSUME SInv, calls # <<>>, Head(calls).call # "free_entry",
         NEW x \in CallSet, Continues(<<x>>),
         Carried(x) \cap PacketsOf(Tail(calls)) = {},
         x.call \in Outer => PacketsOf(Tail(calls)) = {},
         \A packet \in PacketsOf(Tail(calls)) : index'[packet] = index[packet],
         \A packet \in Carried(x) : index'[packet] >= Needs(x)
  PROVE  /\ calls' \in Seq(CallSet) /\ Distinct(calls') /\ Nested(calls')
         /\ PacketsOf(calls)' = Carried(x) \cup PacketsOf(Tail(calls))
         /\ Roomy(calls', index')
<1> DEFINE rest == Tail(calls)
<1>1. /\ rest \in Seq(CallSet) /\ Distinct(rest) /\ Nested(rest) /\ AtMostOne(rest)
      /\ Roomy(rest, index)
  BY FirstCall
<1>2. calls' = <<x>> \o rest
  BY DEF Continues
<1> HIDE DEF rest
<1>3. Roomy(rest, index')
  BY <1>1, RoomElsewhere DEF rest
<1>4. /\ calls' \in Seq(CallSet) /\ Distinct(calls')
      /\ PacketsOf(calls') = Carried(x) \cup PacketsOf(rest)
  BY <1>1, <1>2, CallMade DEF rest
<1>5. Nested(calls') /\ Roomy(calls', index')
  BY <1>1, <1>2, <1>3, NestedMade DEF rest
<1>6. QED
  BY <1>4, <1>5 DEF rest

\* Two elements in front of a sequence are one and then one.
LEMMA TwoInFront ==
  ASSUME NEW S, NEW x \in S, NEW y \in S, NEW s \in Seq(S)
  PROVE  <<x, y>> \o s = <<x>> \o (<<y>> \o s)
<1> DEFINE a == <<x, y>> \o s
           b == <<x>> \o (<<y>> \o s)
<1>1. /\ a \in Seq(S) /\ Len(a) = Len(s) + 2
      /\ a[1] = x /\ a[2] = y /\ \A k \in 3 .. Len(s) + 2 : a[k] = s[k - 2]
  OBVIOUS
<1>2. /\ b \in Seq(S) /\ Len(b) = Len(s) + 2
      /\ b[1] = x /\ b[2] = y /\ \A k \in 3 .. Len(s) + 2 : b[k] = s[k - 2]
  OBVIOUS
<1>3. Len(s) \in Nat
  OBVIOUS
<1> HIDE DEF a, b
<1>4. \A k \in 1 .. Len(s) + 2 : a[k] = b[k]
  BY <1>1, <1>2, <1>3
<1>5. a = b
  BY <1>1, <1>2, <1>3, <1>4
<1>6. QED
  BY <1>5 DEF a, b

\* It is replaced by the call x and, after that, y.
LEMMA FirstBecomesTwo ==
  ASSUME SInv, calls # <<>>, Head(calls).call # "free_entry",
         NEW x \in CallSet, NEW y \in CallSet, Continues(<<x, y>>),
         Carried(x) \cap Carried(y) = {},
         (Carried(x) \cup Carried(y)) \cap PacketsOf(Tail(calls)) = {},
         x.call = "free_entry" \/ Carried(y) = {} \/ PacketsOf(Tail(calls)) = {},
         x.call \in Outer => Carried(y) = {} /\ PacketsOf(Tail(calls)) = {},
         y.call \in Outer => PacketsOf(Tail(calls)) = {},
         \A packet \in PacketsOf(Tail(calls)) : index'[packet] = index[packet],
         \A packet \in Carried(x) : index'[packet] >= Needs(x),
         \A packet \in Carried(y) : index'[packet] >= Needs(y)
  PROVE  /\ calls' \in Seq(CallSet) /\ Distinct(calls') /\ Nested(calls')
         /\ PacketsOf(calls)' = Carried(x) \cup Carried(y) \cup PacketsOf(Tail(calls))
         /\ Roomy(calls', index')
<1> DEFINE rest == Tail(calls)
           more == <<y>> \o rest
<1>1. /\ rest \in Seq(CallSet) /\ Distinct(rest) /\ Nested(rest) /\ AtMostOne(rest)
      /\ Roomy(rest, index)
  BY FirstCall
<1>2. calls' = <<x>> \o more
  <2> HIDE DEF rest
  <2>1. <<x, y>> \o rest = <<x>> \o (<<y>> \o rest)
    BY <1>1, TwoInFront
  <2>2. QED
    BY <2>1 DEF Continues, rest
<1> HIDE DEF rest
<1>3. Roomy(rest, index')
  BY <1>1, RoomElsewhere DEF rest
<1>4. /\ more \in Seq(CallSet) /\ Distinct(more)
      /\ PacketsOf(more) = Carried(y) \cup PacketsOf(rest)
  BY <1>1, CallMade DEF rest
<1>5. Nested(more) /\ (x.call # "free_entry" => AtMostOne(more)) /\ Roomy(more, index')
  BY <1>1, <1>3, NestedMade DEF rest
<1> HIDE DEF more
<1>6. /\ calls' \in Seq(CallSet) /\ Distinct(calls')
      /\ PacketsOf(calls') = Carried(x) \cup PacketsOf(more)
  <2>1. Carried(x) \cap PacketsOf(more) = {}
    BY <1>4 DEF rest
  <2>2. QED
    BY <1>2, <1>4, <2>1, CallMade
<1>7. Nested(calls') /\ Roomy(calls', index')
  <2>1. x.call \in Outer => PacketsOf(more) = {}
    BY <1>4 DEF rest
  <2>2. QED
    BY <1>2, <1>4, <1>5, <2>1, NestedMade
<1>8. QED
  BY <1>4, <1>6, <1>7 DEF rest

-----------------------------------------------------------------------------
(* What the operations of the driver do to the packets that are held. *)

\* No call counts on less than the shortfall allows.
LEMMA ShortfallNat == Shortfall \in Nat /\ Shortfall =< IpHeader
BY DEF Shortfall, IpHeader

\* No call counts on less room than a short IP header may leave.
LEMMA NeedsLeast == \A call : Needs(call) \in Int /\ Needs(call) >= 0 - Shortfall
BY ShortfallNat DEF Needs, MacHeader, IpHeader

\* Packets that are held or in the transmit ring are packets.
LEMMA InUse == SInv => held \cup Range(tx_packets) \subseteq Packets
BY DEF SInv, IInv, TypeOK, Range

\* A step without the driver holds and sends what was held and sent before.
LEMMA DriverIdle == NoDriver => held' = held /\ tx_packets' = tx_packets
BY DEF NoDriver, vars, software, txRing

\* allocate_network_packet hands out a packet that nobody has.
LEMMA DriverAllocates ==
  ASSUME SInv, Allocate
  PROVE  LET packet == Head(free_network_packets) IN
         /\ packet \in Packets /\ packet \notin held \cup Range(tx_packets)
         /\ held' = held \cup {packet} /\ tx_packets' = tx_packets
<1>1. /\ free_network_packets \in Seq(Packets) /\ free_network_packets # <<>>
      /\ IsInjective(free_network_packets)
  BY DEF Allocate, SInv, IInv, TypeOK, PacketConservation, NothingTwice
<1>2. /\ Head(free_network_packets) \in Packets
      /\ Head(free_network_packets) \in Range(free_network_packets)
  BY <1>1, TailRemoves
<1>3. QED
  BY <1>2 DEF Allocate, txRing, SInv, IInv, PacketConservation, PlacesDisjoint

\* free_network_packet, and gmac_send whatever it does with the packet.
LEMMA DriverTakes ==
  ASSUME SInv, NEW packet, Free(packet) \/ SendDrops(packet) \/ SendLinks(packet)
  PROVE  /\ packet \in held /\ held' = held \ {packet}
         /\ Free(packet) => tx_packets' = tx_packets
         /\ Range(tx_packets') \subseteq Range(tx_packets) \cup {packet}
<1>1. CASE Free(packet) \/ SendDrops(packet)
  BY <1>1 DEF Free, SendDrops, txRing
<1>2. CASE SendLinks(packet)
  <2>1. /\ tx_packets \in [TxSlots -> Packets]
        /\ tx_packets' = [tx_packets EXCEPT ![tx_index] = packet]
    BY <1>2 DEF SendLinks, TxBusy, SInv, IInv, TypeOK
  <2>2. Range(tx_packets') \subseteq Range(tx_packets) \cup {packet}
    BY <2>1 DEF Range
  <2>3. ~Free(packet) \/ tx_packets' = tx_packets
    BY DEF Free, txRing
  <2>4. QED
    BY <1>2, <2>2, <2>3 DEF SendLinks, TxBusy
<1>3. QED
  BY <1>1, <1>2

\* gmac_receive hands out the packet of the slot and parks another one there;
\* nobody has either of them.
LEMMA DriverReceives ==
  ASSUME SInv, ReceiveFrame
  PROVE  LET packet == rx_packets[rx_index]
             fresh  == Head(free_network_packets)
         IN  /\ packet \in Packets /\ packet \notin held \cup Range(tx_packets)
             /\ fresh \in Packets /\ fresh \notin held \cup Range(tx_packets)
             /\ fresh # packet
             /\ held' = held \cup {packet} /\ tx_packets' = tx_packets
<1>1. /\ free_network_packets \in Seq(Packets) /\ free_network_packets # <<>>
      /\ IsInjective(free_network_packets)
      /\ rx_packets \in [RxSlots -> Packets] /\ rx_index \in RxSlots
  BY DEF ReceiveFrame, SInv, IInv, TypeOK, PacketConservation, NothingTwice
<1>2. /\ Head(free_network_packets) \in Packets
      /\ Head(free_network_packets) \in Range(free_network_packets)
  BY <1>1, TailRemoves
<1>3. rx_packets[rx_index] \in Packets /\ rx_packets[rx_index] \in Range(rx_packets)
  BY <1>1 DEF Range
<1>4. held' = held \cup {rx_packets[rx_index]} /\ tx_packets' = tx_packets
  BY DEF ReceiveFrame, Rearmed, txRing
<1>5. QED
  BY <1>2, <1>3, <1>4 DEF SInv, IInv, PacketConservation, PlacesDisjoint

-----------------------------------------------------------------------------
(* The steps that leave the layers alone. *)

\* The first call hands its packet on, or goes on without one.
LEMMA HandsOn ==
  ASSUME SInv, calls # <<>>, Head(calls).call # "free_entry", NEW x \in CallSet, Continues(<<x>>),
         UNCHANGED <<held, tx_packets>>, UNCHANGED tables,
         Carried(x) = Carried(Head(calls)),
         x.call \in Outer => Head(calls).call \in Outer,
         index' \in [Packets -> Int],
         \A packet \in Packets \ Carried(x) : index'[packet] = index[packet],
         \A packet \in Carried(x) : index'[packet] >= Needs(x)
  PROVE  LInv'
<1>1. /\ PacketsOf(calls) = Carried(x) \cup PacketsOf(Tail(calls))
      /\ Carried(x) \cap PacketsOf(Tail(calls)) = {}
      /\ Head(calls).call \in Outer => PacketsOf(Tail(calls)) = {}
  BY FirstCall
<1>2. /\ held' = held /\ tx_packets' = tx_packets
      /\ held \cup Range(tx_packets) \subseteq Packets
      /\ PacketsOf(calls) \subseteq held
  BY InUse DEF SInv, LInv, Ownership
<1>3. /\ calls' \in Seq(CallSet) /\ Distinct(calls') /\ Nested(calls')
      /\ PacketsOf(calls)' = Carried(x) \cup PacketsOf(Tail(calls))
      /\ Roomy(calls', index')
  BY <1>1, <1>2, FirstBecomes
<1>4. RoomLeft'
  <2>1. \A packet \in held \cup Range(tx_packets) :
          packet \notin Carried(x) => index'[packet] = index[packet] /\ index[packet] >= 0 - Shortfall
    BY <1>2 DEF SInv, LInv, RoomLeft
  <2>2. \A packet \in Carried(x) : index'[packet] >= 0 - Shortfall
    <3>1. /\ Needs(x) \in Int /\ Needs(x) >= 0 - Shortfall /\ Shortfall \in Nat
          /\ \A packet \in Carried(x) : index'[packet] \in Int
      BY <1>1, <1>2, NeedsLeast, ShortfallNat
    <3>2. QED
      BY <3>1
  <2>3. QED
    BY <1>2, <2>1, <2>2 DEF RoomLeft
<1>5. QED
  <2> DEFINE none == {}
  <2>1. /\ none \cap held = {} /\ none \subseteq PacketsOf(calls)
        /\ held' = (held \cup none) \ none
        /\ PacketsOf(calls)' = (PacketsOf(calls) \cup none) \ none
    BY <1>1, <1>2, <1>3
  <2>2. \A packet \in held \ PacketsOf(calls) : index'[packet] = index[packet]
    BY <1>1, <1>2
  <2> HIDE DEF none
  <2>3. QED
    BY <1>3, <1>4, <2>1, <2>2, CallsChange

\* A step that moves no packet and makes no call.
LEMMA NothingMoves ==
  ASSUME SInv, UNCHANGED <<held, tx_packets, calls, tables, index>>
  PROVE  LInv'
BY DEF SInv, LInv, LayerTypes, Ownership, Complete, RoomLeft, ArpRoom, QueuePackets, QueueOf, tables

\* A call without a packet returns, or goes on with one or two others.
LEMMA Controls ==
  ASSUME SInv, calls # <<>>, Carried(Head(calls)) = {},
         UNCHANGED <<held, tx_packets, tables, index>>,
         Returns \/ Head(calls).call # "free_entry",
         \/ Returns
         \/ \E x \in CallSet : /\ Continues(<<x>>) /\ Carried(x) = {}
                               /\ x.call \in Outer => Head(calls).call \in Outer
         \/ \E x, y \in CallSet :
              /\ Continues(<<x, y>>) /\ Carried(x) = {} /\ Carried(y) = {}
              /\ x.call \in Outer \/ y.call \in Outer => Head(calls).call \in Outer
  PROVE  LInv'
<1>1. /\ PacketsOf(calls) = PacketsOf(Tail(calls))
      /\ Head(calls).call \in Outer => PacketsOf(Tail(calls)) = {}
  BY FirstCall
<1>2. /\ calls' \in Seq(CallSet) /\ Distinct(calls') /\ Nested(calls')
      /\ PacketsOf(calls)' = PacketsOf(calls) /\ Roomy(calls', index')
  <2>1. CASE Returns
    BY <1>1, <2>1, FirstReturns
  <2>2. ASSUME NEW x \in CallSet, Head(calls).call # "free_entry",
               Continues(<<x>>), Carried(x) = {}, x.call \in Outer => Head(calls).call \in Outer
        PROVE  /\ calls' \in Seq(CallSet) /\ Distinct(calls') /\ Nested(calls')
               /\ PacketsOf(calls)' = PacketsOf(calls) /\ Roomy(calls', index')
    <3>1. /\ Carried(x) \cap PacketsOf(Tail(calls)) = {}
          /\ x.call \in Outer => PacketsOf(Tail(calls)) = {}
          /\ \A packet \in PacketsOf(Tail(calls)) : index'[packet] = index[packet]
          /\ \A packet \in Carried(x) : index'[packet] >= Needs(x)
      BY <1>1, <2>2
    <3>2. /\ calls' \in Seq(CallSet) /\ Distinct(calls') /\ Nested(calls')
          /\ PacketsOf(calls)' = Carried(x) \cup PacketsOf(Tail(calls)) /\ Roomy(calls', index')
      BY <2>2, <3>1, FirstBecomes
    <3>3. QED
      BY <1>1, <2>2, <3>2
  <2>3. ASSUME NEW x \in CallSet, NEW y \in CallSet, Head(calls).call # "free_entry",
               Continues(<<x, y>>), Carried(x) = {}, Carried(y) = {},
               x.call \in Outer \/ y.call \in Outer => Head(calls).call \in Outer
        PROVE  /\ calls' \in Seq(CallSet) /\ Distinct(calls') /\ Nested(calls')
               /\ PacketsOf(calls)' = PacketsOf(calls) /\ Roomy(calls', index')
    <3>1. /\ Carried(x) \cap Carried(y) = {}
          /\ (Carried(x) \cup Carried(y)) \cap PacketsOf(Tail(calls)) = {}
          /\ x.call = "free_entry" \/ Carried(y) = {} \/ PacketsOf(Tail(calls)) = {}
          /\ x.call \in Outer => Carried(y) = {} /\ PacketsOf(Tail(calls)) = {}
          /\ y.call \in Outer => PacketsOf(Tail(calls)) = {}
          /\ \A packet \in PacketsOf(Tail(calls)) : index'[packet] = index[packet]
          /\ \A packet \in Carried(x) : index'[packet] >= Needs(x)
          /\ \A packet \in Carried(y) : index'[packet] >= Needs(y)
      BY <1>1, <2>3
    <3>2. /\ calls' \in Seq(CallSet) /\ Distinct(calls') /\ Nested(calls')
          /\ PacketsOf(calls)' = Carried(x) \cup Carried(y) \cup PacketsOf(Tail(calls))
          /\ Roomy(calls', index')
      BY <2>3, <3>1, FirstBecomesTwo
    <3>3. QED
      BY <1>1, <2>3, <3>2
  <2>4. QED
    BY <2>1, <2>2, <2>3
<1>3. RoomLeft' /\ index' \in [Packets -> Int]
  BY DEF SInv, LInv, RoomLeft, LayerTypes
<1>4. QED
  <2> DEFINE none == {}
  <2>1. /\ none \cap held = {} /\ none \subseteq PacketsOf(calls)
        /\ held' = (held \cup none) \ none
        /\ PacketsOf(calls)' = (PacketsOf(calls) \cup none) \ none
    BY <1>2
  <2> HIDE DEF none
  <2>2. QED
    BY <1>2, <1>3, <2>1, CallsChange

\* A call gives its packet to the driver and returns.
LEMMA GivesBack ==
  ASSUME SInv, calls # <<>>, Returns, UNCHANGED tables, NEW packet,
         Carried(Head(calls)) = {packet},
         Free(packet) \/ SendDrops(packet) \/ SendLinks(packet),
         index' \in [Packets -> Int],
         \A other \in Packets \ {packet} : index'[other] = index[other],
         Free(packet) \/ index'[packet] >= 0 - Shortfall
  PROVE  LInv'
<1>1. /\ PacketsOf(calls) = {packet} \cup PacketsOf(Tail(calls))
      /\ packet \notin PacketsOf(Tail(calls))
  BY FirstCall
<1>2. /\ packet \in held /\ held' = held \ {packet}
      /\ Free(packet) => tx_packets' = tx_packets
      /\ Range(tx_packets') \subseteq Range(tx_packets) \cup {packet}
  BY DriverTakes
<1>3. /\ held \cup Range(tx_packets) \subseteq Packets
      /\ PacketsOf(calls) \subseteq held /\ packet \notin Range(tx_packets)
  BY <1>2, InUse DEF SInv, LInv, Ownership, IInv, PacketConservation, PlacesDisjoint
<1>4. /\ calls' \in Seq(CallSet) /\ Distinct(calls') /\ Nested(calls')
      /\ PacketsOf(calls)' = PacketsOf(calls) \ {packet}
      /\ Roomy(calls', index')
  BY <1>1, <1>3, FirstReturns
<1>5. RoomLeft'
  <2>1. \A other \in held \cup Range(tx_packets) :
          other # packet => index'[other] = index[other] /\ index[other] >= 0 - Shortfall
    BY <1>3 DEF SInv, LInv, RoomLeft
  <2>2. packet \in held' \cup Range(tx_packets') => index'[packet] >= 0 - Shortfall
    BY <1>2, <1>3
  <2>3. QED
    BY <1>2, <2>1, <2>2 DEF RoomLeft
<1>6. QED
  <2> DEFINE N == {}
             E == {packet}
  <2>1. /\ N \cap held = {} /\ E \subseteq PacketsOf(calls)
        /\ held' = (held \cup N) \ E
        /\ PacketsOf(calls)' = (PacketsOf(calls) \cup N) \ E
    BY <1>1, <1>2, <1>4
  <2>2. \A other \in held \ PacketsOf(calls) : index'[other] = index[other]
    BY <1>1, <1>3
  <2> HIDE DEF N, E
  <2>3. QED
    BY <1>4, <1>5, <2>1, <2>2, CallsChange

-----------------------------------------------------------------------------
(* The actions that leave the layers alone. *)

\* The operators for calls make calls.
LEMMA CallKinds ==
  /\ \A name \in Plain : Call(name) \in CallSet
  /\ \A name \in InHand, packet \in Packets : With(name, packet) \in CallSet
  /\ \A packet \in Packets, ip \in Destinations : IpSend(packet, ip) \in CallSet
  /\ \A ip \in Destinations : UdpSend(ip) \in CallSet
  /\ \A name \in Entry, entry \in Entries : OnEntry(name, entry) \in CallSet
  /\ \A packet \in Packets, ip \in Hosts, entry \in Entries : ArpSend(packet, ip, entry) \in CallSet
  /\ \A left \in 0 .. RxCount : Receiving(left) \in CallSet
  /\ \A node \in Nodes : ArpTaskAt(node) \in CallSet
BY DEF CallSet

\* The call that runs, by its name.
LEMMA RunningCall ==
  ASSUME SInv, NEW name, Runs(name)
  PROVE  /\ calls # <<>> /\ Current \in CallSet /\ Current.call = name /\ Head(calls) = Current
         /\ name \in InHand \cup Sends =>
              /\ Current.packet \in Packets /\ Carried(Current) = {Current.packet}
              /\ index[Current.packet] \in Int /\ index[Current.packet] >= Needs(Current)
         /\ name \notin InHand \cup Sends => Carried(Current) = {}
         /\ name \in {"ip_send", "udp_send"} => Current.ip \in Destinations
         /\ name \in Entry => Current.entry \in Entries
         /\ name = "arp_send" => Current.ip \in Hosts /\ Current.entry \in Entries
         /\ name = "network_task" => Current.left \in 0 .. RxCount
         /\ name = "arp_task_at" => Current.node \in Nodes
<1>1. calls # <<>> /\ Head(calls) = Current /\ Current.call = name
  BY DEF Runs, Current
<1>2. /\ Current \in CallSet
      /\ \A packet \in Carried(Current) : index[packet] >= Needs(Current)
  BY <1>1, FirstCall
<1>3. index \in [Packets -> Int]
  BY DEF SInv, LInv, LayerTypes
<1>4. QED
  BY <1>1, <1>2, <1>3, CallShape

\* Moving the index of a packet moves no other.
LEMMA IndexMoved ==
  ASSUME SInv, NEW packet \in Packets, NEW size \in Int, Moved(packet, size)
  PROVE  /\ index' \in [Packets -> Int] /\ index'[packet] = index[packet] + size
         /\ \A other \in Packets \ {packet} : index'[other] = index[other]
<1>1. index \in [Packets -> Int]
  BY DEF SInv, LInv, LayerTypes
<1>2. QED
  BY <1>1 DEF Moved

\* A handler that gives up on a packet frees the one it has.
LEMMA DropsPreserves ==
  ASSUME SInv, NEW name \in InHand, Drops(name)
  PROVE  LInv'
<1>1. /\ Runs(name) /\ Returns /\ Free(Current.packet) /\ UNCHANGED <<tables, index>>
  BY DEF Drops, Driver, layers, tables
<1>2. calls # <<>> /\ Carried(Head(calls)) = {Current.packet}
  BY <1>1, RunningCall
<1>3. index' \in [Packets -> Int]
  BY <1>1 DEF SInv, LInv, LayerTypes
<1>4. QED
  BY <1>1, <1>2, <1>3, GivesBack

\* A handler that passes its packet on leaves the room that the next one counts
\* on, if the header it skips is as long as the one a reply will need.
LEMMA PassesPreserves ==
  ASSUME SInv, NEW name \in InHand, NEW next \in InHand, NEW size \in Int,
         Passes(name, next, size),
         next \in Outer => name \in Outer, name # "free_entry",
         \A packet \in Packets : Needs(With(name, packet)) + size >= Needs(With(next, packet))
  PROVE  LInv'
<1> DEFINE p == Current.packet
           x == With(next, p)
<1>1. /\ Runs(name) /\ Moved(p, size) /\ Continues(<<x>>) /\ NoDriver /\ UNCHANGED tables
  BY DEF Passes, layers, tables
<1>2. /\ calls # <<>> /\ Head(calls) = Current /\ p \in Packets /\ Carried(Current) = {p}
      /\ Current.call = name /\ index[p] \in Int /\ index[p] >= Needs(Current)
  BY <1>1, RunningCall
<1>3. /\ index' \in [Packets -> Int] /\ index'[p] = index[p] + size
      /\ \A other \in Packets \ {p} : index'[other] = index[other]
  BY <1>1, <1>2, IndexMoved
<1>4. x \in CallSet /\ Carried(x) = {p} /\ x.call = next
  BY <1>2, CallKinds, CallFields
<1>5. index'[p] >= Needs(x)
  <2>1. Needs(With(name, p)) = Needs(Current)
    BY <1>2, CallFields DEF Needs
  <2>2. Needs(Current) + size >= Needs(x)
    BY <1>2, <2>1
  <2>3. Needs(Current) \in Int /\ Needs(x) \in Int
    BY NeedsLeast
  <2>4. QED
    BY <1>2, <1>3, <2>2, <2>3
<1> HIDE DEF p, x
<1>6. QED
  BY <1>1, <1>2, <1>3, <1>4, <1>5, DriverIdle, HandsOn

\* handle_mac skips a MAC header, which is what handle_arp and handle_ip count on.
LEMMA HandleMacPreserves == SInv /\ HandleMac => LInv'
<1> SUFFICES ASSUME SInv, HandleMac PROVE LInv'
  OBVIOUS
<1>1. CASE Drops("handle_mac")
  BY <1>1, DropsPreserves DEF InHand
<1>2. ASSUME NEW next \in {"handle_arp", "handle_ip"}, Passes("handle_mac", next, MacHeader)
      PROVE  LInv'
  <2>1. \A packet : /\ Needs(With("handle_mac", packet)) = 0
                    /\ Needs(With(next, packet)) = MacHeader
    BY CallFields DEF Needs
  <2>2. MacHeader \in Int /\ 0 + MacHeader >= MacHeader
    BY DEF MacHeader
  <2>3. "handle_mac" \in InHand \cap Outer /\ next \in InHand /\ "handle_mac" # "free_entry"
    BY DEF InHand, Outer
  <2>4. QED
    BY <1>2, <2>1, <2>2, <2>3, PassesPreserves
<1>3. QED
  BY <1>1, <1>2 DEF HandleMac

\* handle_ip skips what header_length says, which is 20 bytes or more if nobody
\* sends a length below 5.
LEMMA HandleIpPreserves == SInv /\ HandleIp => LInv'
<1> SUFFICES ASSUME SInv, HandleIp PROVE LInv'
  OBVIOUS
<1>1. CASE Drops("handle_ip")
  BY <1>1, DropsPreserves DEF InHand
<1>2. ASSUME NEW length \in HeaderLengths, NEW next \in {"handle_udp", "handle_icmp"},
             Passes("handle_ip", next, 4 * length)
      PROVE  LInv'
  <2>1. \A packet : /\ Needs(With("handle_ip", packet)) = MacHeader
                    /\ Needs(With(next, packet)) = MacHeader + IpHeader - Shortfall
    BY CallFields DEF Needs
  <2>2. 4 * length \in Int /\ MacHeader + 4 * length >= MacHeader + IpHeader - Shortfall
    <3>1. length \in 0 .. 15 /\ (HeaderLengths \subseteq 5 .. 15 => length \in 5 .. 15)
      BY StackAssumption
    <3>2. CASE HeaderLengths \subseteq 5 .. 15
      BY <3>1, <3>2 DEF Shortfall, MacHeader, IpHeader
    <3>3. CASE ~(HeaderLengths \subseteq 5 .. 15)
      BY <3>1, <3>3 DEF Shortfall, MacHeader, IpHeader
    <3>4. QED
      BY <3>2, <3>3
  <2>3. "handle_ip" \in InHand \cap Outer /\ next \in InHand /\ "handle_ip" # "free_entry"
    BY DEF InHand, Outer
  <2>4. QED
    BY <1>2, <2>1, <2>2, <2>3, PassesPreserves
<1>3. QED
  BY <1>1, <1>2 DEF HandleIp

\* A ping that goes back has the room of the headers it came with.
LEMMA HandleIcmpPreserves == SInv /\ HandleIcmp => LInv'
<1> SUFFICES ASSUME SInv, HandleIcmp PROVE LInv'
  OBVIOUS
<1>1. CASE Drops("handle_icmp")
  BY <1>1, DropsPreserves DEF InHand
<1>2. ASSUME NEW ip \in Destinations,
             Runs("handle_icmp"), Continues(<<IpSend(Current.packet, ip)>>),
             NoDriver, UNCHANGED <<tables, index>>
      PROVE  LInv'
  <2> DEFINE p == Current.packet
             x == IpSend(p, ip)
  <2>1. /\ calls # <<>> /\ Head(calls) = Current /\ p \in Packets /\ Carried(Current) = {p}
        /\ Current.call = "handle_icmp" /\ index[p] >= Needs(Current)
    BY <1>2, RunningCall DEF InHand
  <2>2. x \in CallSet /\ Carried(x) = {p} /\ x.call = "ip_send" /\ "ip_send" \notin Outer
    BY <2>1, CallKinds, CallFields DEF Outer
  <2>3. Needs(x) = Needs(Current)
    BY <2>1, <2>2 DEF Needs
  <2>4. index' \in [Packets -> Int]
    BY <1>2 DEF SInv, LInv, LayerTypes
  <2> HIDE DEF p, x
  <2>5. QED
    BY <1>2, <2>1, <2>2, <2>3, <2>4, DriverIdle, HandsOn DEF x, p
<1>3. QED
  BY <1>1, <1>2 DEF HandleIcmp, Destinations, layers, tables

\* ip_send with a known address.
LEMMA IpSendsAtOncePreserves ==
  ASSUME SInv, NEW ip, IpSendsAtOnce(ip)
  PROVE  LInv'
<1> DEFINE p == Current.packet
           x == With("mac_send", p)
<1>1. /\ Runs("ip_send") /\ Moved(p, -IpHeader) /\ Continues(<<x>>) /\ NoDriver
      /\ UNCHANGED tables
  BY DEF IpSendsAtOnce, IpSends, layers, tables
<1>2. /\ calls # <<>> /\ Head(calls) = Current /\ p \in Packets /\ Carried(Current) = {p}
      /\ Current.call = "ip_send" /\ index[p] \in Int /\ index[p] >= Needs(Current)
  BY <1>1, RunningCall DEF Sends
<1>3. /\ index' \in [Packets -> Int] /\ index'[p] = index[p] - IpHeader
      /\ \A other \in Packets \ {p} : index'[other] = index[other]
  BY <1>1, <1>2, IndexMoved DEF IpHeader
<1>4. x \in CallSet /\ Carried(x) = {p} /\ x.call = "mac_send" /\ "mac_send" \notin Outer
  BY <1>2, CallKinds, CallFields DEF InHand, Outer
<1>5. index'[p] >= Needs(x)
  <2>1. /\ Needs(Current) = MacHeader + IpHeader - Shortfall
        /\ Needs(x) = MacHeader - Shortfall
    BY <1>2, <1>4 DEF Needs
  <2>2. QED
    BY <1>2, <1>3, <2>1, ShortfallNat DEF MacHeader, IpHeader
<1> HIDE DEF p, x
<1>6. QED
  BY <1>1, <1>2, <1>3, <1>4, <1>5, DriverIdle, HandsOn

\* mac_send gives the packet to the ring or back to the pool, or keeps it for ever.
LEMMA MacSendsPreserves == SInv /\ MacSends => LInv'
<1> SUFFICES ASSUME SInv, MacSends PROVE LInv'
  OBVIOUS
<1> DEFINE p == Current.packet
           x == With("gmac_send", p)
<1>1. /\ Runs("mac_send") /\ Moved(p, -MacHeader) /\ UNCHANGED tables
      /\ \/ (SendDrops(p) \/ SendLinks(p)) /\ Returns
         \/ SendHangs(p) /\ Continues(<<x>>)
  BY DEF MacSends, layers, tables
<1>2. /\ calls # <<>> /\ Head(calls) = Current /\ p \in Packets /\ Carried(Current) = {p}
      /\ Current.call = "mac_send" /\ index[p] \in Int /\ index[p] >= Needs(Current)
  BY <1>1, RunningCall DEF InHand
<1>3. /\ index' \in [Packets -> Int] /\ index'[p] = index[p] - MacHeader
      /\ \A other \in Packets \ {p} : index'[other] = index[other]
  BY <1>1, <1>2, IndexMoved DEF MacHeader
<1>4. index'[p] >= 0 - Shortfall
  <2>1. Needs(Current) = MacHeader - Shortfall
    BY <1>2 DEF Needs
  <2>2. QED
    BY <1>2, <1>3, <2>1, ShortfallNat DEF MacHeader
<1>5. /\ x \in CallSet /\ Carried(x) = {p} /\ x.call \notin Outer
      /\ Needs(x) = 0 - Shortfall
  BY <1>2, CallKinds, CallFields DEF InHand, Outer, Needs
<1>6. SendHangs(p) => UNCHANGED <<held, tx_packets>>
  BY DEF SendHangs, Halt, software, txRing
<1> HIDE DEF p, x
<1>7. CASE (SendDrops(p) \/ SendLinks(p)) /\ Returns
  BY <1>1, <1>2, <1>3, <1>4, <1>7, GivesBack
<1>8. CASE SendHangs(p) /\ Continues(<<x>>)
  BY <1>1, <1>2, <1>3, <1>4, <1>5, <1>6, <1>8, HandsOn
<1>9. QED
  BY <1>1, <1>7, <1>8

\* The pool is empty: nothing moves any more.
LEMMA HangsPreserves ==
  ASSUME SInv, AllocateHangs \/ ReceiveHangs, UNCHANGED <<calls, layers, index>>
  PROVE  LInv'
<1>1. UNCHANGED <<held, tx_packets, tables>>
  BY DEF AllocateHangs, ReceiveHangs, Halt, software, txRing, layers, tables
<1>2. QED
  BY <1>1, NothingMoves

\* A new packet comes into the hands of the call x that the running one makes.
LEMMA GetsPacket ==
  ASSUME SInv, NEW name, Runs(name), name # "free_entry", Carried(Current) = {}, Allocate, UNCHANGED tables,
         NEW packet, packet = Head(free_network_packets),
         NEW room \in Nat, index' = [index EXCEPT ![packet] = room],
         NEW x \in CallSet, Carried(x) = {packet}, x.call \notin Outer, room >= Needs(x),
         Continues(<<x>>)
  PROVE  LInv'
<1>1. /\ packet \in Packets /\ packet \notin held \cup Range(tx_packets)
      /\ held' = held \cup {packet} /\ tx_packets' = tx_packets
  BY DriverAllocates
<1>2. calls # <<>> /\ Head(calls) = Current /\ Head(calls).call # "free_entry"
  BY DEF Runs, Current
<1>3. PacketsOf(calls) = PacketsOf(Tail(calls))
  BY <1>2, FirstCall
<1>4. /\ PacketsOf(calls) \subseteq held /\ held \cup Range(tx_packets) \subseteq Packets
      /\ index \in [Packets -> Int]
  BY InUse DEF SInv, LInv, Ownership, LayerTypes
<1>5. /\ index' \in [Packets -> Int] /\ index'[packet] = room
      /\ \A other \in Packets \ {packet} : index'[other] = index[other]
  BY <1>1, <1>4
<1>6. /\ calls' \in Seq(CallSet) /\ Distinct(calls') /\ Nested(calls')
      /\ PacketsOf(calls)' = {packet} \cup PacketsOf(calls) /\ Roomy(calls', index')
  <2>1. /\ Carried(x) \cap PacketsOf(Tail(calls)) = {}
        /\ \A other \in PacketsOf(Tail(calls)) : index'[other] = index[other]
        /\ \A other \in Carried(x) : index'[other] >= Needs(x)
    BY <1>1, <1>3, <1>4, <1>5
  <2>2. /\ calls' \in Seq(CallSet) /\ Distinct(calls') /\ Nested(calls')
        /\ PacketsOf(calls)' = Carried(x) \cup PacketsOf(Tail(calls)) /\ Roomy(calls', index')
    BY <1>2, <2>1, FirstBecomes
  <2>3. QED
    BY <1>3, <2>2
<1>7. RoomLeft'
  <2>1. \A other \in held \cup Range(tx_packets) : index'[other] >= 0 - Shortfall
    BY <1>1, <1>4, <1>5 DEF SInv, LInv, RoomLeft
  <2>2. index'[packet] >= 0 - Shortfall
    BY <1>5, ShortfallNat
  <2>3. QED
    BY <1>1, <2>1, <2>2 DEF RoomLeft
<1>8. QED
  <2> DEFINE N == {packet}
             E == {}
  <2>1. /\ N \cap held = {} /\ E \subseteq PacketsOf(calls)
        /\ held' = (held \cup N) \ E
        /\ PacketsOf(calls)' = (PacketsOf(calls) \cup N) \ E
    BY <1>1, <1>6
  <2>2. \A other \in held \ PacketsOf(calls) : index'[other] = index[other]
    BY <1>1, <1>4, <1>5
  <2> HIDE DEF N, E
  <2>3. QED
    BY <1>5, <1>6, <1>7, <2>1, <2>2, CallsChange

\* udp_send on a new packet: three headers fit in front of the data.
LEMMA UdpSendsPreserves == SInv /\ UdpSends => LInv'
<1> SUFFICES ASSUME SInv, UdpSends PROVE LInv'
  OBVIOUS
<1>0. CASE free_network_packets = <<>>
  BY <1>0, HangsPreserves DEF UdpSends, Allocates
<1> SUFFICES ASSUME free_network_packets # <<>> PROVE LInv'
  BY <1>0
<1>1. PICK packet \in Packets :
        /\ Runs("udp_send") /\ packet = Head(free_network_packets) /\ Allocate
        /\ UNCHANGED tables /\ index' = [index EXCEPT ![packet] = HeaderSize - UdpHeader]
        /\ Continues(<<IpSend(packet, Current.ip)>>)
  BY DEF UdpSends, Allocates, layers, tables
<1> DEFINE x    == IpSend(packet, Current.ip)
           room == HeaderSize - UdpHeader
<1>2. Carried(Current) = {} /\ Current.ip \in Destinations
  BY <1>1, RunningCall DEF InHand, Sends
<1>3. x \in CallSet /\ Carried(x) = {packet} /\ x.call = "ip_send" /\ x.call \notin Outer
  BY <1>2, CallKinds, CallFields DEF Outer
<1>4. room \in Nat /\ room >= MacHeader + IpHeader
  BY StackAssumption DEF MacHeader, IpHeader, UdpHeader
<1>5. room >= Needs(x)
  <2>1. Needs(x) = MacHeader + IpHeader - Shortfall
    BY <1>3 DEF Needs
  <2>2. QED
    BY <1>4, <2>1, ShortfallNat DEF MacHeader, IpHeader
<1> HIDE DEF x, room
<1>6. QED
  BY <1>1, <1>2, <1>3, <1>4, <1>5, GetsPacket DEF x, room

\* send_arp_packet on a new packet.
LEMMA SendsArpPacketPreserves == SInv /\ SendsArpPacket => LInv'
<1> SUFFICES ASSUME SInv, SendsArpPacket PROVE LInv'
  OBVIOUS
<1>0. CASE free_network_packets = <<>>
  BY <1>0, HangsPreserves DEF SendsArpPacket, Allocates
<1> SUFFICES ASSUME free_network_packets # <<>> PROVE LInv'
  BY <1>0
<1>1. PICK packet \in Packets :
        /\ Runs("send_arp_packet") /\ packet = Head(free_network_packets) /\ Allocate
        /\ UNCHANGED tables /\ index' = [index EXCEPT ![packet] = HeaderSize]
        /\ Continues(<<With("mac_send", packet)>>)
  BY DEF SendsArpPacket, Allocates, layers, tables
<1> DEFINE x == With("mac_send", packet)
<1>2. Carried(Current) = {}
  BY <1>1, RunningCall DEF InHand, Sends
<1>3. x \in CallSet /\ Carried(x) = {packet} /\ x.call = "mac_send" /\ x.call \notin Outer
  BY CallKinds, CallFields DEF InHand, Outer
<1>4. HeaderSize \in Nat /\ HeaderSize >= MacHeader
  BY StackAssumption DEF MacHeader, IpHeader, UdpHeader
<1>5. HeaderSize >= Needs(x)
  <2>1. Needs(x) = MacHeader - Shortfall
    BY <1>3 DEF Needs
  <2>2. QED
    BY <1>4, <2>1, ShortfallNat DEF MacHeader
<1> HIDE DEF x
<1>6. QED
  BY <1>1, <1>2, <1>3, <1>4, <1>5, GetsPacket DEF x

\* network_task with a frame: its packet is new to the software.
LEMMA NetworkTaskReceivesPreserves == SInv /\ NetworkTaskReceives => LInv'
<1> SUFFICES ASSUME SInv, NetworkTaskReceives PROVE LInv'
  OBVIOUS
<1> DEFINE p     == rx_packets[rx_index]
           fresh == Head(free_network_packets)
           x     == With("handle_mac", p)
           y     == Receiving(Current.left - 1)
<1>0. CASE free_network_packets = <<>>
  BY <1>0, HangsPreserves DEF NetworkTaskReceives
<1> SUFFICES ASSUME free_network_packets # <<>> PROVE LInv'
  BY <1>0
<1>1. /\ Runs("network_task") /\ Current.left > 0 /\ ReceiveFrame
      /\ index' = [index EXCEPT ![p] = 0, ![fresh] = HeaderSize]
      /\ Continues(<<x, y>>) /\ UNCHANGED tables
  BY DEF NetworkTaskReceives, layers, tables
<1>2. /\ calls # <<>> /\ Head(calls) = Current /\ Carried(Current) = {}
      /\ Current.left \in 0 .. RxCount /\ Current.call = "network_task"
  BY <1>1, RunningCall DEF InHand, Sends
<1>3. /\ p \in Packets /\ p \notin held \cup Range(tx_packets)
      /\ fresh \in Packets /\ fresh \notin held \cup Range(tx_packets) /\ fresh # p
      /\ held' = held \cup {p} /\ tx_packets' = tx_packets
  BY <1>1, DriverReceives
<1>4. PacketsOf(calls) = {} /\ PacketsOf(Tail(calls)) = {}
  BY <1>2, FirstCall DEF Outer
<1>5. held \cup Range(tx_packets) \subseteq Packets /\ index \in [Packets -> Int]
  BY InUse DEF SInv, LInv, LayerTypes
<1>6. x \in CallSet /\ Carried(x) = {p} /\ Needs(x) = 0
  BY <1>3, CallKinds, CallFields DEF InHand, Needs
<1>7. y \in CallSet /\ Carried(y) = {}
  <2>1. Current.left - 1 \in 0 .. RxCount
    BY <1>1, <1>2, RingAssumption
  <2>2. QED
    BY <2>1, CallKinds, CallFields
<1> HIDE DEF p, fresh, x, y
<1>8. /\ index' \in [Packets -> Int] /\ index'[p] = 0
      /\ \A other \in Packets \ {p, fresh} : index'[other] = index[other]
  <2>1. HeaderSize \in Int
    BY StackAssumption
  <2>2. QED
    BY <1>1, <1>3, <1>5, <2>1
<1>9. /\ calls' \in Seq(CallSet) /\ Distinct(calls') /\ Nested(calls')
      /\ PacketsOf(calls)' = {p} /\ Roomy(calls', index')
  <2>1. /\ Carried(x) \cap Carried(y) = {}
        /\ \A packet \in Carried(x) : index'[packet] >= Needs(x)
        /\ \A packet \in Carried(y) : index'[packet] >= Needs(y)
    BY <1>6, <1>7, <1>8
  <2>2. /\ calls' \in Seq(CallSet) /\ Distinct(calls') /\ Nested(calls')
        /\ PacketsOf(calls)' = Carried(x) \cup Carried(y) \cup PacketsOf(Tail(calls))
        /\ Roomy(calls', index')
    BY <1>1, <1>2, <1>4, <1>6, <1>7, <2>1, FirstBecomesTwo
  <2>3. QED
    BY <1>4, <1>6, <1>7, <2>2
<1>10. RoomLeft'
  <2>1. \A other \in held \cup Range(tx_packets) : index'[other] >= 0 - Shortfall
    BY <1>3, <1>5, <1>8 DEF SInv, LInv, RoomLeft
  <2>2. QED
    BY <1>3, <1>8, <2>1, ShortfallNat DEF RoomLeft
<1>11. QED
  <2> DEFINE N == {p}
             E == {}
  <2>1. /\ N \cap held = {} /\ E \subseteq PacketsOf(calls)
        /\ held' = (held \cup N) \ E
        /\ PacketsOf(calls)' = (PacketsOf(calls) \cup N) \ E
    BY <1>3, <1>4, <1>9
  <2>2. \A other \in held \ PacketsOf(calls) : index'[other] = index[other]
    BY <1>3, <1>5, <1>8
  <2> HIDE DEF N, E
  <2>3. QED
    BY <1>1, <1>8, <1>9, <1>10, <2>1, <2>2, CallsChange

\* network_task without one.
LEMMA NetworkTaskBreaksPreserves == SInv /\ NetworkTaskBreaks => LInv'
<1> SUFFICES ASSUME SInv, NetworkTaskBreaks PROVE LInv'
  OBVIOUS
<1>1. Runs("network_task") /\ Returns /\ UNCHANGED <<held, tx_packets, tables, index>>
  BY DriverIdle DEF NetworkTaskBreaks, ReceiveDropsFragment, software, txRing, layers, tables
<1>2. calls # <<>> /\ Carried(Head(calls)) = {}
  BY <1>1, RunningCall DEF InHand, Sends
<1>3. QED
  BY <1>1, <1>2, Controls

\* arp_task goes from entry to entry.
LEMMA ArpTaskStartsPreserves == SInv /\ ArpTaskStarts => LInv'
<1> SUFFICES ASSUME SInv, ArpTaskStarts PROVE LInv'
  OBVIOUS
<1> DEFINE x == ArpTaskAt(ListFirst(links, USED))
<1>1. Runs("arp_task") /\ Continues(<<x>>) /\ UNCHANGED <<held, tx_packets, tables, index>>
  BY DriverIdle DEF ArpTaskStarts, layers, tables
<1>2. /\ calls # <<>> /\ Carried(Head(calls)) = {} /\ Head(calls).call = "arp_task"
      /\ "arp_task" \in Outer /\ "arp_task" # "free_entry"
  BY <1>1, RunningCall DEF InHand, Sends, Outer
<1>3. ListFirst(links, USED) \in Nodes
  BY HeadFacts DEF SInv, QInv, Heap, ListFirst
<1>4. x \in CallSet /\ Carried(x) = {}
  BY <1>3, CallKinds, CallFields
<1> HIDE DEF x
<1>5. QED
  BY <1>1, <1>2, <1>4, Controls

\* arp_task at an entry: it may call free_entry or ask again, with no packet in hand.
LEMMA ArpTaskVisitsPreserves == SInv /\ ArpTaskVisits => LInv'
<1> SUFFICES ASSUME SInv, ArpTaskVisits PROVE LInv'
  OBVIOUS
<1>1. Runs("arp_task_at") /\ UNCHANGED <<held, tx_packets, tables, index>>
  BY DriverIdle DEF ArpTaskVisits, layers, tables
<1>2. /\ calls # <<>> /\ Carried(Head(calls)) = {} /\ Current.node \in Nodes
      /\ Head(calls).call \in Outer /\ Head(calls).call # "free_entry"
  BY <1>1, RunningCall DEF InHand, Sends, Outer
<1>3. CASE Returns
  BY <1>1, <1>2, <1>3, Controls
<1> DEFINE y == ArpTaskAt(NextNode(Current.node))
<1>4. y \in CallSet /\ Carried(y) = {}
  <2>1. NextNode(Current.node) \in Nodes
    BY <1>2 DEF SInv, QInv, Heap, NextNode
  <2>2. QED
    BY <2>1, CallKinds, CallFields
<1>5. /\ \A entry \in Entries : /\ OnEntry("free_entry", entry) \in CallSet
                               /\ Carried(OnEntry("free_entry", entry)) = {}
      /\ Call("send_arp_packet") \in CallSet /\ Carried(Call("send_arp_packet")) = {}
  BY CallKinds, CallFields DEF Entry, Plain
<1>6. \/ Returns \/ Continues(<<y>>)
      \/ Current.node \in Entries /\ Continues(<<OnEntry("free_entry", Current.node), y>>)
      \/ Continues(<<Call("send_arp_packet"), y>>)
  BY DEF ArpTaskVisits
<1> HIDE DEF y
<1>7. CASE Continues(<<y>>)
  BY <1>1, <1>2, <1>4, <1>7, Controls
<1>8. ASSUME NEW x \in CallSet, Carried(x) = {}, Continues(<<x, y>>)
      PROVE  LInv'
  BY <1>1, <1>2, <1>4, <1>8, Controls
<1>9. QED
  BY <1>3, <1>5, <1>6, <1>7, <1>8

\* dhcp_task decides whether to read and whether to send.
LEMMA DhcpTaskPreserves == SInv /\ DhcpTask => LInv'
<1> SUFFICES ASSUME SInv, DhcpTask PROVE LInv'
  OBVIOUS
<1>1. Runs("dhcp_task") /\ UNCHANGED <<held, tx_packets, tables, index>>
  BY DriverIdle DEF DhcpTask, layers, tables
<1>2. /\ calls # <<>> /\ Carried(Head(calls)) = {} /\ Head(calls).call \in Outer
      /\ Head(calls).call # "free_entry"
  BY <1>1, RunningCall DEF InHand, Sends, Outer
<1>3. /\ Call("dhcp_read") \in CallSet /\ Carried(Call("dhcp_read")) = {}
      /\ UdpSend(Everybody) \in CallSet /\ Carried(UdpSend(Everybody)) = {}
  BY CallKinds, CallFields DEF Plain, Destinations
<1>4. QED
  BY <1>1, <1>2, <1>3, Controls DEF DhcpTask

\* A read from an empty queue.
LEMMA ReadsNothingPreserves ==
  ASSUME SInv, NEW name \in Plain, NEW port, ReadsNothing(name, port)
  PROVE  LInv'
<1>1. Runs(name) /\ Returns /\ UNCHANGED <<held, tx_packets, tables, index>>
  BY DriverIdle DEF ReadsNothing, Driver, layers, tables
<1>2. calls # <<>> /\ Carried(Head(calls)) = {}
  BY <1>1, RunningCall DEF InHand, Sends, Plain
<1>3. QED
  BY <1>1, <1>2, Controls

\* Calls without packets.
LEMMA NothingInHand ==
  ASSUME NEW s, \A k \in DOMAIN s : Carried(s[k]) = {}, NEW room
  PROVE  PacketsOf(s) = {} /\ Distinct(s) /\ Nested(s) /\ Roomy(s, room)
BY DEF PacketsOf, Distinct, Nested, Roomy

\* The main loop makes its calls with no packet in hand.
LEMMA ApplicationPreserves == SInv /\ Application => LInv'
<1> SUFFICES ASSUME SInv, Application PROVE LInv'
  OBVIOUS
<1>1. calls = <<>> /\ UNCHANGED <<held, tx_packets, tables, index>>
  BY DriverIdle DEF Application, layers, tables
<1>2. calls' \in Seq(CallSet) /\ \A k \in DOMAIN calls' : Carried(calls'[k]) = {}
  <2>1. /\ Receiving(RxCount) \in CallSet /\ Carried(Receiving(RxCount)) = {}
        /\ Call("arp_task") \in CallSet /\ Carried(Call("arp_task")) = {}
        /\ Call("dhcp_task") \in CallSet /\ Carried(Call("dhcp_task")) = {}
        /\ Call("tftp_read") \in CallSet /\ Carried(Call("tftp_read")) = {}
    <3>1. RxCount \in 0 .. RxCount
      BY RingAssumption
    <3>2. QED
      BY <3>1, CallKinds, CallFields DEF Plain
  <2>2. \A ip \in Destinations : UdpSend(ip) \in CallSet /\ Carried(UdpSend(ip)) = {}
    BY CallKinds, CallFields
  <2>3. ASSUME NEW x \in CallSet, NEW y \in CallSet, NEW z \in CallSet,
               Carried(x) = {}, Carried(y) = {}, Carried(z) = {},
               calls' = <<x, y, z>> \/ calls' = <<x, y>> \/ calls' = <<x>>
        PROVE  calls' \in Seq(CallSet) /\ \A k \in DOMAIN calls' : Carried(calls'[k]) = {}
    <3>1. CASE calls' = <<x, y, z>>
      BY <2>3, <3>1
    <3>2. CASE calls' = <<x, y>>
      BY <2>3, <3>2
    <3>3. CASE calls' = <<x>>
      BY <2>3, <3>3
    <3>4. QED
      BY <2>3, <3>1, <3>2, <3>3
  <2>4. Hosts \subseteq Destinations /\ Hosts \cup {Everybody} = Destinations
    BY DEF Destinations
  <2>5. CASE calls' = <<Receiving(RxCount), Call("arp_task"), Call("dhcp_task")>>
    BY <2>1, <2>3, <2>5
  <2>6. CASE calls' = <<Call("tftp_read")>>
    BY <2>1, <2>3, <2>6
  <2>7. CASE \E ip \in Hosts : calls' = <<UdpSend(ip), Call("tftp_read")>>
    BY <2>1, <2>2, <2>3, <2>4, <2>7
  <2>8. CASE \E ip \in Hosts \cup {Everybody} : calls' = <<UdpSend(ip)>>
    BY <2>1, <2>2, <2>3, <2>4, <2>8
  <2>9. QED
    BY <2>5, <2>6, <2>7, <2>8 DEF Application
<1>3. PacketsOf(calls') = {} /\ Distinct(calls') /\ Nested(calls') /\ Roomy(calls', index')
  BY <1>2, NothingInHand
<1>4. PacketsOf(calls) = {}
  <2>1. DOMAIN calls = {}
    BY <1>1
  <2>2. QED
    BY <2>1 DEF PacketsOf
<1>5. RoomLeft' /\ index' \in [Packets -> Int]
  BY <1>1 DEF SInv, LInv, RoomLeft, LayerTypes
<1>6. QED
  <2> DEFINE none == {}
  <2>1. /\ none \cap held = {} /\ none \subseteq PacketsOf(calls)
        /\ held' = (held \cup none) \ none
        /\ PacketsOf(calls)' = (PacketsOf(calls) \cup none) \ none
    BY <1>1, <1>3, <1>4
  <2> HIDE DEF none
  <2>2. QED
    BY <1>1, <1>2, <1>3, <1>5, <2>1, CallsChange

\* The engine changes descriptors, and nothing of the layers.
LEMMA HardwarePreserves == SInv /\ Hardware => LInv'
<1> SUFFICES ASSUME SInv, Hardware PROVE LInv'
  OBVIOUS
<1>1. UNCHANGED <<held, tx_packets>>
  BY DEF Hardware, DmaTransmit, DmaTransmitFails, DmaReceive, DmaFill, software, txRing
<1>2. UNCHANGED <<calls, tables, index>>
  BY DEF Hardware, layers, tables
<1>3. QED
  BY <1>1, <1>2, NothingMoves

-----------------------------------------------------------------------------
(* The actions of the ARP layer. *)

\* What the invariant says of one ARP entry.
LEMMA EntryFields ==
  ASSUME SInv, NEW h \in Entries
  PROVE  /\ arp_entries \in [Entries -> ArpEntry] /\ arp_entries[h] \in ArpEntry
         /\ arp_entries[h].packet_queue \in Seq(Packets) /\ arp_entries[h].packet_count \in Int
         /\ CountHolds(arp_entries[h])
         /\ IsInjective(arp_entries[h].packet_queue)
         /\ Range(arp_entries[h].packet_queue) \subseteq held
         /\ Range(arp_entries[h].packet_queue) \cap PacketsOf(calls) = {}
         /\ \A packet \in Range(arp_entries[h].packet_queue) : index[packet] >= MacHeader - Shortfall
<1>1. arp_entries \in [Entries -> ArpEntry] /\ CountHolds(arp_entries[h])
  BY DEF SInv, LInv, LayerTypes, QInv
<1>2. arp_entries[h] \in ArpEntry
  BY <1>1
<1>3. arp_entries[h].packet_queue \in Seq(Packets) /\ arp_entries[h].packet_count \in Int
  BY <1>2 DEF ArpEntry
<1>4. /\ IsInjective(arp_entries[h].packet_queue) /\ Range(arp_entries[h].packet_queue) \subseteq held
      /\ Range(arp_entries[h].packet_queue) \cap PacketsOf(calls) = {}
  BY QueueNames DEF SInv, LInv, Ownership, QueuePackets
<1>5. \A packet \in Range(arp_entries[h].packet_queue) : index[packet] >= MacHeader - Shortfall
  BY DEF SInv, LInv, ArpRoom
<1>6. QED
  BY <1>1, <1>2, <1>3, <1>4, <1>5

\* The entries the handlers make out of one they have.
Mapping(entry)       == [entry EXCEPT !.contain_valid_mapping = TRUE]
WithoutSent(entry)   == [entry EXCEPT !.packet_queue = Tail(@)]

\* An entry whose mapping has come.
LEMMA MappedEntry ==
  ASSUME NEW entry \in ArpEntry
  PROVE  LET later == Mapping(entry) IN
         /\ later \in ArpEntry /\ CountHolds(later)
         /\ later.ip = entry.ip /\ later.contain_valid_mapping
         /\ later.packet_queue = entry.packet_queue
BY DEF ArpEntry, Mapping, CountHolds

\* An entry without the first packet of its queue.
LEMMA SentEntry ==
  ASSUME NEW entry \in ArpEntry, entry.packet_queue # <<>>
  PROVE  LET later == WithoutSent(entry) IN
         /\ later \in ArpEntry
         /\ later.ip = entry.ip /\ later.contain_valid_mapping = entry.contain_valid_mapping
         /\ later.packet_queue = Tail(entry.packet_queue)
<1> DEFINE t == Tail(entry.packet_queue)
<1>1. t \in Seq(Packets) /\ WithoutSent(entry) = [entry EXCEPT !.packet_queue = t]
  BY DEF ArpEntry, WithoutSent
<1> HIDE DEF t
<1>2. QED
  BY <1>1 DEF ArpEntry, t

\* free_entry takes the first packet of the queue: the entry stays one, and its
\* count still holds.
LEMMA FreedEntry ==
  ASSUME NEW entry \in ArpEntry, entry.packet_queue # <<>>
  PROVE  LET later == Dequeued(entry) IN
         /\ later \in ArpEntry /\ (CountHolds(entry) => CountHolds(later))
         /\ later.ip = entry.ip /\ later.contain_valid_mapping = entry.contain_valid_mapping
         /\ later.packet_queue = Tail(entry.packet_queue)
         /\ later.packet_count = entry.packet_count - 1
<1> DEFINE t     == Tail(entry.packet_queue)
           count == entry.packet_count - 1
           later == Dequeued(entry)
<1>1. entry.packet_queue \in Seq(Packets) /\ entry.packet_count \in Int
  BY DEF ArpEntry
<1>2. /\ t \in Seq(Packets) /\ Len(t) = Len(entry.packet_queue) - 1
      /\ Len(entry.packet_queue) \in Nat /\ count \in Int
      /\ later = [entry EXCEPT !.packet_queue = t, !.packet_count = count]
  BY <1>1 DEF Dequeued
<1> HIDE DEF t, count, later
<1>3. /\ later \in ArpEntry
      /\ later.ip = entry.ip /\ later.contain_valid_mapping = entry.contain_valid_mapping
      /\ later.packet_queue = t /\ later.packet_count = count
  BY <1>2 DEF ArpEntry
<1>4. entry.packet_count =< Len(entry.packet_queue) => count =< Len(t)
  BY <1>1, <1>2 DEF count
<1>5. CountHolds(entry) => CountHolds(later)
  BY <1>3, <1>4 DEF CountHolds
<1>6. QED
  BY <1>3, <1>5 DEF later, t, count

\* What a full queue loses when one more packet waits on it.
Loses(entry) == IF Full(entry) THEN {Head(entry.packet_queue)} ELSE {}

\* An entry on which one more packet waits.
LEMMA QueuedEntry ==
  ASSUME NEW entry \in ArpEntry, CountHolds(entry), ~entry.contain_valid_mapping,
         IsInjective(entry.packet_queue),
         NEW packet \in Packets, packet \notin Range(entry.packet_queue)
  PROVE  LET later == Queued(entry, packet) IN
         /\ later \in ArpEntry /\ CountHolds(later)
         /\ later.ip = entry.ip /\ later.contain_valid_mapping = entry.contain_valid_mapping
         /\ IsInjective(later.packet_queue)
         /\ Loses(entry) \subseteq Range(entry.packet_queue)
         /\ Range(later.packet_queue) = (Range(entry.packet_queue) \ Loses(entry)) \cup {packet}
         /\ entry.packet_count = Len(entry.packet_queue) /\ entry.packet_count =< MaxQueueSize =>
              later.packet_count = Len(later.packet_queue) /\ later.packet_count =< MaxQueueSize
<1> DEFINE q     == entry.packet_queue
           rest  == IF Full(entry) THEN Tail(q) ELSE q
           more  == Append(rest, packet)
           count == IF Full(entry) THEN entry.packet_count ELSE entry.packet_count + 1
           later == Queued(entry, packet)
<1>1. /\ q \in Seq(Packets) /\ Len(q) \in Nat /\ entry.packet_count \in Int
      /\ entry.packet_count =< Len(q)
      /\ MaxQueueSize \in Nat \ {0}
  BY StackAssumption DEF ArpEntry, CountHolds
<1>2. later = [entry EXCEPT !.packet_queue = more, !.packet_count = count]
  <2>1. CASE Full(entry)
    <3>1. later = [entry EXCEPT !.packet_queue = more]
      BY <2>1 DEF Queued
    <3>2. QED
      BY <2>1, <3>1 DEF ArpEntry
  <2>2. CASE ~Full(entry)
    BY <2>2 DEF Queued
  <2>3. QED
    BY <2>1, <2>2
<1>3. Full(entry) => q # <<>> /\ entry.packet_count = MaxQueueSize
  BY <1>1 DEF Full
<1>4. /\ rest \in Seq(Packets) /\ IsInjective(rest) /\ packet \notin Range(rest)
      /\ Loses(entry) \subseteq Range(q) /\ Range(rest) = Range(q) \ Loses(entry)
      /\ Len(rest) = IF Full(entry) THEN Len(q) - 1 ELSE Len(q)
  <2> HIDE DEF q
  <2>1. CASE Full(entry)
    <3>1. /\ q # <<>> /\ Head(q) \in Range(q) /\ Tail(q) \in Seq(Packets)
          /\ IsInjective(Tail(q)) /\ Range(Tail(q)) = Range(q) \ {Head(q)}
      BY <1>1, <1>3, <2>1, TailRemoves DEF q
    <3>2. Len(Tail(q)) = Len(q) - 1
      BY <1>1, <3>1
    <3>3. QED
      BY <2>1, <3>1, <3>2 DEF Loses, q
  <2>2. CASE ~Full(entry)
    BY <1>1, <2>2 DEF Loses, q
  <2>3. QED
    BY <2>1, <2>2
<1> HIDE DEF rest
<1>5. /\ more \in Seq(Packets) /\ IsInjective(more) /\ Range(more) = Range(rest) \cup {packet}
      /\ Len(more) = Len(rest) + 1
  BY <1>4, AppendAdds
<1>6. count \in Int /\ count =< Len(more)
  BY <1>1, <1>4, <1>5
<1>7. entry.packet_count = Len(q) /\ entry.packet_count =< MaxQueueSize =>
        count = Len(more) /\ count =< MaxQueueSize
  BY <1>1, <1>4, <1>5 DEF Full
<1> HIDE DEF more, count, later
<1>8. /\ later \in ArpEntry
      /\ later.ip = entry.ip /\ later.contain_valid_mapping = entry.contain_valid_mapping
      /\ later.packet_queue = more /\ later.packet_count = count
  BY <1>2, <1>5, <1>6 DEF ArpEntry
<1>9. QED
  BY <1>4, <1>5, <1>6, <1>7, <1>8 DEF later, CountHolds

\* An entry that arp_send has set up.
LEMMA SetUpEntry ==
  ASSUME NEW entry \in ArpEntry, IsInjective(entry.packet_queue), NEW ip \in Hosts,
         NEW packet \in Packets, packet \notin Range(entry.packet_queue)
  PROVE  LET later == SetUp(entry, ip, packet) IN
         /\ later \in ArpEntry /\ CountHolds(later)
         /\ later.ip = ip /\ ~later.contain_valid_mapping /\ later.packet_count = 1
         /\ IsInjective(later.packet_queue)
         /\ Range(later.packet_queue) = Range(entry.packet_queue) \cup {packet}
         /\ Len(later.packet_queue) = Len(entry.packet_queue) + 1
<1> DEFINE more == Append(entry.packet_queue, packet)
<1>1. entry.packet_queue \in Seq(Packets) /\ Len(entry.packet_queue) \in Nat
  BY DEF ArpEntry
<1>2. /\ more \in Seq(Packets) /\ IsInjective(more)
      /\ Range(more) = Range(entry.packet_queue) \cup {packet}
      /\ Len(more) = Len(entry.packet_queue) + 1
  BY <1>1, AppendAdds
<1>3. SetUp(entry, ip, packet) =
        [ip |-> ip, contain_valid_mapping |-> FALSE, packet_queue |-> more, packet_count |-> 1]
  BY DEF SetUp
<1> HIDE DEF more
<1>4. 1 =< Len(more)
  BY <1>1, <1>2
<1>5. QED
  BY <1>2, <1>3, <1>4 DEF ArpEntry, CountHolds

\* handle_arp frees its packet after what the reply or the request sets off.
LEMMA HandleArpPreserves == SInv /\ HandleArp => LInv'
<1> SUFFICES ASSUME SInv, HandleArp PROVE LInv'
  OBVIOUS
<1> DEFINE p    == Current.packet
           frees == With("free", p)
<1>1. CASE Drops("handle_arp")
  BY <1>1, DropsPreserves DEF InHand
<1>2. ASSUME Runs("handle_arp"), NEW x \in CallSet, Carried(x) = {}, x.call \notin Outer,
             Continues(<<x, frees>>), UNCHANGED <<index>>
      PROVE  /\ calls' \in Seq(CallSet) /\ Distinct(calls') /\ Nested(calls')
             /\ PacketsOf(calls)' = PacketsOf(calls) /\ Roomy(calls', index')
  <2>1. /\ calls # <<>> /\ Head(calls) = Current /\ p \in Packets /\ Carried(Current) = {p}
        /\ Current.call = "handle_arp" /\ index[p] \in Int /\ index[p] >= Needs(Current)
    BY <1>2, RunningCall DEF InHand
  <2>2. /\ PacketsOf(calls) = {p} \cup PacketsOf(Tail(calls)) /\ PacketsOf(Tail(calls)) = {}
    BY <2>1, FirstCall DEF Outer
  <2>3. /\ frees \in CallSet /\ Carried(frees) = {p} /\ frees.call = "free"
        /\ Needs(frees) = 0 - Shortfall /\ "free" \notin Outer
    BY <2>1, CallKinds, CallFields DEF InHand, Needs, Outer
  <2>4. index'[p] >= 0 - Shortfall
    <3>1. Needs(Current) \in Int /\ Needs(Current) >= 0 - Shortfall /\ index'[p] = index[p]
      BY <1>2, NeedsLeast
    <3>2. QED
      BY <2>1, <3>1, ShortfallNat
  <2> HIDE DEF frees, p
  <2>5. /\ calls' \in Seq(CallSet) /\ Distinct(calls') /\ Nested(calls')
        /\ PacketsOf(calls)' = Carried(x) \cup Carried(frees) \cup PacketsOf(Tail(calls))
        /\ Roomy(calls', index')
    <3>1. Head(calls).call # "free_entry"
      BY <2>1
    <3>2. /\ Carried(x) \cap Carried(frees) = {}
          /\ (Carried(x) \cup Carried(frees)) \cap PacketsOf(Tail(calls)) = {}
          /\ x.call = "free_entry" \/ Carried(frees) = {} \/ PacketsOf(Tail(calls)) = {}
          /\ x.call \in Outer => Carried(frees) = {} /\ PacketsOf(Tail(calls)) = {}
          /\ frees.call \in Outer => PacketsOf(Tail(calls)) = {}
          /\ \A packet \in PacketsOf(Tail(calls)) : index'[packet] = index[packet]
          /\ \A packet \in Carried(x) : index'[packet] >= Needs(x)
          /\ \A packet \in Carried(frees) : index'[packet] >= Needs(frees)
      BY <1>2, <2>2, <2>3, <2>4
    <3>3. QED
      BY <1>2, <2>1, <2>3, <3>1, <3>2, FirstBecomesTwo
  <2>6. QED
    BY <1>2, <2>2, <2>3, <2>5
<1>3. ASSUME UNCHANGED <<held, tx_packets, index>>
      PROVE  RoomLeft' /\ index' \in [Packets -> Int]
  BY <1>3 DEF SInv, LInv, RoomLeft, LayerTypes
<1>4. ASSUME NEW h \in Entries, Runs("handle_arp"),
             arp_entries' = [arp_entries EXCEPT ![h].contain_valid_mapping = TRUE],
             Continues(<<OnEntry("send_packets_on_entry", h), frees>>),
             NoDriver, UNCHANGED <<connections, index>>
      PROVE  LInv'
  <2> DEFINE x     == OnEntry("send_packets_on_entry", h)
             entry == Mapping(arp_entries[h])
             none  == {}
  <2>1. x \in CallSet /\ Carried(x) = {} /\ x.call \notin Outer
    BY CallKinds, CallFields DEF Entry, Outer
  <2>2. /\ calls' \in Seq(CallSet) /\ Distinct(calls') /\ Nested(calls')
        /\ PacketsOf(calls)' = PacketsOf(calls) /\ Roomy(calls', index')
    BY <1>2, <1>4, <2>1
  <2>3. UNCHANGED <<held, tx_packets>>
    BY <1>4, DriverIdle
  <2>4. RoomLeft' /\ index' \in [Packets -> Int]
    BY <1>3, <1>4, <2>3
  <2>5. /\ arp_entries[h] \in ArpEntry /\ IsInjective(arp_entries[h].packet_queue)
        /\ Range(arp_entries[h].packet_queue) \cap PacketsOf(calls) = {}
        /\ \A packet \in Range(arp_entries[h].packet_queue) : index'[packet] >= MacHeader - Shortfall
    BY <1>4, EntryFields
  <2>6. entry \in ArpEntry /\ entry.packet_queue = arp_entries[h].packet_queue
    BY <2>5, MappedEntry
  <2>7. arp_entries' = [arp_entries EXCEPT ![h] = entry]
    BY <1>4 DEF Mapping
  <2>8. /\ none \cap held = {} /\ none \subseteq PacketsOf(calls) \cup Range(arp_entries[h].packet_queue)
        /\ held' = (held \cup none) \ none
        /\ PacketsOf(calls)' \cap Range(entry.packet_queue) = {}
        /\ PacketsOf(calls)' \cup Range(entry.packet_queue) =
             (PacketsOf(calls) \cup Range(arp_entries[h].packet_queue) \cup none) \ none
    BY <2>2, <2>3, <2>5, <2>6
  <2> HIDE DEF entry, none
  <2>9. QED
    BY <1>4, <2>2, <2>4, <2>5, <2>6, <2>7, <2>8, EntryChanges
<1>5. ASSUME Runs("handle_arp"), Continues(<<Call("send_arp_packet"), frees>>),
             NoDriver, UNCHANGED <<tables, index>>
      PROVE  LInv'
  <2> DEFINE x    == Call("send_arp_packet")
             none == {}
  <2>1. x \in CallSet /\ Carried(x) = {} /\ x.call \notin Outer
    BY CallKinds, CallFields DEF Plain, Outer
  <2>2. /\ calls' \in Seq(CallSet) /\ Distinct(calls') /\ Nested(calls')
        /\ PacketsOf(calls)' = PacketsOf(calls) /\ Roomy(calls', index')
    BY <1>2, <1>5, <2>1
  <2>3. UNCHANGED <<held, tx_packets>>
    BY <1>5, DriverIdle
  <2>4. RoomLeft' /\ index' \in [Packets -> Int]
    BY <1>3, <1>5, <2>3
  <2>5. /\ none \cap held = {} /\ none \subseteq PacketsOf(calls)
        /\ held' = (held \cup none) \ none
        /\ PacketsOf(calls)' = (PacketsOf(calls) \cup none) \ none
    BY <2>2, <2>3
  <2> HIDE DEF none
  <2>6. QED
    BY <1>5, <2>2, <2>4, <2>5, CallsChange
<1>6. QED
  BY <1>1, <1>4, <1>5 DEF HandleArp, Awaited, layers, tables

\* While the first call has no packet, at most one of all the calls has, if it
\* is not free_entry.
LEMMA OneInHand ==
  ASSUME SInv, calls # <<>>, Carried(Head(calls)) = {}, Head(calls).call # "free_entry"
  PROVE  AtMostOne(calls)
<1>1. calls \in Seq(CallSet) /\ AtMostOne(Tail(calls))
  BY FirstCall DEF SInv, LInv, LayerTypes
<1>2. /\ Len(calls) \in Nat /\ Len(calls) # 0 /\ DOMAIN calls = 1 .. Len(calls)
      /\ Head(calls) = calls[1] /\ DOMAIN Tail(calls) = 1 .. Len(calls) - 1
      /\ \A k \in 1 .. Len(calls) - 1 : Tail(calls)[k] = calls[k + 1]
  BY <1>1
<1>3. SUFFICES ASSUME NEW k \in DOMAIN calls, NEW l \in DOMAIN calls, k # l
               PROVE  Carried(calls[k]) = {} \/ Carried(calls[l]) = {}
  BY DEF AtMostOne
<1>4. CASE k = 1 \/ l = 1
  BY <1>2, <1>4
<1>5. CASE k # 1 /\ l # 1
  <2>1. /\ k - 1 \in DOMAIN Tail(calls) /\ l - 1 \in DOMAIN Tail(calls) /\ k - 1 # l - 1
        /\ Tail(calls)[k - 1] = calls[k] /\ Tail(calls)[l - 1] = calls[l]
    BY <1>2, <1>3, <1>5
  <2>2. QED
    BY <1>1, <2>1 DEF AtMostOne
<1>6. QED
  BY <1>4, <1>5

\* send_packets_on_entry takes the first packet of the queue to mac_send.
LEMMA SendPacketsOnEntryPreserves == SInv /\ SendPacketsOnEntry => LInv'
<1> SUFFICES ASSUME SInv, SendPacketsOnEntry PROVE LInv'
  OBVIOUS
<1> DEFINE h     == Current.entry
           queue == arp_entries[h].packet_queue
<1>1. /\ Runs("send_packets_on_entry")
      /\ IF queue = <<>>
         THEN Returns /\ UNCHANGED arp_entries
         ELSE /\ calls' = <<With("mac_send", Head(queue))>> \o calls
              /\ arp_entries' = [arp_entries EXCEPT ![h].packet_queue = Tail(@)]
      /\ UNCHANGED <<held, tx_packets, connections, index>>
  BY DriverIdle DEF SendPacketsOnEntry
<1>2. /\ calls # <<>> /\ Carried(Head(calls)) = {} /\ h \in Entries
      /\ Head(calls).call # "free_entry"
  BY <1>1, RunningCall DEF InHand, Sends, Entry
<1>3. CASE queue = <<>>
  <2>1. Returns /\ UNCHANGED <<held, tx_packets, tables, index>>
    BY <1>1, <1>3 DEF tables
  <2>2. QED
    BY <1>2, <2>1, Controls
<1>4. CASE queue # <<>>
  <2> DEFINE p     == Head(queue)
             x     == With("mac_send", p)
             entry == WithoutSent(arp_entries[h])
             none  == {}
  <2> HIDE DEF h
  <2>1. /\ arp_entries[h] \in ArpEntry /\ queue \in Seq(Packets) /\ IsInjective(queue)
        /\ Range(queue) \subseteq held /\ Range(queue) \cap PacketsOf(calls) = {}
        /\ \A packet \in Range(queue) : index[packet] >= MacHeader - Shortfall
    BY <1>2, EntryFields
  <2>2. /\ p \in Packets /\ p \in Range(queue) /\ Tail(queue) \in Seq(Packets)
        /\ IsInjective(Tail(queue)) /\ Range(Tail(queue)) = Range(queue) \ {p}
    BY <1>4, <2>1, TailRemoves
  <2>3. entry \in ArpEntry /\ entry.packet_queue = Tail(queue)
    BY <1>4, <2>1, SentEntry
  <2>4. arp_entries' = [arp_entries EXCEPT ![h] = entry] /\ calls' = <<x>> \o calls
    BY <1>1, <1>4 DEF WithoutSent
  <2>5. /\ x \in CallSet /\ Carried(x) = {p} /\ x.call \notin Outer
        /\ Needs(x) = MacHeader - Shortfall
    BY <2>2, CallKinds, CallFields DEF InHand, Outer, Needs
  <2> HIDE DEF queue, p, x, entry
  <2>6. /\ calls \in Seq(CallSet) /\ Distinct(calls) /\ Nested(calls) /\ Roomy(calls, index)
        /\ AtMostOne(calls) /\ p \notin PacketsOf(calls)
    BY <1>2, <2>1, <2>2, OneInHand DEF SInv, LInv, LayerTypes, Ownership
  <2>7. /\ calls' \in Seq(CallSet) /\ Distinct(calls')
        /\ PacketsOf(calls') = {p} \cup PacketsOf(calls)
    BY <2>4, <2>5, <2>6, CallMade
  <2>8. Nested(calls') /\ Roomy(calls', index')
    <3>1. \A packet \in Carried(x) : index[packet] >= Needs(x)
      BY <2>1, <2>2, <2>5
    <3>2. Nested(calls') /\ Roomy(calls', index)
      BY <2>4, <2>5, <2>6, <3>1, NestedMade
    <3>3. QED
      BY <1>1, <3>2
  <2>9. RoomLeft' /\ index' \in [Packets -> Int]
    BY <1>1 DEF SInv, LInv, RoomLeft, LayerTypes
  <2>10. /\ none \cap held = {} /\ none \subseteq PacketsOf(calls) \cup Range(queue)
         /\ held' = (held \cup none) \ none
         /\ PacketsOf(calls)' \cap Range(entry.packet_queue) = {}
         /\ PacketsOf(calls)' \cup Range(entry.packet_queue) =
              (PacketsOf(calls) \cup Range(queue) \cup none) \ none
    BY <1>1, <2>1, <2>2, <2>3, <2>7
  <2>11. /\ \A packet \in Range(entry.packet_queue) : index'[packet] >= MacHeader - Shortfall
         /\ IsInjective(entry.packet_queue)
    BY <1>1, <2>1, <2>2, <2>3
  <2> HIDE DEF none
  <2>12. QED
    BY <1>1, <1>2, <2>3, <2>4, <2>7, <2>8, <2>9, <2>10, <2>11, EntryChanges DEF queue
<1>5. QED
  BY <1>3, <1>4

\* free_entry frees the packets of the queue one by one, then the entry.
LEMMA FreeEntryPreserves == SInv /\ FreeEntry => LInv'
<1> SUFFICES ASSUME SInv, FreeEntry PROVE LInv'
  OBVIOUS
<1> DEFINE h     == Current.entry
           queue == arp_entries[h].packet_queue
<1>1. /\ Runs("free_entry")
      /\ IF queue = <<>>
         THEN Returns /\ NoDriver /\ UNCHANGED arp_entries
         ELSE /\ Free(Head(queue))
              /\ arp_entries' = [arp_entries EXCEPT ![h] = Dequeued(@)]
              /\ UNCHANGED calls
      /\ UNCHANGED <<connections, index>>
  BY DEF FreeEntry
<1>2. calls # <<>> /\ Carried(Head(calls)) = {} /\ h \in Entries
  BY <1>1, RunningCall DEF InHand, Sends, Entry
<1>3. CASE queue = <<>>
  <2>1. Returns /\ UNCHANGED <<held, tx_packets, tables, index>>
    BY <1>1, <1>3, DriverIdle DEF tables
  <2>2. QED
    BY <1>2, <2>1, Controls
<1>4. CASE queue # <<>>
  <2> DEFINE p     == Head(queue)
             entry == Dequeued(arp_entries[h])
             N     == {}
             E     == {p}
  <2> HIDE DEF h
  <2>1. /\ arp_entries[h] \in ArpEntry /\ queue \in Seq(Packets) /\ IsInjective(queue)
        /\ Range(queue) \subseteq held /\ Range(queue) \cap PacketsOf(calls) = {}
        /\ \A packet \in Range(queue) : index[packet] >= MacHeader - Shortfall
    BY <1>2, EntryFields
  <2>2. /\ p \in Packets /\ p \in Range(queue) /\ Tail(queue) \in Seq(Packets)
        /\ IsInjective(Tail(queue)) /\ Range(Tail(queue)) = Range(queue) \ {p}
    BY <1>4, <2>1, TailRemoves
  <2>3. entry \in ArpEntry /\ entry.packet_queue = Tail(queue)
    BY <1>4, <2>1, FreedEntry
  <2>4. /\ arp_entries' = [arp_entries EXCEPT ![h] = entry] /\ calls' = calls
        /\ held' = held \ {p} /\ tx_packets' = tx_packets
    BY <1>1, <1>4, DriverTakes
  <2>5. /\ calls' \in Seq(CallSet) /\ Distinct(calls') /\ Nested(calls')
        /\ PacketsOf(calls)' = PacketsOf(calls) /\ Roomy(calls', index')
        /\ index' \in [Packets -> Int]
    BY <1>1, <2>4 DEF SInv, LInv, LayerTypes, Ownership
  <2>6. RoomLeft'
    BY <1>1, <2>4 DEF SInv, LInv, RoomLeft
  <2>7. /\ N \cap held = {} /\ E \subseteq PacketsOf(calls) \cup Range(queue)
        /\ held' = (held \cup N) \ E
        /\ PacketsOf(calls)' \cap Range(entry.packet_queue) = {}
        /\ PacketsOf(calls)' \cup Range(entry.packet_queue) =
             (PacketsOf(calls) \cup Range(queue) \cup N) \ E
    BY <2>1, <2>2, <2>3, <2>4, <2>5
  <2>8. /\ \A packet \in Range(entry.packet_queue) : index'[packet] >= MacHeader - Shortfall
        /\ IsInjective(entry.packet_queue)
    BY <1>1, <2>1, <2>2, <2>3
  <2> HIDE DEF p, entry, N, E
  <2>9. QED
    BY <1>1, <1>2, <2>3, <2>4, <2>5, <2>6, <2>7, <2>8, EntryChanges
<1>5. QED
  BY <1>3, <1>4

\* What the ways of ip_send that queue the packet have in common: the packet has
\* room for one more header.
LEMMA IpSendMoves ==
  ASSUME SInv, NEW ip, IpSends(ip)
  PROVE  LET p == Current.packet IN
         /\ calls # <<>> /\ Head(calls) = Current /\ p \in Packets /\ Carried(Current) = {p}
         /\ Head(calls).call = "ip_send"
         /\ p \in held /\ \A h \in Entries : p \notin Range(arp_entries[h].packet_queue)
         /\ PacketsOf(calls) = {p} \cup PacketsOf(Tail(calls))
         /\ p \notin PacketsOf(Tail(calls))
         /\ index' \in [Packets -> Int] /\ index'[p] >= MacHeader - Shortfall
         /\ \A other \in Packets \ {p} : index'[other] = index[other]
         /\ held \cup Range(tx_packets) \subseteq Packets
         /\ PacketsOf(calls) \subseteq held
         /\ \A other \in held \cup Range(tx_packets) : index'[other] >= 0 - Shortfall
<1> DEFINE p == Current.packet
<1>1. Runs("ip_send") /\ Moved(p, -IpHeader)
  BY DEF IpSends
<1>2. /\ calls # <<>> /\ Head(calls) = Current /\ p \in Packets /\ Carried(Current) = {p}
      /\ Current.call = "ip_send" /\ index[p] \in Int /\ index[p] >= Needs(Current)
  BY <1>1, RunningCall DEF Sends
<1>3. /\ index' \in [Packets -> Int] /\ index'[p] = index[p] - IpHeader
      /\ \A other \in Packets \ {p} : index'[other] = index[other]
  BY <1>1, <1>2, IndexMoved DEF IpHeader
<1>4. index'[p] >= MacHeader - Shortfall /\ index'[p] >= 0 - Shortfall
  <2>1. Needs(Current) = MacHeader + IpHeader - Shortfall
    BY <1>2 DEF Needs
  <2>2. QED
    BY <1>2, <1>3, <2>1, ShortfallNat DEF MacHeader, IpHeader
<1>5. /\ PacketsOf(calls) = {p} \cup PacketsOf(Tail(calls)) /\ p \notin PacketsOf(Tail(calls))
      /\ p \in held /\ \A q \in Queues : p \notin QueuePackets(q)
  BY <1>2, FirstCall
<1>6. \A h \in Entries : p \notin Range(arp_entries[h].packet_queue)
  BY <1>5, QueueNames DEF QueuePackets
<1>7. held \cup Range(tx_packets) \subseteq Packets /\ PacketsOf(calls) \subseteq held
  BY InUse DEF SInv, LInv, Ownership
<1> HIDE DEF p
<1>8. \A other \in held \cup Range(tx_packets) : index'[other] >= 0 - Shortfall
  BY <1>3, <1>4, <1>7 DEF SInv, LInv, RoomLeft
<1>9. QED
  BY <1>2, <1>3, <1>4, <1>5, <1>6, <1>7, <1>8 DEF p

\* ip_send to a new address: arp_send keeps the packet while free_entry runs.
LEMMA IpSendAsksPreserves ==
  ASSUME SInv, NEW ip, IpSendAsks(ip)
  PROVE  LInv'
<1> DEFINE p == Current.packet
<1>1. PICK h \in Entries :
        /\ IpSends(ip) /\ ip \in Hosts /\ UNCHANGED <<held, tx_packets, tables>>
        /\ \/ Continues(<<OnEntry("free_entry", h), ArpSend(p, ip, h)>>)
           \/ Continues(<<ArpSend(p, ip, h)>>)
  BY DriverIdle DEF IpSendAsks, tables
<1>2. /\ calls # <<>> /\ Head(calls) = Current /\ p \in Packets /\ Carried(Current) = {p}
      /\ Head(calls).call = "ip_send"
      /\ p \in held
      /\ PacketsOf(calls) = {p} \cup PacketsOf(Tail(calls))
      /\ p \notin PacketsOf(Tail(calls))
      /\ index' \in [Packets -> Int] /\ index'[p] >= MacHeader - Shortfall
      /\ \A other \in Packets \ {p} : index'[other] = index[other]
      /\ held \cup Range(tx_packets) \subseteq Packets /\ PacketsOf(calls) \subseteq held
      /\ \A other \in held \cup Range(tx_packets) : index'[other] >= 0 - Shortfall
  BY <1>1, IpSendMoves
<1> DEFINE x == OnEntry("free_entry", h)
           y == ArpSend(p, ip, h)
<1>3. /\ x \in CallSet /\ Carried(x) = {} /\ x.call = "free_entry"
      /\ y \in CallSet /\ Carried(y) = {p} /\ y.call = "arp_send"
      /\ Needs(y) = MacHeader - Shortfall
      /\ x.call \notin Outer /\ y.call \notin Outer
  BY <1>1, <1>2, CallKinds, CallFields DEF Entry, Outer, Needs
<1>4. RoomLeft'
  BY <1>1, <1>2 DEF RoomLeft
<1> HIDE DEF p, x, y
<1>5. CASE Continues(<<y>>)
  <2>1. /\ Carried(y) = Carried(Head(calls)) /\ Head(calls).call # "free_entry"
        /\ \A packet \in Packets \ Carried(y) : index'[packet] = index[packet]
        /\ \A packet \in Carried(y) : index'[packet] >= Needs(y)
    BY <1>2, <1>3
  <2>2. QED
    BY <1>1, <1>2, <1>3, <1>5, <2>1, HandsOn
<1>6. CASE Continues(<<x, y>>)
  <2> DEFINE none == {}
  <2>1. /\ Carried(x) \cap Carried(y) = {} /\ Head(calls).call # "free_entry"
        /\ (Carried(x) \cup Carried(y)) \cap PacketsOf(Tail(calls)) = {}
        /\ x.call = "free_entry" \/ Carried(y) = {} \/ PacketsOf(Tail(calls)) = {}
        /\ x.call \in Outer => Carried(y) = {} /\ PacketsOf(Tail(calls)) = {}
        /\ y.call \in Outer => PacketsOf(Tail(calls)) = {}
        /\ \A packet \in PacketsOf(Tail(calls)) : index'[packet] = index[packet]
        /\ \A packet \in Carried(x) : index'[packet] >= Needs(x)
        /\ \A packet \in Carried(y) : index'[packet] >= Needs(y)
    BY <1>2, <1>3
  <2>2. /\ calls' \in Seq(CallSet) /\ Distinct(calls') /\ Nested(calls')
        /\ PacketsOf(calls)' = Carried(x) \cup Carried(y) \cup PacketsOf(Tail(calls))
        /\ Roomy(calls', index')
    BY <1>2, <1>3, <1>6, <2>1, FirstBecomesTwo
  <2>3. /\ none \cap held = {} /\ none \subseteq PacketsOf(calls)
        /\ held' = (held \cup none) \ none
        /\ PacketsOf(calls)' = (PacketsOf(calls) \cup none) \ none
    BY <1>1, <1>2, <1>3, <2>2
  <2>4. \A packet \in held \ PacketsOf(calls) : index'[packet] = index[packet]
    BY <1>2
  <2> HIDE DEF none
  <2>5. QED
    BY <1>1, <1>2, <1>4, <2>2, <2>3, <2>4, CallsChange
<1>7. QED
  BY <1>1, <1>5, <1>6 DEF x, y, p

\* The rest of arp_send: the packet goes to the end of the queue of its entry.
LEMMA ArpSendQueuesPreserves == SInv /\ ArpSendQueues => LInv'
<1> SUFFICES ASSUME SInv, ArpSendQueues PROVE LInv'
  OBVIOUS
<1> DEFINE p     == Current.packet
           h     == Current.entry
           ip    == Current.ip
           queue == arp_entries[h].packet_queue
           entry == SetUp(arp_entries[h], ip, p)
           x     == Call("send_arp_packet")
           none  == {}
<1>1. /\ Runs("arp_send") /\ arp_entries' = [arp_entries EXCEPT ![h] = entry]
      /\ Continues(<<x>>) /\ UNCHANGED <<held, tx_packets, connections, index>>
  BY DriverIdle DEF ArpSendQueues
<1>2. /\ calls # <<>> /\ Head(calls) = Current /\ p \in Packets /\ Carried(Current) = {p}
      /\ Current.call = "arp_send" /\ index[p] >= Needs(Current)
      /\ h \in Entries /\ ip \in Hosts
  BY <1>1, RunningCall DEF Sends
<1>3. /\ PacketsOf(calls) = {p} \cup PacketsOf(Tail(calls)) /\ p \notin PacketsOf(Tail(calls))
      /\ p \in held /\ \A q \in Queues : p \notin QueuePackets(q)
  BY <1>2, FirstCall
<1> HIDE DEF h
<1>4. /\ arp_entries[h] \in ArpEntry /\ IsInjective(queue) /\ p \notin Range(queue)
      /\ Range(queue) \subseteq held /\ Range(queue) \cap PacketsOf(calls) = {}
      /\ \A packet \in Range(queue) : index[packet] >= MacHeader - Shortfall
  BY <1>2, <1>3, EntryFields, QueueNames DEF QueuePackets
<1> HIDE DEF ip, p
<1>5. /\ entry \in ArpEntry /\ IsInjective(entry.packet_queue)
      /\ Range(entry.packet_queue) = Range(queue) \cup {p}
  <2>1. /\ arp_entries[h] \in ArpEntry /\ IsInjective(arp_entries[h].packet_queue) /\ ip \in Hosts
        /\ p \in Packets /\ p \notin Range(arp_entries[h].packet_queue)
    BY <1>2, <1>4
  <2> DEFINE old == arp_entries[h]
  <2> HIDE DEF old
  <2>2. LET later == SetUp(old, ip, p) IN
        /\ later \in ArpEntry /\ IsInjective(later.packet_queue)
        /\ Range(later.packet_queue) = Range(old.packet_queue) \cup {p}
    <3>1. /\ old \in ArpEntry /\ IsInjective(old.packet_queue) /\ p \notin Range(old.packet_queue)
      BY <2>1 DEF old
    <3> HIDE DEF entry, queue
    <3>2. QED
      BY <2>1, <3>1, SetUpEntry
  <2>3. QED
    BY <2>2 DEF old
<1>6. Needs(Current) = MacHeader - Shortfall
  BY <1>2 DEF Needs
<1>7. x \in CallSet /\ Carried(x) = {} /\ x.call \notin Outer
  BY CallKinds, CallFields DEF Plain, Outer
<1> HIDE DEF queue, entry, x
<1>8. /\ calls' \in Seq(CallSet) /\ Distinct(calls') /\ Nested(calls')
      /\ PacketsOf(calls)' = PacketsOf(Tail(calls)) /\ Roomy(calls', index')
  <2>1. /\ Carried(x) \cap PacketsOf(Tail(calls)) = {} /\ Head(calls).call # "free_entry"
        /\ \A packet \in PacketsOf(Tail(calls)) : index'[packet] = index[packet]
        /\ \A packet \in Carried(x) : index'[packet] >= Needs(x)
    BY <1>1, <1>2, <1>7
  <2>2. /\ calls' \in Seq(CallSet) /\ Distinct(calls') /\ Nested(calls')
        /\ PacketsOf(calls)' = Carried(x) \cup PacketsOf(Tail(calls))
        /\ Roomy(calls', index')
    BY <1>1, <1>2, <1>7, <2>1, FirstBecomes
  <2>3. QED
    BY <1>7, <2>2
<1>9. RoomLeft' /\ index' \in [Packets -> Int]
  BY <1>1 DEF SInv, LInv, RoomLeft, LayerTypes
<1>10. /\ none \cap held = {} /\ none \subseteq PacketsOf(calls) \cup Range(queue)
       /\ held' = (held \cup none) \ none
       /\ PacketsOf(calls)' \cap Range(entry.packet_queue) = {}
       /\ PacketsOf(calls)' \cup Range(entry.packet_queue) =
            (PacketsOf(calls) \cup Range(queue) \cup none) \ none
  BY <1>1, <1>3, <1>4, <1>5, <1>8
<1>11. \A packet \in Range(entry.packet_queue) : index'[packet] >= MacHeader - Shortfall
  BY <1>1, <1>2, <1>4, <1>5, <1>6
<1> HIDE DEF none
<1>12. QED
  BY <1>1, <1>2, <1>5, <1>8, <1>9, <1>10, <1>11, EntryChanges DEF queue

\* ip_send while the address is awaited: a full queue gives its first packet back.
LEMMA IpSendWaitsPreserves ==
  ASSUME SInv, NEW ip, IpSendWaits(ip)
  PROVE  LInv'
<1> DEFINE p     == Current.packet
           h     == Find(ip)
           queue == arp_entries[h].packet_queue
           entry == Queued(arp_entries[h], p)
           N     == {}
           E     == Loses(arp_entries[h])
<1>1. /\ IpSends(ip) /\ h \in Entries /\ ~arp_entries[h].contain_valid_mapping
      /\ IF Full(arp_entries[h]) THEN Free(Head(queue)) ELSE NoDriver
      /\ arp_entries' = [arp_entries EXCEPT ![h] = entry]
      /\ Returns /\ UNCHANGED connections
  BY DEF IpSendWaits, Awaited
<1> HIDE DEF h
<1>2. /\ calls # <<>> /\ Head(calls) = Current /\ p \in Packets /\ Carried(Current) = {p}
      /\ p \in held /\ p \notin Range(queue)
      /\ PacketsOf(calls) = {p} \cup PacketsOf(Tail(calls))
      /\ p \notin PacketsOf(Tail(calls))
      /\ index' \in [Packets -> Int] /\ index'[p] >= MacHeader - Shortfall
      /\ \A other \in Packets \ {p} : index'[other] = index[other]
      /\ held \cup Range(tx_packets) \subseteq Packets /\ PacketsOf(calls) \subseteq held
      /\ \A other \in held \cup Range(tx_packets) : index'[other] >= 0 - Shortfall
  BY <1>1, IpSendMoves
<1>3. /\ arp_entries[h] \in ArpEntry /\ CountHolds(arp_entries[h]) /\ IsInjective(queue)
      /\ Range(queue) \subseteq held /\ Range(queue) \cap PacketsOf(calls) = {}
      /\ \A packet \in Range(queue) : index[packet] >= MacHeader - Shortfall
  BY <1>1, EntryFields
<1>4. /\ entry \in ArpEntry /\ IsInjective(entry.packet_queue)
      /\ E \subseteq Range(queue) /\ Range(entry.packet_queue) = (Range(queue) \ E) \cup {p}
  BY <1>1, <1>2, <1>3, QueuedEntry
<1>5. held' = held \ E /\ tx_packets' = tx_packets
  BY <1>1, DriverTakes, DriverIdle DEF Loses
<1> HIDE DEF entry, p
<1>6. RoomLeft'
  BY <1>2, <1>5 DEF RoomLeft
<1>7. /\ calls' \in Seq(CallSet) /\ Distinct(calls') /\ Nested(calls')
      /\ PacketsOf(calls)' = PacketsOf(Tail(calls)) /\ Roomy(calls', index')
  <2>1. \A packet \in PacketsOf(Tail(calls)) : index'[packet] = index[packet]
    BY <1>2
  <2>2. QED
    BY <1>1, <1>2, <2>1, FirstReturns
<1> HIDE DEF queue, E
<1>8. /\ N \cap held = {} /\ E \subseteq PacketsOf(calls) \cup Range(queue)
      /\ held' = (held \cup N) \ E
      /\ PacketsOf(calls)' \cap Range(entry.packet_queue) = {}
      /\ PacketsOf(calls)' \cup Range(entry.packet_queue) =
           (PacketsOf(calls) \cup Range(queue) \cup N) \ E
  BY <1>2, <1>3, <1>4, <1>5, <1>7
<1>9. /\ \A packet \in Range(entry.packet_queue) : index'[packet] >= MacHeader - Shortfall
      /\ \A packet \in held \ PacketsOf(calls) : index'[packet] = index[packet]
  BY <1>2, <1>3, <1>4
<1> HIDE DEF N
<1>10. QED
  BY <1>1, <1>2, <1>4, <1>6, <1>7, <1>8, <1>9, EntryChanges DEF queue

-----------------------------------------------------------------------------
(* The actions of the UDP layer and of the clients. *)

\* The connection of a port and its queue.
LEMMA PortConnection ==
  ASSUME SInv, NEW port \in {DhcpPort, TftpPort}
  PROVE  LET i == FindConnection(connections, port)
             c == connections[i]
         IN  /\ i \in {1, 2} /\ c \in Connection /\ Counted(c)
             /\ connections \in Seq(Connection) /\ i \in DOMAIN connections
             /\ IsInjective(c.packet_queue)
             /\ Range(c.packet_queue) \subseteq held
             /\ Range(c.packet_queue) \cap PacketsOf(calls) = {}
<1> DEFINE i == FindConnection(connections, port)
<1>1. /\ connections \in Seq(Connection) /\ Len(connections) = 2
      /\ Counted(connections[1]) /\ Counted(connections[2])
      /\ connections[1].port = TftpPort /\ connections[2].port = DhcpPort
  BY DEF SInv, LInv, LayerTypes
<1>2. /\ i \in 0 .. 2 /\ (i = 0 => \A j \in 1 .. 2 : connections[j].port # port)
  BY <1>1, FindConnectionFinds
<1> HIDE DEF i
<1>3. i \in {1, 2}
  <2>1. 1 \in 1 .. 2 /\ 2 \in 1 .. 2
    OBVIOUS
  <2>2. i # 0
    BY <1>1, <1>2, <2>1
  <2>3. QED
    BY <1>2, <2>2
<1>4. i \in DOMAIN connections /\ connections[i] \in Connection
  <2>1. DOMAIN connections = 1 .. Len(connections)
    BY <1>1
  <2>2. i \in DOMAIN connections
    BY <1>1, <1>3, <2>1
  <2>3. QED
    BY <1>1, <2>2
<1>5. /\ IsInjective(connections[i].packet_queue)
      /\ Range(connections[i].packet_queue) \subseteq held
      /\ Range(connections[i].packet_queue) \cap PacketsOf(calls) = {}
  BY <1>3, QueueNames DEF SInv, LInv, Ownership, QueuePackets
<1>6. QED
  BY <1>1, <1>3, <1>4, <1>5 DEF i

\* handle_udp queues its packet; what overflows goes back, be it the packet itself.
LEMMA HandleUdpPreserves == SInv /\ HandleUdp => LInv'
<1> SUFFICES ASSUME SInv, HandleUdp PROVE LInv'
  OBVIOUS
<1>1. CASE Drops("handle_udp")
  BY <1>1, DropsPreserves DEF InHand
<1>2. ASSUME NEW port \in {DhcpPort, TftpPort}, Runs("handle_udp"),
             LET connection == connections[FindConnection(connections, port)]
                 oldest     == Head(Append(connection.packet_queue, Current.packet))
             IN  IF Overflows(connection) THEN Free(oldest) ELSE NoDriver,
             connections' = WithPacket(connections, port, Current.packet),
             Moved(Current.packet, UdpHeader), Returns, UNCHANGED arp_entries
      PROVE  LInv'
  <2> DEFINE p     == Current.packet
             i     == FindConnection(connections, port)
             c     == connections[i]
             later == Delivered(c, p)
             E     == Evicted(c, p)
  <2>1. /\ calls # <<>> /\ Head(calls) = Current /\ p \in Packets /\ Carried(Current) = {p}
        /\ Current.call = "handle_udp" /\ index[p] \in Int /\ index[p] >= Needs(Current)
    BY <1>2, RunningCall DEF InHand
  <2>2. /\ PacketsOf(calls) = {p} \cup PacketsOf(Tail(calls))
        /\ p \notin PacketsOf(Tail(calls))
    BY <2>1, FirstCall
  <2>3. /\ index' \in [Packets -> Int] /\ index'[p] = index[p] + UdpHeader
        /\ \A other \in Packets \ {p} : index'[other] = index[other]
    BY <1>2, <2>1, IndexMoved DEF UdpHeader
  <2>4. index'[p] >= 0 - Shortfall
    <3>1. Needs(Current) \in Int /\ Needs(Current) >= 0 - Shortfall
      BY NeedsLeast
    <3>2. QED
      BY <2>1, <2>3, <3>1, ShortfallNat DEF UdpHeader
  <2>5. /\ i \in {1, 2} /\ c \in Connection /\ Counted(c)
        /\ connections \in Seq(Connection) /\ i \in DOMAIN connections
        /\ IsInjective(c.packet_queue) /\ Range(c.packet_queue) \subseteq held
        /\ Range(c.packet_queue) \cap PacketsOf(calls) = {}
    BY PortConnection
  <2>6. /\ held \cup Range(tx_packets) \subseteq Packets /\ PacketsOf(calls) \subseteq held
    BY InUse DEF SInv, LInv, Ownership
  <2>7. held' = held \ E /\ tx_packets' = tx_packets
    BY <1>2, DriverTakes, DriverIdle DEF Evicted
  <2>8. connections' = [connections EXCEPT ![i] = later]
    BY <1>2 DEF WithPacket
  <2> HIDE DEF p, c, i
  <2>9. /\ later \in Connection /\ Counted(later)
        /\ later.port = c.port /\ later.max_packet_count = c.max_packet_count
        /\ E \subseteq Range(c.packet_queue) \cup {p}
        /\ IsInjective(later.packet_queue)
        /\ Range(later.packet_queue) = (Range(c.packet_queue) \cup {p}) \ E
    <3>1. p \notin Range(c.packet_queue)
      BY <2>2, <2>5
    <3>2. QED
      BY <2>1, <2>5, <3>1, DeliveredQueue DEF Connection
  <2> HIDE DEF later, E
  <2>10. RoomLeft'
    <3>1. \A other \in held \cup Range(tx_packets) : index'[other] >= 0 - Shortfall
      BY <2>3, <2>4, <2>6 DEF SInv, LInv, RoomLeft
    <3>2. QED
      BY <2>7, <3>1 DEF RoomLeft
  <2>11. /\ calls' \in Seq(CallSet) /\ Distinct(calls') /\ Nested(calls')
         /\ PacketsOf(calls)' = PacketsOf(Tail(calls)) /\ Roomy(calls', index')
    <3>1. \A packet \in PacketsOf(Tail(calls)) : index'[packet] = index[packet]
      BY <2>2, <2>3, <2>6
    <3>2. QED
      BY <1>2, <2>1, <3>1, FirstReturns
  <2>12. /\ E \subseteq PacketsOf(calls) \cup Range(c.packet_queue)
         /\ PacketsOf(calls)' \cup Range(later.packet_queue) \subseteq
              (PacketsOf(calls) \cup Range(c.packet_queue)) \ E
         /\ PacketsOf(calls)' \cup Range(later.packet_queue) =
              (PacketsOf(calls) \cup Range(c.packet_queue)) \ E
         /\ PacketsOf(calls)' \cap Range(later.packet_queue) = {}
    BY <2>2, <2>5, <2>9, <2>11
  <2>13. \A packet \in held \ PacketsOf(calls) : index'[packet] = index[packet]
    BY <2>2, <2>3, <2>6
  <2>14. QED
    BY <1>2, <2>3, <2>5, <2>7, <2>8, <2>9, <2>10, <2>11, <2>12, <2>13, ConnectionChanges DEF c
<1>3. QED
  BY <1>1, <1>2 DEF HandleUdp

\* A packet is taken out of the queue of a port: it is freed (E), kept by a call
\* or, if datagrams may be short, forgotten.
LEMMA TakesPreserves ==
  ASSUME SInv, NEW name \in Plain, NEW port \in {DhcpPort, TftpPort}, Takes(name, port),
         NEW E, NEW kept,
         LET p == FirstPacket(connections, port) IN
         /\ E \subseteq {p} /\ kept \subseteq {p} /\ E \cap kept = {}
         /\ "short" \notin DatagramSizes => E \cup kept = {p},
         held' = held \ E, tx_packets' = tx_packets,
         calls' \in Seq(CallSet), Distinct(calls'), Nested(calls'), Roomy(calls', index'),
         PacketsOf(calls)' = PacketsOf(calls) \cup kept
  PROVE  LInv'
<1> DEFINE i     == FindConnection(connections, port)
           c     == connections[i]
           p     == Head(c.packet_queue)
           later == Dequeued(c)
<1>1. /\ i \in {1, 2} /\ c \in Connection /\ Counted(c)
      /\ connections \in Seq(Connection) /\ i \in DOMAIN connections
      /\ IsInjective(c.packet_queue) /\ Range(c.packet_queue) \subseteq held
      /\ Range(c.packet_queue) \cap PacketsOf(calls) = {}
  BY PortConnection
<1>2. /\ c.packet_count # 0 /\ connections' = [connections EXCEPT ![i] = later]
      /\ UNCHANGED <<arp_entries, index>>
  BY DEF Takes, HasPacket, WithoutFirst
<1>3. /\ E \subseteq {p} /\ kept \subseteq {p} /\ E \cap kept = {}
      /\ "short" \notin DatagramSizes => E \cup kept = {p}
  BY DEF FirstPacket
<1> HIDE DEF c, i
<1>4. /\ p \in Range(c.packet_queue) /\ later \in Connection /\ Counted(later)
      /\ later.port = c.port /\ later.max_packet_count = c.max_packet_count
      /\ IsInjective(later.packet_queue)
      /\ Range(later.packet_queue) = Range(c.packet_queue) \ {p}
  BY <1>1, <1>2, DequeuedQueue DEF Connection
<1> HIDE DEF later, p
<1>5. RoomLeft' /\ index' \in [Packets -> Int]
  BY <1>2 DEF SInv, LInv, RoomLeft, LayerTypes
<1>6. /\ E \subseteq PacketsOf(calls) \cup Range(c.packet_queue)
      /\ PacketsOf(calls)' \cup Range(later.packet_queue) \subseteq
           (PacketsOf(calls) \cup Range(c.packet_queue)) \ E
      /\ "short" \notin DatagramSizes =>
           PacketsOf(calls)' \cup Range(later.packet_queue) =
             (PacketsOf(calls) \cup Range(c.packet_queue)) \ E
      /\ PacketsOf(calls)' \cap Range(later.packet_queue) = {}
  BY <1>1, <1>3, <1>4
<1>7. QED
  BY <1>1, <1>2, <1>4, <1>5, <1>6, ConnectionChanges DEF c

\* What is taken was in the queue, and in no call.
LEMMA TakesFirst ==
  ASSUME SInv, NEW name \in Plain, NEW port \in {DhcpPort, TftpPort}, Takes(name, port)
  PROVE  LET p == FirstPacket(connections, port) IN
         /\ calls # <<>> /\ Head(calls) = Current /\ Carried(Current) = {}
         /\ Current.call = name
         /\ p \in held /\ p \in Packets /\ p \notin PacketsOf(calls)
         /\ index[p] >= 0 - Shortfall /\ index' = index
<1> DEFINE i == FindConnection(connections, port)
           c == connections[i]
           p == Head(c.packet_queue)
<1>1. /\ c \in Connection /\ Counted(c) /\ Range(c.packet_queue) \subseteq held
      /\ Range(c.packet_queue) \cap PacketsOf(calls) = {}
  BY PortConnection
<1>2. Runs(name) /\ c.packet_count # 0 /\ index' = index
  BY DEF Takes, HasPacket
<1>3. calls # <<>> /\ Head(calls) = Current /\ Carried(Current) = {} /\ Current.call = name
  BY <1>2, RunningCall DEF Plain, InHand, Sends
<1>4. p \in Range(c.packet_queue)
  <2> HIDE DEF c
  <2>1. QED
    BY <1>1, <1>2, DequeuedQueue DEF Connection
<1>5. p \in held /\ p \in Packets /\ p \notin PacketsOf(calls)
  BY <1>1, <1>4, InUse
<1>6. index[p] >= 0 - Shortfall
  BY <1>5 DEF SInv, LInv, RoomLeft
<1>7. QED
  BY <1>2, <1>3, <1>5, <1>6 DEF FirstPacket

\* dhcp_task frees every packet it reads.
LEMMA DhcpReadPreserves == SInv /\ DhcpRead => LInv'
<1> SUFFICES ASSUME SInv, DhcpRead PROVE LInv'
  OBVIOUS
<1>0. "dhcp_read" \in Plain
  BY DEF Plain
<1>1. CASE ReadsNothing("dhcp_read", DhcpPort)
  BY <1>0, <1>1, ReadsNothingPreserves
<1>2. CASE /\ Takes("dhcp_read", DhcpPort)
           /\ Free(FirstPacket(connections, DhcpPort))
           /\ Returns
  <2> DEFINE p    == FirstPacket(connections, DhcpPort)
             kept == {}
             E    == {p}
  <2>1. /\ calls # <<>> /\ Head(calls) = Current /\ Carried(Current) = {} /\ index' = index
    BY <1>0, <1>2, TakesFirst
  <2>2. /\ calls' \in Seq(CallSet) /\ Distinct(calls') /\ Nested(calls')
        /\ PacketsOf(calls)' = PacketsOf(calls) \ {} /\ Roomy(calls', index')
    BY <1>2, <2>1, FirstReturns
  <2>3. held' = held \ E /\ tx_packets' = tx_packets
    BY <1>2, DriverTakes
  <2>4. /\ E \subseteq {p} /\ kept \subseteq {p} /\ E \cap kept = {} /\ E \cup kept = {p}
        /\ PacketsOf(calls)' = PacketsOf(calls) \cup kept
    BY <2>2
  <2> HIDE DEF E, kept
  <2>5. QED
    BY <1>0, <1>2, <2>2, <2>3, <2>4, TakesPreserves
<1>3. QED
  BY <1>1, <1>2 DEF DhcpRead

\* try_read_oack frees what it reads, unless it is too short.
LEMMA TftpReadsOackPreserves == SInv /\ TftpReadsOack => LInv'
<1> SUFFICES ASSUME SInv, TftpReadsOack PROVE LInv'
  OBVIOUS
<1>0. "tftp_read" \in Plain
  BY DEF Plain
<1>1. CASE ReadsNothing("tftp_read", TftpPort)
  BY <1>0, <1>1, ReadsNothingPreserves
<1>2. ASSUME NEW size \in DatagramSizes, Takes("tftp_read", TftpPort),
             IF size = "short" THEN NoDriver ELSE Free(FirstPacket(connections, TftpPort)),
             Returns
      PROVE  LInv'
  <2> DEFINE p    == FirstPacket(connections, TftpPort)
             kept == {}
             E    == IF size = "short" THEN {} ELSE {p}
  <2>1. /\ calls # <<>> /\ Head(calls) = Current /\ Carried(Current) = {} /\ index' = index
    BY <1>0, <1>2, TakesFirst
  <2>2. /\ calls' \in Seq(CallSet) /\ Distinct(calls') /\ Nested(calls')
        /\ PacketsOf(calls)' = PacketsOf(calls) \ {} /\ Roomy(calls', index')
    BY <1>2, <2>1, FirstReturns
  <2>3. held' = held \ E /\ tx_packets' = tx_packets
    BY <1>2, DriverTakes, DriverIdle
  <2>4. /\ E \subseteq {p} /\ kept \subseteq {p} /\ E \cap kept = {}
        /\ "short" \notin DatagramSizes => E \cup kept = {p}
        /\ PacketsOf(calls)' = PacketsOf(calls) \cup kept
    BY <2>2
  <2> HIDE DEF E, kept
  <2>5. QED
    BY <1>0, <1>2, <2>2, <2>3, <2>4, TakesPreserves
<1>3. QED
  BY <1>1, <1>2 DEF TftpReadsOack

\* try_read_data has the packet in hand until it frees it.
LEMMA TftpReadsDataPreserves == SInv /\ TftpReadsData => LInv'
<1> SUFFICES ASSUME SInv, TftpReadsData PROVE LInv'
  OBVIOUS
<1> DEFINE p     == FirstPacket(connections, TftpPort)
           frees == With("free", p)
<1>0. "tftp_read" \in Plain
  BY DEF Plain
<1>1. PICK ip \in Hosts :
        /\ Takes("tftp_read", TftpPort)
        /\ \/ Continues(<<frees>>)
           \/ Continues(<<frees, UdpSend(ip)>>)
           \/ Continues(<<UdpSend(ip), frees>>)
        /\ NoDriver
  BY DEF TftpReadsData
<1> DEFINE send == UdpSend(ip)
<1>2. /\ calls # <<>> /\ Head(calls) = Current /\ Carried(Current) = {}
      /\ Current.call = "tftp_read"
      /\ p \in held /\ p \in Packets /\ p \notin PacketsOf(calls)
      /\ index[p] >= 0 - Shortfall /\ index' = index
  BY <1>0, <1>1, TakesFirst
<1>3. PacketsOf(Tail(calls)) = {} /\ PacketsOf(calls) = {}
  BY <1>2, FirstCall DEF Outer
<1>4. /\ frees \in CallSet /\ Carried(frees) = {p} /\ frees.call \notin Outer
      /\ Needs(frees) = 0 - Shortfall
  BY <1>2, CallKinds, CallFields DEF InHand, Outer, Needs
<1>5. send \in CallSet /\ Carried(send) = {} /\ send.call \notin Outer
  BY CallKinds, CallFields DEF Destinations, Outer
<1> HIDE DEF p, frees, send
<1>6. /\ \A packet \in PacketsOf(Tail(calls)) : index'[packet] = index[packet]
      /\ \A packet \in Carried(frees) : index'[packet] >= Needs(frees)
      /\ \A packet \in Carried(send) : index'[packet] >= Needs(send)
      /\ Head(calls).call # "free_entry"
  BY <1>2, <1>3, <1>4, <1>5
<1>7. /\ calls' \in Seq(CallSet) /\ Distinct(calls') /\ Nested(calls')
      /\ PacketsOf(calls)' = {p} /\ Roomy(calls', index')
  <2>1. CASE Continues(<<frees>>)
    BY <1>2, <1>3, <1>4, <1>6, <2>1, FirstBecomes
  <2>2. CASE Continues(<<frees, send>>)
    BY <1>2, <1>3, <1>4, <1>5, <1>6, <2>2, FirstBecomesTwo
  <2>3. CASE Continues(<<send, frees>>)
    BY <1>2, <1>3, <1>4, <1>5, <1>6, <2>3, FirstBecomesTwo
  <2>4. QED
    BY <1>1, <2>1, <2>2, <2>3 DEF send
<1> DEFINE kept == {p}
           E    == {}
<1>8. /\ held' = held \ E /\ tx_packets' = tx_packets
      /\ E \subseteq {p} /\ kept \subseteq {p} /\ E \cap kept = {} /\ E \cup kept = {p}
      /\ PacketsOf(calls)' = PacketsOf(calls) \cup kept
  BY <1>1, <1>3, <1>7, DriverIdle
<1> HIDE DEF kept, E
<1>9. QED
  BY <1>0, <1>1, <1>7, <1>8, TakesPreserves DEF p

-----------------------------------------------------------------------------
(* The invariant holds. *)

\* After the inits the software has no packet.
LEMMA InitSInv == StackInit => SInv
<1> SUFFICES ASSUME StackInit PROVE SInv
  OBVIOUS
<1>1. IInv /\ held = {}
  BY InitIInv DEF StackInit, Init
<1>2. /\ calls = <<>> /\ DOMAIN calls = {} /\ calls \in Seq(CallSet)
  BY DEF StackInit
<1>3. /\ arp_entries \in [Entries -> ArpEntry]
      /\ \A h \in Entries : arp_entries[h].packet_queue = <<>> /\ arp_entries[h].packet_count = 0
  BY DEF StackInit, ArpEntry, ZeroEntry
<1>4. /\ connections \in Seq(Connection) /\ Len(connections) = 2
      /\ Counted(connections[1]) /\ Counted(connections[2])
      /\ connections[1].port = TftpPort /\ connections[1].max_packet_count = MaxPacketCount
      /\ connections[2].port = DhcpPort /\ connections[2].max_packet_count = 1
      /\ connections[1].packet_queue = <<>> /\ connections[2].packet_queue = <<>>
  <2> DEFINE a == NewConnection(TftpPort, MaxPacketCount)
             b == NewConnection(DhcpPort, 1)
  <2>1. /\ a \in Connection /\ Counted(a) /\ a.port = TftpPort
        /\ a.packet_queue = <<>> /\ a.max_packet_count = MaxPacketCount
    <3>1. /\ MaxPacketCount \in Nat /\ MaxPacketCount \in {MaxPacketCount, 1}
          /\ TftpPort \in {TftpPort, DhcpPort}
      BY StackAssumption
    <3>2. QED
      BY <3>1, NewConnectionCounted DEF Connection
  <2>2. /\ b \in Connection /\ Counted(b) /\ b.port = DhcpPort
        /\ b.packet_queue = <<>> /\ b.max_packet_count = 1
    BY NewConnectionCounted DEF Connection
  <2> HIDE DEF a, b
  <2>3. connections = <<a, b>>
    BY DEF StackInit, a, b
  <2>4. QED
    BY <2>1, <2>2, <2>3
<1>5. index \in [Packets -> Int] /\ \A packet \in Packets : index[packet] >= 0 - Shortfall
  BY StackAssumption, ShortfallNat DEF StackInit
<1>6. /\ PacketsOf(calls) = {} /\ Distinct(calls) /\ Nested(calls) /\ Roomy(calls, index)
  BY <1>2, NothingInHand
<1>7. Len(<<>>) = 0 /\ Range(<<>>) = {} /\ IsInjective(<<>>)
  BY DEF Range, IsInjective
<1>8. LayerTypes
  BY <1>2, <1>3, <1>4, <1>5, <1>7 DEF LayerTypes
<1>9. \A q \in Queues : QueueOf(q) = <<>>
  BY <1>3, <1>4, QueueNames
<1>10. Ownership /\ Complete
  BY <1>1, <1>6, <1>7, <1>9 DEF Ownership, Complete, QueuePackets
<1>11. RoomLeft
  <2>1. held \cup Range(tx_packets) \subseteq Packets
    BY <1>1 DEF IInv, TypeOK, Range
  <2>2. QED
    BY <1>5, <2>1 DEF RoomLeft
<1>12. ArpRoom
  BY <1>3, <1>7 DEF ArpRoom
<1>13. QInv
  <2>1. links \in Heap
    BY InitialRings DEF StackInit, Rings
  <2>2. Ordered(calls) /\ Sending
    BY <1>2 DEF Ordered, Sending
  <2>3. \A e \in Entries : CountHolds(arp_entries[e])
    <3> SUFFICES ASSUME NEW e \in Entries PROVE CountHolds(arp_entries[e])
      OBVIOUS
    <3>1. arp_entries[e].packet_count = 0 /\ arp_entries[e].packet_queue = <<>>
      BY <1>3
    <3>2. QED
      BY <1>7, <3>1 DEF CountHolds
  <2>4. QED
    BY <2>1, <2>2, <2>3 DEF QInv
<1>14. QED
  BY <1>1, <1>6, <1>8, <1>10, <1>11, <1>12, <1>13 DEF SInv, LInv

\* Every step of the software and of the engine keeps the packets in their places.
LEMMA NextLInv == SInv /\ [StackNext]_stackVars => LInv'
<1> SUFFICES ASSUME SInv, [StackNext]_stackVars PROVE LInv'
  OBVIOUS
<1>1. CASE UNCHANGED stackVars
  <2>1. UNCHANGED <<held, tx_packets, calls, tables, index>>
    BY <1>1 DEF stackVars, vars, software, txRing, layers, tables
  <2>2. QED
    BY <2>1, NothingMoves
<1>2. CASE Application \/ Hardware
  BY <1>2, ApplicationPreserves, HardwarePreserves
<1>3. CASE UdpSends \/ SendsArpPacket \/ MacSends
  BY <1>3, UdpSendsPreserves, SendsArpPacketPreserves, MacSendsPreserves
<1>4. ASSUME NEW ip \in Hosts \cup {Everybody},
             IpSendsAtOnce(ip) \/ IpSendWaits(ip) \/ IpSendAsks(ip)
      PROVE  LInv'
  BY <1>4, IpSendsAtOncePreserves, IpSendWaitsPreserves, IpSendAsksPreserves
<1>5. CASE ArpSendQueues
  BY <1>5, ArpSendQueuesPreserves
<1>6. CASE NetworkTaskReceives \/ NetworkTaskBreaks
  BY <1>6, NetworkTaskReceivesPreserves, NetworkTaskBreaksPreserves
<1>7. CASE HandleMac \/ HandleIp \/ HandleIcmp \/ HandleUdp \/ HandleArp
  BY <1>7, HandleMacPreserves, HandleIpPreserves, HandleIcmpPreserves, HandleUdpPreserves,
     HandleArpPreserves
<1>8. CASE FreePacket
  BY <1>8, DropsPreserves DEF FreePacket, InHand
<1>9. CASE SendPacketsOnEntry \/ FreeEntry \/ ArpTaskStarts \/ ArpTaskVisits
  BY <1>9, SendPacketsOnEntryPreserves, FreeEntryPreserves, ArpTaskStartsPreserves,
     ArpTaskVisitsPreserves
<1>10. CASE DhcpTask \/ DhcpRead \/ TftpReadsOack \/ TftpReadsData
  BY <1>10, DhcpTaskPreserves, DhcpReadPreserves, TftpReadsOackPreserves,
     TftpReadsDataPreserves
<1>11. QED
  BY <1>1, <1>2, <1>3, <1>4, <1>5, <1>6, <1>7, <1>8, <1>9, <1>10 DEF StackNext, Step

\* The first call returns: the one below it may have to do with the ARP table.
LEMMA OrderReturns ==
  ASSUME NEW s \in Seq(CallSet), s # <<>>, Ordered(s)
  PROVE  /\ Ordered(Tail(s)) /\ Range(Tail(s)) \subseteq Range(s)
         /\ \A k \in DOMAIN Tail(s) : Tail(s)[k].call \in OnTable =>
              k = 1 /\ Head(s).call \in Above(Tail(s)[k].call)
<1>1. /\ Len(s) \in Nat /\ Len(s) # 0 /\ DOMAIN s = 1 .. Len(s) /\ Head(s) = s[1]
      /\ DOMAIN Tail(s) = 1 .. Len(s) - 1
      /\ \A k \in 1 .. Len(s) - 1 : Tail(s)[k] = s[k + 1]
  OBVIOUS
<1>2. \A k \in DOMAIN Tail(s) : /\ k \in Nat \ {0} /\ k + 1 \in DOMAIN s /\ Tail(s)[k] = s[k + 1]
                                /\ k + 1 # 1 /\ (k + 1 = 2 => k = 1)
  BY <1>1
<1>3. \A k \in DOMAIN Tail(s) : Tail(s)[k].call \in OnTable =>
        k = 1 /\ Head(s).call \in Above(Tail(s)[k].call)
  BY <1>1, <1>2 DEF Ordered
<1>4. Range(Tail(s)) \subseteq Range(s)
  BY <1>2 DEF Range
<1>5. QED
  BY <1>3, <1>4 DEF Ordered

\* A call is made: the one below it may have to do with the ARP table.
LEMMA OrderMade ==
  ASSUME NEW S, NEW s \in Seq(S), NEW x, NEW t, t = <<x>> \o s,
         \A k \in DOMAIN s : s[k].call \in OnTable => k = 1 /\ x.call \in Above(s[k].call)
  PROVE  Ordered(t) /\ Range(t) \subseteq {x} \cup Range(s)
<1> DEFINE T == S \cup {x}
<1>1. s \in Seq(T) /\ x \in T
  OBVIOUS
<1> HIDE DEF T
<1>2. /\ Len(s) \in Nat /\ DOMAIN s = 1 .. Len(s) /\ DOMAIN t = 1 .. Len(s) + 1
      /\ t[1] = x /\ \A k \in 1 .. Len(s) : t[k + 1] = s[k]
  BY <1>1
<1>3. \A k \in DOMAIN t : k = 1 \/ (k - 1 \in DOMAIN s /\ t[k] = s[k - 1] /\ (k - 1 = 1 => k = 2))
  BY <1>2
<1>4. Range(t) \subseteq {x} \cup Range(s)
  BY <1>2, <1>3 DEF Range
<1>5. Ordered(t)
  <2>1. SUFFICES ASSUME NEW k \in DOMAIN t, t[k].call \in OnTable, k # 1
                 PROVE  k = 2 /\ t[1].call \in Above(t[k].call)
    BY DEF Ordered
  <2>2. QED
    BY <1>2, <1>3, <2>1
<1>6. QED
  BY <1>4, <1>5

\* Under a call of this name no call has to do with the ARP table.
Alone(name) == \A below \in OnTable : name \notin Above(below)

\* That is any name but those of the calls that may stand above one.
LEMMA AloneNames ==
  \A name : name \notin {"mac_send", "gmac_send", "send_arp_packet", "free_entry"} => Alone(name)
BY DEF Alone, Above, OnTable

\* The calls that have nothing to do with the table.
LEMMA OffTable ==
  \A name : name \notin {"send_packets_on_entry", "arp_task_at", "arp_send", "free_entry"} =>
               name \notin OnTable
BY DEF OnTable

\* A step makes the calls new in order.
InOrder(new) ==
  \/ UNCHANGED calls
  \/ calls = <<>> /\ calls' \in Seq(new) /\ \A x \in new : x.call \notin OnTable
  \/ calls # <<>> /\ Returns
  \/ \E x \in new :
       /\ calls # <<>> /\ Continues(<<x>>)
       /\ \A below \in OnTable :
            Head(calls).call \in Above(below) => x.call \in Above(below)
  \/ \E x, y \in new :
       /\ calls # <<>> /\ Continues(<<x, y>>) /\ Alone(Head(calls).call)
       /\ y.call \in OnTable => x.call \in Above(y.call)
  \/ \E x \in new :
       /\ calls # <<>> /\ calls' = <<x>> \o calls /\ Alone(Head(calls).call)
       /\ Head(calls).call \in OnTable => x.call \in Above(Head(calls).call)

\* The new calls come in order above those that remain.
LEMMA OrderKept ==
  ASSUME SInv, NEW new, InOrder(new)
  PROVE  Ordered(calls') /\ Range(calls') \subseteq new \cup Range(calls)
<1> DEFINE rest == Tail(calls)
<1>0. calls \in Seq(CallSet) /\ Ordered(calls)
  BY DEF SInv, LInv, LayerTypes, QInv
<1>1. CASE UNCHANGED calls
  BY <1>0, <1>1
<1>2. CASE calls' \in Seq(new) /\ \A x \in new : x.call \notin OnTable
  BY <1>2 DEF Ordered, Range
<1>3. ASSUME calls # <<>>
      PROVE  /\ rest \in Seq(CallSet) /\ Ordered(rest) /\ Range(rest) \subseteq Range(calls)
             /\ \A k \in DOMAIN rest : rest[k].call \in OnTable =>
                  k = 1 /\ Head(calls).call \in Above(rest[k].call)
  BY <1>0, <1>3, OrderReturns
<1>4. CASE calls # <<>> /\ Returns
  <2>1. calls' = rest
    BY <1>3, <1>4 DEF Returns, Continues
  <2>2. QED
    BY <1>3, <1>4, <2>1
<1> HIDE DEF rest
<1>5. ASSUME NEW x \in new, calls # <<>>, Continues(<<x>>),
             \A below \in OnTable : Head(calls).call \in Above(below) => x.call \in Above(below)
      PROVE  Ordered(calls') /\ Range(calls') \subseteq new \cup Range(calls)
  <2>1. calls' = <<x>> \o rest
    BY <1>5 DEF Continues, rest
  <2>2. \A k \in DOMAIN rest : rest[k].call \in OnTable => k = 1 /\ x.call \in Above(rest[k].call)
    BY <1>3, <1>5
  <2>3. Ordered(calls') /\ Range(calls') \subseteq {x} \cup Range(rest)
    BY <1>3, <1>5, <2>1, <2>2, OrderMade
  <2>4. QED
    BY <1>3, <1>5, <2>3
<1>6. ASSUME NEW x \in new, NEW y \in new, calls # <<>>, Continues(<<x, y>>),
             Alone(Head(calls).call), y.call \in OnTable => x.call \in Above(y.call)
      PROVE  Ordered(calls') /\ Range(calls') \subseteq new \cup Range(calls)
  <2> DEFINE more == <<y>> \o rest
             S    == CallSet \cup {x, y}
  <2>0. rest \in Seq(S) /\ x \in S /\ y \in S
    BY <1>3, <1>6
  <2>1. calls' = <<x>> \o more
    <3> HIDE DEF S
    <3>1. <<x, y>> \o rest = <<x>> \o (<<y>> \o rest)
      BY <2>0, TwoInFront
    <3>2. QED
      BY <1>6, <3>1 DEF Continues, rest
  <2>2. \A k \in DOMAIN rest : rest[k].call \notin OnTable
    BY <1>3, <1>6 DEF Alone
  <2> HIDE DEF S
  <2>3. /\ more \in Seq(S) /\ Len(rest) \in Nat /\ DOMAIN rest = 1 .. Len(rest)
        /\ DOMAIN more = 1 .. Len(rest) + 1
        /\ more[1] = y /\ \A k \in 1 .. Len(rest) : more[k + 1] = rest[k]
    BY <2>0
  <2> HIDE DEF more
  <2>4. \A k \in DOMAIN more : k = 1 \/ (k - 1 \in DOMAIN rest /\ more[k] = rest[k - 1])
    BY <2>3
  <2>5. \A k \in DOMAIN more : more[k].call \in OnTable => k = 1 /\ x.call \in Above(more[k].call)
    BY <1>6, <2>2, <2>3, <2>4
  <2>6. Range(more) \subseteq {y} \cup Range(rest)
    BY <2>3, <2>4 DEF Range
  <2>7. Ordered(calls') /\ Range(calls') \subseteq {x} \cup Range(more)
    BY <2>1, <2>3, <2>5, OrderMade
  <2>8. QED
    BY <1>3, <1>6, <2>6, <2>7
<1>7. ASSUME NEW x \in new, calls # <<>>, calls' = <<x>> \o calls, Alone(Head(calls).call),
             Head(calls).call \in OnTable => x.call \in Above(Head(calls).call)
      PROVE  Ordered(calls') /\ Range(calls') \subseteq new \cup Range(calls)
  <2>1. /\ Len(calls) \in Nat /\ DOMAIN calls = 1 .. Len(calls) /\ Head(calls) = calls[1]
        /\ DOMAIN calls # {}
    BY <1>0, <1>7
  <2>2. \A k \in DOMAIN calls : calls[k].call \in OnTable => k = 1
    BY <1>0, <1>7, <2>1 DEF Ordered, Alone
  <2>3. \A k \in DOMAIN calls : calls[k].call \in OnTable => k = 1 /\ x.call \in Above(calls[k].call)
    BY <1>7, <2>1, <2>2
  <2>4. Ordered(calls') /\ Range(calls') \subseteq {x} \cup Range(calls)
    BY <1>0, <1>7, <2>3, OrderMade
  <2>5. QED
    BY <1>7, <2>4
<1>8. QED
  BY <1>1, <1>2, <1>4, <1>5, <1>6, <1>7 DEF InOrder

\* The calls to send_packets_on_entry among the calls s.
SendsOnEntry(s) == {x \in Range(s) : x.call = "send_packets_on_entry"}

\* A step that changes at most the ARP entry h, and keeps a valid mapping.
LEMMA TableKept ==
  ASSUME SInv, Ordered(calls'), links' \in Heap,
         \/ UNCHANGED arp_entries
         \/ \E h \in Entries, entry \in ArpEntry :
              /\ arp_entries' = [arp_entries EXCEPT ![h] = entry] /\ CountHolds(entry)
              /\ arp_entries[h].contain_valid_mapping => entry.contain_valid_mapping,
         \A x \in SendsOnEntry(calls') : x \in Range(calls) \/ arp_entries'[x.entry].contain_valid_mapping
  PROVE  QInv'
<1>1. /\ calls \in Seq(CallSet) /\ arp_entries \in [Entries -> ArpEntry]
      /\ Sending /\ \A e \in Entries : CountHolds(arp_entries[e])
  BY DEF SInv, LInv, LayerTypes, QInv
<1>2. \A e \in Entries :
        /\ CountHolds(arp_entries'[e])
        /\ arp_entries[e].contain_valid_mapping => arp_entries'[e].contain_valid_mapping
  BY <1>1
<1>3. \A x \in SendsOnEntry(calls) : x.entry \in Entries /\ arp_entries[x.entry].contain_valid_mapping
  <2>1. ASSUME NEW k \in DOMAIN calls, calls[k].call = "send_packets_on_entry"
        PROVE  calls[k].entry \in Entries /\ arp_entries[calls[k].entry].contain_valid_mapping
    <3>1. calls[k] \in CallSet
      BY <1>1
    <3>2. QED
      BY <1>1, <2>1, <3>1, CallShape DEF Sending, Entry
  <2>2. QED
    BY <2>1 DEF SendsOnEntry, Range
<1>4. Sending'
  <2>1. SUFFICES ASSUME NEW k \in DOMAIN calls', calls'[k].call = "send_packets_on_entry"
                 PROVE  arp_entries'[calls'[k].entry].contain_valid_mapping
    BY DEF Sending
  <2>2. calls'[k] \in SendsOnEntry(calls')
    BY <2>1 DEF SendsOnEntry, Range
  <2>3. calls'[k] \in Range(calls) => calls'[k] \in SendsOnEntry(calls)
    BY <2>1 DEF SendsOnEntry
  <2>4. QED
    BY <1>2, <1>3, <2>2, <2>3
<1>5. \A e \in Entries : CountHolds(arp_entries[e])'
  BY <1>2
<1>6. QED
  BY <1>4, <1>5 DEF QInv

\* A step that leaves the ARP table alone, and makes no call that will not.
Other(new) == \A x \in new : x.call \notin OnTable

Quiet == /\ UNCHANGED <<arp_entries, links>>
         /\ \E new : InOrder(new) /\ Other(new)

\* As long as no packets are going to be sent on an entry, QInv is kept.
LEMMA QuietPreserves ==
  ASSUME SInv, NEW new, InOrder(new), \A x \in new : x.call # "send_packets_on_entry",
         UNCHANGED <<arp_entries, links>>
  PROVE  QInv'
<1>1. Ordered(calls') /\ Range(calls') \subseteq new \cup Range(calls)
  BY OrderKept
<1>2. links' \in Heap
  BY DEF SInv, QInv
<1>3. \A x \in SendsOnEntry(calls') : x \in Range(calls)
  BY <1>1 DEF SendsOnEntry
<1>4. QED
  BY <1>1, <1>2, <1>3, TableKept

\* A step that leaves the table and its calls alone keeps their invariant.
LEMMA QuietKeeps == SInv /\ Quiet => QInv'
<1> SUFFICES ASSUME SInv, Quiet PROVE QInv'
  OBVIOUS
<1>1. PICK new : InOrder(new) /\ Other(new)
  BY DEF Quiet
<1>2. \A x \in new : x.call # "send_packets_on_entry"
  BY <1>1 DEF Other, OnTable
<1>3. QED
  BY <1>1, <1>2, QuietPreserves DEF Quiet

\* The steps that leave the ARP table alone.
LEMMA RunningName == \A name : Runs(name) => calls # <<>> /\ Head(calls).call = name
BY DEF Runs

\* A call that is made again under another name, or makes a second one.
LEMMA BecomesInOrder ==
  ASSUME NEW name, Runs(name), NEW x,
         \A below \in OnTable : name \in Above(below) => x.call \in Above(below),
         Returns \/ Continues(<<x>>) \/ UNCHANGED calls
  PROVE  InOrder({x})
BY RunningName DEF InOrder

\* Two calls take the place of one, the first of them made by the second.
LEMMA SecondInOrder ==
  ASSUME NEW name, Runs(name), Alone(name), NEW x, NEW y,
         y.call \in OnTable => x.call \in Above(y.call),
         Continues(<<x, y>>)
  PROVE  InOrder({x, y})
BY RunningName DEF InOrder

\* Sending a packet and receiving one.
LEMMA SendingQuiet ==
  SInv /\ (UdpSends \/ SendsArpPacket \/ MacSends
             \/ \E ip \in Hosts \cup {Everybody} : IpSendsAtOnce(ip)) => Quiet
<1> SUFFICES ASSUME SInv,
                    UdpSends \/ SendsArpPacket \/ MacSends
                      \/ \E ip \in Hosts \cup {Everybody} : IpSendsAtOnce(ip)
             PROVE  Quiet
  OBVIOUS
<1>1. UNCHANGED <<arp_entries, links>>
  BY DEF UdpSends, SendsArpPacket, Allocates, MacSends, IpSendsAtOnce, layers
<1>2. ASSUME NEW name, Runs(name), NEW x, x.call \notin OnTable,
             \A below \in OnTable : name \in Above(below) => x.call \in Above(below),
             Returns \/ Continues(<<x>>) \/ UNCHANGED calls
      PROVE  Quiet
  <2>1. InOrder({x}) /\ Other({x})
    BY <1>2, BecomesInOrder DEF Other
  <2>2. QED
    BY <1>1, <2>1 DEF Quiet
<1>3. CASE UdpSends
  <2>1. PICK packet \in Packets :
          /\ Runs("udp_send")
          /\ UNCHANGED calls \/ Continues(<<IpSend(packet, Current.ip)>>)
    BY <1>3 DEF UdpSends, Allocates
  <2>2. \A below \in OnTable : "udp_send" \notin Above(below)
    BY DEF OnTable, Above
  <2>3. IpSend(packet, Current.ip).call \notin OnTable
    BY CallFields, OffTable
  <2>4. QED
    BY <1>2, <2>1, <2>2, <2>3
<1>4. CASE SendsArpPacket
  <2>1. PICK packet \in Packets :
          /\ Runs("send_arp_packet")
          /\ UNCHANGED calls \/ Continues(<<With("mac_send", packet)>>)
    BY <1>4 DEF SendsArpPacket, Allocates
  <2>2. With("mac_send", packet).call = "mac_send"
    BY CallFields
  <2>3. \A below \in OnTable : "send_arp_packet" \in Above(below) => "mac_send" \in Above(below)
    BY DEF OnTable, Above
  <2>4. QED
    BY <1>2, <2>1, <2>2, <2>3, OffTable
<1>5. CASE MacSends
  <2>1. /\ Runs("mac_send")
        /\ Returns \/ Continues(<<With("gmac_send", Current.packet)>>)
    BY <1>5 DEF MacSends
  <2>2. With("gmac_send", Current.packet).call = "gmac_send"
    BY CallFields
  <2>3. \A below \in OnTable : "mac_send" \in Above(below) => "gmac_send" \in Above(below)
    BY DEF OnTable, Above
  <2>4. QED
    BY <1>2, <2>1, <2>2, <2>3, OffTable
<1>6. ASSUME NEW ip, IpSendsAtOnce(ip)
      PROVE  Quiet
  <2>1. Runs("ip_send") /\ Continues(<<With("mac_send", Current.packet)>>)
    BY <1>6 DEF IpSendsAtOnce, IpSends
  <2>2. With("mac_send", Current.packet).call = "mac_send"
    BY CallFields
  <2>3. \A below \in OnTable : "ip_send" \notin Above(below)
    BY DEF OnTable, Above
  <2>4. QED
    BY <1>2, <2>1, <2>2, <2>3, OffTable
<1>7. QED
  BY <1>3, <1>4, <1>5, <1>6

\* Handlers.
LEMMA DropsQuiet ==
  ASSUME SInv, NEW name, Drops(name)
  PROVE  Quiet
<1> DEFINE new == {}
<1>1. InOrder(new) /\ Other(new) /\ UNCHANGED <<arp_entries, links>>
  BY RunningName DEF Drops, Driver, layers, InOrder, Other
<1> HIDE DEF new
<1>2. QED
  BY <1>1 DEF Quiet

\* A packet passed to the next layer leaves the table alone,
LEMMA PassesQuiet ==
  ASSUME SInv, NEW name, Alone(name), NEW next, next \notin OnTable, NEW size,
         Passes(name, next, size)
  PROVE  Quiet
<1> DEFINE x == With(next, Current.packet)
<1>1. Runs(name) /\ Continues(<<x>>) /\ UNCHANGED <<arp_entries, links>>
  BY DEF Passes, layers
<1>2. x.call = next
  BY CallFields
<1> HIDE DEF x
<1>3. InOrder({x}) /\ Other({x})
  BY <1>1, <1>2, BecomesInOrder DEF Alone, Other
<1>4. QED
  BY <1>1, <1>3 DEF Quiet

\* and so do the handlers that receive it, pass it on or drop it.
LEMMA HandlingQuiet ==
  SInv /\ (NetworkTaskReceives \/ NetworkTaskBreaks \/ HandleMac \/ HandleIp \/ HandleIcmp
             \/ HandleUdp \/ FreePacket) => Quiet
<1> SUFFICES ASSUME SInv,
                    NetworkTaskReceives \/ NetworkTaskBreaks \/ HandleMac \/ HandleIp
                      \/ HandleIcmp \/ HandleUdp \/ FreePacket
             PROVE  Quiet
  OBVIOUS
<1>1. CASE NetworkTaskReceives
  <2> DEFINE x == With("handle_mac", rx_packets[rx_index])
             y == Receiving(Current.left - 1)
  <2>1. /\ Runs("network_task")
        /\ UNCHANGED calls \/ Continues(<<x, y>>)
        /\ UNCHANGED <<arp_entries, links>>
    BY <1>1 DEF NetworkTaskReceives, layers
  <2>2. x.call = "handle_mac" /\ y.call = "network_task" /\ "network_task" \notin OnTable
    BY CallFields DEF OnTable
  <2>3. Alone("network_task")
    BY AloneNames
  <2> HIDE DEF x, y
  <2>4. CASE UNCHANGED calls
    <3>1. InOrder({x, y}) /\ Other({x, y})
      BY <2>2, <2>4, OffTable DEF InOrder, Other
    <3>2. QED
      BY <2>1, <3>1 DEF Quiet
  <2>5. CASE Continues(<<x, y>>)
    <3>1. InOrder({x, y}) /\ Other({x, y})
      BY <2>1, <2>2, <2>3, <2>5, SecondInOrder, OffTable DEF Other
    <3>2. QED
      BY <2>1, <3>1 DEF Quiet
  <2>6. QED
    BY <2>1, <2>4, <2>5
<1>2. CASE NetworkTaskBreaks
  <2> DEFINE new == {}
  <2>1. InOrder(new) /\ Other(new) /\ UNCHANGED <<arp_entries, links>>
    BY <1>2, RunningName DEF NetworkTaskBreaks, layers, InOrder, Other
  <2> HIDE DEF new
  <2>2. QED
    BY <2>1 DEF Quiet
<1>3. CASE HandleMac
  BY <1>3, DropsQuiet, PassesQuiet, AloneNames, OffTable DEF HandleMac
<1>4. CASE HandleIp
  BY <1>4, DropsQuiet, PassesQuiet, AloneNames, OffTable DEF HandleIp
<1>5. CASE HandleIcmp
  <2>1. ASSUME NEW ip, Runs("handle_icmp"), Continues(<<IpSend(Current.packet, ip)>>),
               UNCHANGED layers
        PROVE  Quiet
    <3> DEFINE x == IpSend(Current.packet, ip)
    <3>1. x.call = "ip_send" /\ Alone("handle_icmp") /\ UNCHANGED <<arp_entries, links>>
      BY <2>1, CallFields, AloneNames DEF layers
    <3> HIDE DEF x
    <3>2. InOrder({x}) /\ Other({x})
      BY <2>1, <3>1, BecomesInOrder, OffTable DEF Alone, Other, x
    <3>3. QED
      BY <3>1, <3>2 DEF Quiet
  <2>2. QED
    BY <1>5, <2>1, DropsQuiet DEF HandleIcmp
<1>6. CASE HandleUdp
  <2>1. ASSUME Runs("handle_udp"), Returns, UNCHANGED <<links, arp_entries>>
        PROVE  Quiet
    <3> DEFINE new == {}
    <3>1. InOrder(new) /\ Other(new)
      BY <2>1, RunningName DEF InOrder, Other
    <3> HIDE DEF new
    <3>2. QED
      BY <2>1, <3>1 DEF Quiet
  <2>2. QED
    BY <1>6, <2>1, DropsQuiet DEF HandleUdp
<1>7. CASE FreePacket
  BY <1>7, DropsQuiet DEF FreePacket
<1>8. QED
  BY <1>1, <1>2, <1>3, <1>4, <1>5, <1>6, <1>7

\* The main loop and the clients.
LEMMA ClientsQuiet ==
  SInv /\ (Application \/ Hardware \/ DhcpTask \/ DhcpRead \/ TftpReadsOack \/ TftpReadsData)
    => Quiet
<1> SUFFICES ASSUME SInv,
                    Application \/ Hardware \/ DhcpTask \/ DhcpRead
                      \/ TftpReadsOack \/ TftpReadsData
             PROVE  Quiet
  OBVIOUS
<1>1. UNCHANGED <<arp_entries, links>>
  BY DEF Application, Hardware, DhcpTask, DhcpRead, TftpReadsOack,
         TftpReadsData, ReadsNothing, Takes, Driver, layers
<1> DEFINE none == {}
<1>2. CASE UNCHANGED calls
  <2>1. InOrder(none) /\ Other(none)
    BY <1>2 DEF InOrder, Other
  <2> HIDE DEF none
  <2>2. QED
    BY <1>1, <2>1 DEF Quiet
<1>3. CASE calls # <<>> /\ Returns
  <2>1. InOrder(none) /\ Other(none)
    BY <1>3 DEF InOrder, Other
  <2> HIDE DEF none
  <2>2. QED
    BY <1>1, <2>1 DEF Quiet
<1>4. ASSUME NEW name, Runs(name), Alone(name), NEW x, x.call \notin OnTable,
             Continues(<<x>>)
      PROVE  Quiet
  <2>1. InOrder({x}) /\ Other({x})
    BY <1>4, BecomesInOrder DEF Alone, Other
  <2>2. QED
    BY <1>1, <2>1 DEF Quiet
<1>5. ASSUME NEW name, Runs(name), Alone(name), NEW x, NEW y,
             x.call \notin OnTable, y.call \notin OnTable, Continues(<<x, y>>)
      PROVE  Quiet
  <2>1. InOrder({x, y}) /\ Other({x, y})
    BY <1>5, SecondInOrder DEF Other
  <2>2. QED
    BY <1>1, <2>1 DEF Quiet
<1>6. CASE Application
  <2> DEFINE new == {Receiving(RxCount), Call("arp_task"), Call("dhcp_task"), Call("tftp_read")}
                      \cup {UdpSend(ip) : ip \in Hosts \cup {Everybody}}
  <2>1. \A x \in new : x.call \in {"network_task", "arp_task", "dhcp_task", "tftp_read", "udp_send"}
    BY CallFields
  <2>2. calls = <<>> /\ calls' \in Seq(new)
    <3>0. calls = <<>>
      BY <1>6 DEF Application
    <3>1. ASSUME NEW x \in new, NEW y \in new, NEW z \in new,
                 calls' = <<x, y, z>> \/ calls' = <<x, y>> \/ calls' = <<x>>
          PROVE  calls' \in Seq(new)
      <4> HIDE DEF new
      <4>1. CASE calls' = <<x, y, z>>
        BY <4>1
      <4>2. CASE calls' = <<x, y>>
        BY <4>2
      <4>3. CASE calls' = <<x>>
        BY <4>3
      <4>4. QED
        BY <3>1, <4>1, <4>2, <4>3
    <3>2. /\ Receiving(RxCount) \in new /\ Call("arp_task") \in new
          /\ Call("dhcp_task") \in new /\ Call("tftp_read") \in new
          /\ \A ip \in Hosts \cup {Everybody} : UdpSend(ip) \in new
          /\ Hosts \subseteq Hosts \cup {Everybody}
      OBVIOUS
    <3> HIDE DEF new
    <3>3. CASE calls' = <<Receiving(RxCount), Call("arp_task"), Call("dhcp_task")>>
      BY <3>0, <3>1, <3>2, <3>3
    <3>4. CASE calls' = <<Call("tftp_read")>>
      BY <3>0, <3>1, <3>2, <3>4
    <3>5. CASE \E ip \in Hosts : calls' = <<UdpSend(ip), Call("tftp_read")>>
      BY <3>0, <3>1, <3>2, <3>5
    <3>6. CASE \E ip \in Hosts \cup {Everybody} : calls' = <<UdpSend(ip)>>
      BY <3>0, <3>1, <3>2, <3>6
    <3>7. QED
      BY <1>6, <3>3, <3>4, <3>5, <3>6 DEF Application
  <2> HIDE DEF new
  <2>3. InOrder(new) /\ Other(new)
    BY <2>1, <2>2 DEF InOrder, Other, OnTable
  <2>4. QED
    BY <1>1, <2>3 DEF Quiet
<1>7. CASE Hardware
  BY <1>2, <1>7 DEF Hardware
<1>8. CASE DhcpTask
  <2> DEFINE reads == Call("dhcp_read")
             sends == UdpSend(Everybody)
  <2>1. /\ Runs("dhcp_task") /\ Alone("dhcp_task")
        /\ Returns \/ Continues(<<reads>>) \/ Continues(<<sends, reads>>)
    BY <1>8, AloneNames DEF DhcpTask
  <2>2. reads.call = "dhcp_read" /\ sends.call = "udp_send" /\ "dhcp_read" \notin OnTable
    BY CallFields DEF OnTable
  <2> HIDE DEF reads, sends
  <2>3. QED
    BY <1>3, <1>4, <1>5, <2>1, <2>2, RunningName, OffTable
<1>9. CASE DhcpRead \/ TftpReadsOack
  <2>1. calls # <<>> /\ Returns
    BY <1>9, RunningName DEF DhcpRead, TftpReadsOack, ReadsNothing, Takes
  <2>2. QED
    BY <1>3, <2>1
<1>10. CASE TftpReadsData
  <2> DEFINE frees == With("free", FirstPacket(connections, TftpPort))
  <2>1. PICK ip \in Hosts :
          /\ Runs("tftp_read") /\ Alone("tftp_read")
          /\ \/ Continues(<<frees>>) \/ Continues(<<frees, UdpSend(ip)>>)
             \/ Continues(<<UdpSend(ip), frees>>)
    BY <1>10, AloneNames DEF TftpReadsData, Takes
  <2>2. /\ frees.call = "free" /\ UdpSend(ip).call = "udp_send"
        /\ "free" \notin OnTable /\ "udp_send" \notin OnTable
    BY CallFields DEF OnTable
  <2> HIDE DEF frees
  <2>3. QED
    BY <1>4, <1>5, <2>1, <2>2
<1>11. QED
  BY <1>6, <1>7, <1>8, <1>9, <1>10

\* arp_task goes over the entries.
LEMMA ArpTaskOrder ==
  SInv /\ (ArpTaskStarts \/ ArpTaskVisits) => QInv'
<1> SUFFICES ASSUME SInv, ArpTaskStarts \/ ArpTaskVisits PROVE QInv'
  OBVIOUS
<1>1. UNCHANGED <<arp_entries, links>>
  BY DEF ArpTaskStarts, ArpTaskVisits, layers
<1> DEFINE none == {}
<1>2. ASSUME calls # <<>>, Returns
      PROVE  QInv'
  <2>1. InOrder(none) /\ \A x \in none : x.call # "send_packets_on_entry"
    BY <1>2 DEF InOrder
  <2> HIDE DEF none
  <2>2. QED
    BY <1>1, <2>1, QuietPreserves
<1>3. ASSUME NEW name, Runs(name), Alone(name), NEW x, x.call # "send_packets_on_entry",
             Continues(<<x>>)
      PROVE  QInv'
  <2>1. InOrder({x})
    BY <1>3, BecomesInOrder DEF Alone
  <2>2. QED
    BY <1>1, <1>3, <2>1, QuietPreserves
<1>4. ASSUME NEW name, Runs(name), Alone(name), NEW x, NEW y,
             x.call # "send_packets_on_entry", y.call # "send_packets_on_entry",
             y.call \in OnTable => x.call \in Above(y.call), Continues(<<x, y>>)
      PROVE  QInv'
  <2>1. InOrder({x, y})
    BY <1>4, SecondInOrder
  <2>2. QED
    BY <1>1, <1>4, <2>1, QuietPreserves
<1>5. CASE ArpTaskStarts
  BY <1>3, <1>5, AloneNames, CallFields DEF ArpTaskStarts
<1>6. CASE ArpTaskVisits
  <2> DEFINE later == ArpTaskAt(NextNode(Current.node))
             frees == OnEntry("free_entry", Current.node)
             asks  == Call("send_arp_packet")
  <2>1. /\ Runs("arp_task_at") /\ Alone("arp_task_at")
        /\ \/ Returns \/ Continues(<<later>>)
           \/ Continues(<<frees, later>>) \/ Continues(<<asks, later>>)
    BY <1>6, AloneNames DEF ArpTaskVisits
  <2>2. /\ later.call = "arp_task_at" /\ frees.call = "free_entry" /\ asks.call = "send_arp_packet"
        /\ {"free_entry", "send_arp_packet"} \subseteq Above("arp_task_at")
    BY CallFields DEF Above
  <2> HIDE DEF later, frees, asks
  <2>3. CASE Returns
    BY <1>2, <2>1, <2>3, RunningName
  <2>4. CASE Continues(<<later>>)
    BY <1>3, <2>1, <2>2, <2>4
  <2>5. CASE Continues(<<frees, later>>)
    BY <1>4, <2>1, <2>2, <2>5
  <2>6. CASE Continues(<<asks, later>>)
    BY <1>4, <2>1, <2>2, <2>6
  <2>7. QED
    BY <2>1, <2>3, <2>4, <2>5, <2>6
<1>7. QED
  BY <1>5, <1>6

\* The steps that change the ARP table or its lists.
LEMMA IpSendsTable ==
  ASSUME SInv, NEW ip, IpSendWaits(ip) \/ IpSendAsks(ip)
  PROVE  QInv'
<1>0. Runs("ip_send") /\ Alone("ip_send")
  BY AloneNames DEF IpSendWaits, IpSendAsks, IpSends
<1>1. CASE IpSendWaits(ip)
  <2> DEFINE p     == Current.packet
             h     == Find(ip)
             entry == Queued(arp_entries[h], p)
             none  == {}
  <2>1. /\ IpSends(ip) /\ h \in Entries /\ ~arp_entries[h].contain_valid_mapping
        /\ arp_entries' = [arp_entries EXCEPT ![h] = entry]
        /\ Returns /\ links' = links
    BY <1>1 DEF IpSendWaits, Awaited
  <2> HIDE DEF h
  <2>2. p \in Packets /\ p \notin Range(arp_entries[h].packet_queue)
    BY <2>1, IpSendMoves
  <2>3. /\ arp_entries[h] \in ArpEntry /\ CountHolds(arp_entries[h])
        /\ IsInjective(arp_entries[h].packet_queue)
    BY <2>1, EntryFields
  <2>4. entry \in ArpEntry /\ CountHolds(entry)
    BY <2>1, <2>2, <2>3, QueuedEntry
  <2>5. InOrder(none)
    BY <1>0, <2>1, RunningName DEF InOrder
  <2> HIDE DEF entry, none
  <2>6. Ordered(calls') /\ Range(calls') \subseteq none \cup Range(calls)
    BY <2>5, OrderKept
  <2>7. links' \in Heap /\ \A x \in SendsOnEntry(calls') : x \in Range(calls)
    BY <2>1, <2>6 DEF SInv, QInv, SendsOnEntry, none
  <2>8. QED
    BY <2>1, <2>4, <2>6, <2>7, TableKept
<1>2. CASE IpSendAsks(ip)
  <2>1. PICK h \in Entries :
          /\ \/ Continues(<<OnEntry("free_entry", h), ArpSend(Current.packet, ip, h)>>)
                /\ UNCHANGED links
             \/ Continues(<<ArpSend(Current.packet, ip, h)>>) /\ links' = ListRemove(links, h)
          /\ UNCHANGED arp_entries
    BY <1>2 DEF IpSendAsks
  <2> DEFINE x == OnEntry("free_entry", h)
             y == ArpSend(Current.packet, ip, h)
  <2>2. x.call = "free_entry" /\ y.call = "arp_send" /\ "free_entry" \in Above("arp_send")
    BY CallFields DEF Above
  <2> HIDE DEF x, y
  <2>3. Continues(<<x, y>>) \/ Continues(<<y>>)
    BY <2>1 DEF x, y
  <2>4. InOrder({x, y})
    <3>1. CASE Continues(<<x, y>>)
      BY <1>0, <2>2, <3>1, SecondInOrder
    <3>2. CASE Continues(<<y>>)
      BY <1>0, <3>2, RunningName DEF InOrder, Alone
    <3>3. QED
      BY <2>3, <3>1, <3>2
  <2>5. Ordered(calls') /\ Range(calls') \subseteq {x, y} \cup Range(calls)
    BY <2>4, OrderKept
  <2>6. links' \in Heap
    <3>1. links \in Heap /\ h \in Nodes
      BY HeadFacts DEF SInv, QInv
    <3>2. QED
      BY <2>1, <3>1, RemovedHeap
  <2>7. \A z \in SendsOnEntry(calls') : z \in Range(calls)
    BY <2>2, <2>5 DEF SendsOnEntry
  <2>8. QED
    BY <2>1, <2>5, <2>6, <2>7, TableKept
<1>3. QED
  BY <1>1, <1>2

\* The rest of arp_send: the entry it took is linked and counts its one packet.
LEMMA ArpSendTable == SInv /\ ArpSendQueues => QInv'
<1> SUFFICES ASSUME SInv, ArpSendQueues PROVE QInv'
  OBVIOUS
<1> DEFINE p     == Current.packet
           h     == Current.entry
           ip    == Current.ip
           entry == SetUp(arp_entries[h], ip, p)
           x     == Call("send_arp_packet")
<1>1. /\ Runs("arp_send") /\ Alone("arp_send") /\ arp_entries' = [arp_entries EXCEPT ![h] = entry]
      /\ Continues(<<x>>) /\ links' = ListAddLast(links, h, USED)
  BY AloneNames DEF ArpSendQueues
<1>2. /\ calls # <<>> /\ Head(calls) = Current /\ Current.call = "arp_send"
      /\ p \in Packets /\ Carried(Current) = {p} /\ h \in Entries /\ ip \in Hosts
  BY <1>1, RunningCall DEF Sends
<1>3. \A q \in Queues : p \notin QueuePackets(q)
  BY <1>2, FirstCall
<1> HIDE DEF h, ip, p
<1>4. /\ arp_entries \in [Entries -> ArpEntry] /\ arp_entries[h] \in ArpEntry
      /\ IsInjective(arp_entries[h].packet_queue) /\ p \notin Range(arp_entries[h].packet_queue)
      /\ \A e \in Entries : CountHolds(arp_entries[e])
  BY <1>2, <1>3, EntryFields, QueueNames DEF QueuePackets, SInv, QInv
<1> DEFINE old == arp_entries[h]
<1> HIDE DEF old
<1>5. entry \in ArpEntry /\ CountHolds(entry)
  <2>1. /\ old \in ArpEntry /\ IsInjective(old.packet_queue) /\ p \notin Range(old.packet_queue)
    BY <1>4 DEF old
  <2>2. LET later == SetUp(old, ip, p) IN later \in ArpEntry /\ CountHolds(later)
    <3> HIDE DEF entry
    <3>1. QED
      BY <1>2, <2>1, SetUpEntry
  <2>3. QED
    BY <2>2 DEF old
<1>6. x.call = "send_arp_packet"
  BY CallFields
<1> HIDE DEF entry, x
<1>7. \A e \in Entries : CountHolds(arp_entries'[e])
  BY <1>1, <1>2, <1>4, <1>5
<1>8. Ordered(calls')
  <2>1. InOrder({x})
    BY <1>1, BecomesInOrder DEF Alone
  <2>2. QED
    BY <2>1, OrderKept
<1>9. Sending'
  <2>1. /\ calls \in Seq(CallSet) /\ Ordered(calls)
    BY DEF SInv, LInv, LayerTypes, QInv
  <2>2. /\ Tail(calls) \in Seq(CallSet)
        /\ \A k \in DOMAIN Tail(calls) : Tail(calls)[k].call \notin OnTable
    BY <1>1, <1>2, <2>1, OrderReturns DEF Alone
  <2> DEFINE rest == Tail(calls)
             S    == CallSet \cup {x}
  <2>3. rest \in Seq(S) /\ x \in S /\ calls' = <<x>> \o rest
    BY <1>1, <2>2 DEF Continues
  <2>4. \A k \in DOMAIN rest : rest[k].call # "send_packets_on_entry"
    BY <2>2 DEF OnTable
  <2> HIDE DEF rest, S
  <2>5. /\ Len(rest) \in Nat /\ DOMAIN rest = 1 .. Len(rest) /\ DOMAIN calls' = 1 .. Len(rest) + 1
        /\ calls'[1] = x /\ \A k \in 1 .. Len(rest) : calls'[k + 1] = rest[k]
    BY <2>3
  <2>6. \A k \in DOMAIN calls' : k = 1 \/ (k - 1 \in DOMAIN rest /\ calls'[k] = rest[k - 1])
    BY <2>5
  <2>7. \A k \in DOMAIN calls' : calls'[k].call # "send_packets_on_entry"
    BY <1>6, <2>4, <2>5, <2>6
  <2>8. QED
    BY <2>7 DEF Sending
<1>10. links' \in Heap
  <2>1. links \in Heap /\ h \in Nodes /\ USED \in Nodes /\ links.prev[USED] \in Nodes
    BY <1>2, HeadFacts DEF SInv, QInv, Heap
  <2>2. QED
    BY <1>1, <2>1 DEF ListAddLast, LinkBetween, Heap
<1>11. QED
  BY <1>7, <1>8, <1>9, <1>10 DEF QInv

\* A reply resolves an entry, whose packets are then sent.
LEMMA HandleArpTable == SInv /\ HandleArp => QInv'
<1> SUFFICES ASSUME SInv, HandleArp PROVE QInv'
  OBVIOUS
<1> DEFINE frees == With("free", Current.packet)
<1>1. frees.call = "free" /\ "free" \notin OnTable /\ Alone("handle_arp")
  BY CallFields, AloneNames DEF OnTable
<1>2. ASSUME NEW h \in Entries, Runs("handle_arp"),
             arp_entries' = [arp_entries EXCEPT ![h].contain_valid_mapping = TRUE],
             Continues(<<OnEntry("send_packets_on_entry", h), frees>>), UNCHANGED links
      PROVE  QInv'
  <2> DEFINE x     == OnEntry("send_packets_on_entry", h)
             entry == Mapping(arp_entries[h])
  <2>1. x.entry = h
    BY CallFields
  <2> HIDE DEF frees, x
  <2>2. InOrder({x, frees})
    BY <1>1, <1>2, SecondInOrder DEF x
  <2>3. Ordered(calls') /\ Range(calls') \subseteq {x, frees} \cup Range(calls)
    BY <2>2, OrderKept
  <2>4. /\ arp_entries \in [Entries -> ArpEntry] /\ entry \in ArpEntry /\ CountHolds(entry)
        /\ entry.contain_valid_mapping
    BY EntryFields, MappedEntry
  <2>5. arp_entries' = [arp_entries EXCEPT ![h] = entry]
    BY <1>2 DEF Mapping
  <2> HIDE DEF entry
  <2>6. arp_entries'[h].contain_valid_mapping
    BY <2>4, <2>5
  <2>7. \A z \in SendsOnEntry(calls') :
          z \in Range(calls) \/ arp_entries'[z.entry].contain_valid_mapping
    BY <1>1, <2>1, <2>3, <2>6 DEF SendsOnEntry
  <2>8. links' \in Heap
    BY <1>2 DEF SInv, QInv
  <2>9. QED
    BY <2>3, <2>4, <2>5, <2>7, <2>8, TableKept
<1>3. ASSUME Runs("handle_arp"), Continues(<<Call("send_arp_packet"), frees>>), UNCHANGED layers
      PROVE  QInv'
  <2> DEFINE x == Call("send_arp_packet")
  <2>1. x.call = "send_arp_packet"
    BY CallFields
  <2> HIDE DEF frees, x
  <2>2. InOrder({x, frees}) /\ UNCHANGED <<arp_entries, links>>
    BY <1>1, <1>3, <2>1, SecondInOrder DEF x, layers
  <2>3. \A z \in {x, frees} : z.call # "send_packets_on_entry"
    BY <1>1, <2>1
  <2>4. QED
    BY <2>2, <2>3, QuietPreserves
<1>4. QED
  BY <1>2, <1>3, DropsQuiet, QuietKeeps DEF HandleArp, Awaited

\* The queue of a resolved entry is sent packet by packet.
LEMMA SendPacketsTable == SInv /\ SendPacketsOnEntry => QInv'
<1> SUFFICES ASSUME SInv, SendPacketsOnEntry PROVE QInv'
  OBVIOUS
<1> DEFINE h == Current.entry
           x == With("mac_send", Head(arp_entries[h].packet_queue))
<1>1. /\ Runs("send_packets_on_entry") /\ UNCHANGED links
      /\ IF arp_entries[h].packet_queue = <<>>
         THEN Returns /\ UNCHANGED arp_entries
         ELSE /\ calls' = <<x>> \o calls
              /\ arp_entries' = [arp_entries EXCEPT ![h].packet_queue = Tail(@)]
  BY DEF SendPacketsOnEntry
<1>2. /\ calls # <<>> /\ Head(calls) = Current /\ h \in Entries
      /\ Current.call = "send_packets_on_entry" /\ Alone("send_packets_on_entry")
  BY <1>1, RunningCall, AloneNames DEF Entry
<1>3. x.call = "mac_send" /\ "mac_send" \in Above("send_packets_on_entry")
  BY CallFields DEF Above
<1>4. arp_entries[h].contain_valid_mapping
  <2>1. calls \in Seq(CallSet) /\ Sending
    BY DEF SInv, LInv, LayerTypes, QInv
  <2>2. 1 \in DOMAIN calls /\ Head(calls) = calls[1]
    BY <1>2, <2>1
  <2>3. QED
    BY <1>2, <2>1, <2>2 DEF Sending
<1> HIDE DEF h, x
<1>5. InOrder({x})
  BY <1>1, <1>2, <1>3 DEF InOrder
<1>6. Ordered(calls') /\ Range(calls') \subseteq {x} \cup Range(calls) /\ links' \in Heap
  BY <1>1, <1>5, OrderKept DEF SInv, QInv
<1>7. \A z \in SendsOnEntry(calls') : z \in Range(calls)
  BY <1>3, <1>6 DEF SendsOnEntry
<1>8. CASE arp_entries[h].packet_queue = <<>>
  BY <1>1, <1>6, <1>7, <1>8, TableKept
<1>9. CASE arp_entries[h].packet_queue # <<>>
  <2> DEFINE entry == WithoutSent(arp_entries[h])
  <2>1. /\ entry \in ArpEntry /\ entry.contain_valid_mapping
    BY <1>2, <1>4, <1>9, EntryFields, SentEntry
  <2>2. arp_entries' = [arp_entries EXCEPT ![h] = entry]
    BY <1>1, <1>9 DEF WithoutSent
  <2> HIDE DEF entry
  <2>3. CountHolds(entry)
    BY <2>1 DEF CountHolds
  <2>4. QED
    BY <1>2, <1>6, <1>7, <2>1, <2>2, <2>3, TableKept
<1>10. QED
  BY <1>8, <1>9

\* free_entry empties the queue, then moves the entry to the free list.
LEMMA FreeEntryTable == SInv /\ FreeEntry => QInv'
<1> SUFFICES ASSUME SInv, FreeEntry PROVE QInv'
  OBVIOUS
<1> DEFINE h    == Current.entry
           none == {}
<1>1. /\ Runs("free_entry")
      /\ IF arp_entries[h].packet_queue = <<>>
         THEN Returns /\ links' = FreeLinks(h) /\ UNCHANGED arp_entries
         ELSE /\ arp_entries' = [arp_entries EXCEPT ![h] = Dequeued(@)]
              /\ UNCHANGED <<calls, links>>
  BY DEF FreeEntry
<1>2. calls # <<>> /\ h \in Entries
  BY <1>1, RunningCall DEF Entry
<1>3. InOrder(none)
  BY <1>1, <1>2 DEF InOrder
<1> HIDE DEF h, none
<1>4. Ordered(calls') /\ Range(calls') \subseteq none \cup Range(calls)
  BY <1>3, OrderKept
<1>5. \A z \in SendsOnEntry(calls') : z \in Range(calls)
  BY <1>4 DEF SendsOnEntry, none
<1>6. CASE arp_entries[h].packet_queue = <<>>
  <2> DEFINE rest == ListRemove(links, h)
  <2>1. links \in Heap /\ h \in Nodes /\ FREE \in Nodes
    BY <1>2, HeadFacts DEF SInv, QInv
  <2>2. rest \in Heap
    BY <2>1, RemovedHeap
  <2>3. links' = ListAddFirst(rest, h, FREE)
    BY <1>1, <1>6 DEF FreeLinks
  <2> HIDE DEF rest
  <2>4. links' \in Heap
    BY <2>1, <2>2, <2>3 DEF ListAddFirst, LinkBetween, Heap
  <2>5. QED
    BY <1>1, <1>4, <1>5, <1>6, <2>4, TableKept
<1>7. CASE arp_entries[h].packet_queue # <<>>
  <2> DEFINE entry == Dequeued(arp_entries[h])
  <2>1. /\ entry \in ArpEntry /\ CountHolds(entry)
        /\ entry.contain_valid_mapping = arp_entries[h].contain_valid_mapping
    BY <1>2, <1>7, EntryFields, FreedEntry
  <2>2. arp_entries' = [arp_entries EXCEPT ![h] = entry] /\ links' \in Heap
    BY <1>1, <1>7 DEF SInv, QInv
  <2> HIDE DEF entry
  <2>3. QED
    BY <1>2, <1>4, <1>5, <2>1, <2>2, TableKept
<1>8. QED
  BY <1>6, <1>7

\* Every step keeps the order of the calls and the counts of the ARP entries.
LEMMA NextQInv == SInv /\ [StackNext]_stackVars => QInv'
<1> SUFFICES ASSUME SInv, [StackNext]_stackVars PROVE QInv'
  OBVIOUS
<1>1. CASE UNCHANGED stackVars
  <2>1. UNCHANGED <<calls, arp_entries, links>>
    BY <1>1 DEF stackVars, layers
  <2>2. QED
    BY <2>1 DEF SInv, QInv, Ordered, Sending
<1>2. CASE UdpSends \/ SendsArpPacket \/ MacSends
  BY <1>2, SendingQuiet, QuietKeeps
<1>3. ASSUME NEW ip \in Hosts \cup {Everybody},
             IpSendsAtOnce(ip) \/ IpSendWaits(ip) \/ IpSendAsks(ip)
      PROVE  QInv'
  BY <1>3, SendingQuiet, QuietKeeps, IpSendsTable
<1>4. CASE NetworkTaskReceives \/ NetworkTaskBreaks \/ HandleMac \/ HandleIp \/ HandleIcmp
             \/ HandleUdp \/ FreePacket
  BY <1>4, HandlingQuiet, QuietKeeps
<1>5. CASE ArpSendQueues \/ HandleArp \/ SendPacketsOnEntry \/ FreeEntry
  BY <1>5, ArpSendTable, HandleArpTable, SendPacketsTable, FreeEntryTable
<1>6. CASE Application \/ Hardware \/ ArpTaskStarts \/ ArpTaskVisits
             \/ DhcpTask \/ DhcpRead \/ TftpReadsOack \/ TftpReadsData
  BY <1>6, ClientsQuiet, QuietKeeps, ArpTaskOrder
<1>7. QED
  BY <1>1, <1>2, <1>3, <1>4, <1>5, <1>6 DEF StackNext, Step

\* Every step of the stack keeps all of its invariant.
LEMMA NextSInv == SInv /\ [StackNext]_stackVars => SInv'
BY DriverSteps, NextIInv, NextLInv, NextQInv DEF SInv

\* The invariant of the stack always holds.
LEMMA StackInductive == StackSpec => []SInv
BY InitSInv, NextSInv, PTL DEF StackSpec

-----------------------------------------------------------------------------
(* The theorems. *)

\* Whatever the wire brings and whatever is lost, the calls, the entries and the
\* connections keep their types, and no connection queues more packets than its
\* limit or than it counts.
THEOREM StackTypeCorrect == StackSpec => []StackTypeOK
<1>1. SInv => StackTypeOK
  <2> SUFFICES ASSUME SInv PROVE StackTypeOK
    OBVIOUS
  <2>1. TypeOK /\ index \in [Packets -> Int] /\ Len(connections) = 2
    BY DEF SInv, LInv, IInv, LayerTypes
  <2>2. \A k \in DOMAIN calls : "packet" \in DOMAIN calls[k] => calls[k].packet \in Packets
    <3>1. calls \in Seq(CallSet)
      BY DEF SInv, LInv, LayerTypes
    <3>2. \A k \in DOMAIN calls : Carried(calls[k]) \subseteq Packets
      BY <3>1, CallShape
    <3>3. QED
      BY <3>2 DEF Carried, Carries
  <2>3. /\ links \in [next : [Nodes -> Nodes], prev : [Nodes -> Nodes]]
        /\ arp_entries \in [Entries -> [ip : Hosts \cup {NONE}, contain_valid_mapping : BOOLEAN,
                                        packet_queue : Seq(Packets), packet_count : Int]]
    BY DEF SInv, LInv, LayerTypes, ArpEntry, QInv, Heap
  <2>4. \A i \in 1 .. 2 :
          /\ connections[i].packet_queue \in Seq(Packets)
          /\ connections[i].packet_count = Len(connections[i].packet_queue)
          /\ connections[i].packet_count =< connections[i].max_packet_count
    <3>1. /\ connections \in Seq(Connection)
          /\ Counted(connections[1]) /\ Counted(connections[2])
      BY DEF SInv, LInv, LayerTypes
    <3>2. SUFFICES ASSUME NEW i \in DOMAIN connections, Counted(connections[i])
                   PROVE  /\ connections[i].packet_queue \in Seq(Packets)
                          /\ connections[i].packet_count = Len(connections[i].packet_queue)
                          /\ connections[i].packet_count =< connections[i].max_packet_count
      <4>1. DOMAIN connections = 1 .. Len(connections)
        BY <3>1
      <4>2. \A i \in 1 .. 2 : i = 1 \/ i = 2
        OBVIOUS
      <4>3. QED
        BY <2>1, <3>1, <4>1, <4>2
    <3>3. connections[i] \in Connection
      BY <3>1
    <3>4. QED
      BY <3>2, <3>3 DEF Counted, Connection, ConnectionsOf
  <2>5. QED
    BY <2>1, <2>2, <2>3, <2>4 DEF StackTypeOK
<1>2. QED
  BY <1>1, StackInductive, PTL

\* As long as no IP header claims to be shorter than it can be, no header is ever
\* written in front of the buffer of a packet: not of one that is built from the
\* top, not of a ping that goes back, and not of one that waited in an ARP queue.
THEOREM HeadersFit ==
  ASSUME HeaderLengths \subseteq 5 .. 15
  PROVE  StackSpec => []HeaderRoom
<1>1. SInv => HeaderRoom
  <2> SUFFICES ASSUME SInv PROVE HeaderRoom
    OBVIOUS
  <2>1. Shortfall = 0 /\ 0 - Shortfall = 0
    BY DEF Shortfall
  <2>2. QED
    BY <2>1 DEF SInv, LInv, RoomLeft, HeaderRoom
<1>2. QED
  BY <1>1, StackInductive, PTL

\* The places of a packet.
LEMMA PlacesOf ==
  ASSUME SInv, NEW packet, NEW place
  PROVE  place \in Where(packet) <=>
           \/ \E k \in DOMAIN calls : place = <<"calls", k>> /\ packet \in Carried(calls[k])
           \/ \E h \in Entries : \E k \in DOMAIN arp_entries[h].packet_queue :
                place = <<"arp", h, k>> /\ arp_entries[h].packet_queue[k] = packet
           \/ \E i \in {1, 2} : \E k \in DOMAIN connections[i].packet_queue :
                place = <<"udp", i, k>> /\ connections[i].packet_queue[k] = packet
<1>1. DOMAIN connections = {1, 2}
  <2>1. connections \in Seq(Connection) /\ Len(connections) = 2
    BY DEF SInv, LInv, LayerTypes
  <2>2. DOMAIN connections = 1 .. Len(connections)
    BY <2>1
  <2>3. QED
    BY <2>1, <2>2
<1>2. \A k \in DOMAIN calls : packet \in Carried(calls[k]) <=>
        "packet" \in DOMAIN calls[k] /\ calls[k].packet = packet
  BY DEF Carried, Carries
<1>3. place \in InCalls(packet) <=>
        \E k \in DOMAIN calls : place = <<"calls", k>> /\ packet \in Carried(calls[k])
  BY <1>2 DEF InCalls
<1>4. place \in InEntries(packet) <=>
        \E h \in Entries : \E k \in DOMAIN arp_entries[h].packet_queue :
          place = <<"arp", h, k>> /\ arp_entries[h].packet_queue[k] = packet
  BY DEF InEntries, Places
<1>5. place \in InConnections(packet) <=>
        \E i \in {1, 2} : \E k \in DOMAIN connections[i].packet_queue :
          place = <<"udp", i, k>> /\ connections[i].packet_queue[k] = packet
  BY <1>1 DEF InConnections, Places
<1>6. QED
  BY <1>3, <1>4, <1>5 DEF Where

\* In every state of the stack a packet that is held is in one place, and any
\* other in none, unless a datagram was too short.
LEMMA OnePlace ==
  ASSUME SInv, Complete
  PROVE  NothingLeaked
<1>1. SUFFICES ASSUME NEW packet \in Packets
               PROVE  IF packet \in held
                      THEN \E place \in Where(packet) : Where(packet) = {place}
                      ELSE Where(packet) = {}
  BY DEF NothingLeaked
<1>2. /\ Distinct(calls) /\ PacketsOf(calls) \subseteq held
      /\ \A q \in Queues : /\ IsInjective(QueueOf(q)) /\ QueuePackets(q) \subseteq held
                           /\ QueuePackets(q) \cap PacketsOf(calls) = {}
      /\ \A q, r \in Queues : q # r => QueuePackets(q) \cap QueuePackets(r) = {}
  BY DEF SInv, LInv, Ownership
<1>3. \A place \in Where(packet) :
        \/ \E k \in DOMAIN calls : place = <<"calls", k>> /\ packet \in Carried(calls[k])
        \/ \E q \in Queues : \E k \in DOMAIN QueueOf(q) :
             place = <<q[1], q[2], k>> /\ QueueOf(q)[k] = packet
  <2>1. SUFFICES ASSUME NEW place \in Where(packet)
                 PROVE  \/ \E k \in DOMAIN calls :
                             place = <<"calls", k>> /\ packet \in Carried(calls[k])
                        \/ \E q \in Queues : \E k \in DOMAIN QueueOf(q) :
                             place = <<q[1], q[2], k>> /\ QueueOf(q)[k] = packet
    OBVIOUS
  <2>2. CASE \E k \in DOMAIN calls : place = <<"calls", k>> /\ packet \in Carried(calls[k])
    BY <2>2
  <2>3. CASE \E h \in Entries : \E k \in DOMAIN arp_entries[h].packet_queue :
               place = <<"arp", h, k>> /\ arp_entries[h].packet_queue[k] = packet
    <3>0. PICK h \in Entries : \E k \in DOMAIN arp_entries[h].packet_queue :
            place = <<"arp", h, k>> /\ arp_entries[h].packet_queue[k] = packet
      BY <2>3
    <3>1. PICK k \in DOMAIN arp_entries[h].packet_queue :
            place = <<"arp", h, k>> /\ arp_entries[h].packet_queue[k] = packet
      BY <3>0
    <3> DEFINE q == <<"arp", h>>
    <3>2. q \in Queues /\ QueueOf(q) = arp_entries[h].packet_queue /\ q[1] = "arp" /\ q[2] = h
      BY QueueNames
    <3> HIDE DEF q
    <3>3. QED
      BY <3>1, <3>2
  <2>4. CASE \E i \in {1, 2} : \E k \in DOMAIN connections[i].packet_queue :
               place = <<"udp", i, k>> /\ connections[i].packet_queue[k] = packet
    <3>0. PICK i \in {1, 2} : \E k \in DOMAIN connections[i].packet_queue :
            place = <<"udp", i, k>> /\ connections[i].packet_queue[k] = packet
      BY <2>4
    <3>1. PICK k \in DOMAIN connections[i].packet_queue :
            place = <<"udp", i, k>> /\ connections[i].packet_queue[k] = packet
      BY <3>0
    <3> DEFINE q == <<"udp", i>>
    <3>2. /\ q \in Queues /\ QueueOf(q) = connections[i].packet_queue
          /\ q[1] = "udp" /\ q[2] = i
      BY QueueNames
    <3> HIDE DEF q
    <3>3. QED
      BY <3>1, <3>2
  <2>5. QED
    BY <2>1, <2>2, <2>3, <2>4, PlacesOf
<1>4. /\ \A k \in DOMAIN calls : packet \in Carried(calls[k]) =>
           packet \in PacketsOf(calls) /\ <<"calls", k>> \in Where(packet)
      /\ \A q \in Queues : \A k \in DOMAIN QueueOf(q) : QueueOf(q)[k] = packet =>
           packet \in QueuePackets(q) /\ <<q[1], q[2], k>> \in Where(packet)
  <2>1. ASSUME NEW k \in DOMAIN calls, packet \in Carried(calls[k])
        PROVE  packet \in PacketsOf(calls) /\ <<"calls", k>> \in Where(packet)
    BY <2>1, PlacesOf DEF PacketsOf
  <2>2. ASSUME NEW q \in Queues, NEW k \in DOMAIN QueueOf(q), QueueOf(q)[k] = packet
        PROVE  packet \in QueuePackets(q) /\ <<q[1], q[2], k>> \in Where(packet)
    <3>1. packet \in QueuePackets(q)
      BY <2>2 DEF QueuePackets, Range
    <3>2. CASE \E h \in Entries : q = <<"arp", h>>
      <4>1. PICK h \in Entries : q = <<"arp", h>>
        BY <3>2
      <4>2. k \in DOMAIN arp_entries[h].packet_queue /\ arp_entries[h].packet_queue[k] = packet
        BY <2>2, <4>1, QueueNames
      <4>3. <<"arp", h, k>> \in Where(packet)
        BY <4>2, PlacesOf
      <4>4. QED
        BY <3>1, <4>1, <4>3
    <3>3. CASE \E i \in {1, 2} : q = <<"udp", i>>
      <4>1. PICK i \in {1, 2} : q = <<"udp", i>>
        BY <3>3
      <4>2. k \in DOMAIN connections[i].packet_queue /\ connections[i].packet_queue[k] = packet
        BY <2>2, <4>1, QueueNames
      <4>3. <<"udp", i, k>> \in Where(packet)
        BY <4>2, PlacesOf
      <4>4. QED
        BY <3>1, <4>1, <4>3
    <3>4. QED
      BY <3>2, <3>3, QueueNames
  <2>3. QED
    BY <2>1, <2>2
<1>5. CASE packet \notin held
  BY <1>2, <1>3, <1>4, <1>5
<1>6. CASE packet \in PacketsOf(calls)
  <2>1. PICK k \in DOMAIN calls : packet \in Carried(calls[k])
    BY <1>6 DEF PacketsOf
  <2>2. \A l \in DOMAIN calls : packet \in Carried(calls[l]) => l = k
    BY <1>2, <2>1 DEF Distinct
  <2>3. \A q \in Queues : packet \notin QueuePackets(q)
    BY <1>2, <1>6
  <2>4. \A place \in Where(packet) : place = <<"calls", k>>
    BY <1>3, <1>4, <2>2, <2>3
  <2>5. <<"calls", k>> \in Where(packet)
    BY <1>4, <2>1
  <2>6. QED
    BY <1>2, <1>6, <2>4, <2>5
<1>7. CASE \E q \in Queues : packet \in QueuePackets(q)
  <2>1. PICK q \in Queues : packet \in QueuePackets(q)
    BY <1>7
  <2>2. PICK k \in DOMAIN QueueOf(q) : QueueOf(q)[k] = packet
    BY <2>1 DEF QueuePackets, Range
  <2>3. \A l \in DOMAIN QueueOf(q) : QueueOf(q)[l] = packet => l = k
    BY <1>2, <2>2 DEF IsInjective
  <2>4. \A r \in Queues : packet \in QueuePackets(r) => r = q
    BY <1>2, <2>1
  <2>5. packet \notin PacketsOf(calls) /\ packet \in held
    BY <1>2, <2>1
  <2>6. \A place \in Where(packet) : place = <<q[1], q[2], k>>
    BY <1>3, <1>4, <2>3, <2>4, <2>5
  <2>7. <<q[1], q[2], k>> \in Where(packet)
    BY <1>4, <2>2
  <2>8. QED
    BY <2>5, <2>6, <2>7
<1>8. QED
  BY <1>5, <1>6, <1>7 DEF Complete

\* As long as no datagram is too short for try_read_oack, every packet that is
\* taken from the pool or the receive ring is in exactly one place of the
\* software until it goes back, on every path of every handler.
THEOREM NoPacketLeaked ==
  ASSUME "short" \notin DatagramSizes
  PROVE  StackSpec => []NothingLeaked
<1>1. SInv => NothingLeaked
  BY OnePlace DEF SInv, LInv
<1>2. QED
  BY <1>1, StackInductive, PTL

-----------------------------------------------------------------------------
(* The ARP table as long as no entry is evicted. *)

\* Every address has an entry of its own.
EnoughEntries == IsFiniteSet(Hosts) /\ Cardinality(Hosts) =< Cardinality(Entries)

\* A used entry is for a host and counts what waits on it.
Fitting(entry) ==
  /\ entry.ip \in Hosts
  /\ Len(entry.packet_queue) =< MaxQueueSize
  /\ ~entry.contain_valid_mapping => entry.packet_count = Len(entry.packet_queue)

OneEach(U) == \A d, e \in U : arp_entries[d].ip = arp_entries[e].ip => d = e

\* On the other entries nothing waits.
EntriesFit(U) ==
  /\ OneEach(U)
  /\ \A e \in U : Fitting(arp_entries[e])
  /\ \A e \in Entries \ U : arp_entries[e].packet_queue = <<>>

\* free_entry and arp_task are at used entries, and arp_task is one ahead.
CallsFit(C, U) ==
  /\ \A x \in C : x.call = "arp_task_at" => x.node \in U \cup {USED}
  /\ \A x \in C : x.call = "free_entry" => x.entry \in U
  /\ \A x, y \in C : x.call = "free_entry" /\ y.call = "arp_task_at" => x.entry # y.node

\* The entry that arp_send was given is off the free list, for an address that
\* has none.
Given(x, F, U) ==
  /\ x.entry \in Entries /\ \A e \in U : arp_entries[e].ip # x.ip
  /\ \E heap : /\ Rings(heap, F, U)
               /\ x.entry = ListFirst(heap, FREE) /\ links = ListRemove(heap, x.entry)

Asking == calls # <<>> /\ Head(calls).call = "arp_send"

TableFits(F, U) ==
  /\ EntriesFit(U) /\ CallsFit(Range(calls), U)
  /\ IF Asking THEN Given(Head(calls), F, U)
     ELSE Rings(links, F, U) /\ \A x \in Range(calls) : x.call # "arp_send"

\* Joining sequences joins their elements.
LEMMA JoinedRange ==
  ASSUME NEW S, NEW s \in Seq(S), NEW t \in Seq(S)
  PROVE  Range(s \o t) \subseteq Range(s) \cup Range(t)
<1> DEFINE joined == s \o t
<1>1. /\ Len(s) \in Nat /\ DOMAIN s = 1 .. Len(s) /\ Len(t) \in Nat /\ DOMAIN t = 1 .. Len(t)
      /\ DOMAIN joined = 1 .. Len(s) + Len(t)
      /\ \A k \in 1 .. Len(s) + Len(t) :
           joined[k] = IF k =< Len(s) THEN s[k] ELSE t[k - Len(s)]
  OBVIOUS
<1> HIDE DEF joined
<1>2. \A k \in DOMAIN joined : joined[k] \in Range(s) \cup Range(t)
  <2>1. SUFFICES ASSUME NEW k \in DOMAIN joined PROVE joined[k] \in Range(s) \cup Range(t)
    OBVIOUS
  <2>2. CASE k =< Len(s)
    BY <1>1, <2>1, <2>2 DEF Range
  <2>3. CASE ~(k =< Len(s))
    <3>1. k - Len(s) \in DOMAIN t /\ joined[k] = t[k - Len(s)]
      BY <1>1, <2>1, <2>3
    <3>2. QED
      BY <3>1 DEF Range
  <2>4. QED
    BY <2>2, <2>3
<1>3. QED
  BY <1>2 DEF Range, joined

\* What is on the stack after a call was replaced by those of new.
LEMMA CallReplaced ==
  ASSUME SInv, calls # <<>>, NEW new,
         \/ Returns
         \/ \E x \in new : Continues(<<x>>)
         \/ \E x, y \in new : Continues(<<x, y>>)
  PROVE  /\ Range(calls') \subseteq new \cup Range(Tail(calls))
         /\ Range(Tail(calls)) \subseteq Range(calls)
         /\ Alone(Head(calls).call) => \A x \in Range(Tail(calls)) : x.call \notin OnTable
<1> DEFINE rest == Tail(calls)
           S    == CallSet \cup new
<1>1. calls \in Seq(CallSet) /\ rest \in Seq(CallSet) /\ Ordered(calls)
  BY DEF SInv, LInv, LayerTypes, QInv
<1>2. /\ Range(rest) \subseteq Range(calls)
      /\ \A k \in DOMAIN rest : rest[k].call \in OnTable =>
           k = 1 /\ Head(calls).call \in Above(rest[k].call)
  BY <1>1, OrderReturns
<1>3. Alone(Head(calls).call) => \A x \in Range(rest) : x.call \notin OnTable
  BY <1>2 DEF Alone, Range
<1>4. rest \in Seq(S)
  BY <1>1
<1>5. ASSUME NEW x \in new, Continues(<<x>>)
      PROVE  Range(calls') \subseteq new \cup Range(rest)
  <2>1. calls' = <<x>> \o rest /\ x \in S
    BY <1>5 DEF Continues
  <2> HIDE DEF rest, S
  <2>2. <<x>> \in Seq(S) /\ Range(<<x>>) = {x}
    BY <2>1 DEF Range
  <2>3. QED
    BY <1>4, <1>5, <2>1, <2>2, JoinedRange
<1>6. ASSUME NEW x \in new, NEW y \in new, Continues(<<x, y>>)
      PROVE  Range(calls') \subseteq new \cup Range(rest)
  <2>1. calls' = <<x, y>> \o rest /\ x \in S /\ y \in S
    BY <1>6 DEF Continues
  <2> HIDE DEF rest, S
  <2>2. <<x, y>> \in Seq(S) /\ Range(<<x, y>>) = {x, y}
    <3> DEFINE pair == <<x, y>>
    <3>1. pair \in Seq(S) /\ DOMAIN pair = {1, 2} /\ pair[1] = x /\ pair[2] = y
      BY <2>1
    <3> HIDE DEF pair
    <3>2. Range(pair) = {x, y}
      BY <3>1 DEF Range
    <3>3. QED
      BY <3>1, <3>2 DEF pair
  <2>3. QED
    BY <1>4, <1>6, <2>1, <2>2, JoinedRange
<1>7. CASE Returns
  <2>1. calls' = rest
    BY <1>1, <1>7 DEF Returns, Continues
  <2>2. QED
    BY <1>2, <1>3, <2>1
<1>8. QED
  BY <1>2, <1>3, <1>5, <1>6, <1>7

\* The table fits when the lists are whole and nobody waits for an entry.
LEMMA FitsAfter ==
  ASSUME NEW F, NEW U, Rings(links', F, U), EntriesFit(U)', calls' \in Seq(CallSet),
         CallsFit(Range(calls'), U), \A x \in Range(calls') : x.call # "arp_send"
  PROVE  TableFits(F, U)'
<1>1. ASSUME calls' # <<>> PROVE Head(calls') \in Range(calls')
  <2>1. 1 \in DOMAIN calls' /\ Head(calls') = calls'[1]
    BY <1>1
  <2>2. QED
    BY <2>1 DEF Range
<1>2. ~Asking'
  BY <1>1 DEF Asking
<1>3. QED
  BY <1>2 DEF TableFits

\* Steps that do not touch it.
LEMMA StillFits ==
  ASSUME NEW F, NEW U, TableFits(F, U), UNCHANGED <<calls, arp_entries, links>>
  PROVE  TableFits(F, U)'
BY DEF TableFits, EntriesFit, OneEach, CallsFit, Asking, Given

\* A step that leaves the table and its calls alone keeps the lists as they are.
LEMMA QuietFits ==
  ASSUME SInv, NEW F, NEW U, TableFits(F, U), Quiet, ~Asking, calls' \in Seq(CallSet)
  PROVE  TableFits(F, U)'
<1>1. PICK new : InOrder(new) /\ Other(new)
  BY DEF Quiet
<1>2. Range(calls') \subseteq new \cup Range(calls)
  BY <1>1, OrderKept
<1>3. /\ Rings(links', F, U) /\ EntriesFit(U)'
      /\ CallsFit(Range(calls), U) /\ \A x \in Range(calls) : x.call # "arp_send"
  BY DEF TableFits, EntriesFit, OneEach, Quiet
<1>4. \A x \in Range(calls') :
        x.call \in {"arp_task_at", "free_entry", "arp_send"} => x \in Range(calls)
  BY <1>1, <1>2 DEF Other, OnTable
<1>5. CallsFit(Range(calls'), U) /\ \A x \in Range(calls') : x.call # "arp_send"
  BY <1>3, <1>4 DEF CallsFit
<1>6. QED
  BY <1>3, <1>5, FitsAfter

\* find_arp_entry on a ring.
LEMMA FindFinds ==
  ASSUME NEW F, NEW U, Rings(links, F, U), NEW ip
  PROVE  /\ Find(ip) \in U \cup {USED}
         /\ Find(ip) \in U => arp_entries[Find(ip)].ip = ip
         /\ Find(ip) = USED => \A e \in U : arp_entries[e].ip # ip
<1> DEFINE M     == {n \in Nodes : arp_entries[n].ip = ip}
           visit == Visits(links, USED)
           stops == {k \in DOMAIN visit : \/ visit[k] \in {FREE, USED}
                                          \/ arp_entries[visit[k]].ip = ip}
<1>1. /\ stops # {} /\ visit[Min(stops)] \in U \cup {USED}
      /\ visit[Min(stops)] \in U => visit[Min(stops)] \in M
      /\ visit[Min(stops)] = USED => U \cap M = {}
  <2>1. \A k \in DOMAIN visit : visit[k] \in Nodes
    <3>1. IsWalk(visit, links, USED)
      BY HeadFacts, VisitsWalk DEF Rings
    <3> HIDE DEF visit
    <3>2. QED
      BY <3>1 DEF IsWalk
  <2>2. stops = {k \in DOMAIN visit : visit[k] \in {FREE, USED} \cup M}
    BY <2>1
  <2> HIDE DEF visit, stops, M
  <2>3. QED
    BY <2>2, WalkStops DEF visit
<1>2. Find(ip) = visit[Min(stops)]
  BY <1>1 DEF Find
<1>3. U \subseteq Nodes
  BY DEF Rings, Nodes
<1> HIDE DEF visit, stops
<1>4. QED
  BY <1>1, <1>2, <1>3

\* With an entry for every address, an address without one finds the free list
\* not empty.
LEMMA FreeEntryLeft ==
  ASSUME EnoughEntries, NEW F, NEW U, Rings(links, F, U), EntriesFit(U),
         NEW ip \in Hosts, Find(ip) = USED
  PROVE  ~ListIsEmpty(links, FREE)
<1>1. SUFFICES ASSUME ListIsEmpty(links, FREE) PROVE FALSE
  OBVIOUS
<1>2. F = {} /\ U = Entries
  BY <1>1, RingsFacts DEF ListIsEmpty, Rings
<1>3. \A e \in Entries : arp_entries[e].ip \in Hosts /\ arp_entries[e].ip # ip
  BY <1>2, FindFinds DEF EntriesFit, Fitting
<1> DEFINE Others == Hosts \ {ip}
           host   == [e \in Entries |-> arp_entries[e].ip]
<1>4. /\ IsFiniteSet(Others) /\ Cardinality(Others) = Cardinality(Hosts) - 1
      /\ Cardinality(Hosts) \in Nat /\ Cardinality(Entries) \in Nat
  BY FS_RemoveElement, FS_CardinalityType, ListAssumption DEF EnoughEntries
<1>5. host \in Injection(Entries, Others)
  BY <1>2, <1>3 DEF EntriesFit, OneEach, Injection, IsInjective
<1> HIDE DEF Others, host
<1>6. Cardinality(Entries) =< Cardinality(Others)
  BY <1>4, <1>5, FS_Injection
<1>7. QED
  BY <1>4, <1>6 DEF EnoughEntries

\* One entry changes.
LEMMA TableChanges ==
  ASSUME SInv, NEW U, EntriesFit(U), U \subseteq Entries, NEW V, V \subseteq Entries,
         NEW h \in Entries, NEW entry, arp_entries' = [arp_entries EXCEPT ![h] = entry],
         \A e \in Entries \ {h} : e \in V <=> e \in U,
         h \in V => Fitting(entry), h \notin V => entry.packet_queue = <<>>,
         h \in V => \A e \in U \ {h} : arp_entries[e].ip # entry.ip
  PROVE  EntriesFit(V)'
<1>1. /\ arp_entries'[h] = entry
      /\ \A e \in Entries \ {h} : arp_entries'[e] = arp_entries[e]
  BY DEF SInv, LInv, LayerTypes
<1>2. /\ \A e \in V : Fitting(arp_entries'[e])
      /\ \A e \in Entries \ V : arp_entries'[e].packet_queue = <<>>
  <2>1. ASSUME NEW e \in V PROVE Fitting(arp_entries'[e])
    BY <1>1, <2>1 DEF EntriesFit
  <2>2. ASSUME NEW e \in Entries \ V PROVE arp_entries'[e].packet_queue = <<>>
    BY <1>1, <2>2 DEF EntriesFit
  <2>3. QED
    BY <2>1, <2>2
<1>3. ASSUME NEW d \in V, NEW e \in V, arp_entries'[d].ip = arp_entries'[e].ip
      PROVE  d = e
  BY <1>1, <1>3 DEF EntriesFit, OneEach
<1>4. QED
  BY <1>2, <1>3 DEF EntriesFit, OneEach

\* One entry changes, but not its address and not its list.
LEMMA TableStays ==
  ASSUME SInv, NEW U, EntriesFit(U), U \subseteq Entries,
         NEW h \in Entries, NEW entry, arp_entries' = [arp_entries EXCEPT ![h] = entry],
         h \in U => Fitting(entry), h \notin U => entry.packet_queue = <<>>,
         entry.ip = arp_entries[h].ip
  PROVE  EntriesFit(U)'
<1>1. h \in U => \A e \in U \ {h} : arp_entries[e].ip # entry.ip
  BY DEF EntriesFit, OneEach
<1>2. QED
  BY <1>1, TableChanges

\* The parts of TableFits when no entry is about to be set up.
LEMMA FitsFacts ==
  ASSUME SInv, NEW F, NEW U, TableFits(F, U), ~Asking
  PROVE  /\ Rings(links, F, U) /\ EntriesFit(U) /\ CallsFit(Range(calls), U)
         /\ U \subseteq Entries /\ F \subseteq Entries /\ F \cap U = {} /\ F \cup U = Entries
         /\ \A x \in Range(calls) : x.call # "arp_send"
         /\ calls # <<>> => Head(calls) \in Range(calls)
         /\ USED \notin Entries /\ FREE \notin Entries
<1>1. calls # <<>> => Head(calls) \in Range(calls)
  <2>1. SUFFICES ASSUME calls # <<>> PROVE Head(calls) \in Range(calls)
    OBVIOUS
  <2>2. calls \in Seq(CallSet)
    BY DEF SInv, LInv, LayerTypes
  <2>3. 1 \in DOMAIN calls /\ Head(calls) = calls[1]
    BY <2>1, <2>2
  <2>4. QED
    BY <2>3 DEF Range
<1>2. QED
  BY <1>1, HeadFacts DEF TableFits, Rings, Heads

\* The calls of CallsFit are among those that were there before.
LEMMA FewerCalls ==
  ASSUME NEW C, NEW D, NEW U, CallsFit(C, U), \A x \in C : x.call # "arp_send",
         \A x \in D : x.call \in {"arp_task_at", "free_entry", "arp_send"} => x \in C
  PROVE  CallsFit(D, U) /\ \A x \in D : x.call # "arp_send"
BY DEF CallsFit

\* arp_send while the mapping is awaited.
LEMMA WaitsFits ==
  ASSUME SInv, calls' \in Seq(CallSet), NEW F, NEW U, TableFits(F, U), NEW ip, IpSendWaits(ip)
  PROVE  TableFits(F, U)'
<1> DEFINE p     == Current.packet
           h     == Find(ip)
           entry == Queued(arp_entries[h], p)
           none  == {}
<1>1. /\ IpSends(ip) /\ Runs("ip_send") /\ h \in Entries /\ ~arp_entries[h].contain_valid_mapping
      /\ arp_entries' = [arp_entries EXCEPT ![h] = entry]
      /\ Returns /\ links' = links
  BY DEF IpSendWaits, IpSends, Awaited
<1>2. ~Asking /\ calls # <<>>
  BY <1>1, RunningName DEF Asking
<1>3. h \in U
  BY <1>1, <1>2, FitsFacts, FindFinds
<1> HIDE DEF h
<1>4. p \in Packets /\ p \notin Range(arp_entries[h].packet_queue)
  BY <1>1, IpSendMoves
<1>5. /\ arp_entries[h] \in ArpEntry /\ CountHolds(arp_entries[h])
      /\ IsInjective(arp_entries[h].packet_queue)
  BY <1>1, EntryFields
<1>6. /\ arp_entries[h].packet_count = Len(arp_entries[h].packet_queue)
      /\ arp_entries[h].packet_count =< MaxQueueSize /\ arp_entries[h].ip \in Hosts
  BY <1>1, <1>2, <1>3, FitsFacts DEF EntriesFit, Fitting
<1>7. /\ entry.packet_count = Len(entry.packet_queue) /\ entry.packet_count =< MaxQueueSize
      /\ entry.ip = arp_entries[h].ip
  BY <1>1, <1>4, <1>5, <1>6, QueuedEntry
<1> HIDE DEF entry, none
<1>8. Fitting(entry)
  BY <1>3, <1>6, <1>7 DEF Fitting
<1>9. EntriesFit(U)'
  BY <1>1, <1>2, <1>3, <1>7, <1>8, FitsFacts, TableStays
<1>10. Range(calls') \subseteq Range(calls)
  BY <1>1, <1>2, CallReplaced DEF none
<1>11. CallsFit(Range(calls'), U) /\ \A x \in Range(calls') : x.call # "arp_send"
  BY <1>2, <1>10, FitsFacts, FewerCalls
<1>12. Rings(links', F, U)
  BY <1>1, <1>2, FitsFacts
<1>13. QED
  BY <1>9, <1>11, <1>12, FitsAfter

\* arp_send to an address that has no entry: one is free.
LEMMA AsksFits ==
  ASSUME EnoughEntries, SInv, calls' \in Seq(CallSet), NEW F, NEW U, TableFits(F, U),
         NEW ip, IpSendAsks(ip)
  PROVE  TableFits(F, U)'
<1>1. Runs("ip_send") /\ Alone("ip_send") /\ ip \in Hosts /\ Find(ip) = USED
  BY AloneNames DEF IpSendAsks, IpSends
<1>2. ~Asking /\ calls # <<>> /\ Head(calls).call = "ip_send"
  BY <1>1, RunningName DEF Asking
<1>3. ~ListIsEmpty(links, FREE)
  BY <1>1, <1>2, FitsFacts, FreeEntryLeft
<1>4. PICK h \in Entries :
        /\ h = ListFirst(links, FREE) /\ links' = ListRemove(links, h)
        /\ Continues(<<ArpSend(Current.packet, ip, h)>>) /\ UNCHANGED arp_entries
  BY <1>3 DEF IpSendAsks
<1> DEFINE x == ArpSend(Current.packet, ip, h)
<1>5. x.call = "arp_send" /\ x.entry = h /\ x.ip = ip
  BY CallFields
<1>6. x \in {x} /\ Continues(<<x>>)
  BY <1>4
<1> HIDE DEF x
<1>7. calls' # <<>> /\ Head(calls') = x
  <2>1. Tail(calls) \in Seq(CallSet)
    BY <1>2 DEF SInv, LInv, LayerTypes
  <2> DEFINE rest == Tail(calls)
             S    == CallSet \cup {x}
  <2>2. rest \in Seq(S) /\ x \in S /\ calls' = <<x>> \o rest
    BY <1>6, <2>1 DEF Continues
  <2> HIDE DEF rest, S
  <2>3. QED
    BY <2>2
<1>8. /\ Range(calls') \subseteq {x} \cup Range(Tail(calls))
      /\ \A y \in Range(Tail(calls)) : y.call \notin OnTable
  BY <1>1, <1>2, <1>6, CallReplaced
<1>9. \A y \in Range(calls') : y.call \notin {"arp_task_at", "free_entry"}
  BY <1>5, <1>8 DEF OnTable
<1>10. CallsFit(Range(calls'), U)
  BY <1>9 DEF CallsFit
<1>11. EntriesFit(U)'
  BY <1>2, <1>4, FitsFacts DEF EntriesFit, OneEach
<1>12. Asking'
  BY <1>5, <1>7 DEF Asking
<1>13. /\ Rings(links, F, U) /\ \A e \in U : arp_entries[e].ip # ip
  BY <1>1, <1>2, FitsFacts, FindFinds
<1>14. Given(Head(calls), F, U)'
  <2>1. /\ h \in Entries /\ \A e \in U : arp_entries'[e].ip # ip
        /\ \E heap : /\ Rings(heap, F, U)
                     /\ h = ListFirst(heap, FREE) /\ links' = ListRemove(heap, h)
    BY <1>4, <1>13
  <2>2. QED
    BY <1>5, <1>7, <2>1 DEF Given
<1>15. QED
  BY <1>10, <1>11, <1>12, <1>14 DEF TableFits

\* The rest of arp_send: the entry it was given joins the used ones.
LEMMA QueuesFits ==
  ASSUME SInv, calls' \in Seq(CallSet), NEW F, NEW U, TableFits(F, U), ArpSendQueues
  PROVE  \E G, V : TableFits(G, V)'
<1>1. PICK h, ip, p :
        /\ h = Current.entry /\ ip = Current.ip /\ p = Current.packet
        /\ Runs("arp_send") /\ Alone("arp_send")
        /\ arp_entries' = [arp_entries EXCEPT ![h] = SetUp(arp_entries[h], ip, p)]
        /\ Continues(<<Call("send_arp_packet")>>) /\ links' = ListAddLast(links, h, USED)
  BY AloneNames DEF ArpSendQueues
<1>2. /\ calls # <<>> /\ Head(calls) = Current /\ Current.call = "arp_send"
      /\ p \in Packets /\ Carried(Current) = {p} /\ h \in Entries /\ ip \in Hosts
  BY <1>1, RunningCall DEF Sends
<1>3. /\ EntriesFit(U) /\ Given(Current, F, U) /\ \A e \in U : arp_entries[e].ip # ip
  BY <1>1, <1>2 DEF TableFits, Asking, Given
<1>4. PICK heap : /\ Rings(heap, F, U)
                  /\ h = ListFirst(heap, FREE) /\ links = ListRemove(heap, h)
  BY <1>1, <1>3 DEF Given
<1> DEFINE G == F \ {h}
           V == U \cup {h}
<1>5. h \in F /\ Rings(links', G, V)
  BY <1>1, <1>2, <1>4, MoveToUsed
<1>6. U \subseteq Entries /\ h \notin U /\ V \subseteq Entries
  BY <1>2, <1>4, <1>5 DEF Rings
<1> DEFINE entry == SetUp(arp_entries[h], ip, p)
<1>7. Fitting(entry) /\ entry.ip = ip
  <2>1. \A q \in Queues : p \notin QueuePackets(q)
    BY <1>2, FirstCall
  <2>2. /\ arp_entries[h] \in ArpEntry /\ IsInjective(arp_entries[h].packet_queue)
        /\ p \notin Range(arp_entries[h].packet_queue)
    BY <1>2, <2>1, EntryFields, QueueNames DEF QueuePackets
  <2> DEFINE old == arp_entries[h]
  <2>3. old \in ArpEntry /\ IsInjective(old.packet_queue) /\ p \notin Range(old.packet_queue)
    BY <2>2
  <2>4. Len(old.packet_queue) = 0
    BY <1>2, <1>3, <1>6 DEF EntriesFit
  <2> HIDE DEF old, entry
  <2>5. LET later == SetUp(old, ip, p) IN
        /\ later.ip = ip /\ ~later.contain_valid_mapping /\ later.packet_count = 1
        /\ Len(later.packet_queue) = Len(old.packet_queue) + 1
    BY <1>2, <2>3, SetUpEntry
  <2>6. /\ entry.ip = ip /\ ~entry.contain_valid_mapping /\ entry.packet_count = 1
        /\ Len(entry.packet_queue) = 1
    BY <2>4, <2>5 DEF entry, old
  <2>7. 1 =< MaxQueueSize
    BY StackAssumption
  <2>8. QED
    BY <1>2, <2>6, <2>7 DEF Fitting
<1> HIDE DEF entry
<1>8. arp_entries' = [arp_entries EXCEPT ![h] = entry]
  BY <1>1 DEF entry
<1>9. EntriesFit(V)'
  <2>1. \A e \in Entries \ {h} : e \in V <=> e \in U
    OBVIOUS
  <2>2. \A e \in U \ {h} : arp_entries[e].ip # entry.ip
    BY <1>3, <1>7
  <2> HIDE DEF V
  <2>3. h \in V
    BY DEF V
  <2>4. QED
    BY <1>2, <1>3, <1>6, <1>7, <1>8, <2>1, <2>2, <2>3, TableChanges
<1> DEFINE x == Call("send_arp_packet")
<1>10. x.call = "send_arp_packet" /\ x \in {x} /\ Continues(<<x>>)
  BY <1>1, CallFields
<1> HIDE DEF x
<1>11. /\ Range(calls') \subseteq {x} \cup Range(Tail(calls))
       /\ \A y \in Range(Tail(calls)) : y.call \notin OnTable
  BY <1>1, <1>2, <1>10, CallReplaced
<1>12. \A y \in Range(calls') : y.call \notin {"arp_task_at", "free_entry", "arp_send"}
  BY <1>10, <1>11 DEF OnTable
<1>13. CallsFit(Range(calls'), V) /\ \A y \in Range(calls') : y.call # "arp_send"
  BY <1>12 DEF CallsFit
<1> HIDE DEF G, V
<1>14. TableFits(G, V)'
  BY <1>5, <1>9, <1>13, FitsAfter
<1>15. QED
  BY <1>14

\* A reply that is awaited, at a used entry, and what else handle_arp does.
LEMMA HandleArpFits ==
  ASSUME SInv, calls' \in Seq(CallSet), NEW F, NEW U, TableFits(F, U), HandleArp
  PROVE  TableFits(F, U)'
<1> DEFINE frees == With("free", Current.packet)
<1>1. /\ Runs("handle_arp") /\ Alone("handle_arp") /\ ~Asking /\ calls # <<>>
      /\ Head(calls).call = "handle_arp" /\ frees.call = "free"
  <2>1. Runs("handle_arp")
    BY DEF HandleArp, Drops
  <2>2. QED
    BY <2>1, RunningName, AloneNames, CallFields DEF Asking
<1>2. ASSUME NEW h \in Entries,
             arp_entries' = [arp_entries EXCEPT ![h].contain_valid_mapping = TRUE],
             Continues(<<OnEntry("send_packets_on_entry", h), frees>>), UNCHANGED links
      PROVE  TableFits(F, U)'
  <2> DEFINE x     == OnEntry("send_packets_on_entry", h)
             entry == Mapping(arp_entries[h])
  <2>1. x.call = "send_packets_on_entry"
    BY CallFields
  <2>2. /\ entry.ip = arp_entries[h].ip /\ entry.contain_valid_mapping
        /\ entry.packet_queue = arp_entries[h].packet_queue
    BY EntryFields, MappedEntry
  <2>3. arp_entries' = [arp_entries EXCEPT ![h] = entry]
    BY <1>2 DEF Mapping
  <2>4. Continues(<<x, frees>>)
    BY <1>2
  <2> HIDE DEF entry, x, frees
  <2>5. h \in U => Fitting(entry)
    BY <1>1, <2>2, FitsFacts DEF EntriesFit, Fitting
  <2>6. h \notin U => entry.packet_queue = <<>>
    BY <1>1, <2>2, FitsFacts DEF EntriesFit
  <2>7. EntriesFit(U)'
    BY <1>1, <2>2, <2>3, <2>5, <2>6, FitsFacts, TableStays
  <2>8. Range(calls') \subseteq {x, frees} \cup Range(Tail(calls)) /\ Range(Tail(calls)) \subseteq Range(calls)
    <3>1. \E a, b \in {x, frees} : Continues(<<a, b>>)
      BY <2>4
    <3>2. QED
      BY <1>1, <3>1, CallReplaced
  <2>9. \A y \in Range(calls') :
          y.call \in {"arp_task_at", "free_entry", "arp_send"} => y \in Range(calls)
    BY <1>1, <2>1, <2>8
  <2>10. CallsFit(Range(calls'), U) /\ \A y \in Range(calls') : y.call # "arp_send"
    BY <1>1, <2>9, FitsFacts, FewerCalls
  <2>11. Rings(links', F, U)
    BY <1>1, <1>2, FitsFacts
  <2>12. QED
    BY <2>7, <2>10, <2>11, FitsAfter
<1>3. ASSUME Continues(<<Call("send_arp_packet"), frees>>), UNCHANGED layers
      PROVE  Quiet
  <2> DEFINE x == Call("send_arp_packet")
  <2>1. x.call = "send_arp_packet"
    BY CallFields
  <2> HIDE DEF frees, x
  <2>2. x.call \notin OnTable /\ frees.call \notin OnTable
    BY <1>1, <2>1, OffTable
  <2>3. InOrder({x, frees}) /\ UNCHANGED <<arp_entries, links>>
    BY <1>1, <1>3, <2>2, SecondInOrder DEF x, layers
  <2>4. QED
    BY <2>2, <2>3 DEF Quiet, Other
<1>4. QED
  BY <1>1, <1>2, <1>3, DropsQuiet, QuietFits DEF HandleArp, Awaited

\* Packets are sent on an entry whose mapping is valid.
LEMMA SendPacketsFits ==
  ASSUME SInv, calls' \in Seq(CallSet), NEW F, NEW U, TableFits(F, U), SendPacketsOnEntry
  PROVE  TableFits(F, U)'
<1> DEFINE h == Current.entry
           x == With("mac_send", Head(arp_entries[h].packet_queue))
<1>1. /\ Runs("send_packets_on_entry") /\ UNCHANGED links
      /\ IF arp_entries[h].packet_queue = <<>>
         THEN Returns /\ UNCHANGED arp_entries
         ELSE /\ calls' = <<x>> \o calls
              /\ arp_entries' = [arp_entries EXCEPT ![h].packet_queue = Tail(@)]
  BY DEF SendPacketsOnEntry
<1>2. /\ calls # <<>> /\ Head(calls) = Current /\ h \in Entries /\ ~Asking
      /\ Current.call = "send_packets_on_entry" /\ Alone("send_packets_on_entry")
  BY <1>1, RunningCall, AloneNames DEF Entry, Asking
<1>3. x.call = "mac_send" /\ "mac_send" \in Above("send_packets_on_entry")
  BY CallFields DEF Above
<1>4. arp_entries[h].contain_valid_mapping
  <2>1. calls \in Seq(CallSet) /\ Sending
    BY DEF SInv, LInv, LayerTypes, QInv
  <2>2. 1 \in DOMAIN calls /\ Head(calls) = calls[1]
    BY <1>2, <2>1
  <2>3. QED
    BY <1>2, <2>1, <2>2 DEF Sending
<1> HIDE DEF h, x
<1>5. InOrder({x})
  BY <1>1, <1>2, <1>3 DEF InOrder
<1>6. Range(calls') \subseteq {x} \cup Range(calls)
  BY <1>5, OrderKept
<1>7. \A y \in Range(calls') :
        y.call \in {"arp_task_at", "free_entry", "arp_send"} => y \in Range(calls)
  BY <1>3, <1>6
<1>8. CallsFit(Range(calls'), U) /\ \A y \in Range(calls') : y.call # "arp_send"
  BY <1>2, <1>7, FitsFacts, FewerCalls
<1>9. EntriesFit(U)'
  <2>1. CASE arp_entries[h].packet_queue = <<>>
    BY <1>1, <1>2, <2>1, FitsFacts DEF EntriesFit, OneEach
  <2>2. CASE arp_entries[h].packet_queue # <<>>
    <3> DEFINE entry == WithoutSent(arp_entries[h])
               queue == arp_entries[h].packet_queue
    <3>1. /\ entry.ip = arp_entries[h].ip /\ entry.contain_valid_mapping
          /\ entry.packet_queue = Tail(queue) /\ queue \in Seq(Packets)
      BY <1>2, <1>4, <2>2, EntryFields, SentEntry
    <3>2. arp_entries' = [arp_entries EXCEPT ![h] = entry]
      BY <1>1, <2>2 DEF WithoutSent
    <3>3. h \in U /\ Fitting(arp_entries[h])
      BY <1>2, <2>2, FitsFacts DEF EntriesFit
    <3>4. arp_entries[h].ip \in Hosts /\ Len(queue) =< MaxQueueSize /\ queue # <<>>
      BY <2>2, <3>3 DEF Fitting
    <3> HIDE DEF entry, queue
    <3>5. Len(Tail(queue)) =< MaxQueueSize
      BY <3>1, <3>4, StackAssumption
    <3>6. Fitting(entry)
      BY <3>1, <3>4, <3>5 DEF Fitting
    <3>7. QED
      BY <1>2, <3>1, <3>2, <3>3, <3>6, FitsFacts, TableStays
  <2>3. QED
    BY <2>1, <2>2
<1>10. Rings(links', F, U)
  BY <1>1, <1>2, FitsFacts
<1>11. QED
  BY <1>8, <1>9, <1>10, FitsAfter

\* free_entry empties the queue and then moves the entry to the free list.
LEMMA FreeEntryFits ==
  ASSUME SInv, calls' \in Seq(CallSet), NEW F, NEW U, TableFits(F, U), FreeEntry
  PROVE  \E G, V : TableFits(G, V)'
<1>1. PICK h :
        /\ h = Current.entry /\ Runs("free_entry")
        /\ IF arp_entries[h].packet_queue = <<>>
           THEN Returns /\ links' = FreeLinks(h) /\ UNCHANGED arp_entries
           ELSE /\ arp_entries' = [arp_entries EXCEPT ![h] = Dequeued(@)]
                /\ UNCHANGED <<calls, links>>
  BY DEF FreeEntry
<1>2. /\ calls # <<>> /\ Head(calls) = Current /\ Current.call = "free_entry"
      /\ h \in Entries /\ ~Asking
  BY <1>1, RunningCall DEF Entry, Asking
<1>3. h \in U
  BY <1>1, <1>2, FitsFacts DEF CallsFit
<1>4. CASE arp_entries[h].packet_queue = <<>>
  <2> DEFINE G == F \cup {h}
             V == U \ {h}
             none == {}
  <2>1. Rings(links', G, V)
    BY <1>1, <1>2, <1>3, <1>4, FitsFacts, MoveToFree DEF FreeLinks
  <2>2. EntriesFit(V)'
    BY <1>1, <1>2, <1>4, FitsFacts DEF EntriesFit, OneEach
  <2>3. CallsFit(Range(calls'), V) /\ \A y \in Range(calls') : y.call # "arp_send"
    <3>1. /\ Range(calls') \subseteq none \cup Range(Tail(calls))
          /\ Range(Tail(calls)) \subseteq Range(calls)
      BY <1>1, <1>2, <1>4, CallReplaced
    <3>2. \A y \in Range(Tail(calls)) : y.call # "free_entry"
      <4>1. calls \in Seq(CallSet) /\ Ordered(calls)
        BY DEF SInv, LInv, LayerTypes, QInv
      <4>2. \A k \in DOMAIN Tail(calls) : Tail(calls)[k].call \in OnTable =>
              "free_entry" \in Above(Tail(calls)[k].call)
        BY <1>2, <4>1, OrderReturns
      <4>3. "free_entry" \in OnTable /\ "free_entry" \notin Above("free_entry")
        BY DEF OnTable, Above
      <4>4. QED
        BY <4>2, <4>3 DEF Range
    <3>3. CallsFit(Range(calls), U) /\ \A y \in Range(calls) : y.call # "arp_send"
      BY <1>2, FitsFacts
    <3>4. \A y \in Range(calls) : y.call = "arp_task_at" => y.node # h
      BY <1>1, <1>2, <3>3, FitsFacts DEF CallsFit
    <3>5. \A y \in Range(calls') : y \in Range(calls) /\ y.call # "free_entry"
      BY <3>1, <3>2
    <3>6. QED
      BY <3>3, <3>4, <3>5 DEF CallsFit
  <2> HIDE DEF G, V
  <2>4. TableFits(G, V)'
    BY <2>1, <2>2, <2>3, FitsAfter
  <2>5. QED
    BY <2>4
<1>5. CASE arp_entries[h].packet_queue # <<>>
  <2> DEFINE entry == Dequeued(arp_entries[h])
             queue == arp_entries[h].packet_queue
  <2>1. /\ entry.ip = arp_entries[h].ip
        /\ entry.contain_valid_mapping = arp_entries[h].contain_valid_mapping
        /\ entry.packet_queue = Tail(queue) /\ queue \in Seq(Packets)
        /\ entry.packet_count = arp_entries[h].packet_count - 1
    BY <1>2, <1>5, EntryFields, FreedEntry
  <2>2. arp_entries' = [arp_entries EXCEPT ![h] = entry] /\ UNCHANGED <<calls, links>>
    BY <1>1, <1>5
  <2>3. Fitting(arp_entries[h])
    BY <1>2, <1>3, FitsFacts DEF EntriesFit
  <2>4. /\ arp_entries[h].ip \in Hosts /\ Len(queue) =< MaxQueueSize /\ queue # <<>>
        /\ ~arp_entries[h].contain_valid_mapping => arp_entries[h].packet_count = Len(queue)
    BY <1>5, <2>3 DEF Fitting
  <2> HIDE DEF entry, queue
  <2>5. Len(Tail(queue)) = Len(queue) - 1 /\ Len(queue) \in Nat
    BY <2>1, <2>4
  <2>6. Len(Tail(queue)) =< MaxQueueSize
    BY <2>4, <2>5, StackAssumption
  <2>7. ~entry.contain_valid_mapping => entry.packet_count = Len(entry.packet_queue)
    BY <2>1, <2>4, <2>5
  <2>8. Fitting(entry)
    BY <2>1, <2>4, <2>6, <2>7 DEF Fitting
  <2>9. EntriesFit(U)'
    BY <1>2, <1>3, <2>1, <2>2, <2>8, FitsFacts, TableStays
  <2>10. /\ Rings(links', F, U) /\ CallsFit(Range(calls'), U)
         /\ \A y \in Range(calls') : y.call # "arp_send"
    BY <1>2, <2>2, FitsFacts
  <2>11. TableFits(F, U)'
    BY <2>9, <2>10, FitsAfter
  <2>12. QED
    BY <2>11
<1>6. QED
  BY <1>4, <1>5

\* arp_task walks over the used entries.
LEMMA ArpTaskFits ==
  ASSUME SInv, calls' \in Seq(CallSet), NEW F, NEW U, TableFits(F, U),
         ArpTaskStarts \/ ArpTaskVisits
  PROVE  TableFits(F, U)'
<1>1. /\ calls # <<>> /\ ~Asking /\ Alone(Head(calls).call) /\ UNCHANGED <<arp_entries, links>>
  BY RunningName, AloneNames DEF ArpTaskStarts, ArpTaskVisits, layers, Asking
<1>2. /\ Rings(links', F, U) /\ EntriesFit(U)'
  BY <1>1, FitsFacts DEF EntriesFit, OneEach
<1>3. ASSUME NEW new,
             \/ Returns
             \/ \E x \in new : Continues(<<x>>)
             \/ \E x, y \in new : Continues(<<x, y>>),
             CallsFit(new, U), \A x \in new : x.call # "arp_send"
      PROVE  TableFits(F, U)'
  <2>1. /\ Range(calls') \subseteq new \cup Range(Tail(calls))
        /\ \A y \in Range(Tail(calls)) : y.call \notin OnTable
    BY <1>1, <1>3, CallReplaced
  <2>2. \A y \in Range(calls') : y.call \in {"arp_task_at", "free_entry", "arp_send"} => y \in new
    BY <2>1 DEF OnTable
  <2>3. CallsFit(Range(calls'), U) /\ \A y \in Range(calls') : y.call # "arp_send"
    BY <1>3, <2>2, FewerCalls
  <2>4. QED
    BY <1>2, <2>3, FitsAfter
<1>4. CASE ArpTaskStarts
  <2> DEFINE x == ArpTaskAt(ListFirst(links, USED))
  <2>1. x.call = "arp_task_at" /\ x.node \in U \cup {USED}
    BY <1>1, FitsFacts, RingsFacts, CallFields DEF ListFirst
  <2>2. x \in {x} /\ Continues(<<x>>)
    BY <1>4 DEF ArpTaskStarts
  <2> HIDE DEF x
  <2> DEFINE new == {x}
  <2>3. CallsFit(new, U) /\ \A y \in new : y.call # "arp_send"
    BY <2>1 DEF CallsFit
  <2>4. \E y \in new : Continues(<<y>>)
    BY <2>2
  <2> HIDE DEF new
  <2>5. QED
    BY <1>3, <2>3, <2>4
<1>5. CASE ArpTaskVisits
  <2> DEFINE later == ArpTaskAt(NextNode(Current.node))
             frees == OnEntry("free_entry", Current.node)
             asks  == Call("send_arp_packet")
             none  == {}
  <2>1. /\ Runs("arp_task_at")
        /\ \/ Returns
           \/ /\ Current.node \in Entries
              /\ \/ Continues(<<later>>)
                 \/ Continues(<<frees, later>>) \/ Continues(<<asks, later>>)
    BY <1>5 DEF ArpTaskVisits
  <2>2. CASE Returns
    <3>1. CallsFit(none, U) /\ \A x \in none : x.call # "arp_send"
      BY DEF CallsFit
    <3> HIDE DEF none
    <3>2. QED
      BY <1>3, <2>2, <3>1
  <2>3. CASE Current.node \in Entries
    <3>1. Current.node \in U
      <4>1. Current \in Range(calls) /\ Current.call = "arp_task_at"
        BY <1>1, <2>1, FitsFacts DEF Current, Runs
      <4>2. QED
        BY <1>1, <2>3, <4>1, FitsFacts DEF CallsFit
    <3>2. NextNode(Current.node) \in (U \ {Current.node}) \cup {USED}
      BY <1>1, <3>1, FitsFacts, RingsFacts DEF NextNode
    <3>3. Current.node # USED
      BY <1>1, <2>3, FitsFacts
    <3>4. /\ later.call = "arp_task_at" /\ later.node \in (U \ {Current.node}) \cup {USED}
          /\ frees.call = "free_entry" /\ frees.entry = Current.node
          /\ asks.call = "send_arp_packet"
      BY <3>2, CallFields
    <3> DEFINE new == {later, frees, asks}
    <3> HIDE DEF later, frees, asks
    <3>5. CallsFit(new, U) /\ \A x \in new : x.call # "arp_send"
      BY <3>1, <3>3, <3>4 DEF CallsFit
    <3>6. \/ Returns
          \/ \E x \in new : Continues(<<x>>)
          \/ \E x, y \in new : Continues(<<x, y>>)
      BY <2>1
    <3> HIDE DEF new
    <3>7. QED
      BY <1>3, <3>5, <3>6
  <2>4. QED
    BY <2>1, <2>2, <2>3
<1>6. QED
  BY <1>4, <1>5

\* There are such lists.
TableOK == \E F, U : TableFits(F, U)

\* Every step keeps the table.
LEMMA NextTableOK ==
  ASSUME EnoughEntries, SInv, TableOK, [StackNext]_stackVars
  PROVE  TableOK'
<1>1. PICK F, U : TableFits(F, U)
  BY DEF TableOK
<1>2. SUFFICES \E G, V : TableFits(G, V)'
  BY DEF TableOK
<1>3. calls' \in Seq(CallSet)
  BY NextSInv DEF SInv, LInv, LayerTypes
<1>4. CASE UNCHANGED <<calls, arp_entries, links>>
  BY <1>1, <1>4, StillFits
<1>5. CASE Quiet /\ ~Asking
  BY <1>1, <1>3, <1>5, QuietFits
<1>6. ASSUME NEW name, name # "arp_send", Runs(name) PROVE ~Asking
  BY <1>6, RunningName DEF Asking
<1>7. CASE UNCHANGED stackVars \/ Hardware
  BY <1>4, <1>7 DEF stackVars, layers, Hardware
<1>8. CASE Application
  <2>1. ~Asking
    BY <1>8 DEF Application, Asking
  <2>2. QED
    BY <1>5, <1>8, <2>1, ClientsQuiet
<1>9. CASE DhcpTask \/ DhcpRead \/ TftpReadsOack \/ TftpReadsData
  <2>1. Runs("dhcp_task") \/ Runs("dhcp_read") \/ Runs("tftp_read")
    BY <1>9 DEF DhcpTask, DhcpRead, TftpReadsOack, TftpReadsData, ReadsNothing, Takes
  <2>2. QED
    BY <1>5, <1>6, <1>9, <2>1, ClientsQuiet
<1>10. CASE UdpSends \/ SendsArpPacket \/ MacSends
  <2>1. Runs("udp_send") \/ Runs("send_arp_packet") \/ Runs("mac_send")
    BY <1>10 DEF UdpSends, SendsArpPacket, Allocates, MacSends
  <2>2. QED
    BY <1>5, <1>6, <1>10, <2>1, SendingQuiet
<1>11. ASSUME NEW ip \in Hosts \cup {Everybody},
              IpSendsAtOnce(ip) \/ IpSendWaits(ip) \/ IpSendAsks(ip)
       PROVE  \E G, V : TableFits(G, V)'
  <2>1. CASE IpSendsAtOnce(ip)
    <3>1. Runs("ip_send")
      BY <2>1 DEF IpSendsAtOnce, IpSends
    <3>2. QED
      BY <1>5, <1>6, <2>1, <3>1, SendingQuiet
  <2>2. CASE IpSendWaits(ip)
    BY <1>1, <1>3, <2>2, WaitsFits
  <2>3. CASE IpSendAsks(ip)
    BY <1>1, <1>3, <2>3, AsksFits
  <2>4. QED
    BY <1>11, <2>1, <2>2, <2>3
<1>12. CASE NetworkTaskReceives \/ NetworkTaskBreaks \/ HandleMac \/ HandleIp \/ HandleIcmp
              \/ HandleUdp \/ FreePacket
  <2>1. \/ Runs("network_task") \/ Runs("handle_mac") \/ Runs("handle_ip")
        \/ Runs("handle_icmp") \/ Runs("handle_udp") \/ Runs("free")
    BY <1>12 DEF NetworkTaskReceives, NetworkTaskBreaks, HandleMac, HandleIp, HandleIcmp,
                 HandleUdp, FreePacket, Drops, Passes
  <2>2. QED
    BY <1>5, <1>6, <1>12, <2>1, HandlingQuiet
<1>13. CASE ArpSendQueues \/ HandleArp \/ SendPacketsOnEntry \/ FreeEntry
              \/ ArpTaskStarts \/ ArpTaskVisits
  BY <1>1, <1>3, <1>13, QueuesFits, HandleArpFits, SendPacketsFits, FreeEntryFits, ArpTaskFits
<1>14. QED
  BY <1>7, <1>8, <1>9, <1>10, <1>11, <1>12, <1>13 DEF StackNext, Step

\* All the entries are free at first.
LEMMA InitTableOK == StackInit => TableOK
<1> SUFFICES ASSUME StackInit PROVE TableOK
  OBVIOUS
<1>1. PICK order \in SetToSeqs(Entries) : links = ListOf(Nodes, order, FREE)
  BY DEF StackInit
<1> DEFINE none == {}
<1>2. Rings(links, Entries, none)
  BY <1>1, InitialRings
<1>3. EntriesFit(none)
  BY DEF StackInit, EntriesFit, OneEach, ZeroEntry
<1>4. calls = <<>> /\ Range(calls) = {}
  BY DEF StackInit, Range
<1>5. CallsFit(Range(calls), none)
  BY <1>4 DEF CallsFit
<1> HIDE DEF none
<1>6. TableFits(Entries, none)
  BY <1>2, <1>3, <1>4, <1>5 DEF TableFits, Asking
<1>7. QED
  BY <1>6 DEF TableOK

\* With an entry for each address the table always holds.
LEMMA TableAlwaysOK == ASSUME EnoughEntries PROVE StackSpec => [](SInv /\ TableOK)
<1>1. SInv /\ TableOK /\ [StackNext]_stackVars => SInv' /\ TableOK'
  BY NextSInv, NextTableOK
<1>2. QED
  BY <1>1, InitSInv, InitTableOK, PTL DEF StackSpec

\* With an entry for each address nothing is ever evicted: whatever replies come
\* or fail to come, when arp_send meets an address that has no entry, the free
\* list has one left.
THEOREM EntriesSuffice == ASSUME EnoughEntries PROVE StackSpec => []NothingEvicted
<1>1. SInv /\ TableOK => NothingEvicted
  <2> SUFFICES ASSUME SInv, TableOK, Runs("ip_send"), Current.ip \in Hosts,
                      Find(Current.ip) = USED
               PROVE  ~ListIsEmpty(links, FREE)
    BY DEF NothingEvicted
  <2>1. PICK F, U : TableFits(F, U)
    BY DEF TableOK
  <2>2. ~Asking
    BY RunningName DEF Asking
  <2>3. PICK ip \in Hosts : ip = Current.ip
    OBVIOUS
  <2>4. QED
    BY <2>1, <2>2, <2>3, FitsFacts, FreeEntryLeft
<1>2. QED
  BY <1>1, TableAlwaysOK, PTL

-----------------------------------------------------------------------------
(* Counting packets. *)

\* S is a set of at most n elements.
Bounded(S, n) == IsFiniteSet(S) /\ Cardinality(S) \in Nat /\ Cardinality(S) =< n

\* A subset has no more elements.
LEMMA BoundedSubset ==
  ASSUME NEW S, NEW n \in Nat, Bounded(S, n), NEW T, T \subseteq S
  PROVE  Bounded(T, n)
<1>1. IsFiniteSet(T) /\ Cardinality(T) =< Cardinality(S)
  BY FS_Subset DEF Bounded
<1>2. Cardinality(T) \in Nat
  BY <1>1, FS_CardinalityType
<1>3. QED
  BY <1>1, <1>2 DEF Bounded

\* A union has no more elements than its parts together.
LEMMA BoundedUnion ==
  ASSUME NEW S, NEW m \in Nat, Bounded(S, m), NEW T, NEW n \in Nat, Bounded(T, n)
  PROVE  Bounded(S \cup T, m + n)
<1>1. /\ IsFiniteSet(S \cup T)
      /\ Cardinality(S \cup T) = Cardinality(S) + Cardinality(T) - Cardinality(S \cap T)
  BY FS_Union DEF Bounded
<1>2. IsFiniteSet(S \cap T)
  BY FS_Subset DEF Bounded
<1>3. Cardinality(S \cap T) \in Nat /\ Cardinality(S \cup T) \in Nat
  BY <1>1, <1>2, FS_CardinalityType
<1>4. QED
  BY <1>1, <1>3 DEF Bounded

\* A function has no more values than its domain has elements.
LEMMA BoundedRange ==
  ASSUME NEW S, NEW n \in Nat, Bounded(S, n), NEW T, NEW f \in [S -> T]
  PROVE  Bounded(Range(f), n)
<1>1. f \in Surjection(S, Range(f))
  BY DEF Surjection, Range
<1>2. IsFiniteSet(Range(f)) /\ Cardinality(Range(f)) =< Cardinality(S)
  BY <1>1, FS_Surjection DEF Bounded
<1>3. Cardinality(Range(f)) \in Nat
  BY <1>2, FS_CardinalityType
<1>4. QED
  BY <1>2, <1>3 DEF Bounded

\* The intervals that number places and slots.
LEMMA BoundedInterval ==
  ASSUME NEW n \in Nat
  PROVE  Bounded(1 .. n, n) /\ Bounded(0 .. n - 1, n)
<1>1. /\ IsFiniteSet(1 .. n) /\ Cardinality(1 .. n) = IF 1 > n THEN 0 ELSE n - 1 + 1
      /\ IsFiniteSet(0 .. n - 1) /\ Cardinality(0 .. n - 1) = IF 0 > n - 1 THEN 0 ELSE n - 1 - 0 + 1
  <2>1. 1 \in Int /\ 0 \in Int /\ n \in Int /\ n - 1 \in Int
    OBVIOUS
  <2>2. QED
    BY <2>1, FS_Interval
<1>2. QED
  BY <1>1 DEF Bounded

\* The packets of a connection, and of all the ARP entries.
LEMMA BoundedQueue ==
  ASSUME NEW s \in Seq(Packets), NEW n \in Nat, Len(s) =< n
  PROVE  Bounded(Range(s), n)
<1>1. Len(s) \in Nat /\ s \in [1 .. Len(s) -> Packets]
  OBVIOUS
<1>2. Bounded(1 .. Len(s), n)
  BY <1>1, BoundedInterval DEF Bounded
<1>3. QED
  BY <1>1, <1>2, BoundedRange

ArpPackets == UNION {Range(arp_entries[h].packet_queue) : h \in Entries}

\* No ARP queue is longer than it may be.
LEMMA ShortQueues ==
  ASSUME SInv, TableOK, NEW e \in Entries
  PROVE  /\ arp_entries[e].packet_queue \in Seq(Packets)
         /\ Len(arp_entries[e].packet_queue) =< MaxQueueSize
<1>1. PICK F, U : TableFits(F, U)
  BY DEF TableOK
<1>2. arp_entries[e].packet_queue \in Seq(Packets)
  BY EntryFields
<1>3. Len(arp_entries[e].packet_queue) =< MaxQueueSize \/ arp_entries[e].packet_queue = <<>>
  BY <1>1 DEF TableFits, EntriesFit, Fitting
<1>4. Len(<<>>) =< MaxQueueSize
  BY StackAssumption
<1>5. QED
  BY <1>2, <1>3, <1>4

\* All the ARP queues together.
LEMMA BoundedEntries ==
  ASSUME SInv, TableOK
  PROVE  /\ Cardinality(Entries) * MaxQueueSize \in Nat
         /\ Bounded(ArpPackets, Cardinality(Entries) * MaxQueueSize)
<1> DEFINE S == Entries \X (1 .. MaxQueueSize)
           n == Cardinality(Entries) * MaxQueueSize
           f == [x \in S |-> arp_entries[x[1]].packet_queue[x[2]]]
           T == {f[x] : x \in S}
<1>1. IsFiniteSet(Entries) /\ MaxQueueSize \in Nat /\ Cardinality(Entries) \in Nat
  BY StackAssumption, NodesFinite
<1>2. IsFiniteSet(1 .. MaxQueueSize) /\ Cardinality(1 .. MaxQueueSize) = MaxQueueSize
  <2>1. /\ IsFiniteSet(1 .. MaxQueueSize)
        /\ Cardinality(1 .. MaxQueueSize) = IF 1 > MaxQueueSize THEN 0 ELSE MaxQueueSize - 1 + 1
    BY <1>1, FS_Interval
  <2>2. QED
    BY <1>1, <2>1
<1>3. IsFiniteSet(S) /\ Cardinality(S) = n
  BY <1>1, <1>2, FS_Product
<1>4. n \in Nat
  BY <1>1
<1>5. f \in [S -> T] /\ Range(f) = T
  BY DEF Range
<1> HIDE DEF S, n
<1>6. Bounded(S, n)
  BY <1>3, <1>4 DEF Bounded
<1>7. Bounded(T, n)
  <2> HIDE DEF T, f
  <2>1. QED
    BY <1>4, <1>5, <1>6, BoundedRange
<1>8. ArpPackets \subseteq T
  <2>1. SUFFICES ASSUME NEW h \in Entries, NEW p \in Range(arp_entries[h].packet_queue)
                 PROVE  p \in T
    BY DEF ArpPackets
  <2>2. arp_entries[h].packet_queue \in Seq(Packets) /\ Len(arp_entries[h].packet_queue) =< MaxQueueSize
    BY ShortQueues
  <2>3. PICK k \in DOMAIN arp_entries[h].packet_queue : arp_entries[h].packet_queue[k] = p
    BY <2>1 DEF Range
  <2>4. k \in 1 .. MaxQueueSize
    BY <1>1, <2>2
  <2>5. <<h, k>> \in S
    BY <2>4 DEF S
  <2>6. f[<<h, k>>] = p
    BY <2>3, <2>5
  <2>7. QED
    BY <2>5, <2>6
<1> HIDE DEF T
<1>9. QED
  BY <1>4, <1>7, <1>8, BoundedSubset DEF n

\* The packets that are held while the first call has none.
LEMMA BoundedHeld ==
  ASSUME SInv, TableOK, Complete, calls # <<>>, Carried(Head(calls)) = {},
         Head(calls).call # "free_entry"
  PROVE  LET queued == Cardinality(Entries) * MaxQueueSize IN
         queued \in Nat /\ Bounded(held, queued + MaxPacketCount + 1 + 1)
<1> DEFINE queued == Cardinality(Entries) * MaxQueueSize
           A      == Range(connections[1].packet_queue)
           B      == Range(connections[2].packet_queue)
<1>1. queued \in Nat /\ Bounded(ArpPackets, queued)
  BY BoundedEntries
<1>2. /\ MaxPacketCount \in Nat /\ Bounded(A, MaxPacketCount) /\ Bounded(B, 1)
  <2>1. /\ connections \in Seq(Connection) /\ Len(connections) = 2
        /\ Counted(connections[1]) /\ connections[1].max_packet_count = MaxPacketCount
        /\ Counted(connections[2]) /\ connections[2].max_packet_count = 1
    BY DEF SInv, LInv, LayerTypes
  <2>2. DOMAIN connections = 1 .. Len(connections)
    BY <2>1
  <2>3. 1 \in DOMAIN connections /\ 2 \in DOMAIN connections
    BY <2>1, <2>2
  <2>4. connections[1] \in Connection /\ connections[2] \in Connection
    BY <2>1, <2>3
  <2>5. /\ connections[1].packet_queue \in Seq(Packets)
        /\ connections[2].packet_queue \in Seq(Packets)
    BY <2>4 DEF Connection, ConnectionsOf
  <2>6. /\ Len(connections[1].packet_queue) =< MaxPacketCount
        /\ Len(connections[2].packet_queue) =< 1
    BY <2>1 DEF Counted
  <2>7. MaxPacketCount \in Nat
    BY StackAssumption
  <2>8. QED
    BY <2>5, <2>6, <2>7, BoundedQueue
<1>3. Bounded(PacketsOf(calls), 1)
  <2>1. AtMostOne(calls)
    BY OneInHand
  <2>2. \E x : PacketsOf(calls) \subseteq {x}
    <3>1. CASE PacketsOf(calls) = {}
      BY <3>1
    <3>2. CASE PacketsOf(calls) # {}
      <4>1. PICK p \in PacketsOf(calls) : TRUE
        BY <3>2
      <4>2. PICK k \in DOMAIN calls : p \in Carried(calls[k])
        BY <4>1 DEF PacketsOf
      <4>3. \A l \in DOMAIN calls : l # k => Carried(calls[l]) = {}
        BY <2>1, <4>2 DEF AtMostOne
      <4>4. Carried(calls[k]) = {p}
        BY <4>2 DEF Carried
      <4>5. PacketsOf(calls) \subseteq {p}
        BY <4>3, <4>4 DEF PacketsOf
      <4>6. QED
        BY <4>5
    <3>3. QED
      BY <3>1, <3>2
  <2>3. PICK x : PacketsOf(calls) \subseteq {x}
    BY <2>2
  <2>4. Bounded({x}, 1)
    <3>1. IsFiniteSet({x}) /\ Cardinality({x}) = 1
      BY FS_Singleton
    <3>2. QED
      BY <3>1 DEF Bounded
  <2>5. QED
    BY <2>3, <2>4, BoundedSubset
<1>4. held \subseteq ArpPackets \cup A \cup B \cup PacketsOf(calls)
  <2>1. SUFFICES ASSUME NEW p \in held, p \notin PacketsOf(calls)
                 PROVE  p \in ArpPackets \cup A \cup B
    OBVIOUS
  <2>2. PICK q \in Queues : p \in QueuePackets(q)
    BY <2>1 DEF Complete
  <2>3. CASE \E h \in Entries : q = <<"arp", h>>
    BY <2>2, <2>3, QueueNames DEF QueuePackets, ArpPackets
  <2>4. CASE \E i \in {1, 2} : q = <<"udp", i>>
    BY <2>2, <2>4, QueueNames DEF QueuePackets
  <2>5. QED
    BY <2>3, <2>4, QueueNames
<1> HIDE DEF queued, A, B
<1>5. Bounded(ArpPackets \cup A, queued + MaxPacketCount)
  BY <1>1, <1>2, BoundedUnion
<1>6. Bounded(ArpPackets \cup A \cup B, queued + MaxPacketCount + 1)
  BY <1>1, <1>2, <1>5, BoundedUnion
<1>7. Bounded(ArpPackets \cup A \cup B \cup PacketsOf(calls), queued + MaxPacketCount + 1 + 1)
  <2> DEFINE sum == queued + MaxPacketCount + 1
             set == ArpPackets \cup A \cup B
  <2>1. sum \in Nat /\ 1 \in Nat
    BY <1>1, <1>2
  <2> HIDE DEF sum, set
  <2>2. Bounded(set \cup PacketsOf(calls), sum + 1)
    BY <1>3, <1>6, <2>1, BoundedUnion DEF sum, set
  <2>3. QED
    BY <2>2 DEF sum, set
<1>8. QED
  BY <1>1, <1>2, <1>4, <1>7, BoundedSubset DEF queued

\* With every queue full and every slot occupied there is still a packet for the
\* call that needs one.
LEMMA EnoughPackets ==
  ASSUME SInv, TableOK, Complete
  PROVE  PoolSuffices
<1> SUFFICES ASSUME NeedsPacket, free_network_packets = <<>> PROVE FALSE
  BY DEF PoolSuffices
<1> DEFINE queued == Cardinality(Entries) * MaxQueueSize
           most   == queued + MaxPacketCount + 1 + 1
<1>1. calls # <<>> /\ Carried(Head(calls)) = {} /\ Head(calls).call # "free_entry"
  <2>1. PICK name \in {"udp_send", "send_arp_packet", "network_task"} : Runs(name)
    BY DEF NeedsPacket
  <2>2. QED
    BY <2>1, RunningCall DEF InHand, Sends
<1>2. queued \in Nat /\ Bounded(held, most)
  BY <1>1, BoundedHeld
<1>3. MaxPacketCount \in Nat /\ TxCount \in Nat /\ RxCount \in Nat /\ PacketCount \in Nat
  BY StackAssumption, RingAssumption
<1>4. Bounded(Range(tx_packets), TxCount) /\ Bounded(Range(rx_packets), RxCount)
  <2>1. tx_packets \in [TxSlots -> Packets] /\ rx_packets \in [RxSlots -> Packets]
    BY DEF SInv, IInv, TypeOK
  <2>2. Bounded(TxSlots, TxCount) /\ Bounded(RxSlots, RxCount)
    BY <1>3, BoundedInterval DEF TxSlots, RxSlots
  <2>3. QED
    BY <1>3, <2>1, <2>2, BoundedRange
<1>5. Packets \subseteq held \cup Range(tx_packets) \cup Range(rx_packets)
  <2>1. Range(free_network_packets) = {}
    BY DEF Range
  <2>2. QED
    BY <2>1 DEF SInv, IInv, PacketConservation, NothingLost
<1>6. PacketCount >= TxCount + RxCount + queued + MaxPacketCount + 1 + 2
  BY StackAssumption
<1>7. Cardinality(Packets) = PacketCount
  <2>1. /\ IsFiniteSet(0 .. PacketCount - 1)
        /\ Cardinality(0 .. PacketCount - 1) =
             IF 0 > PacketCount - 1 THEN 0 ELSE PacketCount - 1 - 0 + 1
    <3>1. 0 \in Int /\ PacketCount - 1 \in Int
      BY <1>3
    <3>2. QED
      BY <3>1, FS_Interval
  <2>2. QED
    BY <1>3, <2>1 DEF Packets
<1> HIDE DEF queued
<1>8. most \in Nat
  BY <1>2, <1>3
<1> HIDE DEF most
<1>9. Bounded(held \cup Range(tx_packets), most + TxCount)
  BY <1>2, <1>3, <1>4, <1>8, BoundedUnion
<1>10. Bounded(held \cup Range(tx_packets) \cup Range(rx_packets), most + TxCount + RxCount)
  <2> DEFINE sum == most + TxCount
             set == held \cup Range(tx_packets)
  <2>1. sum \in Nat
    BY <1>3, <1>8
  <2> HIDE DEF sum, set
  <2>2. Bounded(set \cup Range(rx_packets), sum + RxCount)
    BY <1>3, <1>4, <1>9, <2>1, BoundedUnion DEF sum, set
  <2>3. QED
    BY <2>2 DEF sum, set
<1>11. Bounded(Packets, most + TxCount + RxCount)
  BY <1>3, <1>5, <1>8, <1>10, BoundedSubset
<1>12. PacketCount =< most + TxCount + RxCount
  BY <1>7, <1>11 DEF Bounded
<1>13. QED
  BY <1>2, <1>3, <1>6, <1>12 DEF most

\* With an ARP entry for each address, and as long as no datagram is too short for
\* try_read_oack, a pool of the size that StackAssumption states is never empty when
\* a packet is needed: no allocation of the stack hangs.
THEOREM PoolLargeEnough ==
  ASSUME EnoughEntries, "short" \notin DatagramSizes
  PROVE  StackSpec => []PoolSuffices
<1>1. SInv /\ TableOK => PoolSuffices
  BY EnoughPackets DEF SInv, LInv
<1>2. QED
  BY <1>1, TableAlwaysOK, PTL

-----------------------------------------------------------------------------
(* What holds whatever arrives. *)

\* Even when try_read_oack forgets a short datagram, no packet is ever in the
\* hands of two calls, in a queue twice, in two queues, or in a place of the
\* software after it went back to the driver: nothing is freed or sent twice.
THEOREM NeverInTwoPlaces == StackSpec => []Ownership
<1>1. SInv => Ownership
  BY DEF SInv, LInv
<1>2. QED
  BY <1>1, StackInductive, PTL

\* What is proved of the pool and the rings holds under the stack: packets are
\* conserved and the engine has its buffers to itself.
THEOREM DriverSafeUnderStack == StackSpec => [](PacketConservation /\ DmaBuffersReserved)
BY RefinesDriver, PacketsConserved, DmaBuffersAreReserved, PTL

\* Under the stack both rings are still FIFOs: whatever handlers, timers and the
\* application send and receive, frames leave and arrive in order, each once.
THEOREM RingsUnderStack == StackSpec => TxRingIsFifo /\ RxRingIsFifo
BY RefinesDriver, TransmitsInOrder, ReceivesInOrder, PTL
==============================================================================
