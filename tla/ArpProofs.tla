------------------------------ MODULE ArpProofs ------------------------------
(***************************************************************************)
(* Theorems about Arp.                                                     *)
(*                                                                         *)
(* First what holds whatever is evicted, with the invariant IInv; then     *)
(* what holds as long as nothing is, with the invariant Fits, for a table  *)
(* with an entry for every host; last that every walk ends, whatever is    *)
(* evicted, with the invariant Iterates.                                   *)
(***************************************************************************)
EXTENDS Arp, QueueLemmas

-----------------------------------------------------------------------------
(* Entries and packets. *)

EntryTypes ==
  [ip : Ips \cup {NONE}, mac : Ips \cup {NONE}, contain_valid_mapping : BOOLEAN,
   age : Ages, retry_count : 0 .. RetryMaxCount,
   packet_queue : Seq(1 .. MaxSends), packet_count : Int]

PacketTypes == [ip : Ips, state : {"queued", "sent", "freed"}, mac : Ips \cup {NONE}]

LEMMA TypesSplit ==
  TypeOK <=> /\ links \in Heap /\ arp_entries \in [Entries -> EntryTypes] /\ cursor \in Nodes
             /\ packets \in Seq(PacketTypes) /\ Len(packets) =< MaxSends
BY DEF TypeOK, Heap, EntryTypes, PacketTypes

LEMMA TypesLater ==
  ASSUME links' \in Heap, arp_entries' \in [Entries -> EntryTypes], cursor' \in Nodes,
         packets' \in Seq(PacketTypes), Len(packets') =< MaxSends
  PROVE  TypeOK'
BY DEF TypeOK, Heap, EntryTypes, PacketTypes

\* Packets are queued in the order of their numbers.
InTurn(queue) == \A i, j \in DOMAIN queue : i < j => queue[i] < queue[j]

\* packet_count exceeds the queue only after the packets of the queue were sent.
CountHolds(entry) == ~entry.contain_valid_mapping => entry.packet_count =< Len(entry.packet_queue)

\* The queue that add_to_arp_entry_queue leaves.
LEMMA QueueAfter ==
  ASSUME NEW q \in Seq(1 .. MaxSends), IsInjective(q), NEW n \in 1 .. MaxSends, n \notin Range(q)
  PROVE  LET t == Append(q, n) IN
         /\ t \in Seq(1 .. MaxSends) /\ Len(t) = Len(q) + 1
         /\ IsInjective(t) /\ Range(t) = Range(q) \cup {n}
         /\ InTurn(q) /\ (\A p \in Range(q) : p < n) => InTurn(t)
<1> DEFINE N == 1 .. MaxSends
           t == Append(q, n)
<1>1. /\ t \in Seq(N) /\ Len(t) = Len(q) + 1 /\ IsInjective(t) /\ Range(t) = Range(q) \cup {n}
  <2>1. q \in Seq(N) /\ n \in N
    OBVIOUS
  <2> HIDE DEF N
  <2>2. QED
    BY <2>1, AppendAdds
<1>2. ASSUME InTurn(q), \A p \in Range(q) : p < n PROVE InTurn(t)
  <2>1. /\ DOMAIN q = 1 .. Len(q) /\ DOMAIN t = 1 .. Len(q) + 1 /\ Len(q) \in Nat
        /\ \A k \in 1 .. Len(q) : t[k] = q[k] /\ q[k] \in Range(q)
        /\ t[Len(q) + 1] = n
    BY DEF Range
  <2>2. SUFFICES ASSUME NEW i \in DOMAIN t, NEW j \in DOMAIN t, i < j PROVE t[i] < t[j]
    BY DEF InTurn
  <2>3. i \in 1 .. Len(q) /\ (j = Len(q) + 1 \/ j \in 1 .. Len(q))
    BY <2>1, <2>2
  <2>4. QED
    BY <1>2, <2>1, <2>2, <2>3 DEF InTurn
<1>3. QED
  BY <1>1, <1>2

\* What the first packet is, and the queue without it.
LEMMA QueueWithoutFirst ==
  ASSUME NEW q \in Seq(1 .. MaxSends), q # <<>>, IsInjective(q)
  PROVE  /\ Head(q) \in Range(q) /\ Tail(q) \in Seq(1 .. MaxSends) /\ Len(Tail(q)) = Len(q) - 1
         /\ IsInjective(Tail(q)) /\ Range(Tail(q)) = Range(q) \ {Head(q)}
         /\ InTurn(q) => /\ InTurn(Tail(q))
                         /\ \A p \in Range(q) : p # Head(q) => Head(q) < p
<1> DEFINE N == 1 .. MaxSends
<1>1. /\ Head(q) \in Range(q) /\ Tail(q) \in Seq(N) /\ IsInjective(Tail(q))
      /\ Range(Tail(q)) = Range(q) \ {Head(q)}
  <2>1. q \in Seq(N)
    OBVIOUS
  <2> HIDE DEF N
  <2>2. QED
    BY <2>1, TailRemoves
<1>2. /\ Len(q) \in Nat /\ Len(q) # 0 /\ DOMAIN q = 1 .. Len(q) /\ Head(q) = q[1]
      /\ Len(Tail(q)) = Len(q) - 1 /\ DOMAIN Tail(q) = 1 .. Len(q) - 1
      /\ \A k \in 1 .. Len(q) - 1 : Tail(q)[k] = q[k + 1]
  OBVIOUS
<1>3. ASSUME InTurn(q) PROVE InTurn(Tail(q))
  <2>1. SUFFICES ASSUME NEW i \in DOMAIN Tail(q), NEW j \in DOMAIN Tail(q), i < j
                 PROVE  Tail(q)[i] < Tail(q)[j]
    BY DEF InTurn
  <2>2. i + 1 \in DOMAIN q /\ j + 1 \in DOMAIN q /\ i + 1 < j + 1
    BY <1>2, <2>1
  <2>3. QED
    BY <1>2, <1>3, <2>2 DEF InTurn
<1>4. ASSUME InTurn(q), NEW p \in Range(q), p # Head(q) PROVE Head(q) < p
  <2>1. PICK k \in DOMAIN q : q[k] = p
    BY <1>4 DEF Range
  <2>2. 1 \in DOMAIN q /\ 1 < k
    BY <1>2, <1>4, <2>1
  <2>3. QED
    BY <1>2, <1>4, <2>1, <2>2 DEF InTurn
<1>5. QED
  BY <1>1, <1>2, <1>3, <1>4

\* An entry after add_to_arp_entry_queue.
LEMMA QueuedEntry ==
  ASSUME NEW entry \in EntryTypes, IsInjective(entry.packet_queue),
         entry.packet_count =< Len(entry.packet_queue),
         NEW n \in 1 .. MaxSends, n \notin Range(entry.packet_queue)
  PROVE  LET later == Queued(entry, n) IN
         /\ later \in EntryTypes
         /\ later.ip = entry.ip /\ later.mac = entry.mac
         /\ later.contain_valid_mapping = entry.contain_valid_mapping
         /\ later.packet_count =< Len(later.packet_queue)
         /\ QueueDrops(entry) \subseteq Range(entry.packet_queue)
         /\ IsInjective(later.packet_queue)
         /\ Range(later.packet_queue) = (Range(entry.packet_queue) \ QueueDrops(entry)) \cup {n}
         /\ entry.packet_count = Len(entry.packet_queue) =>
              later.packet_count = Len(later.packet_queue)
         /\ entry.packet_count \in 0 .. MaxQueueSize => later.packet_count \in 1 .. MaxQueueSize
         /\ InTurn(entry.packet_queue) /\ (\A p \in Range(entry.packet_queue) : p < n) =>
              InTurn(later.packet_queue)
         /\ InTurn(entry.packet_queue) =>
              \A d \in QueueDrops(entry), p \in Range(entry.packet_queue) : p # d => d < p
<1> DEFINE q     == entry.packet_queue
           rest  == IF Full(entry) THEN Tail(q) ELSE q
           count == IF Full(entry) THEN entry.packet_count ELSE entry.packet_count + 1
           later == Queued(entry, n)
<1>1. /\ q \in Seq(1 .. MaxSends) /\ Len(q) \in Nat /\ entry.packet_count \in Int
      /\ MaxQueueSize \in Nat \ {0}
  BY ArpAssumption DEF EntryTypes
<1>2. later = [entry EXCEPT !.packet_queue = Append(rest, n), !.packet_count = count]
  BY DEF Queued
<1>3. Full(entry) => q # <<>> /\ entry.packet_count = MaxQueueSize
  BY <1>1 DEF Full
<1>4. /\ rest \in Seq(1 .. MaxSends) /\ IsInjective(rest) /\ n \notin Range(rest)
      /\ QueueDrops(entry) \subseteq Range(q) /\ Range(rest) = Range(q) \ QueueDrops(entry)
      /\ Len(rest) = IF Full(entry) THEN Len(q) - 1 ELSE Len(q)
      /\ InTurn(q) => InTurn(rest) /\ \A d \in QueueDrops(entry), p \in Range(q) : p # d => d < p
  <2> HIDE DEF q
  <2>1. CASE Full(entry)
    BY <1>1, <1>3, <2>1, QueueWithoutFirst DEF QueueDrops, q
  <2>2. CASE ~Full(entry)
    BY <1>1, <2>2 DEF QueueDrops, q
  <2>3. QED
    BY <2>1, <2>2
<1>5. ~Full(entry) => entry.packet_count # MaxQueueSize
  BY DEF Full
<1> HIDE DEF rest
<1>6. LET t == Append(rest, n) IN
      /\ t \in Seq(1 .. MaxSends) /\ Len(t) = Len(rest) + 1
      /\ IsInjective(t) /\ Range(t) = Range(rest) \cup {n}
      /\ InTurn(rest) /\ (\A p \in Range(rest) : p < n) => InTurn(t)
  BY <1>4, QueueAfter
<1> DEFINE t == Append(rest, n)
<1> HIDE DEF t
<1>7. /\ t \in Seq(1 .. MaxSends) /\ Len(t) = Len(rest) + 1
      /\ IsInjective(t) /\ Range(t) = Range(rest) \cup {n}
      /\ InTurn(rest) /\ (\A p \in Range(rest) : p < n) => InTurn(t)
  BY <1>6 DEF t
<1>8. count \in Int /\ count =< Len(t) /\ (entry.packet_count = Len(q) => count = Len(t))
      /\ (entry.packet_count \in 0 .. MaxQueueSize => count \in 1 .. MaxQueueSize)
  BY <1>1, <1>3, <1>4, <1>5, <1>7
<1>9. later = [entry EXCEPT !.packet_queue = t, !.packet_count = count]
  BY <1>2 DEF t
<1> HIDE DEF count, later, q
<1>10. /\ later \in EntryTypes /\ later.packet_queue = t /\ later.packet_count = count
       /\ later.ip = entry.ip /\ later.mac = entry.mac
       /\ later.contain_valid_mapping = entry.contain_valid_mapping
  BY <1>7, <1>8, <1>9 DEF EntryTypes
<1>11. Range(t) = (Range(q) \ QueueDrops(entry)) \cup {n}
  BY <1>4, <1>7
<1>12. InTurn(q) /\ (\A p \in Range(q) : p < n) => InTurn(t)
  BY <1>4, <1>7
<1>13. QED
  BY <1>4, <1>7, <1>8, <1>10, <1>11, <1>12 DEF later, q

\* The packets after Fate: others than `numbers` stay as they are.
LEMMA FateOf ==
  ASSUME packets \in Seq(PacketTypes), NEW state \in {"queued", "sent", "freed"},
         NEW mac \in Ips \cup {NONE}, NEW numbers
  PROVE  LET later == Fate(state, mac, numbers) IN
         /\ later \in Seq(PacketTypes) /\ Len(later) = Len(packets) /\ DOMAIN later = DOMAIN packets
         /\ \A p \in DOMAIN packets :
              /\ p \in numbers => later[p].state = state /\ later[p].mac = mac
              /\ p \notin numbers => later[p] = packets[p]
              /\ later[p].ip = packets[p].ip
<1> DEFINE later == Fate(state, mac, numbers)
<1>1. DOMAIN packets = 1 .. Len(packets) /\ Len(packets) \in Nat
  OBVIOUS
<1>2. ASSUME NEW p \in DOMAIN packets
      PROVE  /\ later[p] \in PacketTypes
             /\ p \in numbers => later[p].state = state /\ later[p].mac = mac
             /\ p \notin numbers => later[p] = packets[p]
             /\ later[p].ip = packets[p].ip
  <2>1. packets[p] \in PacketTypes
    OBVIOUS
  <2>2. later[p] = IF p \in numbers THEN [packets[p] EXCEPT !.state = state, !.mac = mac] ELSE packets[p]
    BY DEF Fate
  <2>3. QED
    BY <2>1, <2>2 DEF PacketTypes
<1>3. later = [p \in 1 .. Len(packets) |-> later[p]]
  BY <1>1 DEF Fate
<1> HIDE DEF later
<1>4. later \in Seq(PacketTypes) /\ Len(later) = Len(packets) /\ DOMAIN later = DOMAIN packets
  BY <1>1, <1>2, <1>3
<1>5. QED
  BY <1>2, <1>4 DEF later

-----------------------------------------------------------------------------
(* Packets, evictions or not. *)

\* What is in a queue is there once, is in no other queue, and is recorded as
\* queued; and what is recorded as queued is in a queue.
Accounted ==
  /\ \A e \in Entries : /\ IsInjective(arp_entries[e].packet_queue)
                        /\ \A p \in Waiting(e) : p \in DOMAIN packets /\ packets[p].state = "queued"
  /\ \A d, e \in Entries : d # e => Waiting(d) \cap Waiting(e) = {}
  /\ \A p \in DOMAIN packets : packets[p].state = "queued" => \E e \in Entries : p \in Waiting(e)

CountsHold == \A e \in Entries : CountHolds(arp_entries[e])

IInv == TypeOK /\ Accounted /\ CountsHold

\* The packets D leave the queue of an entry, those of X are new in arp_send, and
\* those of N are queued.
LEMMA QueuesChange ==
  ASSUME Accounted, NEW e \in Entries, NEW D, NEW X, NEW N,
         D \subseteq Waiting(e), X \cap DOMAIN packets = {}, N \subseteq X,
         IsInjective(arp_entries'[e].packet_queue),
         Range(arp_entries'[e].packet_queue) = (Waiting(e) \ D) \cup N,
         \A d \in Entries \ {e} : arp_entries'[d].packet_queue = arp_entries[d].packet_queue,
         DOMAIN packets' = DOMAIN packets \cup X,
         \A p \in DOMAIN packets : IF p \in D THEN packets'[p].state # "queued"
                                   ELSE packets'[p].state = packets[p].state,
         \A p \in X : packets'[p].state = "queued" <=> p \in N
  PROVE  Accounted'
<1> DEFINE Later(d) == Range(arp_entries'[d].packet_queue)
<1>1. /\ Later(e) = (Waiting(e) \ D) \cup N
      /\ \A d \in Entries \ {e} : Later(d) = Waiting(d)
  BY DEF Waiting
<1>2. \A d \in Entries : IsInjective(arp_entries'[d].packet_queue)
  BY DEF Accounted
<1>3. ASSUME NEW d \in Entries, NEW p \in Later(d)
      PROVE  p \in DOMAIN packets' /\ packets'[p].state = "queued"
  <2>1. CASE p \in N
    BY <2>1
  <2>2. CASE p \notin N
    <3>1. p \in Waiting(d)
      BY <1>1, <1>3, <2>2
    <3>2. p \notin D
      BY <1>1, <1>3, <2>2, <3>1 DEF Accounted
    <3>3. QED
      BY <3>1, <3>2 DEF Accounted
  <2>3. QED
    BY <2>1, <2>2
<1>4. ASSUME NEW c \in Entries, NEW d \in Entries, c # d PROVE Later(c) \cap Later(d) = {}
  <2>1. \A f \in Entries : Waiting(f) \cap N = {}
    BY DEF Accounted
  <2>2. Waiting(c) \cap Waiting(d) = {}
    BY <1>4 DEF Accounted
  <2>3. QED
    BY <1>1, <1>4, <2>1, <2>2
<1>5. ASSUME NEW p \in DOMAIN packets', packets'[p].state = "queued"
      PROVE  \E d \in Entries : p \in Later(d)
  <2>1. CASE p \in X
    BY <1>1, <1>5, <2>1
  <2>2. CASE p \notin X
    <3>1. p \in DOMAIN packets /\ p \notin D /\ packets[p].state = "queued"
      BY <1>5, <2>2
    <3>2. PICK d \in Entries : p \in Waiting(d)
      BY <3>1 DEF Accounted
    <3>3. QED
      BY <1>1, <3>1, <3>2
  <2>3. QED
    BY <2>1, <2>2
<1>6. QED
  BY <1>2, <1>3, <1>4, <1>5 DEF Accounted, Waiting

\* The queues stay as they are; a new packet may have been sent at once.
LEMMA QueuesStay ==
  ASSUME Accounted, NEW X, X \cap DOMAIN packets = {},
         \A d \in Entries : arp_entries'[d].packet_queue = arp_entries[d].packet_queue,
         DOMAIN packets' = DOMAIN packets \cup X,
         \A p \in DOMAIN packets : packets'[p].state = packets[p].state,
         \A p \in X : packets'[p].state # "queued"
  PROVE  Accounted'
<1>1. PICK e \in Entries : TRUE
  BY ListAssumption
<1>2. /\ Range(arp_entries'[e].packet_queue) = (Waiting(e) \ {}) \cup {}
      /\ IsInjective(arp_entries'[e].packet_queue)
  BY DEF Waiting, Accounted
<1>3. /\ {} \subseteq Waiting(e) /\ {} \subseteq X
      /\ \A p \in DOMAIN packets : IF p \in {} THEN packets'[p].state # "queued"
                                   ELSE packets'[p].state = packets[p].state
      /\ \A p \in X : packets'[p].state = "queued" <=> p \in {}
  OBVIOUS
<1> DEFINE none == {}
<1>4. /\ none \subseteq Waiting(e) /\ none \subseteq X
      /\ Range(arp_entries'[e].packet_queue) = (Waiting(e) \ none) \cup none
      /\ \A p \in DOMAIN packets : IF p \in none THEN packets'[p].state # "queued"
                                   ELSE packets'[p].state = packets[p].state
      /\ \A p \in X : packets'[p].state = "queued" <=> p \in none
  BY <1>2, <1>3
<1> HIDE DEF none
<1>5. QED
  BY <1>2, <1>4, QueuesChange

LEMMA PacketNumbers ==
  ASSUME TypeOK, Accounted
  PROVE  /\ packets \in Seq(PacketTypes) /\ Len(packets) \in Nat /\ DOMAIN packets = 1 .. Len(packets)
         /\ Packet \notin DOMAIN packets /\ {Packet} \cap DOMAIN packets = {}
         /\ \A e \in Entries : /\ arp_entries[e] \in EntryTypes
                               /\ Packet \notin Waiting(e) /\ IsInjective(arp_entries[e].packet_queue)
                               /\ \A p \in Waiting(e) : p \in 1 .. Len(packets) /\ p < Packet
         /\ Len(packets) < MaxSends => Packet \in 1 .. MaxSends
<1>1. /\ packets \in Seq(PacketTypes) /\ Len(packets) \in Nat /\ DOMAIN packets = 1 .. Len(packets)
      /\ MaxSends \in Nat
  BY TypesSplit, ArpAssumption
<1>2. Packet = Len(packets) + 1
  BY DEF Packet
<1>3. \A e \in Entries : arp_entries[e] \in EntryTypes
  BY TypesSplit
<1>4. \A e \in Entries : /\ IsInjective(arp_entries[e].packet_queue)
                         /\ \A p \in Waiting(e) : p \in 1 .. Len(packets)
  BY <1>1 DEF Accounted
<1>5. QED
  BY <1>1, <1>2, <1>3, <1>4

\* A sequence of packets with one more.
LEMMA OneMore ==
  ASSUME NEW later \in Seq(PacketTypes), NEW packet \in PacketTypes
  PROVE  /\ Append(later, packet) \in Seq(PacketTypes)
         /\ Len(Append(later, packet)) = Len(later) + 1
         /\ DOMAIN Append(later, packet) = DOMAIN later \cup {Len(later) + 1}
         /\ \A p \in DOMAIN later : Append(later, packet)[p] = later[p]
         /\ Append(later, packet)[Len(later) + 1] = packet
<1>1. DOMAIN Append(later, packet) = 1 .. Len(later) + 1 /\ DOMAIN later = 1 .. Len(later) /\ Len(later) \in Nat
  OBVIOUS
<1>2. 1 .. Len(later) + 1 = 1 .. Len(later) \cup {Len(later) + 1}
  BY <1>1
<1>3. QED
  BY <1>1, <1>2

\* One entry changes.
LEMMA EntryReplaced ==
  ASSUME arp_entries \in [Entries -> EntryTypes], NEW e \in Entries, NEW entry \in EntryTypes
  PROVE  LET later == [arp_entries EXCEPT ![e] = entry] IN
         /\ later \in [Entries -> EntryTypes] /\ later[e] = entry
         /\ \A d \in Entries \ {e} : later[d] = arp_entries[d]
OBVIOUS

\* An entry set up for a new address.
LEMMA SetUpEntry ==
  ASSUME NEW entry \in EntryTypes, IsInjective(entry.packet_queue), NEW ip \in Ips,
         Packet \in 1 .. MaxSends, Packet \notin Range(entry.packet_queue)
  PROVE  LET later == SetUp(entry, ip) IN
         /\ later \in EntryTypes /\ later.ip = ip /\ later.contain_valid_mapping = FALSE
         /\ CountHolds(later) /\ IsInjective(later.packet_queue)
         /\ Range(later.packet_queue) = Range(entry.packet_queue) \cup {Packet}
         /\ entry.packet_queue = <<>> =>
              /\ later.packet_count = Len(later.packet_queue)
              /\ later.packet_count \in 1 .. MaxQueueSize /\ InTurn(later.packet_queue)
<1> DEFINE clean == [entry EXCEPT !.contain_valid_mapping = FALSE, !.retry_count = 0,
                                  !.packet_count = 0, !.ip = ip, !.age = 0]
           later == SetUp(entry, ip)
<1>1. /\ MaxQueueSize \in Nat \ {0} /\ RetryMaxCount \in Nat /\ 0 \in Ages /\ 0 \in 0 .. RetryMaxCount
  BY ArpAssumption DEF Ages
<1>2. /\ clean \in EntryTypes /\ clean.ip = ip /\ clean.contain_valid_mapping = FALSE
      /\ clean.packet_queue = entry.packet_queue /\ clean.packet_count = 0
  <2> DEFINE one   == [entry EXCEPT !.contain_valid_mapping = FALSE, !.retry_count = 0]
             two   == [one EXCEPT !.packet_count = 0]
             three == [two EXCEPT !.ip = ip]
  <2>1. clean = [three EXCEPT !.age = 0]
    OBVIOUS
  <2>2. /\ one \in EntryTypes /\ one.contain_valid_mapping = FALSE
        /\ one.packet_queue = entry.packet_queue
    BY <1>1 DEF EntryTypes
  <2> HIDE DEF one, clean
  <2>3. /\ two \in EntryTypes /\ two.contain_valid_mapping = FALSE
        /\ two.packet_queue = entry.packet_queue /\ two.packet_count = 0
    BY <2>2 DEF EntryTypes
  <2> HIDE DEF two
  <2>4. /\ three \in EntryTypes /\ three.contain_valid_mapping = FALSE /\ three.ip = ip
        /\ three.packet_queue = entry.packet_queue /\ three.packet_count = 0
    BY <2>3 DEF EntryTypes
  <2> HIDE DEF three
  <2>5. QED
    BY <1>1, <2>1, <2>4 DEF EntryTypes
<1>3. later = Queued(clean, Packet)
  BY DEF SetUp
<1> HIDE DEF clean, later
<1>4. clean.packet_count =< Len(clean.packet_queue) /\ clean.packet_queue \in Seq(1 .. MaxSends)
  BY <1>2 DEF EntryTypes
<1>5. QueueDrops(clean) = {}
  BY <1>1, <1>2 DEF QueueDrops, Full
<1>6. LET l == Queued(clean, Packet) IN
      /\ l \in EntryTypes
      /\ l.ip = clean.ip /\ l.contain_valid_mapping = clean.contain_valid_mapping
      /\ l.packet_count =< Len(l.packet_queue)
      /\ IsInjective(l.packet_queue)
      /\ Range(l.packet_queue) = (Range(clean.packet_queue) \ QueueDrops(clean)) \cup {Packet}
      /\ clean.packet_count = Len(clean.packet_queue) => l.packet_count = Len(l.packet_queue)
      /\ clean.packet_count \in 0 .. MaxQueueSize => l.packet_count \in 1 .. MaxQueueSize
      /\ InTurn(clean.packet_queue) /\ (\A p \in Range(clean.packet_queue) : p < Packet) =>
           InTurn(l.packet_queue)
  BY <1>2, <1>4, QueuedEntry
<1>7. 0 \in 0 .. MaxQueueSize
  BY <1>1
<1>8. entry.packet_queue = <<>> =>
        Len(entry.packet_queue) = 0 /\ Range(entry.packet_queue) = {} /\ InTurn(entry.packet_queue)
  BY DEF Range, InTurn
<1>9. QED
  BY <1>2, <1>3, <1>5, <1>6, <1>7, <1>8 DEF CountHolds, later

\* An entry whose packets were freed.
LEMMA EmptiedEntry ==
  ASSUME NEW entry \in EntryTypes
  PROVE  LET later == Emptied(entry) IN
         /\ later \in EntryTypes /\ later.packet_queue = <<>> /\ IsInjective(later.packet_queue)
         /\ Range(later.packet_queue) = {}
         /\ CountHolds(entry) => CountHolds(later)
<1> DEFINE later == Emptied(entry)
           count == entry.packet_count - Len(entry.packet_queue)
<1>1. entry.packet_queue \in Seq(1 .. MaxSends) /\ entry.packet_count \in Int /\ Len(entry.packet_queue) \in Nat
  BY DEF EntryTypes
<1>2. count \in Int /\ <<>> \in Seq(1 .. MaxSends) /\ Len(<<>>) = 0
  BY <1>1
<1>3. later = [entry EXCEPT !.packet_queue = <<>>, !.packet_count = count]
  BY DEF Emptied
<1>4. CountHolds(entry) /\ ~entry.contain_valid_mapping => count =< 0
  BY <1>1 DEF CountHolds
<1> HIDE DEF later, count
<1>5. /\ later \in EntryTypes /\ later.packet_queue = <<>> /\ later.packet_count = count
      /\ later.contain_valid_mapping = entry.contain_valid_mapping
  BY <1>2, <1>3 DEF EntryTypes
<1>6. IsInjective(<<>>) /\ Range(<<>>) = {}
  BY DEF IsInjective, Range
<1>7. QED
  BY <1>2, <1>4, <1>5, <1>6 DEF CountHolds, later

\* The effect of a step on the packets: D get a new state, X are new.
Fated(D, state, mac, X) ==
  /\ DOMAIN packets' = DOMAIN packets \cup X
  /\ \A p \in DOMAIN packets : /\ packets'[p].ip = packets[p].ip
                               /\ p \in D => packets'[p].state = state /\ packets'[p].mac = mac
                               /\ p \notin D => packets'[p] = packets[p]

\* ... and on the entries.
OnlyEntry(e, entry) == /\ arp_entries'[e] = entry
                       /\ \A d \in Entries \ {e} : arp_entries'[d] = arp_entries[d]

LEMMA SendResolvedKeeps ==
  ASSUME IInv, NEW ip \in Ips, SendResolved(ip), Len(packets) < MaxSends
  PROVE  /\ IInv' /\ Fated({}, "sent", NONE, {Packet}) /\ packets'[Packet].ip = ip
         /\ packets'[Packet].state = "sent" /\ packets'[Packet].mac = arp_entries[Find(ip)].mac
<1> DEFINE new == [ip |-> ip, state |-> "sent", mac |-> arp_entries[Find(ip)].mac]
<1>1. TypeOK /\ Accounted /\ CountsHold
  BY DEF IInv
<1>2. packets' = Append(packets, new) /\ UNCHANGED <<links, arp_entries, cursor>> /\ Find(ip) \in Entries
  BY DEF SendResolved
<1>3. new \in PacketTypes /\ new.ip = ip /\ new.state = "sent" /\ new.mac = arp_entries[Find(ip)].mac
  <2>1. arp_entries[Find(ip)] \in EntryTypes
    BY <1>1, <1>2, PacketNumbers
  <2>2. QED
    BY <2>1 DEF EntryTypes, PacketTypes
<1> HIDE DEF new
<1>4. /\ packets' \in Seq(PacketTypes) /\ Len(packets') = Len(packets) + 1
      /\ DOMAIN packets' = DOMAIN packets \cup {Packet}
      /\ \A p \in DOMAIN packets : packets'[p] = packets[p]
      /\ packets'[Packet] = new
  BY <1>1, <1>2, <1>3, PacketNumbers, OneMore DEF Packet
<1>5. Fated({}, "sent", NONE, {Packet})
  BY <1>4 DEF Fated
<1>6. TypeOK'
  <2>1. Len(packets') =< MaxSends
    BY <1>1, <1>4, PacketNumbers, ArpAssumption
  <2>2. /\ links' \in Heap /\ arp_entries' \in [Entries -> EntryTypes] /\ cursor' \in Nodes
    BY <1>1, <1>2, TypesSplit
  <2>3. QED
    BY <1>4, <2>1, <2>2, TypesLater
<1>7. Accounted'
  <2>1. {Packet} \cap DOMAIN packets = {}
    BY <1>1, PacketNumbers
  <2>2. \A p \in {Packet} : packets'[p].state # "queued"
    BY <1>3, <1>4
  <2>3. /\ \A d \in Entries : arp_entries'[d].packet_queue = arp_entries[d].packet_queue
        /\ \A p \in DOMAIN packets : packets'[p].state = packets[p].state
    BY <1>2, <1>4
  <2>4. QED
    BY <1>1, <1>4, <2>1, <2>2, <2>3, QueuesStay
<1>8. CountsHold'
  BY <1>1, <1>2 DEF CountsHold
<1>9. QED
  BY <1>3, <1>4, <1>5, <1>6, <1>7, <1>8 DEF IInv

\* The packets after a step: D get a new state, and NewPacket(ip) may be added.
LEMMA FatedPackets ==
  ASSUME TypeOK, Accounted, NEW state \in {"sent", "freed"}, NEW mac \in Ips \cup {NONE}, NEW D,
         packets' = Fate(state, mac, D)
  PROVE  /\ packets' \in Seq(PacketTypes) /\ Len(packets') = Len(packets) /\ Len(packets') =< MaxSends
         /\ Fated(D, state, mac, {})
<1>1. packets \in Seq(PacketTypes) /\ Len(packets) =< MaxSends
  BY TypesSplit
<1>2. QED
  BY <1>1, FateOf DEF Fated

LEMMA FatedAndNew ==
  ASSUME TypeOK, Accounted, NEW D, NEW ip \in Ips, Len(packets) < MaxSends,
         packets' = Append(Fate("freed", NONE, D), NewPacket(ip))
  PROVE  /\ packets' \in Seq(PacketTypes) /\ Len(packets') =< MaxSends
         /\ Fated(D, "freed", NONE, {Packet})
         /\ packets'[Packet].ip = ip /\ packets'[Packet].state = "queued"
<1> DEFINE later == Fate("freed", NONE, D)
           new   == NewPacket(ip)
<1>1. packets \in Seq(PacketTypes) /\ Len(packets) \in Nat /\ MaxSends \in Nat
  BY TypesSplit, ArpAssumption
<1>2. /\ later \in Seq(PacketTypes) /\ Len(later) = Len(packets) /\ DOMAIN later = DOMAIN packets
      /\ \A p \in DOMAIN packets :
           /\ p \in D => later[p].state = "freed" /\ later[p].mac = NONE
           /\ p \notin D => later[p] = packets[p]
           /\ later[p].ip = packets[p].ip
  <2> DEFINE state == "freed"
             mac   == NONE
  <2>1. state \in {"queued", "sent", "freed"} /\ mac \in Ips \cup {NONE}
    OBVIOUS
  <2> HIDE DEF state, mac
  <2>2. LET after == Fate(state, mac, D) IN
        /\ after \in Seq(PacketTypes) /\ Len(after) = Len(packets) /\ DOMAIN after = DOMAIN packets
        /\ \A p \in DOMAIN packets :
             /\ p \in D => after[p].state = state /\ after[p].mac = mac
             /\ p \notin D => after[p] = packets[p]
             /\ after[p].ip = packets[p].ip
    BY <1>1, <2>1, FateOf
  <2>3. QED
    BY <2>2 DEF state, mac
<1>3. new \in PacketTypes /\ new.ip = ip /\ new.state = "queued"
  BY DEF NewPacket, PacketTypes
<1>4. packets' = Append(later, new)
  OBVIOUS
<1> HIDE DEF later, new
<1>5. /\ packets' \in Seq(PacketTypes) /\ Len(packets') = Len(packets) + 1
      /\ DOMAIN packets' = DOMAIN packets \cup {Packet}
      /\ \A p \in DOMAIN packets : packets'[p] = later[p]
      /\ packets'[Packet] = new
  <2>1. /\ Append(later, new) \in Seq(PacketTypes)
        /\ Len(Append(later, new)) = Len(later) + 1
        /\ DOMAIN Append(later, new) = DOMAIN later \cup {Len(later) + 1}
        /\ \A p \in DOMAIN later : Append(later, new)[p] = later[p]
        /\ Append(later, new)[Len(later) + 1] = new
    BY <1>2, <1>3, OneMore
  <2>2. QED
    BY <1>2, <1>4, <2>1 DEF Packet
<1>6. QED
  BY <1>1, <1>2, <1>3, <1>5 DEF Fated

\* A step that gives one entry another queue and frees or sends what left it.
LEMMA EntryStepKeeps ==
  ASSUME IInv, NEW e \in Entries, NEW entry \in EntryTypes, NEW D, NEW N,
         NEW state \in {"sent", "freed"}, NEW mac,
         arp_entries' = [arp_entries EXCEPT ![e] = entry], links' \in Heap, cursor' \in Nodes,
         packets' \in Seq(PacketTypes), Len(packets') =< MaxSends, Fated(D, state, mac, N),
         D \subseteq Waiting(e), N \cap DOMAIN packets = {},
         \A p \in N : packets'[p].state = "queued",
         IsInjective(entry.packet_queue), CountHolds(entry),
         Range(entry.packet_queue) = (Waiting(e) \ D) \cup N
  PROVE  IInv' /\ OnlyEntry(e, entry)
<1>1. TypeOK /\ Accounted /\ CountsHold
  BY DEF IInv
<1>2. arp_entries' \in [Entries -> EntryTypes] /\ OnlyEntry(e, entry)
  BY <1>1, TypesSplit, EntryReplaced DEF OnlyEntry
<1>3. TypeOK'
  BY <1>2, TypesLater
<1>4. Accounted'
  <2>1. /\ IsInjective(arp_entries'[e].packet_queue)
        /\ Range(arp_entries'[e].packet_queue) = (Waiting(e) \ D) \cup N
        /\ \A d \in Entries \ {e} : arp_entries'[d].packet_queue = arp_entries[d].packet_queue
    BY <1>2 DEF OnlyEntry
  <2>2. /\ DOMAIN packets' = DOMAIN packets \cup N
        /\ \A p \in DOMAIN packets : IF p \in D THEN packets'[p].state # "queued"
                                     ELSE packets'[p].state = packets[p].state
        /\ \A p \in N : packets'[p].state = "queued" <=> p \in N
    BY DEF Fated
  <2>3. N \subseteq N
    OBVIOUS
  <2>4. QED
    BY <1>1, <2>1, <2>2, <2>3, QueuesChange
<1>5. CountsHold'
  <2>1. ASSUME NEW d \in Entries PROVE CountHolds(arp_entries'[d])
    BY <1>1, <1>2 DEF CountsHold, OnlyEntry
  <2>2. QED
    BY <2>1 DEF CountsHold
<1>6. QED
  BY <1>2, <1>3, <1>4, <1>5 DEF IInv

LEMMA SendWaitsKeeps ==
  ASSUME IInv, NEW ip \in Ips, SendWaits(ip), Len(packets) < MaxSends
  PROVE  LET e == Find(ip) IN
         /\ IInv' /\ OnlyEntry(e, Queued(arp_entries[e], Packet))
         /\ Fated(QueueDrops(arp_entries[e]), "freed", NONE, {Packet})
         /\ packets'[Packet].ip = ip /\ packets'[Packet].state = "queued"
<1> DEFINE e     == Find(ip)
           entry == Queued(arp_entries[e], Packet)
           D     == QueueDrops(arp_entries[e])
<1>1. TypeOK /\ Accounted /\ CountsHold /\ links \in Heap /\ cursor \in Nodes
  BY TypesSplit DEF IInv
<1>2. /\ e \in Entries /\ ~arp_entries[e].contain_valid_mapping
      /\ arp_entries' = [arp_entries EXCEPT ![e] = entry]
      /\ packets' = Append(Fate("freed", NONE, D), NewPacket(ip))
      /\ links' = links /\ cursor' = cursor
  BY DEF SendWaits
<1> HIDE DEF e
<1>3. /\ arp_entries[e] \in EntryTypes /\ Packet \in 1 .. MaxSends /\ Packet \notin Waiting(e)
      /\ IsInjective(arp_entries[e].packet_queue) /\ {Packet} \cap DOMAIN packets = {}
      /\ arp_entries[e].packet_count =< Len(arp_entries[e].packet_queue)
  BY <1>1, <1>2, PacketNumbers DEF CountsHold, CountHolds
<1>4. /\ entry \in EntryTypes /\ D \subseteq Waiting(e) /\ IsInjective(entry.packet_queue)
      /\ entry.packet_count =< Len(entry.packet_queue)
      /\ Range(entry.packet_queue) = (Waiting(e) \ D) \cup {Packet}
  BY <1>3, QueuedEntry DEF Waiting
<1>5. /\ packets' \in Seq(PacketTypes) /\ Len(packets') =< MaxSends
      /\ Fated(D, "freed", NONE, {Packet})
      /\ packets'[Packet].ip = ip /\ packets'[Packet].state = "queued"
  BY <1>1, <1>2, FatedAndNew
<1> HIDE DEF entry, D
<1>6. CountHolds(entry)
  BY <1>4 DEF CountHolds
<1>7. \A p \in {Packet} : packets'[p].state = "queued"
  BY <1>5
<1>8. links' \in Heap /\ cursor' \in Nodes
  BY <1>1, <1>2
<1> DEFINE N == {Packet}
<1>9. /\ Range(entry.packet_queue) = (Waiting(e) \ D) \cup N /\ Fated(D, "freed", NONE, N)
      /\ \A p \in N : packets'[p].state = "queued"
      /\ N \cap DOMAIN packets = {}
  BY <1>3, <1>4, <1>5, <1>7
<1> HIDE DEF N
<1>10. IInv' /\ OnlyEntry(e, entry)
  BY <1>2, <1>4, <1>5, <1>6, <1>8, <1>9, EntryStepKeeps
<1>11. QED
  BY <1>5, <1>10 DEF e, entry, D

\* The pointers stay within the nodes, whatever the lists look like.
LEMMA HeapOperations ==
  ASSUME NEW heap \in Heap, NEW node \in Nodes, NEW list \in Nodes
  PROVE  /\ ListRemove(heap, node) \in Heap
         /\ ListAddFirst(heap, node, list) \in Heap /\ ListAddLast(heap, node, list) \in Heap
BY DEF Heap, ListRemove, ListAddFirst, ListAddLast, LinkBetween

LEMMA SendAllocatesKeeps ==
  ASSUME IInv, NEW ip \in Ips, SendAllocates(ip), Len(packets) < MaxSends
  PROVE  LET e == ListFirst(links, FREE) IN
         /\ IInv' /\ OnlyEntry(e, SetUp(arp_entries[e], ip))
         /\ Fated({}, "freed", NONE, {Packet})
         /\ packets'[Packet].ip = ip /\ packets'[Packet].state = "queued"
<1> DEFINE e     == ListFirst(links, FREE)
           entry == SetUp(arp_entries[e], ip)
           new   == NewPacket(ip)
<1>1. TypeOK /\ Accounted /\ CountsHold /\ links \in Heap /\ cursor \in Nodes /\ arp_entries \in [Entries -> EntryTypes]
  BY TypesSplit DEF IInv
<1>2. /\ e \in Entries
      /\ arp_entries' = [arp_entries EXCEPT ![e] = entry]
      /\ packets' = Append(packets, new)
      /\ links' = ListAddLast(ListRemove(links, e), e, USED) /\ cursor' = cursor
  BY <1>1 DEF SendAllocates
<1> HIDE DEF e
<1>3. /\ arp_entries[e] \in EntryTypes /\ Packet \in 1 .. MaxSends /\ Packet \notin Waiting(e)
      /\ IsInjective(arp_entries[e].packet_queue) /\ {Packet} \cap DOMAIN packets = {}
  BY <1>1, <1>2, PacketNumbers
<1>4. /\ entry \in EntryTypes /\ IsInjective(entry.packet_queue) /\ CountHolds(entry)
      /\ Range(entry.packet_queue) = Waiting(e) \cup {Packet}
  BY <1>3, SetUpEntry DEF Waiting
<1>5. new \in PacketTypes /\ new.ip = ip /\ new.state = "queued"
  BY DEF NewPacket, PacketTypes
<1> HIDE DEF new, entry
<1>6. /\ packets' \in Seq(PacketTypes) /\ Len(packets') = Len(packets) + 1
      /\ DOMAIN packets' = DOMAIN packets \cup {Packet}
      /\ \A p \in DOMAIN packets : packets'[p] = packets[p]
      /\ packets'[Packet] = new
  BY <1>1, <1>2, <1>5, PacketNumbers, OneMore DEF Packet
<1>7. Len(packets') =< MaxSends
  BY <1>1, <1>6, PacketNumbers, ArpAssumption
<1>8. Fated({}, "freed", NONE, {Packet}) /\ packets'[Packet].state = "queued" /\ packets'[Packet].ip = ip
  BY <1>5, <1>6 DEF Fated
<1>9. links' \in Heap /\ cursor' \in Nodes
  <2>1. e \in Nodes /\ USED \in Nodes
    BY <1>2, HeadFacts
  <2>2. QED
    BY <1>1, <1>2, <2>1, HeapOperations
<1> DEFINE N == {Packet}
           D == {}
<1>10. /\ Range(entry.packet_queue) = (Waiting(e) \ D) \cup N /\ Fated(D, "freed", NONE, N)
       /\ \A p \in N : packets'[p].state = "queued"
       /\ N \cap DOMAIN packets = {} /\ D \subseteq Waiting(e)
  BY <1>3, <1>4, <1>8
<1> HIDE DEF N, D
<1>11. IInv' /\ OnlyEntry(e, entry)
  BY <1>2, <1>4, <1>6, <1>7, <1>9, <1>10, EntryStepKeeps
<1>12. QED
  BY <1>8, <1>11 DEF e, entry

LEMMA SendEvictsKeeps ==
  ASSUME IInv, NEW ip \in Ips, SendEvicts(ip), Len(packets) < MaxSends
  PROVE  IInv'
<1> DEFINE e     == ListFirst(links, USED)
           old   == Emptied(arp_entries[e])
           entry == SetUp(old, ip)
           D     == Range(arp_entries[e].packet_queue)
<1>1. TypeOK /\ Accounted /\ CountsHold /\ links \in Heap /\ cursor \in Nodes /\ arp_entries \in [Entries -> EntryTypes]
  BY TypesSplit DEF IInv
<1>2. /\ e \in Entries
      /\ arp_entries' = [arp_entries EXCEPT ![e] = entry]
      /\ packets' = Append(Fate("freed", NONE, D), NewPacket(ip))
      /\ links' = ListAddLast(ListAddFirst(ListRemove(links, e), e, FREE), e, USED) /\ cursor' = cursor
  BY <1>1 DEF SendEvicts, FreeLinks
<1> HIDE DEF e
<1>3. /\ arp_entries[e] \in EntryTypes /\ Packet \in 1 .. MaxSends /\ {Packet} \cap DOMAIN packets = {}
  BY <1>1, <1>2, PacketNumbers
<1>4. old \in EntryTypes /\ IsInjective(old.packet_queue) /\ Range(old.packet_queue) = {}
  BY <1>3, EmptiedEntry
<1> HIDE DEF old
<1>5. /\ entry \in EntryTypes /\ IsInjective(entry.packet_queue) /\ CountHolds(entry)
      /\ Range(entry.packet_queue) = {Packet}
  BY <1>3, <1>4, SetUpEntry
<1>6. /\ packets' \in Seq(PacketTypes) /\ Len(packets') =< MaxSends
      /\ Fated(D, "freed", NONE, {Packet}) /\ packets'[Packet].state = "queued"
  BY <1>1, <1>2, FatedAndNew
<1>7. links' \in Heap /\ cursor' \in Nodes
  <2>1. e \in Nodes /\ USED \in Nodes /\ FREE \in Nodes
    BY <1>2, HeadFacts
  <2>2. ListRemove(links, e) \in Heap
    BY <1>1, <2>1, HeapOperations
  <2>3. ListAddFirst(ListRemove(links, e), e, FREE) \in Heap
    BY <2>1, <2>2, HeapOperations
  <2>4. QED
    BY <1>1, <1>2, <2>1, <2>3, HeapOperations
<1> DEFINE N == {Packet}
<1>8. /\ Range(entry.packet_queue) = (Waiting(e) \ D) \cup N /\ Fated(D, "freed", NONE, N)
      /\ \A p \in N : packets'[p].state = "queued"
      /\ N \cap DOMAIN packets = {} /\ D \subseteq Waiting(e)
  BY <1>3, <1>5, <1>6 DEF Waiting
<1> HIDE DEF N, D, entry
<1>9. QED
  BY <1>2, <1>5, <1>6, <1>7, <1>8, EntryStepKeeps

\* The entry after update_arp_mapping.
Resolved(entry, ip) ==
  [entry EXCEPT !.mac = ip, !.contain_valid_mapping = TRUE, !.age = 0, !.packet_queue = <<>>]

LEMMA ResolvedEntry ==
  ASSUME NEW entry \in EntryTypes, NEW ip \in Ips
  PROVE  LET later == Resolved(entry, ip) IN
         /\ later \in EntryTypes /\ later.ip = entry.ip /\ later.mac = ip
         /\ later.contain_valid_mapping = TRUE /\ later.packet_queue = <<>>
<1> DEFINE one   == [entry EXCEPT !.mac = ip]
           two   == [one EXCEPT !.contain_valid_mapping = TRUE]
           three == [two EXCEPT !.age = 0]
           later == Resolved(entry, ip)
<1>1. later = [three EXCEPT !.packet_queue = <<>>]
  BY DEF Resolved
<1>2. 0 \in Ages /\ <<>> \in Seq(1 .. MaxSends)
  BY ArpAssumption DEF Ages
<1>3. one \in EntryTypes /\ one.ip = entry.ip /\ one.mac = ip
  BY DEF EntryTypes
<1> HIDE DEF one, later
<1>4. /\ two \in EntryTypes /\ two.ip = entry.ip /\ two.mac = ip /\ two.contain_valid_mapping = TRUE
  BY <1>3 DEF EntryTypes
<1> HIDE DEF two
<1>5. /\ three \in EntryTypes /\ three.ip = entry.ip /\ three.mac = ip
      /\ three.contain_valid_mapping = TRUE
  BY <1>2, <1>4 DEF EntryTypes
<1> HIDE DEF three
<1>6. QED
  BY <1>1, <1>2, <1>5 DEF EntryTypes, later

\* A step that empties the queue of one entry.
LEMMA EmptyingKeeps ==
  ASSUME IInv, NEW e \in Entries, NEW entry \in EntryTypes, NEW state \in {"sent", "freed"},
         NEW mac \in Ips \cup {NONE},
         arp_entries' = [arp_entries EXCEPT ![e] = entry], links' \in Heap, cursor' \in Nodes,
         packets' = Fate(state, mac, Range(arp_entries[e].packet_queue)),
         entry.packet_queue = <<>>, CountHolds(entry)
  PROVE  IInv' /\ OnlyEntry(e, entry) /\ Fated(Waiting(e), state, mac, {})
<1> DEFINE D == Waiting(e)
           N == {}
<1>1. /\ packets' \in Seq(PacketTypes) /\ Len(packets') =< MaxSends /\ Fated(D, state, mac, N)
  BY FatedPackets DEF IInv, Waiting
<1>2. IsInjective(<<>>) /\ Range(<<>>) = {}
  BY DEF IsInjective, Range
<1>3. /\ D \subseteq Waiting(e) /\ N \cap DOMAIN packets = {}
      /\ \A p \in N : packets'[p].state = "queued"
      /\ IsInjective(entry.packet_queue) /\ Range(entry.packet_queue) = (Waiting(e) \ D) \cup N
  BY <1>2
<1> HIDE DEF D, N
<1>4. IInv' /\ OnlyEntry(e, entry)
  BY <1>1, <1>3, EntryStepKeeps
<1>5. QED
  BY <1>1, <1>4 DEF D, N

LEMMA HandleReplyKeeps ==
  ASSUME IInv, NEW ip \in Ips, NEW target_ip, HandleReply(ip, target_ip)
  PROVE  LET e == Find(ip) IN
         IInv' /\ OnlyEntry(e, Resolved(arp_entries[e], ip)) /\ Fated(Waiting(e), "sent", ip, {})
<1> DEFINE e     == Find(ip)
           entry == Resolved(arp_entries[e], ip)
           state == "sent"
<1>1. /\ e \in Entries /\ arp_entries' = [arp_entries EXCEPT ![e] = entry]
      /\ packets' = Fate(state, ip, Range(arp_entries[e].packet_queue))
      /\ links' = links /\ cursor' = cursor
  BY DEF HandleReply, Resolved
<1> HIDE DEF e
<1>2. links' \in Heap /\ cursor' \in Nodes /\ arp_entries[e] \in EntryTypes
  BY <1>1, TypesSplit DEF IInv
<1>3. entry \in EntryTypes /\ entry.packet_queue = <<>> /\ CountHolds(entry)
  BY <1>2, ResolvedEntry DEF CountHolds
<1>4. state \in {"sent", "freed"} /\ ip \in Ips \cup {NONE}
  OBVIOUS
<1> HIDE DEF entry, state
<1>5. IInv' /\ OnlyEntry(e, entry) /\ Fated(Waiting(e), state, ip, {})
  BY <1>1, <1>2, <1>3, <1>4, EmptyingKeeps
<1>6. QED
  BY <1>5 DEF e, entry, state

LEMMA TaskFreesKeeps ==
  ASSUME IInv, TaskFrees
  PROVE  /\ IInv' /\ OnlyEntry(cursor, Emptied(arp_entries[cursor]))
         /\ Fated(Waiting(cursor), "freed", NONE, {})
<1> DEFINE entry == Emptied(arp_entries[cursor])
           state == "freed"
           mac   == NONE
<1>1. links \in Heap /\ arp_entries \in [Entries -> EntryTypes]
  BY TypesSplit DEF IInv
<1>2. /\ cursor \in Entries /\ cursor' = links.next[cursor]
      /\ arp_entries' = [arp_entries EXCEPT ![cursor] = entry]
      /\ packets' = Fate(state, mac, Range(arp_entries[cursor].packet_queue))
      /\ links' = ListAddFirst(ListRemove(links, cursor), cursor, FREE)
  BY <1>1 DEF TaskFrees, TaskEntry, FreeLinks
<1>3. arp_entries[cursor] \in EntryTypes /\ CountHolds(arp_entries[cursor])
  BY <1>1, <1>2 DEF IInv, CountsHold
<1>4. entry \in EntryTypes /\ entry.packet_queue = <<>> /\ CountHolds(entry)
  BY <1>3, EmptiedEntry
<1>5. state \in {"sent", "freed"} /\ mac \in Ips \cup {NONE}
  OBVIOUS
<1>6. links' \in Heap /\ cursor' \in Nodes
  <2>1. cursor \in Nodes /\ FREE \in Nodes
    BY <1>2, HeadFacts
  <2>2. ListRemove(links, cursor) \in Heap /\ links.next[cursor] \in Nodes
    BY <1>1, <2>1, HeapOperations DEF Heap
  <2>3. QED
    BY <1>2, <2>1, <2>2, HeapOperations
<1> HIDE DEF entry, state, mac
<1>7. IInv' /\ OnlyEntry(cursor, entry) /\ Fated(Waiting(cursor), state, mac, {})
  BY <1>2, <1>4, <1>5, <1>6, EmptyingKeeps
<1>8. QED
  BY <1>7 DEF entry, state, mac

\* What a step that does not touch the queues leaves as it is.
SameQueues ==
  /\ packets' = packets
  /\ \A e \in Entries : /\ arp_entries'[e].packet_queue = arp_entries[e].packet_queue
                        /\ arp_entries'[e].packet_count = arp_entries[e].packet_count
                        /\ arp_entries'[e].ip = arp_entries[e].ip
                        /\ arp_entries'[e].mac = arp_entries[e].mac
                        /\ arp_entries'[e].contain_valid_mapping = arp_entries[e].contain_valid_mapping

LEMMA SameQueuesKeeps ==
  ASSUME IInv, SameQueues, links' \in Heap, cursor' \in Nodes, arp_entries' \in [Entries -> EntryTypes]
  PROVE  IInv'
<1>1. TypeOK /\ Accounted /\ CountsHold
  BY DEF IInv
<1>2. TypeOK'
  <2>1. packets' \in Seq(PacketTypes) /\ Len(packets') =< MaxSends
    BY <1>1, TypesSplit DEF SameQueues
  <2>2. QED
    BY <2>1, TypesLater
<1>3. Accounted'
  <2> DEFINE X == {}
  <2>1. /\ X \cap DOMAIN packets = {} /\ DOMAIN packets' = DOMAIN packets \cup X
        /\ \A d \in Entries : arp_entries'[d].packet_queue = arp_entries[d].packet_queue
        /\ \A p \in DOMAIN packets : packets'[p].state = packets[p].state
        /\ \A p \in X : packets'[p].state # "queued"
    BY DEF SameQueues
  <2> HIDE DEF X
  <2>2. QED
    BY <1>1, <2>1, QueuesStay
<1>4. CountsHold'
  BY <1>1 DEF CountsHold, CountHolds, SameQueues
<1>5. QED
  BY <1>2, <1>3, <1>4 DEF IInv

\* The steps that only read, or change the age or the retries of entries.
Quiet ==
  \/ \E ip \in Ips, target_ip \in Ips \cup {OurIp} : HandleRequest(ip, target_ip)
  \/ TaskStarts \/ TaskRetries \/ TaskPasses \/ Tick \/ UNCHANGED vars

LEMMA QuietKeeps ==
  ASSUME IInv, Quiet
  PROVE  IInv' /\ SameQueues /\ links' = links
<1>1. links \in Heap /\ cursor \in Nodes /\ arp_entries \in [Entries -> EntryTypes]
  BY TypesSplit DEF IInv
<1>2. /\ RetryMaxCount \in Nat /\ ExpirationInterval \in Nat
      /\ \A n \in Nodes : links.next[n] \in Nodes
      /\ USED \in Nodes /\ Entries \subseteq Nodes
  BY <1>1, ArpAssumption, HeadFacts DEF Heap
<1>3. CASE \/ \E ip \in Ips, target_ip \in Ips \cup {OurIp} : HandleRequest(ip, target_ip)
           \/ TaskStarts \/ TaskPasses \/ UNCHANGED vars
  <2>1. links' = links /\ arp_entries' = arp_entries /\ packets' = packets /\ cursor' \in Nodes
    BY <1>1, <1>2, <1>3 DEF HandleRequest, TaskStarts, TaskPasses, TaskEntry, vars, ListFirst
  <2>2. SameQueues
    BY <2>1 DEF SameQueues
  <2>3. QED
    BY <1>1, <2>1, <2>2, SameQueuesKeeps
<1>4. CASE TaskRetries
  <2> DEFINE entry == [arp_entries[cursor] EXCEPT !.retry_count = @ + 1, !.age = 0]
  <2>1. /\ cursor \in Entries /\ cursor' \in Nodes /\ links' = links /\ packets' = packets
        /\ RetryDue(arp_entries[cursor])
        /\ arp_entries' = [arp_entries EXCEPT ![cursor].retry_count = @ + 1, ![cursor].age = 0]
    BY <1>2, <1>4 DEF TaskRetries, TaskEntry
  <2>2. arp_entries' = [arp_entries EXCEPT ![cursor] = entry]
    BY <1>1, <2>1
  <2>3. arp_entries[cursor] \in EntryTypes /\ arp_entries[cursor].retry_count + 1 \in 0 .. RetryMaxCount
    BY <1>1, <1>2, <2>1 DEF EntryTypes, RetryDue
  <2>4. /\ entry \in EntryTypes
        /\ entry.packet_queue = arp_entries[cursor].packet_queue
        /\ entry.packet_count = arp_entries[cursor].packet_count
        /\ entry.ip = arp_entries[cursor].ip /\ entry.mac = arp_entries[cursor].mac
        /\ entry.contain_valid_mapping = arp_entries[cursor].contain_valid_mapping
    <3> DEFINE one == [arp_entries[cursor] EXCEPT !.retry_count = @ + 1]
    <3>1. entry = [one EXCEPT !.age = 0]
      OBVIOUS
    <3>2. /\ one \in EntryTypes
          /\ one.packet_queue = arp_entries[cursor].packet_queue
          /\ one.packet_count = arp_entries[cursor].packet_count
          /\ one.ip = arp_entries[cursor].ip /\ one.mac = arp_entries[cursor].mac
          /\ one.contain_valid_mapping = arp_entries[cursor].contain_valid_mapping
      BY <2>3 DEF EntryTypes
    <3>3. 0 \in Ages
      BY <1>2 DEF Ages
    <3> HIDE DEF entry, one
    <3>4. QED
      BY <3>1, <3>2, <3>3 DEF EntryTypes
  <2> HIDE DEF entry
  <2>5. /\ arp_entries' \in [Entries -> EntryTypes] /\ arp_entries'[cursor] = entry
        /\ \A d \in Entries \ {cursor} : arp_entries'[d] = arp_entries[d]
    BY <1>1, <2>1, <2>2, <2>4, EntryReplaced
  <2>6. SameQueues
    BY <2>1, <2>4, <2>5 DEF SameQueues
  <2>7. QED
    BY <1>1, <2>1, <2>5, <2>6, SameQueuesKeeps
<1>5. CASE Tick
  <2>1. /\ links' = links /\ cursor' = cursor /\ packets' = packets
        /\ arp_entries' = [e \in Entries |->
             [arp_entries[e] EXCEPT !.age = Min({@ + 1, ExpirationInterval + 1})]]
    BY <1>5 DEF Tick
  <2>2. ASSUME NEW e \in Entries
        PROVE  /\ arp_entries'[e] \in EntryTypes
               /\ arp_entries'[e].packet_queue = arp_entries[e].packet_queue
               /\ arp_entries'[e].packet_count = arp_entries[e].packet_count
               /\ arp_entries'[e].ip = arp_entries[e].ip
               /\ arp_entries'[e].mac = arp_entries[e].mac
               /\ arp_entries'[e].contain_valid_mapping = arp_entries[e].contain_valid_mapping
    <3> DEFINE both == {arp_entries[e].age + 1, ExpirationInterval + 1}
               age  == Min(both)
    <3>1. both \subseteq Nat /\ both # {} /\ both \subseteq Ages \cup {ExpirationInterval + 2}
          /\ ExpirationInterval + 1 \in both
      BY <1>1, <1>2 DEF EntryTypes, Ages
    <3> HIDE DEF both
    <3>2. age \in both /\ \A n \in both : age =< n
      BY <3>1, MinOfNat
    <3>3. arp_entries'[e] = [arp_entries[e] EXCEPT !.age = age]
      BY <2>1 DEF both
    <3> HIDE DEF age
    <3>4. age \in Ages
      <4>1. age \in Nat /\ age =< ExpirationInterval + 1
        BY <3>1, <3>2
      <4>2. QED
        BY <1>2, <4>1 DEF Ages
    <3>5. QED
      BY <1>1, <3>3, <3>4 DEF EntryTypes
  <2>3. arp_entries' \in [Entries -> EntryTypes]
    BY <2>1, <2>2
  <2>4. SameQueues
    BY <2>1, <2>2 DEF SameQueues
  <2>5. QED
    BY <1>1, <2>1, <2>3, <2>4, SameQueuesKeeps
<1>6. QED
  BY <1>3, <1>4, <1>5 DEF Quiet

LEMMA NextIInv == IInv /\ [Next]_vars => IInv'
<1> SUFFICES ASSUME IInv, [Next]_vars PROVE IInv'
  OBVIOUS
<1>1. ASSUME NEW ip \in Ips, ArpSend(ip) PROVE IInv'
  BY <1>1, SendResolvedKeeps, SendWaitsKeeps, SendAllocatesKeeps, SendEvictsKeeps DEF ArpSend
<1>2. ASSUME NEW ip \in Ips, NEW target_ip \in Ips \cup {OurIp}, HandleReply(ip, target_ip) PROVE IInv'
  BY <1>2, HandleReplyKeeps
<1>3. CASE TaskFrees
  BY <1>3, TaskFreesKeeps
<1>4. CASE Quiet
  BY <1>4, QuietKeeps
<1>5. QED
  BY <1>1, <1>2, <1>3, <1>4 DEF Next, ArpTask, Quiet

LEMMA InitialTable ==
  ASSUME Init
  PROVE  IInv /\ Rings(links, Entries, {}) /\ \A e \in Entries : arp_entries[e] = ZeroEntry
<1>1. /\ \E order \in SetToSeqs(Entries) : links = ListOf(Nodes, order, FREE)
      /\ arp_entries = [e \in Entries |-> ZeroEntry] /\ cursor = USED /\ packets = <<>>
  BY DEF Init
<1>2. Rings(links, Entries, {})
  BY <1>1, InitialRings
<1>3. ZeroEntry \in EntryTypes /\ ZeroEntry.packet_queue = <<>> /\ ZeroEntry.packet_count = 0
  BY ArpAssumption DEF ZeroEntry, EntryTypes, Ages
<1> HIDE DEF ZeroEntry
<1>4. TypeOK
  <2>1. links \in Heap
    BY <1>2 DEF Rings
  <2>2. cursor \in Nodes /\ packets \in Seq(PacketTypes) /\ Len(packets) =< MaxSends
    BY <1>1, HeadFacts, ArpAssumption
  <2>3. QED
    BY <1>1, <1>3, <2>1, <2>2, TypesSplit
<1>5. \A e \in Entries : arp_entries[e].packet_queue = <<>> /\ Waiting(e) = {}
  BY <1>1, <1>3 DEF Waiting, Range
<1>6. Accounted
  <2>1. IsInjective(<<>>) /\ DOMAIN packets = {}
    BY <1>1 DEF IsInjective
  <2>2. QED
    BY <1>5, <2>1 DEF Accounted
<1>7. CountsHold
  BY <1>1, <1>3, <1>5 DEF CountsHold, CountHolds
<1>8. QED
  BY <1>1, <1>2, <1>4, <1>6, <1>7 DEF IInv

LEMMA Inductive == Spec => []IInv
<1>1. Init => IInv
  BY InitialTable
<1>2. QED
  BY <1>1, NextIInv, PTL DEF Spec

\* For every table, queue and number of hosts the pointers, the entries and the
\* packets stay in their types: no list pointer leaves the nodes, even after
\* evictions, and retry_count never exceeds ARP_RETRY_MAX_COUNT.
THEOREM TypeCorrect == Spec => []TypeOK
<1>1. IInv => TypeOK
  BY DEF IInv
<1>2. QED
  BY <1>1, Inductive, PTL

\* For every table, queue and number of hosts, and whatever is evicted, resolved
\* or given up: a packet that arp_send took is in exactly one queue, once, until it
\* is sent or freed, and then in none.
THEOREM EveryPacketAccounted == Spec => []PacketsAccounted
<1>1. IInv => PacketsAccounted
  <2> SUFFICES ASSUME Accounted PROVE PacketsAccounted
    BY DEF IInv
  <2>1. ASSUME NEW p \in DOMAIN packets
        PROVE  Cardinality({e \in Entries : p \in Waiting(e)}) =
                 IF packets[p].state = "queued" THEN 1 ELSE 0
    <3>1. CASE packets[p].state = "queued"
      <4>1. PICK e \in Entries : p \in Waiting(e)
        BY <3>1 DEF Accounted
      <4>2. {d \in Entries : p \in Waiting(d)} = {e}
        BY <4>1 DEF Accounted
      <4>3. QED
        BY <3>1, <4>2, FS_Singleton
    <3>2. CASE packets[p].state # "queued"
      <4>1. {d \in Entries : p \in Waiting(d)} = {}
        BY <3>2 DEF Accounted
      <4>2. QED
        BY <3>2, <4>1, FS_EmptySet
    <3>3. QED
      BY <3>1, <3>2
  <2>2. QED
    BY <2>1 DEF PacketsAccounted, Accounted
<1>2. QED
  BY <1>1, Inductive, PTL

-----------------------------------------------------------------------------
(* The table as long as nothing is evicted. *)

\* find_arp_entry on a ring.
LEMMA FindFinds ==
  ASSUME NEW F, NEW U, Rings(links, F, U), NEW ip
  PROVE  /\ Find(ip) \in U \cup {USED}
         /\ Find(ip) \in U => arp_entries[Find(ip)].ip = ip
         /\ Find(ip) = USED => \A e \in U : arp_entries[e].ip # ip
<1> DEFINE M     == {n \in Nodes : arp_entries[n].ip = ip}
           visit == Visits(links, USED)
           stops == {k \in DOMAIN visit : \/ visit[k] \in {FREE, USED}
                                          \/ arp_entries[visit[k]].ip = ip}
<1>1. /\ stops # {} /\ visit[Min(stops)] \in U \cup {USED}
      /\ visit[Min(stops)] \in U => visit[Min(stops)] \in M
      /\ visit[Min(stops)] = USED => U \cap M = {}
  <2>1. \A k \in DOMAIN visit : visit[k] \in Nodes
    <3>1. IsWalk(visit, links, USED)
      BY HeadFacts, VisitsWalk DEF Rings
    <3> HIDE DEF visit
    <3>2. QED
      BY <3>1 DEF IsWalk
  <2>2. stops = {k \in DOMAIN visit : visit[k] \in {FREE, USED} \cup M}
    BY <2>1
  <2> HIDE DEF visit, stops, M
  <2>3. QED
    BY <2>2, WalkStops DEF visit
<1>2. Find(ip) = visit[Min(stops)]
  BY <1>1 DEF Find
<1>3. U \subseteq Nodes
  BY DEF Rings, Nodes
<1> HIDE DEF visit, stops
<1>4. QED
  BY <1>1, <1>2, <1>3

\* A used entry is for a host, and its mapping is that of the host.
Known(U) == \A e \in U : /\ arp_entries[e].ip \in Ips
                         /\ arp_entries[e].contain_valid_mapping => arp_entries[e].mac = arp_entries[e].ip

OneEach(U) == \A d, e \in U : arp_entries[d].ip = arp_entries[e].ip => d = e

\* QueuesMatch for one entry.
Matched(entry, used) ==
  IF used /\ ~entry.contain_valid_mapping
  THEN entry.packet_count = Len(entry.packet_queue) /\ entry.packet_count \in 1 .. MaxQueueSize
  ELSE entry.packet_queue = <<>>

AllMatched(U) ==
  \A e \in Entries : /\ Matched(arp_entries[e], e \in U) /\ InTurn(arp_entries[e].packet_queue)
                     /\ \A p \in Waiting(e) : packets[p].ip = arp_entries[e].ip

Fits(F, U) ==
  /\ Rings(links, F, U) /\ cursor \in U \cup {USED}
  /\ Known(U) /\ OneEach(U) /\ AllMatched(U)
  /\ SentToOwner /\ NoOvertaking

\* The parts of Fits, and where the entries are.
LEMMA FitsFacts ==
  ASSUME IInv, NEW F, NEW U, Fits(F, U)
  PROVE  /\ TypeOK /\ Accounted /\ U \subseteq Entries /\ F \subseteq Entries /\ F \cap U = {}
         /\ F \cup U = Entries /\ USED \notin Entries /\ FREE \notin Entries
         /\ Rings(links, F, U) /\ Known(U) /\ OneEach(U) /\ AllMatched(U)
         /\ SentToOwner /\ NoOvertaking
BY HeadFacts DEF IInv, Fits, Rings, Heads

\* A packet that waits does so at the used entry of its address.
LEMMA WhereQueued ==
  ASSUME Accounted, NEW U, AllMatched(U), NEW p \in DOMAIN packets, packets[p].state = "queued"
  PROVE  \E e \in Entries : /\ e \in U /\ p \in Waiting(e) /\ arp_entries[e].ip = packets[p].ip
                            /\ ~arp_entries[e].contain_valid_mapping
<1>1. PICK e \in Entries : p \in Waiting(e)
  BY DEF Accounted
<1>2. arp_entries[e].packet_queue # <<>>
  BY <1>1 DEF Waiting, Range
<1>3. QED
  BY <1>1, <1>2 DEF AllMatched, Matched

\* The packets D leave the queue of e from its front, those sent to the owner of
\* their address; a new packet is queued, or sent when none waits for its address.
InOrder(e, D, state, mac, X) ==
  /\ Fated(D, state, mac, X) /\ state \in {"sent", "freed"}
  /\ D \subseteq Waiting(e) /\ X \subseteq {Packet}
  /\ \A q \in D, p \in Waiting(e) : p < q => p \in D
  /\ \A q \in D : state = "sent" => mac = packets[q].ip
  /\ \A q \in X : \/ packets'[q].state = "queued"
                  \/ /\ packets'[q].mac = packets'[q].ip
                     /\ \A p \in DOMAIN packets :
                          packets[p].ip = packets'[q].ip => packets[p].state # "queued"

\* No packet overtakes another, and those that are sent go where they belong.
LEMMA PacketsFit ==
  ASSUME IInv, NEW F, NEW U, Fits(F, U),
         NEW e \in Entries, NEW D, NEW X, NEW state, NEW mac, InOrder(e, D, state, mac, X)
  PROVE  SentToOwner' /\ NoOvertaking'
<1> USE FitsFacts DEF InOrder
<1>1. DOMAIN packets = 1 .. Len(packets) /\ Len(packets) \in Nat /\ Packet = Len(packets) + 1
  BY PacketNumbers DEF Packet
<1>2. SentToOwner'
  <2>1. ASSUME NEW p \in DOMAIN packets', packets'[p].state = "sent"
        PROVE  packets'[p].mac = packets'[p].ip
    <3>1. CASE p \in X
      BY <2>1, <3>1
    <3>2. CASE p \in DOMAIN packets /\ p \in D
      BY <2>1, <3>2 DEF Fated
    <3>3. CASE p \in DOMAIN packets /\ p \notin D
      BY <2>1, <3>3 DEF Fated, SentToOwner
    <3>4. QED
      BY <3>1, <3>2, <3>3 DEF Fated
  <2>2. QED
    BY <2>1 DEF SentToOwner
<1>3. ASSUME NEW p \in DOMAIN packets', NEW q \in DOMAIN packets', p < q,
             packets'[p].ip = packets'[q].ip, packets'[p].state = "queued"
      PROVE  packets'[q].state = "queued"
  <2>1. p \in DOMAIN packets
    <3>1. p \in 1 .. Len(packets) \cup {Packet} /\ q \in 1 .. Len(packets) \cup {Packet}
      BY <1>1, <1>3 DEF Fated
    <3>2. QED
      BY <1>1, <1>3, <3>1
  <2>2. p \notin D /\ packets[p].state = "queued" /\ packets'[p].ip = packets[p].ip
    BY <1>3, <2>1 DEF Fated
  <2>3. CASE q \in X
    <3>1. packets[p].ip = packets'[q].ip
      BY <1>3, <2>2
    <3>2. QED
      BY <2>1, <2>2, <2>3, <3>1
  <2>4. CASE q \in DOMAIN packets
    <3>1. packets[p].ip = packets[q].ip
      BY <1>3, <2>2, <2>4 DEF Fated
    <3>2. packets[q].state = "queued"
      BY <1>3, <2>1, <2>2, <2>4, <3>1 DEF NoOvertaking
    <3>3. q \notin D
      <4>1. SUFFICES ASSUME q \in D PROVE FALSE
        OBVIOUS
      <4>2. q \in Waiting(e)
        BY <4>1
      <4>3. PICK d \in Entries : d \in U /\ p \in Waiting(d) /\ arp_entries[d].ip = packets[p].ip
        BY <2>1, <2>2, WhereQueued
      <4>4. PICK c \in Entries : c \in U /\ q \in Waiting(c) /\ arp_entries[c].ip = packets[q].ip
        BY <2>4, <3>2, WhereQueued
      <4>5. c = e
        BY <4>2, <4>4 DEF Accounted
      <4>6. d = c
        BY <3>1, <4>3, <4>4 DEF OneEach
      <4>7. QED
        BY <1>3, <2>2, <4>1, <4>3, <4>5, <4>6
    <3>4. QED
      BY <2>4, <3>2, <3>3 DEF Fated
  <2>5. QED
    BY <2>3, <2>4 DEF Fated
<1>4. QED
  BY <1>2, <1>3 DEF NoOvertaking

\* One entry of the table changes, the others do not.
LEMMA TableFits ==
  ASSUME Accounted, NEW U, Known(U), OneEach(U), AllMatched(U), NEW V,
         NEW e \in Entries, NEW entry, OnlyEntry(e, entry),
         NEW D, NEW X, NEW state, NEW mac, Fated(D, state, mac, X),
         U \subseteq Entries, V \subseteq Entries,
         \A d \in Entries \ {e} : d \in U <=> d \in V,
         Matched(entry, e \in V), InTurn(entry.packet_queue),
         \A p \in Range(entry.packet_queue) : packets'[p].ip = entry.ip,
         e \in V => /\ entry.ip \in Ips /\ (entry.contain_valid_mapping => entry.mac = entry.ip)
                    /\ \A d \in U \ {e} : arp_entries[d].ip # entry.ip
  PROVE  Known(V)' /\ OneEach(V)' /\ AllMatched(V)'
<1>1. /\ arp_entries'[e] = entry /\ \A d \in Entries \ {e} : arp_entries'[d] = arp_entries[d]
  BY DEF OnlyEntry
<1>2. ASSUME NEW d \in V PROVE /\ arp_entries'[d].ip \in Ips
                               /\ arp_entries'[d].contain_valid_mapping =>
                                    arp_entries'[d].mac = arp_entries'[d].ip
  BY <1>1, <1>2 DEF Known
<1>3. ASSUME NEW c \in V, NEW d \in V, arp_entries'[c].ip = arp_entries'[d].ip PROVE c = d
  BY <1>1, <1>3 DEF OneEach
<1>4. ASSUME NEW d \in Entries
      PROVE  /\ Matched(arp_entries'[d], d \in V) /\ InTurn(arp_entries'[d].packet_queue)
             /\ \A p \in Range(arp_entries'[d].packet_queue) : packets'[p].ip = arp_entries'[d].ip
  <2>1. CASE d = e
    BY <1>1, <2>1
  <2>2. CASE d # e
    <3>1. arp_entries'[d] = arp_entries[d] /\ (d \in U <=> d \in V)
      BY <1>1, <2>2
    <3>2. Matched(arp_entries[d], d \in U) /\ InTurn(arp_entries[d].packet_queue)
      BY DEF AllMatched
    <3>3. Matched(arp_entries[d], d \in V)
      BY <3>1, <3>2 DEF Matched
    <3>4. \A p \in Waiting(d) : packets'[p].ip = packets[p].ip /\ packets[p].ip = arp_entries[d].ip
      BY DEF AllMatched, Fated, Accounted
    <3>5. QED
      BY <3>1, <3>2, <3>3, <3>4 DEF Waiting
  <2>3. QED
    BY <2>1, <2>2
<1>5. QED
  BY <1>2, <1>3, <1>4 DEF Known, OneEach, AllMatched, Waiting

\* No entry changes but for its age and its retries.
LEMMA TableStays ==
  ASSUME Accounted, NEW U, U \subseteq Entries, Known(U), OneEach(U), AllMatched(U),
         \A e \in Entries : /\ arp_entries'[e].packet_queue = arp_entries[e].packet_queue
                            /\ arp_entries'[e].packet_count = arp_entries[e].packet_count
                            /\ arp_entries'[e].ip = arp_entries[e].ip
                            /\ arp_entries'[e].mac = arp_entries[e].mac
                            /\ arp_entries'[e].contain_valid_mapping = arp_entries[e].contain_valid_mapping,
         \A p \in DOMAIN packets : packets'[p].ip = packets[p].ip
  PROVE  Known(U)' /\ OneEach(U)' /\ AllMatched(U)'
<1>1. \A d \in U : d \in Entries
  OBVIOUS
<1>2. Known(U)'
  BY <1>1 DEF Known
<1>3. OneEach(U)'
  BY <1>1 DEF OneEach
<1>4. ASSUME NEW d \in Entries
      PROVE  /\ Matched(arp_entries'[d], d \in U) /\ InTurn(arp_entries'[d].packet_queue)
             /\ \A p \in Range(arp_entries'[d].packet_queue) : packets'[p].ip = arp_entries'[d].ip
  <2>1. /\ Matched(arp_entries[d], d \in U) /\ InTurn(arp_entries[d].packet_queue)
        /\ \A p \in Range(arp_entries[d].packet_queue) :
             p \in DOMAIN packets /\ packets[p].ip = arp_entries[d].ip
    BY DEF AllMatched, Accounted, Waiting
  <2>2. QED
    BY <2>1 DEF Matched
<1>5. QED
  BY <1>2, <1>3, <1>4 DEF AllMatched, Waiting

LEMMA SendResolvedFits ==
  ASSUME IInv, NEW F, NEW U, Fits(F, U), NEW ip \in Ips, SendResolved(ip), Len(packets) < MaxSends
  PROVE  Fits(F, U)'
<1> USE FitsFacts
<1> DEFINE e == Find(ip)
<1>1. /\ e \in Entries /\ arp_entries[e].contain_valid_mapping
      /\ arp_entries' = arp_entries /\ links' = links /\ cursor' = cursor
  BY DEF SendResolved
<1>2. e \in U /\ arp_entries[e].ip = ip
  BY <1>1, FindFinds
<1>3. /\ Fated({}, "sent", NONE, {Packet}) /\ packets'[Packet].ip = ip
      /\ packets'[Packet].mac = arp_entries[e].mac
  BY SendResolvedKeeps
<1> HIDE DEF e
<1>4. arp_entries[e].mac = ip
  BY <1>1, <1>2 DEF Known
<1>5. ASSUME NEW p \in DOMAIN packets, packets[p].ip = ip PROVE packets[p].state # "queued"
  <2>1. SUFFICES ASSUME packets[p].state = "queued" PROVE FALSE
    OBVIOUS
  <2>2. PICK d \in Entries : /\ d \in U /\ arp_entries[d].ip = packets[p].ip
                             /\ ~arp_entries[d].contain_valid_mapping
    BY <2>1, WhereQueued
  <2>3. QED
    BY <1>1, <1>2, <1>5, <2>2 DEF OneEach
<1>6. SentToOwner' /\ NoOvertaking'
  <2> DEFINE D == {}
             X == {Packet}
             state == "sent"
             mac == NONE
  <2>1. InOrder(e, D, state, mac, X)
    BY <1>3, <1>4, <1>5 DEF InOrder
  <2> HIDE DEF D, X, state, mac
  <2>2. QED
    BY <1>1, <2>1, PacketsFit
<1>7. Known(U)' /\ OneEach(U)' /\ AllMatched(U)'
  <2>1. \A p \in DOMAIN packets : packets'[p].ip = packets[p].ip
    BY <1>3 DEF Fated
  <2>2. QED
    BY <1>1, <2>1, TableStays
<1>8. Rings(links, F, U)' /\ (cursor \in U \cup {USED})'
  BY <1>1 DEF Fits
<1>9. QED
  BY <1>6, <1>7, <1>8 DEF Fits

LEMMA SendWaitsFits ==
  ASSUME IInv, NEW F, NEW U, Fits(F, U), NEW ip \in Ips, SendWaits(ip), Len(packets) < MaxSends
  PROVE  Fits(F, U)'
<1> USE FitsFacts
<1>1. PICK e : e = Find(ip)
  OBVIOUS
<1>2. /\ e \in Entries /\ ~arp_entries[e].contain_valid_mapping /\ links' = links /\ cursor' = cursor
  BY <1>1 DEF SendWaits
<1>3. e \in U /\ arp_entries[e].ip = ip
  BY <1>1, <1>2, FindFinds
<1> DEFINE old   == arp_entries[e]
           entry == Queued(old, Packet)
           D     == QueueDrops(old)
           X     == {Packet}
           state == "freed"
           mac   == NONE
<1>4. /\ OnlyEntry(e, entry) /\ Fated(D, state, mac, X)
      /\ packets'[Packet].ip = ip /\ packets'[Packet].state = "queued"
  BY <1>1, SendWaitsKeeps
<1>5. /\ old \in EntryTypes /\ Packet \in 1 .. MaxSends /\ Packet \notin Range(old.packet_queue)
      /\ IsInjective(old.packet_queue) /\ \A p \in Range(old.packet_queue) : p \in DOMAIN packets /\ p < Packet
  BY <1>2, PacketNumbers DEF Waiting, Accounted
<1>6. /\ old.packet_count = Len(old.packet_queue) /\ old.packet_count \in 1 .. MaxQueueSize
      /\ InTurn(old.packet_queue) /\ \A p \in Range(old.packet_queue) : packets[p].ip = ip
  BY <1>2, <1>3 DEF AllMatched, Matched, Waiting
<1>7. old.packet_count \in 0 .. MaxQueueSize /\ old.packet_count =< Len(old.packet_queue)
  BY <1>5, <1>6, ArpAssumption DEF EntryTypes
<1>8. /\ entry.ip = ip /\ entry.contain_valid_mapping = old.contain_valid_mapping
      /\ D \subseteq Range(old.packet_queue)
      /\ Range(entry.packet_queue) = (Range(old.packet_queue) \ D) \cup {Packet}
      /\ entry.packet_count = Len(entry.packet_queue) /\ entry.packet_count \in 1 .. MaxQueueSize
      /\ InTurn(entry.packet_queue)
      /\ \A d \in D, p \in Range(old.packet_queue) : p # d => d < p
  <2> HIDE DEF old, D, entry
  <2>1. old.ip = ip
    BY <1>3 DEF old
  <2>2. QED
    BY <1>5, <1>6, <1>7, <2>1, QueuedEntry DEF D, entry
<1> HIDE DEF entry, D, state, mac
<1>9. SentToOwner' /\ NoOvertaking'
  <2>1. /\ D \subseteq Waiting(e) /\ X \subseteq {Packet} /\ state = "freed"
        /\ \A q \in X : packets'[q].state = "queued"
    BY <1>4, <1>8 DEF Waiting, state
  <2>2. ASSUME NEW q \in D, NEW p \in Waiting(e), p < q PROVE p \in D
    <3>1. p \in Nat /\ q \in Nat
      BY <1>5, <2>1, PacketNumbers DEF Waiting
    <3>2. p # q => q < p
      BY <1>8, <2>2 DEF Waiting
    <3>3. QED
      BY <2>2, <3>1, <3>2
  <2> HIDE DEF X
  <2>3. InOrder(e, D, state, mac, X)
    BY <1>4, <2>1, <2>2 DEF InOrder
  <2>4. QED
    BY <1>2, <2>3, PacketsFit
<1>10. Known(U)' /\ OneEach(U)' /\ AllMatched(U)'
  <2>1. Matched(entry, e \in U)
    BY <1>2, <1>3, <1>8 DEF Matched
  <2>2. \A p \in Range(entry.packet_queue) : packets'[p].ip = entry.ip
    BY <1>4, <1>5, <1>6, <1>8 DEF Fated
  <2>3. /\ entry.ip \in Ips /\ ~entry.contain_valid_mapping
        /\ \A d \in U \ {e} : arp_entries[d].ip # entry.ip
    BY <1>2, <1>3, <1>8 DEF OneEach
  <2> HIDE DEF X
  <2>4. QED
    BY <1>2, <1>4, <1>8, <2>1, <2>2, <2>3, TableFits
<1>11. Rings(links, F, U)' /\ (cursor \in U \cup {USED})'
  BY <1>2 DEF Fits
<1>12. QED
  BY <1>9, <1>10, <1>11 DEF Fits

LEMMA SendAllocatesFits ==
  ASSUME IInv, NEW F, NEW U, Fits(F, U), NEW ip \in Ips, SendAllocates(ip), Len(packets) < MaxSends
  PROVE  \E V, W : Fits(V, W)'
<1> USE FitsFacts
<1>1. PICK e : e = ListFirst(links, FREE)
  OBVIOUS
<1>2. /\ e \in Entries /\ Find(ip) = USED /\ cursor' = cursor
      /\ links' = ListAddLast(ListRemove(links, e), e, USED)
  BY <1>1 DEF SendAllocates
<1> DEFINE V     == F \ {e}
           W     == U \cup {e}
           old   == arp_entries[e]
           entry == SetUp(old, ip)
           D     == {}
           X     == {Packet}
           state == "freed"
           mac   == NONE
<1>3. e \in F /\ e \notin U /\ Rings(links', V, W)
  <2>1. Rings(links, F, U) /\ ListFirst(links, FREE) \in Entries
    BY <1>1, <1>2
  <2>2. /\ e \in F
        /\ Rings(ListAddLast(ListRemove(links, e), e, USED), F \ {e}, U \cup {e})
    BY <1>1, <2>1, MoveToUsed
  <2>3. QED
    BY <1>2, <2>2
<1>4. /\ OnlyEntry(e, entry) /\ Fated(D, state, mac, X)
      /\ packets'[Packet].ip = ip /\ packets'[Packet].state = "queued"
  BY <1>1, SendAllocatesKeeps
<1>5. /\ old.packet_queue = <<>> /\ Range(old.packet_queue) = {} /\ IsInjective(old.packet_queue)
  BY <1>2, <1>3 DEF AllMatched, Matched, Range, IsInjective
<1>6. old \in EntryTypes /\ Packet \in 1 .. MaxSends /\ Packet \notin Range(old.packet_queue)
  BY <1>2, <1>5, PacketNumbers
<1>7. /\ entry.ip = ip /\ ~entry.contain_valid_mapping
      /\ Range(entry.packet_queue) = {Packet}
      /\ entry.packet_count = Len(entry.packet_queue) /\ entry.packet_count \in 1 .. MaxQueueSize
      /\ InTurn(entry.packet_queue)
  <2> HIDE DEF old
  <2>1. /\ entry.ip = ip /\ entry.contain_valid_mapping = FALSE
        /\ Range(entry.packet_queue) = Range(old.packet_queue) \cup {Packet}
        /\ entry.packet_count = Len(entry.packet_queue)
        /\ entry.packet_count \in 1 .. MaxQueueSize /\ InTurn(entry.packet_queue)
    BY <1>5, <1>6, SetUpEntry
  <2> HIDE DEF entry
  <2>2. QED
    BY <1>5, <2>1
<1>8. \A d \in U : arp_entries[d].ip # ip
  BY <1>2, FindFinds
<1> HIDE DEF entry, old, D, state, mac, V, W
<1>9. SentToOwner' /\ NoOvertaking'
  <2>1. /\ D = {} /\ X \subseteq {Packet} /\ state = "freed"
        /\ \A q \in X : packets'[q].state = "queued"
    BY <1>4 DEF D, state
  <2> HIDE DEF X
  <2>2. InOrder(e, D, state, mac, X)
    BY <1>4, <2>1 DEF InOrder
  <2>3. QED
    BY <1>2, <2>2, PacketsFit
<1>10. Known(W)' /\ OneEach(W)' /\ AllMatched(W)'
  <2>1. Matched(entry, e \in W)
    BY <1>7 DEF Matched, W
  <2>2. \A p \in Range(entry.packet_queue) : packets'[p].ip = entry.ip
    BY <1>4, <1>7
  <2>3. /\ entry.ip \in Ips /\ ~entry.contain_valid_mapping
        /\ \A d \in U \ {e} : arp_entries[d].ip # entry.ip
    BY <1>7, <1>8
  <2>4. W \subseteq Entries /\ \A d \in Entries \ {e} : d \in U <=> d \in W
    BY <1>2 DEF W
  <2> HIDE DEF X
  <2>5. QED
    BY <1>2, <1>4, <1>7, <2>1, <2>2, <2>3, <2>4, TableFits
<1>11. Rings(links, V, W)' /\ (cursor \in W \cup {USED})'
  BY <1>2, <1>3 DEF Fits, W
<1>12. QED
  BY <1>9, <1>10, <1>11 DEF Fits

\* At least as many entries as hosts: nothing is ever evicted.
LEMMA NothingEvicted ==
  ASSUME IInv, NEW F, NEW U, Fits(F, U), NEW ip \in Ips, IsFiniteSet(Ips),
         Cardinality(Ips) =< Cardinality(Entries), Find(ip) = USED
  PROVE  ~ListIsEmpty(links, FREE)
<1> USE FitsFacts
<1>1. SUFFICES ASSUME ListIsEmpty(links, FREE) PROVE FALSE
  OBVIOUS
<1>2. F = {} /\ U = Entries
  BY <1>1, RingsFacts DEF ListIsEmpty
<1>3. \A e \in Entries : arp_entries[e].ip \in Ips /\ arp_entries[e].ip # ip
  BY <1>2, FindFinds DEF Known
<1> DEFINE Others == Ips \ {ip}
           host   == [e \in Entries |-> arp_entries[e].ip]
<1>4. /\ IsFiniteSet(Others) /\ Cardinality(Others) = Cardinality(Ips) - 1
      /\ Cardinality(Ips) \in Nat /\ Cardinality(Entries) \in Nat
  BY FS_RemoveElement, FS_CardinalityType, ListAssumption
<1>5. host \in Injection(Entries, Others)
  BY <1>2, <1>3 DEF OneEach, Injection, IsInjective
<1> HIDE DEF Others, host
<1>6. Cardinality(Entries) =< Cardinality(Others)
  BY <1>4, <1>5, FS_Injection
<1>7. QED
  BY <1>4, <1>6

\* The queue of one entry is given up or sent, the entry is kept or freed.
LEMMA EmptyingFits ==
  ASSUME IInv, NEW F, NEW U, Fits(F, U), NEW W \in SUBSET U, NEW e \in U, U \ {e} \subseteq W,
         NEW entry, OnlyEntry(e, entry), entry.packet_queue = <<>>,
         e \in W => /\ entry.contain_valid_mapping
                    /\ entry.ip = arp_entries[e].ip /\ entry.mac = entry.ip,
         NEW state \in {"sent", "freed"}, NEW mac, state = "sent" => mac = arp_entries[e].ip,
         Fated(Waiting(e), state, mac, {})
  PROVE  /\ SentToOwner' /\ NoOvertaking' /\ Known(W)' /\ OneEach(W)' /\ AllMatched(W)'
<1> USE FitsFacts
<1> DEFINE D == Waiting(e)
           X == {}
<1>1. Fated(D, state, mac, X) /\ D = Waiting(e) /\ X = {}
  OBVIOUS
<1> HIDE DEF D, X
<1>2. SentToOwner' /\ NoOvertaking'
  <2>1. \A p \in D : packets[p].ip = arp_entries[e].ip
    BY <1>1 DEF AllMatched
  <2>2. InOrder(e, D, state, mac, X)
    BY <1>1, <2>1 DEF InOrder
  <2>3. QED
    BY <2>2, PacketsFit
<1>3. Known(W)' /\ OneEach(W)' /\ AllMatched(W)'
  <2>1. Range(<<>>) = {} /\ InTurn(<<>>)
    BY DEF Range, InTurn
  <2>2. /\ Matched(entry, e \in W) /\ InTurn(entry.packet_queue)
        /\ \A p \in Range(entry.packet_queue) : packets'[p].ip = entry.ip
    BY <2>1 DEF Matched
  <2>3. e \in W => /\ entry.ip \in Ips /\ (entry.contain_valid_mapping => entry.mac = entry.ip)
                   /\ \A d \in U \ {e} : arp_entries[d].ip # entry.ip
    BY DEF Known, OneEach
  <2>4. \A d \in Entries \ {e} : d \in U <=> d \in W
    OBVIOUS
  <2>5. QED
    BY <1>1, <2>2, <2>3, <2>4, TableFits
<1>4. QED
  BY <1>2, <1>3

LEMMA HandleReplyFits ==
  ASSUME IInv, NEW F, NEW U, Fits(F, U), NEW ip \in Ips, NEW target_ip, HandleReply(ip, target_ip)
  PROVE  Fits(F, U)'
<1> USE FitsFacts
<1>1. PICK e : e = Find(ip)
  OBVIOUS
<1>2. e \in Entries /\ links' = links /\ cursor' = cursor
  BY <1>1 DEF HandleReply
<1>3. e \in U /\ arp_entries[e].ip = ip
  BY <1>1, <1>2, FindFinds
<1> DEFINE entry == Resolved(arp_entries[e], ip)
           state == "sent"
<1>4. OnlyEntry(e, entry) /\ Fated(Waiting(e), state, ip, {})
  BY <1>1, HandleReplyKeeps
<1>5. /\ entry.ip = arp_entries[e].ip /\ entry.mac = ip
      /\ entry.contain_valid_mapping /\ entry.packet_queue = <<>>
  <2>1. arp_entries[e] \in EntryTypes
    BY <1>2, TypesSplit
  <2>2. QED
    BY <2>1, ResolvedEntry
<1>6. state \in {"sent", "freed"} /\ U \in SUBSET U /\ U \ {e} \subseteq U
  OBVIOUS
<1> HIDE DEF entry, state
<1>7. SentToOwner' /\ NoOvertaking' /\ Known(U)' /\ OneEach(U)' /\ AllMatched(U)'
  BY <1>3, <1>4, <1>5, <1>6, EmptyingFits
<1>8. Rings(links, F, U)' /\ (cursor \in U \cup {USED})'
  BY <1>2 DEF Fits
<1>9. QED
  BY <1>7, <1>8 DEF Fits

LEMMA TaskFreesFits ==
  ASSUME IInv, NEW F, NEW U, Fits(F, U), TaskFrees
  PROVE  \E V, W : Fits(V, W)'
<1> USE FitsFacts
<1>1. PICK e : e = cursor
  OBVIOUS
<1>2. /\ e \in Entries /\ cursor' = links.next[e]
      /\ links' = ListAddFirst(ListRemove(links, e), e, FREE)
  BY <1>1 DEF TaskFrees, TaskEntry, FreeLinks
<1>3. e \in U
  BY <1>1, <1>2 DEF Fits
<1> DEFINE V     == F \cup {e}
           W     == U \ {e}
           entry == Emptied(arp_entries[e])
           state == "freed"
           mac   == NONE
<1>4. OnlyEntry(e, entry) /\ Fated(Waiting(e), state, mac, {})
  BY <1>1, TaskFreesKeeps
<1>5. entry.packet_queue = <<>>
  BY <1>2, TypesSplit, EmptiedEntry
<1>6. Rings(links', V, W)
  BY <1>2, <1>3, MoveToFree
<1>7. cursor' \in W \cup {USED}
  BY <1>2, <1>3, RingsFacts
<1>8. state \in {"sent", "freed"} /\ state # "sent" /\ W \in SUBSET U /\ U \ {e} \subseteq W /\ e \notin W
  OBVIOUS
<1> HIDE DEF entry, state, mac, W, V
<1>9. SentToOwner' /\ NoOvertaking' /\ Known(W)' /\ OneEach(W)' /\ AllMatched(W)'
  BY <1>3, <1>4, <1>5, <1>8, EmptyingFits
<1>10. QED
  BY <1>6, <1>7, <1>9 DEF Fits

LEMMA QuietFits ==
  ASSUME IInv, NEW F, NEW U, Fits(F, U), Quiet
  PROVE  Fits(F, U)'
<1> USE FitsFacts
<1>1. SameQueues /\ links' = links
  BY QuietKeeps
<1>2. Known(U)' /\ OneEach(U)' /\ AllMatched(U)'
  BY <1>1, TableStays DEF SameQueues
<1>3. SentToOwner' /\ NoOvertaking'
  BY <1>1 DEF SameQueues, SentToOwner, NoOvertaking, Fits
<1>4. cursor' \in U \cup {USED}
  <2>1. links.next[USED] \in U \cup {USED} /\ \A d \in U : links.next[d] \in U \cup {USED}
    BY RingsFacts
  <2>2. cursor \in U \cup {USED}
    BY DEF Fits
  <2>3. QED
    BY <2>1, <2>2 DEF Quiet, HandleRequest, TaskStarts, TaskRetries, TaskPasses, TaskEntry,
                      Tick, vars, ListFirst
<1>5. QED
  BY <1>1, <1>2, <1>3, <1>4 DEF Fits

LEMMA NextFits ==
  ASSUME IsFiniteSet(Ips), Cardinality(Ips) =< Cardinality(Entries),
         IInv, \E F, U : Fits(F, U), [Next]_vars
  PROVE  (\E F, U : Fits(F, U))'
<1>1. PICK F, U : Fits(F, U)
  OBVIOUS
<1>2. ASSUME NEW ip \in Ips, ArpSend(ip) PROVE \E V, W : Fits(V, W)'
  BY <1>1, <1>2, SendResolvedFits, SendWaitsFits, SendAllocatesFits, NothingEvicted
     DEF ArpSend, SendEvicts
<1>3. ASSUME NEW ip \in Ips, NEW target_ip \in Ips \cup {OurIp}, HandleReply(ip, target_ip)
      PROVE  \E V, W : Fits(V, W)'
  BY <1>1, <1>3, HandleReplyFits
<1>4. CASE TaskFrees
  BY <1>1, <1>4, TaskFreesFits
<1>5. CASE Quiet
  BY <1>1, <1>5, QuietFits
<1>6. QED
  BY <1>2, <1>3, <1>4, <1>5 DEF Next, ArpTask, Quiet

LEMMA InitialFits ==
  ASSUME Init
  PROVE  \E F, U : Fits(F, U)
<1>1. /\ IInv /\ Rings(links, Entries, {}) /\ cursor = USED /\ packets = <<>>
      /\ \A e \in Entries : arp_entries[e] = ZeroEntry
  BY InitialTable DEF Init
<1>2. ZeroEntry.packet_queue = <<>> /\ Range(<<>>) = {} /\ InTurn(<<>>)
  BY DEF ZeroEntry, Range, InTurn
<1>3. Known({}) /\ OneEach({}) /\ AllMatched({})
  BY <1>1, <1>2 DEF Known, OneEach, AllMatched, Matched, Waiting
<1>4. SentToOwner /\ NoOvertaking
  BY <1>1 DEF SentToOwner, NoOvertaking
<1>5. QED
  BY <1>1, <1>3, <1>4 DEF Fits

\* An entry for every host of the network.
EnoughEntries == IsFiniteSet(Ips) /\ Cardinality(Ips) =< Cardinality(Entries)

LEMMA FitsAlways ==
  ASSUME EnoughEntries
  PROVE  Spec => [](IInv /\ \E F, U : Fits(F, U))
<1> DEFINE Inv == IInv /\ \E F, U : Fits(F, U)
<1>1. Init => Inv
  BY InitialTable, InitialFits
<1>2. Inv /\ [Next]_vars => Inv'
  <2> SUFFICES ASSUME Inv, [Next]_vars PROVE Inv'
    OBVIOUS
  <2>1. IInv'
    BY NextIInv
  <2>2. (\E F, U : Fits(F, U))'
    BY NextFits DEF EnoughEntries
  <2>3. QED
    BY <2>1, <2>2
<1>3. QED
  BY <1>1, <1>2, PTL DEF Spec

\* With an entry for every host, for every table and number of hosts: the rings of
\* free_entries and used_entries stay closed, share no entry and lose none, and
\* find_arp_entry can find at most one entry for an address.
THEOREM TableStaysIntact == ASSUME EnoughEntries PROVE Spec => []TableIntact
<1>1. ASSUME IInv, NEW F, NEW U, Fits(F, U) PROVE TableIntact
  <2>1. /\ Rings(links, F, U) /\ F \cap U = {} /\ F \cup U = Entries /\ OneEach(U)
    BY <1>1, FitsFacts
  <2>2. /\ Elements(links, FREE) = F /\ UsedEntries = U
        /\ \A n \in Nodes : links.prev[links.next[n]] = n
    BY <2>1, RingsFacts DEF UsedEntries
  <2>3. QED
    BY <2>1, <2>2 DEF TableIntact, OneEach
<1>2. IInv /\ (\E F, U : Fits(F, U)) => TableIntact
  BY <1>1
<1>3. QED
  BY <1>2, FitsAlways, PTL

\* With an entry for every host: only an unresolved entry has packets waiting, one
\* at least and ARP_ENTRY_MAX_QUEUE_SIZE at most, all for its address, and
\* packet_count is their number whenever add_to_arp_entry_queue reads it.
THEOREM QueuesStayMatched == ASSUME EnoughEntries PROVE Spec => []QueuesMatch
<1>1. ASSUME IInv, NEW F, NEW U, Fits(F, U) PROVE QueuesMatch
  <2>1. UsedEntries = U /\ AllMatched(U)
    BY <1>1, FitsFacts, RingsFacts DEF UsedEntries
  <2>2. QED
    BY <2>1 DEF QueuesMatch, AllMatched, Matched
<1>2. IInv /\ (\E F, U : Fits(F, U)) => QueuesMatch
  BY <1>1
<1>3. QED
  BY <1>2, FitsAlways, PTL

\* With an entry for every host: a packet is sent to the owner of its address,
\* whatever replies are lost, late or repeated.
THEOREM EveryPacketToItsOwner == ASSUME EnoughEntries PROVE Spec => []SentToOwner
<1>1. IInv /\ (\E F, U : Fits(F, U)) => SentToOwner
  BY DEF Fits
<1>2. QED
  BY <1>1, FitsAlways, PTL

\* With an entry for every host: no packet leaves the table, sent or freed, before
\* an earlier one for the same address - not by a full queue, by a reply or by an
\* entry that expires.
THEOREM NothingOvertakes == ASSUME EnoughEntries PROVE Spec => []NoOvertaking
<1>1. IInv /\ (\E F, U : Fits(F, U)) => NoOvertaking
  BY DEF Fits
<1>2. QED
  BY <1>1, FitsAlways, PTL

-----------------------------------------------------------------------------
(* The lists after evictions.  An entry that was evicted is linked in both:  *)
(* the lists are no rings any more, but what is behind each node can still   *)
(* be said, without sequences.                                               *)

\* The nodes Y follow the nodes X one to one, forwards and backwards.
Joins(heap, X, Y) ==
  /\ \A n \in X : heap.next[n] \in Y /\ heap.prev[heap.next[n]] = n
  /\ \A n \in Y : heap.prev[n] \in X /\ heap.next[heap.prev[n]] = n

\* A walk that has entered X leaves it again.
Ends(heap, X) == \A Z \in SUBSET X : Z # {} => \E n \in Z : heap.next[n] \notin Z

LEMMA JoinsTogether ==
  ASSUME NEW heap, NEW X, NEW Y, NEW V, NEW W, Joins(heap, X, Y), Joins(heap, V, W)
  PROVE  Joins(heap, X \cup V, Y \cup W)
BY DEF Joins

LEMMA JoinsApart ==
  ASSUME NEW heap, NEW X, NEW Y, NEW V \in SUBSET X, NEW W \in SUBSET Y,
         Joins(heap, X, Y), Joins(heap, V, W)
  PROVE  Joins(heap, X \ V, Y \ W)
BY DEF Joins

\* A node and the one behind it.
LEMMA JoinsPair ==
  ASSUME NEW heap, NEW X, NEW Y, Joins(heap, X, Y), NEW n \in X
  PROVE  Joins(heap, {n}, {heap.next[n]}) /\ Joins(heap, X \ {n}, Y \ {heap.next[n]})
<1>1. Joins(heap, {n}, {heap.next[n]})
  BY DEF Joins
<1>2. {n} \in SUBSET X /\ {heap.next[n]} \in SUBSET Y
  BY DEF Joins
<1>3. QED
  BY <1>1, <1>2, JoinsApart

LEMMA JoinsSame ==
  ASSUME NEW heap, NEW later, NEW X, NEW Y, Joins(heap, X, Y),
         \A n \in X : later.next[n] = heap.next[n], \A n \in Y : later.prev[n] = heap.prev[n]
  PROVE  Joins(later, X, Y)
BY DEF Joins

LEMMA EndsSame ==
  ASSUME NEW heap, NEW later, NEW X, Ends(heap, X),
         \A n \in X : later.next[n] = heap.next[n] \/ later.next[n] \notin X
  PROVE  Ends(later, X)
BY DEF Ends

LEMMA EndsTogether ==
  ASSUME NEW heap, NEW X, NEW Y, Ends(heap, X), Ends(heap, Y), \A n \in Y : heap.next[n] \notin X
  PROVE  Ends(heap, X \cup Y)
<1>1. SUFFICES ASSUME NEW Z \in SUBSET (X \cup Y), Z # {} PROVE \E n \in Z : heap.next[n] \notin Z
  BY DEF Ends
<1>2. CASE Z \cap Y = {}
  <2>1. Z \in SUBSET X
    BY <1>2
  <2>2. QED
    BY <1>1, <2>1 DEF Ends
<1>3. CASE Z \cap Y # {}
  <2>1. PICK n \in Z \cap Y : heap.next[n] \notin Z \cap Y
    BY <1>3 DEF Ends
  <2>2. QED
    BY <2>1
<1>4. QED
  BY <1>2, <1>3

LEMMA EndsPart ==
  ASSUME NEW heap, NEW X, Ends(heap, X), NEW Y \in SUBSET X
  PROVE  Ends(heap, Y)
BY DEF Ends

\* list_remove.
LEMMA RemoveJoins ==
  ASSUME NEW heap \in Heap, NEW X \in SUBSET Nodes, NEW Y \in SUBSET Nodes, Joins(heap, X, Y),
         NEW x \in X \cap Y
  PROVE  Joins(ListRemove(heap, x), X \ {x}, Y \ {x})
<1> DEFINE p == heap.prev[x]
           y == heap.next[x]
           later == ListRemove(heap, x)
<1>1. /\ p \in X /\ y \in Y /\ heap.next[p] = x /\ heap.prev[y] = x /\ p \in Nodes /\ y \in Nodes
      /\ p = x <=> y = x
  BY DEF Joins
<1>2. /\ later.next[p] = y /\ later.prev[y] = p
      /\ \A n \in Nodes : /\ n # p => later.next[n] = heap.next[n]
                          /\ n # y => later.prev[n] = heap.prev[n]
  BY RemovedHeap
<1> HIDE DEF p, y, later
<1>3. ASSUME NEW n \in X, n # x
      PROVE  later.next[n] \in Y \ {x} /\ later.prev[later.next[n]] = n
  <2>1. CASE n = p
    BY <1>1, <1>2, <1>3, <2>1
  <2>2. CASE n # p
    <3>1. /\ later.next[n] = heap.next[n] /\ heap.next[n] \in Y /\ heap.prev[heap.next[n]] = n
      BY <1>2, <2>2 DEF Joins
    <3>2. heap.next[n] # x /\ heap.next[n] # y
      BY <1>1, <1>3, <2>2, <3>1 DEF p
    <3>3. QED
      BY <1>2, <3>1, <3>2
  <2>3. QED
    BY <2>1, <2>2
<1>4. ASSUME NEW n \in Y, n # x
      PROVE  later.prev[n] \in X \ {x} /\ later.next[later.prev[n]] = n
  <2>1. CASE n = y
    BY <1>1, <1>2, <1>4, <2>1
  <2>2. CASE n # y
    <3>1. /\ later.prev[n] = heap.prev[n] /\ heap.prev[n] \in X /\ heap.next[heap.prev[n]] = n
      BY <1>2, <2>2 DEF Joins
    <3>2. heap.prev[n] # x /\ heap.prev[n] # p
      BY <1>1, <1>4, <2>2, <3>1 DEF y
    <3>3. QED
      BY <1>2, <3>1, <3>2
  <2>3. QED
    BY <2>1, <2>2
<1>5. QED
  BY <1>3, <1>4 DEF Joins, later

LEMMA RemoveKeeps ==
  ASSUME NEW heap \in Heap, NEW X \in SUBSET Nodes, NEW Y \in SUBSET Nodes, Joins(heap, X, Y),
         NEW x \in Nodes, heap.prev[x] \notin X, heap.next[x] \notin Y
  PROVE  Joins(ListRemove(heap, x), X, Y)
<1> DEFINE later == ListRemove(heap, x)
<1>1. /\ \A n \in X : later.next[n] = heap.next[n]
      /\ \A n \in Y : later.prev[n] = heap.prev[n]
  BY RemovedHeap
<1> HIDE DEF later
<1>2. Joins(later, X, Y)
  BY <1>1, JoinsSame
<1>3. QED
  BY <1>2 DEF later

LEMMA RemoveEnds ==
  ASSUME NEW heap \in Heap, NEW X \in SUBSET Nodes, Ends(heap, X), NEW x \in X,
         heap.next[heap.prev[x]] = x
  PROVE  Ends(ListRemove(heap, x), X \ {x})
<1> DEFINE p == heap.prev[x]
           y == heap.next[x]
           later == ListRemove(heap, x)
<1>1. later.next[p] = y /\ \A n \in Nodes : n # p => later.next[n] = heap.next[n]
  BY RemovedHeap
<1> HIDE DEF later
<1>2. SUFFICES ASSUME NEW Z \in SUBSET (X \ {x}), Z # {}, \A n \in Z : later.next[n] \in Z
               PROVE  FALSE
  <2>1. SUFFICES ASSUME NEW Z \in SUBSET (X \ {x}), Z # {} PROVE \E n \in Z : later.next[n] \notin Z
    BY DEF Ends, later
  <2>2. QED
    BY <1>2, <2>1
<1>3. CASE p \in Z
  <2>1. Z \cup {x} \in SUBSET X /\ \A n \in Z \cup {x} : heap.next[n] \in Z \cup {x}
    BY <1>1, <1>2, <1>3
  <2>2. QED
    BY <2>1 DEF Ends
<1>4. CASE p \notin Z
  <2>1. \A n \in Z : heap.next[n] \in Z
    BY <1>1, <1>2, <1>4
  <2>2. QED
    BY <1>2, <2>1 DEF Ends
<1>5. QED
  BY <1>3, <1>4

LEMMA RemoveKeepsEnds ==
  ASSUME NEW heap \in Heap, NEW X \in SUBSET Nodes, Ends(heap, X), NEW x \in Nodes, heap.prev[x] \notin X
  PROVE  Ends(ListRemove(heap, x), X)
<1> DEFINE later == ListRemove(heap, x)
<1>1. \A n \in X : later.next[n] = heap.next[n]
  BY RemovedHeap
<1> HIDE DEF later
<1>2. Ends(later, X)
  BY <1>1, EndsSame
<1>3. QED
  BY <1>2 DEF later

\* list_add_first and list_add_last put x between two nodes of which the one need not
\* point to the other.  When x is in front of itself it is left pointing to itself.
LEMMA LinkJoins ==
  ASSUME NEW heap \in Heap, NEW x \in Nodes, NEW before \in Nodes, NEW after \in Nodes, x # before
  PROVE  LET later == LinkBetween(heap, x, before, after) IN
         /\ later \in Heap /\ later.next[before] = x /\ later.next[x] = after
         /\ \A n \in Nodes \ {x, before} : later.next[n] = heap.next[n]
         /\ Joins(later, {x}, {after})
         /\ x # after => Joins(later, {before}, {x})
BY DEF Heap, LinkBetween, Joins

LEMMA LinkKeeps ==
  ASSUME NEW heap \in Heap, NEW X \in SUBSET Nodes, NEW Y \in SUBSET Nodes, Joins(heap, X, Y),
         NEW x \in Nodes, NEW before \in Nodes, NEW after \in Nodes,
         x \notin X, before \notin X, x \notin Y, after \notin Y
  PROVE  Joins(LinkBetween(heap, x, before, after), X, Y)
<1> DEFINE later == LinkBetween(heap, x, before, after)
<1>1. /\ \A n \in X : later.next[n] = heap.next[n]
      /\ \A n \in Y : later.prev[n] = heap.prev[n]
  BY DEF Heap, LinkBetween
<1> HIDE DEF later
<1>2. Joins(later, X, Y)
  BY <1>1, JoinsSame
<1>3. QED
  BY <1>2 DEF later

LEMMA LinkKeepsEnds ==
  ASSUME NEW heap \in Heap, NEW X \in SUBSET Nodes, Ends(heap, X),
         NEW x \in Nodes, NEW before \in Nodes, NEW after \in Nodes, x # before, x \notin X
  PROVE  Ends(LinkBetween(heap, x, before, after), X)
<1> DEFINE later == LinkBetween(heap, x, before, after)
<1>1. later.next[before] = x /\ \A n \in Nodes \ {x, before} : later.next[n] = heap.next[n]
  BY DEF Heap, LinkBetween
<1> HIDE DEF later
<1>2. \A n \in X : later.next[n] = heap.next[n] \/ later.next[n] \notin X
  BY <1>1
<1>3. Ends(later, X)
  BY <1>2, EndsSame
<1>4. QED
  BY <1>3 DEF later

\* x between two nodes that follow each other.
LEMMA LinkInserts ==
  ASSUME NEW heap \in Heap, NEW X \in SUBSET Nodes, NEW Y \in SUBSET Nodes, Joins(heap, X, Y),
         NEW x \in Nodes, NEW before \in X, x \notin X, x \notin Y
  PROVE  Joins(LinkBetween(heap, x, before, heap.next[before]), X \cup {x}, Y \cup {x})
<1> DEFINE after == heap.next[before]
           later == LinkBetween(heap, x, before, after)
           V     == X \ {before}
           W     == Y \ {after}
<1>1. after \in Y /\ after \in Nodes /\ x # before /\ x # after /\ before \in Nodes
  BY DEF Joins
<1>2. Joins(heap, V, W)
  BY JoinsPair
<1>3. Joins(later, V, W)
  BY <1>1, <1>2, LinkKeeps
<1>4. Joins(later, {before}, {x}) /\ Joins(later, {x}, {after})
  BY <1>1, LinkJoins
<1>5. V \cup {before} = X /\ W \cup {after} = Y
  BY <1>1
<1> HIDE DEF later, V, W, after
<1>6. Joins(later, V \cup {before}, W \cup {x})
  BY <1>3, <1>4, JoinsTogether
<1>7. Joins(later, (V \cup {before}) \cup {x}, (W \cup {x}) \cup {after})
  BY <1>4, <1>6, JoinsTogether
<1>8. (W \cup {x}) \cup {after} = Y \cup {x}
  BY <1>5
<1>9. Joins(later, X \cup {x}, Y \cup {x})
  BY <1>5, <1>7, <1>8
<1>10. QED
  BY <1>9 DEF later, after

\* A ring of the used list.
Ring(heap, X, list) == X \subseteq Entries /\ Joins(heap, X \cup {list}, X \cup {list}) /\ Ends(heap, X)

LEMMA RingOfChain ==
  ASSUME NEW heap \in Heap, NEW list \in Heads, NEW s, Chain(s), IsRing(heap, list, s)
  PROVE  Ring(heap, Range(s), list)
<1> DEFINE N == Len(s)
           R(k) == RingNode(list, s, k)
<1>1. /\ N \in Nat /\ Range(s) \subseteq Entries
      /\ \A k \in 0 .. N : k \in 0 .. N + 1 /\ k + 1 \in 0 .. N + 1 /\ k + 1 \in 1 .. N + 1
      /\ \A k \in 1 .. N + 1 : k - 1 \in 0 .. N /\ (k - 1) + 1 = k
  BY ChainFacts
<1>2. /\ \A k \in 0 .. N + 1 : R(k) \in Range(s) \cup {list}
      /\ R(0) = list /\ R(N + 1) = list /\ \A k \in 1 .. N : R(k) = s[k]
  BY RingNodes
<1>3. \A k \in 0 .. N : heap.next[R(k)] = R(k + 1) /\ heap.prev[R(k + 1)] = R(k)
  BY DEF IsRing
<1>4. ASSUME NEW n \in Range(s) \cup {list}
      PROVE  (\E k \in 0 .. N : R(k) = n) /\ (\E k \in 1 .. N + 1 : R(k) = n)
  <2>1. CASE n = list
    <3>1. 0 \in 0 .. N /\ N + 1 \in 1 .. N + 1
      BY <1>1
    <3>2. QED
      BY <1>2, <2>1, <3>1
  <2>2. CASE n \in Range(s)
    <3>1. PICK k \in 1 .. N : s[k] = n
      BY <2>2, ChainFacts
    <3>2. k \in 0 .. N /\ k \in 1 .. N + 1 /\ R(k) = n
      BY <1>1, <1>2, <3>1
    <3>3. QED
      BY <3>2
  <2>3. QED
    BY <2>1, <2>2
<1> HIDE DEF N, R
<1>5. Joins(heap, Range(s) \cup {list}, Range(s) \cup {list})
  <2>1. ASSUME NEW n \in Range(s) \cup {list}
        PROVE  heap.next[n] \in Range(s) \cup {list} /\ heap.prev[heap.next[n]] = n
    <3>1. PICK k \in 0 .. N : R(k) = n
      BY <1>4
    <3>2. QED
      BY <1>1, <1>2, <1>3, <3>1
  <2>2. ASSUME NEW n \in Range(s) \cup {list}
        PROVE  heap.prev[n] \in Range(s) \cup {list} /\ heap.next[heap.prev[n]] = n
    <3>1. PICK k \in 1 .. N + 1 : R(k) = n
      BY <1>4
    <3>2. PICK j : j = k - 1
      OBVIOUS
    <3>3. j \in 0 .. N /\ j + 1 = k
      BY <1>1, <3>2
    <3>4. QED
      BY <1>1, <1>2, <1>3, <3>1, <3>3
  <2>3. QED
    BY <2>1, <2>2 DEF Joins
<1>6. Ends(heap, Range(s))
  <2>1. SUFFICES ASSUME NEW Z \in SUBSET Range(s), Z # {}, \A n \in Z : heap.next[n] \in Z
                 PROVE  FALSE
    BY DEF Ends
  <2> DEFINE I == {k \in 0 .. N : R(N - k) \in Z}
  <2>2. I # {}
    <3>1. PICK n \in Z : n \in Range(s)
      BY <2>1
    <3>2. PICK k \in 0 .. N : R(k) = n
      BY <1>4, <3>1
    <3>3. N - k \in 0 .. N /\ N - (N - k) = k
      BY <1>1
    <3>4. QED
      BY <3>1, <3>2, <3>3
  <2>3. I \subseteq Nat
    OBVIOUS
  <2> HIDE DEF I
  <2>4. PICK m \in I : \A k \in I : m =< k
    BY <2>2, <2>3, MinOfNat
  <2>5. m \in 0 .. N /\ R(N - m) \in Z /\ N - m \in 0 .. N
    BY <1>1 DEF I
  <2>6. R((N - m) + 1) \in Z
    BY <1>3, <2>1, <2>5
  <2>7. CASE m = 0
    <3>1. R(N + 1) \in Z
      BY <1>1, <2>6, <2>7
    <3>2. QED
      BY <1>2, <2>1, <3>1, ChainFacts
  <2>8. CASE m # 0
    <3>1. m - 1 \in 0 .. N /\ N - (m - 1) = (N - m) + 1 /\ ~(m =< m - 1)
      BY <1>1, <2>5, <2>8
    <3>2. m - 1 \in I
      BY <2>6, <3>1 DEF I
    <3>3. QED
      BY <2>4, <3>1, <3>2
  <2>9. QED
    BY <2>7, <2>8
<1>7. QED
  BY <1>1, <1>5, <1>6 DEF Ring

\* T is what the walk through the ring R visits from y on.
SplitAt(heap, R, y, T) ==
  /\ y \in T /\ Ends(heap, T) /\ Joins(heap, T, (T \ {y}) \cup {USED})
  /\ Ends(heap, R \ T) /\ heap.prev[y] \in (R \ T) \cup {USED} /\ heap.next[heap.prev[y]] = y
  /\ Joins(heap, ((R \ T) \cup {USED}) \ {heap.prev[y]}, R \ T)

LEMMA RingSplits ==
  ASSUME NEW heap, NEW R, Ring(heap, R, USED), NEW y \in R
  PROVE  \E T \in SUBSET R : SplitAt(heap, R, y, T)
<1> DEFINE Closed(Z) == y \in Z /\ \A m \in Z : heap.next[m] \in Z \cup {USED}
           T == {n \in R : \A Z \in SUBSET R : Closed(Z) => n \in Z}
           A == R \ T
<1>1. /\ R \subseteq Entries /\ USED \notin R /\ Ends(heap, R)
      /\ \A n \in R \cup {USED} : /\ heap.next[n] \in R \cup {USED} /\ heap.prev[heap.next[n]] = n
                                  /\ heap.prev[n] \in R \cup {USED} /\ heap.next[heap.prev[n]] = n
  BY ListAssumption DEF Ring, Joins
<1>2. T \subseteq R /\ y \in T /\ Closed(T)
  BY <1>1
<1>3. \A Z \in SUBSET R : Closed(Z) => T \subseteq Z
  OBVIOUS
<1> HIDE DEF T
<1>4. ASSUME NEW n \in T, n # y PROVE heap.prev[n] \in T
  <2>1. SUFFICES ASSUME heap.prev[n] \notin T PROVE FALSE
    OBVIOUS
  <2>2. Closed(T \ {n})
    BY <1>1, <1>2, <1>4, <2>1
  <2>3. QED
    BY <1>2, <1>3, <2>2
<1>5. heap.prev[y] \notin T
  <2>1. SUFFICES ASSUME heap.prev[y] \in T PROVE FALSE
    OBVIOUS
  <2>2. PICK e \in T : heap.next[e] \notin T
    BY <1>1, <1>2 DEF Ends
  <2>3. heap.next[e] = USED
    BY <1>2, <2>2
  <2> DEFINE back == [n \in T |-> heap.prev[n]]
             S    == T \ {e}
  <2>4. back \in Injection(T, S)
    <3>1. ASSUME NEW n \in T PROVE heap.prev[n] \in S /\ heap.next[heap.prev[n]] = n
      BY <1>1, <1>2, <1>4, <2>1, <2>2
    <3>2. \A m, n \in T : back[m] = back[n] => m = n
      BY <3>1
    <3>3. QED
      BY <3>1, <3>2 DEF Injection, IsInjective
  <2>5. IsFiniteSet(T) /\ Cardinality(S) = Cardinality(T) - 1 /\ Cardinality(T) \in Nat /\ IsFiniteSet(S)
    BY <1>1, <1>2, ListAssumption, FS_Subset, FS_RemoveElement, FS_CardinalityType
  <2> HIDE DEF back, S
  <2>6. Cardinality(T) =< Cardinality(S)
    BY <2>4, <2>5, FS_Injection
  <2>7. QED
    BY <2>5, <2>6
<1>6. Joins(heap, T, (T \ {y}) \cup {USED})
  <2>1. ASSUME NEW n \in T
        PROVE  heap.next[n] \in (T \ {y}) \cup {USED} /\ heap.prev[heap.next[n]] = n
    BY <1>1, <1>2, <1>5
  <2>2. heap.prev[USED] \in T
    <3>1. PICK e \in T : heap.next[e] \notin T
      BY <1>1, <1>2 DEF Ends
    <3>2. heap.next[e] = USED
      BY <1>2, <3>1
    <3>3. QED
      BY <1>1, <1>2, <3>2
  <2>3. QED
    BY <1>1, <1>2, <1>4, <2>1, <2>2 DEF Joins
<1> DEFINE last == heap.prev[y]
<1>7. last \in A \cup {USED} /\ heap.next[last] = y
  BY <1>1, <1>2, <1>5
<1>8. Joins(heap, (A \cup {USED}) \ {last}, A)
  <2>1. Joins(heap, R \cup {USED}, R \cup {USED})
    BY DEF Ring
  <2>2. T \in SUBSET (R \cup {USED}) /\ (T \ {y}) \cup {USED} \in SUBSET (R \cup {USED})
    BY <1>2
  <2>3. Joins(heap, (R \cup {USED}) \ T, (R \cup {USED}) \ ((T \ {y}) \cup {USED}))
    BY <1>6, <2>1, <2>2, JoinsApart
  <2>4. (R \cup {USED}) \ T = A \cup {USED} /\ (R \cup {USED}) \ ((T \ {y}) \cup {USED}) = A \cup {y}
    BY <1>1, <1>2
  <2>5. Joins(heap, A \cup {USED}, A \cup {y})
    BY <2>3, <2>4
  <2>6. Joins(heap, (A \cup {USED}) \ {last}, (A \cup {y}) \ {y})
    BY <1>7, <2>5, JoinsPair
  <2>7. (A \cup {y}) \ {y} = A
    BY <1>2
  <2>8. QED
    BY <2>6, <2>7
<1>9. Ends(heap, T) /\ Ends(heap, A)
  BY <1>1, <1>2, EndsPart
<1>10. QED
  BY <1>2, <1>6, <1>7, <1>8, <1>9 DEF SplitAt

\* Rings of the used list under the operations of arp.c.
LEMMA RingShrinks ==
  ASSUME NEW heap \in Heap, NEW R, Ring(heap, R, USED), NEW x \in R
  PROVE  Ring(ListRemove(heap, x), R \ {x}, USED)
<1> DEFINE X == R \cup {USED}
<1>1. R \subseteq Entries /\ USED \notin Entries /\ X \in SUBSET Nodes /\ R \in SUBSET Nodes /\ x \in X \cap X
  BY HeadFacts DEF Ring, Nodes, Heads
<1>2. Joins(heap, X, X) /\ Ends(heap, R)
  BY DEF Ring
<1>3. heap.next[heap.prev[x]] = x
  BY <1>1, <1>2 DEF Joins
<1>4. X \ {x} = (R \ {x}) \cup {USED}
  BY <1>1
<1> HIDE DEF X
<1>5. Joins(ListRemove(heap, x), X \ {x}, X \ {x}) /\ Ends(ListRemove(heap, x), R \ {x})
  BY <1>1, <1>2, <1>3, RemoveJoins, RemoveEnds
<1>6. QED
  BY <1>1, <1>4, <1>5 DEF Ring

LEMMA RingGrows ==
  ASSUME NEW heap \in Heap, NEW R, Ring(heap, R, USED), NEW x \in Entries, x \notin R
  PROVE  Ring(ListAddLast(heap, x, USED), R \cup {x}, USED) /\ heap.prev[USED] \in R \cup {USED}
<1> DEFINE X == R \cup {USED}
           q == heap.prev[USED]
           later == LinkBetween(heap, x, q, USED)
<1>1. /\ R \subseteq Entries /\ USED \notin Entries /\ X \in SUBSET Nodes /\ R \in SUBSET Nodes
      /\ x \in Nodes /\ x \notin X /\ USED \in X /\ USED \in Nodes
  BY HeadFacts DEF Ring, Nodes, Heads
<1>2. Joins(heap, X, X) /\ Ends(heap, R)
  BY DEF Ring
<1>3. q \in X /\ heap.next[q] = USED /\ q \in Nodes /\ q # x
  BY <1>1, <1>2 DEF Joins
<1> HIDE DEF X, q
<1>4. Joins(later, X \cup {x}, X \cup {x})
  BY <1>1, <1>2, <1>3, LinkInserts
<1>5. Ends(later, R) /\ later.next[x] = USED
  <2>1. later.next[x] = USED
    BY <1>1, <1>3 DEF Heap, LinkBetween
  <2>2. Ends(later, R)
    BY <1>1, <1>2, <1>3, LinkKeepsEnds
  <2>3. QED
    BY <2>1, <2>2
<1> HIDE DEF later
<1>6. Ends(later, {x})
  BY <1>1, <1>5 DEF Ends
<1>7. Ends(later, R \cup {x})
  BY <1>1, <1>5, <1>6, EndsTogether
<1>8. X \cup {x} = (R \cup {x}) \cup {USED}
  BY DEF X
<1>9. Ring(later, R \cup {x}, USED)
  BY <1>1, <1>4, <1>7, <1>8 DEF Ring
<1>10. QED
  BY <1>3, <1>9 DEF later, ListAddLast, X, q

LEMMA RingKept ==
  ASSUME NEW heap \in Heap, NEW R, Ring(heap, R, USED), NEW x \in Nodes
  PROVE  /\ heap.prev[x] \notin R \cup {USED} /\ heap.next[x] \notin R \cup {USED} =>
              Ring(ListRemove(heap, x), R, USED)
         /\ \A before, after \in Nodes :
              x \notin R \cup {USED} /\ before \notin R \cup {USED} /\ after \notin R \cup {USED}
              /\ x # before =>
                Ring(LinkBetween(heap, x, before, after), R, USED)
<1> DEFINE X == R \cup {USED}
<1>1. R \subseteq Entries /\ X \in SUBSET Nodes /\ R \in SUBSET Nodes
  BY HeadFacts DEF Ring, Nodes, Heads
<1>2. Joins(heap, X, X) /\ Ends(heap, R)
  BY DEF Ring
<1>3. ASSUME heap.prev[x] \notin X, heap.next[x] \notin X PROVE Ring(ListRemove(heap, x), R, USED)
  <2>1. Joins(ListRemove(heap, x), X, X)
    BY <1>1, <1>2, <1>3, RemoveKeeps
  <2>2. Ends(ListRemove(heap, x), R)
    BY <1>1, <1>2, <1>3, RemoveKeepsEnds
  <2>3. QED
    BY <1>1, <2>1, <2>2 DEF Ring
<1>4. ASSUME NEW before \in Nodes, NEW after \in Nodes,
             x \notin X, before \notin X, after \notin X, x # before
      PROVE  Ring(LinkBetween(heap, x, before, after), R, USED)
  <2>1. Joins(LinkBetween(heap, x, before, after), X, X)
    BY <1>1, <1>2, <1>4, LinkKeeps
  <2>2. Ends(LinkBetween(heap, x, before, after), R)
    BY <1>1, <1>2, <1>4, LinkKeepsEnds
  <2>3. QED
    BY <1>1, <2>1, <2>2 DEF Ring
<1>5. QED
  BY <1>3, <1>4

\* After an eviction.  Either the used list is a ring and the free list strays into
\* it or into itself from its last entry on ...
Open(heap, R, P, last) ==
  /\ heap \in Heap /\ Ring(heap, R, USED) /\ P \subseteq Entries /\ R \cap P = {}
  /\ Joins(heap, (P \cup {FREE}) \ {last}, P) /\ last \in P \cup {FREE}

FreeStrays(heap, R, P, last) == Open(heap, R, P, last) /\ heap.next[last] \in R \cup P

\* ... or the free list ends in USED, and the used one strays into it at c.
UsedStrays(heap, A, B, T, last, c) ==
  /\ heap \in Heap /\ A \subseteq Entries /\ B \subseteq Entries /\ T \subseteq Entries
  /\ A \cap B = {} /\ A \cap T = {} /\ B \cap T = {} /\ c \in T
  /\ Joins(heap, (A \cup {USED}) \ {last}, A) /\ Ends(heap, A)
  /\ last \in A \cup {USED} /\ heap.next[last] = c
  /\ Joins(heap, B \cup {FREE}, B \cup {c}) /\ Ends(heap, B)
  /\ Joins(heap, T, (T \ {c}) \cup {USED}) /\ Ends(heap, T)

\* An iteration over the used list meets the entries W.
Strayed(heap, W) ==
  \/ \E P, last : FreeStrays(heap, W, P, last)
  \/ \E A, B, T, last, c : W = A \cup T /\ UsedStrays(heap, A, B, T, last, c)

LEMMA OpenFacts ==
  ASSUME NEW heap, NEW R, NEW P, NEW last, Open(heap, R, P, last)
  PROVE  /\ heap \in Heap /\ Ring(heap, R, USED) /\ Joins(heap, R \cup {USED}, R \cup {USED})
         /\ Joins(heap, (P \cup {FREE}) \ {last}, P)
         /\ R \subseteq Entries /\ P \subseteq Entries /\ R \cap P = {}
         /\ R \subseteq Nodes /\ P \subseteq Nodes /\ Entries \subseteq Nodes
         /\ FREE \in Nodes /\ USED \in Nodes /\ FREE # USED /\ FREE \notin Entries /\ USED \notin Entries
         /\ last \in P \cup {FREE} /\ last \in Nodes
BY HeadFacts DEF Open, Ring, Heads, Nodes

\* An entry is added to the used list ...
LEMMA OpenGrows ==
  ASSUME NEW heap, NEW R, NEW P, NEW last, Open(heap, R, P, last), NEW x \in Entries, x \notin R \cup P
  PROVE  /\ Open(ListAddLast(heap, x, USED), R \cup {x}, P, last)
         /\ ListAddLast(heap, x, USED).next[last] = heap.next[last]
<1> DEFINE X     == (P \cup {FREE}) \ {last}
           q     == heap.prev[USED]
           later == LinkBetween(heap, x, q, USED)
<1>1. /\ heap \in Heap /\ Ring(heap, R, USED) /\ Joins(heap, X, P)
      /\ R \subseteq Entries /\ P \subseteq Entries /\ R \cap P = {}
      /\ X \in SUBSET Nodes /\ P \in SUBSET Nodes /\ Entries \subseteq Nodes
      /\ FREE \in Nodes /\ USED \in Nodes /\ FREE # USED /\ FREE \notin Entries /\ USED \notin Entries
      /\ last \in P \cup {FREE} /\ last \in Nodes
  BY OpenFacts
<1>2. ListAddLast(heap, x, USED) = later
  BY DEF ListAddLast
<1>3. Ring(later, R \cup {x}, USED) /\ q \in R \cup {USED}
  <2> HIDE DEF later
  <2>1. Ring(ListAddLast(heap, x, USED), R \cup {x}, USED) /\ q \in R \cup {USED}
    BY <1>1, RingGrows
  <2>2. QED
    BY <1>2, <2>1
<1>4. q \notin X /\ q \in Nodes /\ q # last /\ x \notin X /\ x \notin P /\ USED \notin P /\ x \in Nodes /\ x # last
  BY <1>1, <1>3
<1> HIDE DEF q
<1>5. later \in Heap /\ later.next[last] = heap.next[last]
  BY <1>1, <1>4 DEF Heap, LinkBetween
<1>6. Joins(later, X, P)
  <2> HIDE DEF X
  <2>1. QED
    BY <1>1, <1>4, LinkKeeps
<1>7. Open(later, R \cup {x}, P, last)
  BY <1>1, <1>3, <1>4, <1>5, <1>6 DEF Open
<1> HIDE DEF later
<1>8. QED
  BY <1>2, <1>5, <1>7

LEMMA UsedStraysGrows ==
  ASSUME NEW heap, NEW A, NEW B, NEW T, NEW last, NEW c, UsedStrays(heap, A, B, T, last, c),
         NEW x \in Entries, x \notin A \cup B \cup T
  PROVE  UsedStrays(ListAddLast(heap, x, USED), A, B, T \cup {x}, last, c)
<1>0. /\ heap \in Heap /\ A \subseteq Entries /\ B \subseteq Entries /\ T \subseteq Entries
      /\ A \subseteq Nodes /\ B \subseteq Nodes /\ T \subseteq Nodes /\ Entries \subseteq Nodes
      /\ A \cap B = {} /\ A \cap T = {} /\ B \cap T = {} /\ c \in T
      /\ FREE \in Nodes /\ USED \in Nodes /\ FREE # USED /\ FREE \notin Entries /\ USED \notin Entries
      /\ last \in A \cup {USED} /\ last \in Nodes /\ heap.next[last] = c
      /\ Joins(heap, (A \cup {USED}) \ {last}, A) /\ Joins(heap, B \cup {FREE}, B \cup {c})
      /\ Joins(heap, T, (T \ {c}) \cup {USED})
      /\ Ends(heap, A) /\ Ends(heap, B) /\ Ends(heap, T)
  BY HeadFacts DEF UsedStrays, Heads, Nodes
<1> DEFINE Y     == (T \ {c}) \cup {USED}
           X     == (A \cup {USED}) \ {last}
           q     == heap.prev[USED]
           later == LinkBetween(heap, x, q, USED)
<1>1. /\ heap \in Heap /\ A \subseteq Entries /\ B \subseteq Entries /\ T \subseteq Entries
      /\ A \in SUBSET Nodes /\ B \in SUBSET Nodes /\ T \in SUBSET Nodes /\ Entries \subseteq Nodes
      /\ A \cap B = {} /\ A \cap T = {} /\ B \cap T = {} /\ c \in T
      /\ FREE \in Nodes /\ USED \in Nodes /\ FREE # USED /\ FREE \notin Entries /\ USED \notin Entries
      /\ last \in A \cup {USED} /\ last \in Nodes /\ heap.next[last] = c
      /\ Joins(heap, X, A) /\ Joins(heap, B \cup {FREE}, B \cup {c}) /\ Joins(heap, T, Y)
      /\ Ends(heap, A) /\ Ends(heap, B) /\ Ends(heap, T)
  BY <1>0
<1>2. q \in T /\ heap.next[q] = USED
  BY <1>1 DEF Joins
<1> HIDE DEF q
<1>3. x \in Nodes /\ q \in Nodes /\ x # q /\ x # last /\ q # last
  BY <1>1, <1>2
<1>4. later \in Heap /\ later.next[last] = c /\ later.next[x] = USED
  BY <1>1, <1>3 DEF Heap, LinkBetween
<1>5. Joins(later, X, A)
  <2>1. x \notin X /\ q \notin X /\ x \notin A /\ USED \notin A /\ X \in SUBSET Nodes
    BY <1>1, <1>2
  <2> HIDE DEF X
  <2>2. QED
    BY <1>1, <1>3, <2>1, LinkKeeps
<1>6. Joins(later, B \cup {FREE}, B \cup {c})
  <2> DEFINE V == B \cup {FREE}
             W == B \cup {c}
  <2>1. x \notin V /\ q \notin V /\ x \notin W /\ USED \notin W /\ V \in SUBSET Nodes /\ W \in SUBSET Nodes
    BY <1>1, <1>2
  <2>2. Joins(heap, V, W)
    BY <1>1
  <2> HIDE DEF V, W
  <2>3. Joins(later, V, W)
    BY <1>1, <1>3, <2>1, <2>2, LinkKeeps
  <2>4. QED
    BY <2>3 DEF V, W
<1>7. Joins(later, T \cup {x}, ((T \cup {x}) \ {c}) \cup {USED})
  <2>1. Y \in SUBSET Nodes /\ x \notin Y /\ x \notin T
    BY <1>1
  <2>2. Y \cup {x} = ((T \cup {x}) \ {c}) \cup {USED}
    BY <1>1, <2>1
  <2> HIDE DEF Y
  <2>3. Joins(later, T \cup {x}, Y \cup {x})
    BY <1>1, <1>2, <1>3, <2>1, LinkInserts
  <2>4. QED
    BY <2>2, <2>3
<1>8. Ends(later, A) /\ Ends(later, B)
  BY <1>1, <1>3, LinkKeepsEnds
<1>9. Ends(later, T \cup {x})
  <2>1. Ends(later, T)
    BY <1>1, <1>3, LinkKeepsEnds
  <2>2. Ends(later, {x})
    BY <1>1, <1>3, <1>4 DEF Ends
  <2>3. \A n \in {x} : later.next[n] \notin T
    BY <1>1, <1>4
  <2> HIDE DEF later
  <2>4. QED
    BY <2>1, <2>2, <2>3, EndsTogether
<1> HIDE DEF later
<1>10. UsedStrays(later, A, B, T \cup {x}, last, c)
  BY <1>1, <1>4, <1>5, <1>6, <1>7, <1>8, <1>9 DEF UsedStrays
<1>11. QED
  BY <1>10 DEF later, q, ListAddLast

\* ... or in front of the free one.
LEMMA OpenPushed ==
  ASSUME NEW heap, NEW R, NEW P, NEW last, Open(heap, R, P, last), last # FREE,
         NEW x \in Entries, x \notin R \cup P
  PROVE  /\ Open(ListAddFirst(heap, x, FREE), R, P \cup {x}, last)
         /\ ListAddFirst(heap, x, FREE).next[last] = heap.next[last]
<1> DEFINE X     == (P \cup {FREE}) \ {last}
           f     == heap.next[FREE]
           later == LinkBetween(heap, x, FREE, f)
<1>1. /\ heap \in Heap /\ Ring(heap, R, USED) /\ Joins(heap, X, P)
      /\ R \subseteq Entries /\ P \subseteq Entries /\ R \cap P = {}
      /\ X \in SUBSET Nodes /\ P \in SUBSET Nodes /\ Entries \subseteq Nodes
      /\ FREE \in Nodes /\ USED \in Nodes /\ FREE # USED /\ FREE \notin Entries /\ USED \notin Entries
      /\ last \in P \cup {FREE} /\ last \in Nodes
  BY OpenFacts
<1>2. f \in P /\ FREE \in X /\ x \notin X /\ x \notin P /\ x \in Nodes /\ x # FREE /\ x # last
  BY <1>1 DEF Joins
<1>3. later \in Heap /\ later.next[last] = heap.next[last]
  BY <1>1, <1>2 DEF Heap, LinkBetween
<1>4. Joins(later, X \cup {x}, P \cup {x})
  <2> HIDE DEF X
  <2>1. QED
    BY <1>1, <1>2, LinkInserts
<1>5. X \cup {x} = ((P \cup {x}) \cup {FREE}) \ {last}
  BY <1>2
<1>6. Ring(later, R, USED)
  <2>1. x \notin R \cup {USED} /\ FREE \notin R \cup {USED} /\ f \notin R \cup {USED} /\ f \in Nodes
    BY <1>1, <1>2
  <2> HIDE DEF f
  <2>2. QED
    BY <1>1, <1>2, <2>1, RingKept
<1> HIDE DEF later
<1>7. Open(later, R, P \cup {x}, last)
  BY <1>1, <1>2, <1>3, <1>4, <1>5, <1>6 DEF Open
<1>8. QED
  BY <1>3, <1>7 DEF later, f, ListAddFirst

LEMMA UsedStraysPushed ==
  ASSUME NEW heap, NEW A, NEW B, NEW T, NEW last, NEW c, UsedStrays(heap, A, B, T, last, c),
         NEW x \in Entries, x \notin A \cup B \cup T
  PROVE  UsedStrays(ListAddFirst(heap, x, FREE), A, B \cup {x}, T, last, c)
<1>0. /\ heap \in Heap /\ A \subseteq Entries /\ B \subseteq Entries /\ T \subseteq Entries
      /\ A \subseteq Nodes /\ B \subseteq Nodes /\ T \subseteq Nodes /\ Entries \subseteq Nodes
      /\ A \cap B = {} /\ A \cap T = {} /\ B \cap T = {} /\ c \in T
      /\ FREE \in Nodes /\ USED \in Nodes /\ FREE # USED /\ FREE \notin Entries /\ USED \notin Entries
      /\ last \in A \cup {USED} /\ last \in Nodes /\ heap.next[last] = c
      /\ Joins(heap, (A \cup {USED}) \ {last}, A) /\ Joins(heap, B \cup {FREE}, B \cup {c})
      /\ Joins(heap, T, (T \ {c}) \cup {USED})
      /\ Ends(heap, A) /\ Ends(heap, B) /\ Ends(heap, T)
  BY HeadFacts DEF UsedStrays, Heads, Nodes
<1> DEFINE Y     == (T \ {c}) \cup {USED}
           X     == (A \cup {USED}) \ {last}
           V     == B \cup {FREE}
           W     == B \cup {c}
           f     == heap.next[FREE]
           later == LinkBetween(heap, x, FREE, f)
<1>1. /\ heap \in Heap /\ A \subseteq Entries /\ B \subseteq Entries /\ T \subseteq Entries
      /\ A \in SUBSET Nodes /\ B \in SUBSET Nodes /\ T \in SUBSET Nodes /\ Entries \subseteq Nodes
      /\ A \cap B = {} /\ A \cap T = {} /\ B \cap T = {} /\ c \in T
      /\ FREE \in Nodes /\ USED \in Nodes /\ FREE # USED /\ FREE \notin Entries /\ USED \notin Entries
      /\ last \in A \cup {USED} /\ last \in Nodes /\ heap.next[last] = c
      /\ Joins(heap, X, A) /\ Joins(heap, V, W) /\ Joins(heap, T, Y)
      /\ Ends(heap, A) /\ Ends(heap, B) /\ Ends(heap, T)
  BY <1>0
<1>2. f \in W /\ FREE \in V
  BY <1>1 DEF Joins
<1>3. x \in Nodes /\ f \in Nodes /\ x # FREE /\ x # last /\ FREE # last /\ x # f
  BY <1>1, <1>2
<1>4. later \in Heap /\ later.next[last] = c /\ later.next[x] = f /\ later.next[FREE] = x
  BY <1>1, <1>3 DEF Heap, LinkBetween
<1>5. Joins(later, X, A)
  <2>1. x \notin X /\ FREE \notin X /\ x \notin A /\ f \notin A /\ X \in SUBSET Nodes
    BY <1>1, <1>2
  <2> HIDE DEF X, f
  <2>2. QED
    BY <1>1, <1>3, <2>1, LinkKeeps
<1>6. Joins(later, V \cup {x}, W \cup {x})
  <2>1. V \in SUBSET Nodes /\ W \in SUBSET Nodes /\ x \notin V /\ x \notin W
    BY <1>1
  <2> HIDE DEF V, W
  <2>2. QED
    BY <1>1, <1>2, <1>3, <2>1, LinkInserts
<1>7. V \cup {x} = (B \cup {x}) \cup {FREE} /\ W \cup {x} = (B \cup {x}) \cup {c}
  OBVIOUS
<1>8. Joins(later, T, Y)
  <2>1. x \notin T /\ FREE \notin T /\ x \notin Y /\ f \notin Y /\ Y \in SUBSET Nodes
    BY <1>1, <1>2
  <2> HIDE DEF Y, f
  <2>2. QED
    BY <1>1, <1>3, <2>1, LinkKeeps
<1>9. Ends(later, A) /\ Ends(later, T)
  BY <1>1, <1>3, LinkKeepsEnds
<1>10. Ends(later, B \cup {x})
  <2>1. Ends(later, B)
    BY <1>1, <1>3, LinkKeepsEnds
  <2>2. Ends(later, {x})
    BY <1>3, <1>4 DEF Ends
  <2>3. \A n \in B : later.next[n] \notin {x}
    BY <1>1, <1>6, <1>4, <1>3 DEF Joins
  <2> HIDE DEF later
  <2>4. Ends(later, {x} \cup B)
    BY <2>1, <2>2, <2>3, EndsTogether
  <2>5. {x} \cup B = B \cup {x}
    OBVIOUS
  <2>6. QED
    BY <2>4, <2>5
<1> HIDE DEF later
<1>11. UsedStrays(later, A, B \cup {x}, T, last, c)
  BY <1>1, <1>4, <1>5, <1>6, <1>7, <1>8, <1>9, <1>10 DEF UsedStrays
<1>12. QED
  BY <1>11 DEF later, f, ListAddFirst

\* An entry leaves its list, and stays the node the stray pointer points to if it is that one.
LEMMA OpenLoses ==
  ASSUME NEW heap, NEW R, NEW P, NEW last, Open(heap, R, P, last), NEW x \in R \cup P, x # last
  PROVE  /\ Open(ListRemove(heap, x), R \ {x}, P \ {x}, last)
         /\ ListRemove(heap, x).next[last] = heap.next[last]
<1> DEFINE X     == (P \cup {FREE}) \ {last}
           later == ListRemove(heap, x)
<1>1. /\ heap \in Heap /\ Ring(heap, R, USED) /\ Joins(heap, X, P)
      /\ Joins(heap, R \cup {USED}, R \cup {USED})
      /\ R \subseteq Entries /\ P \subseteq Entries /\ R \cap P = {}
      /\ X \in SUBSET Nodes /\ P \in SUBSET Nodes /\ Entries \subseteq Nodes
      /\ FREE \in Nodes /\ USED \in Nodes /\ FREE # USED /\ FREE \notin Entries /\ USED \notin Entries
      /\ last \in P \cup {FREE} /\ last \in Nodes
  BY OpenFacts
<1>2. x \in Nodes /\ x \in Entries /\ heap.prev[x] \in Nodes /\ heap.next[x] \in Nodes
  BY <1>1 DEF Heap
<1>3. CASE x \in R
  <2>1. heap.prev[x] \in R \cup {USED} /\ heap.next[x] \in R \cup {USED}
    BY <1>1, <1>3 DEF Joins
  <2>2. heap.prev[x] \notin X /\ heap.next[x] \notin P /\ heap.prev[x] # last
    BY <1>1, <2>1
  <2>3. Ring(later, R \ {x}, USED)
    BY <1>1, <1>3, RingShrinks
  <2>4. Joins(later, X, P)
    <3> HIDE DEF X, later
    <3>1. Joins(ListRemove(heap, x), X, P)
      BY <1>1, <1>2, <2>2, RemoveKeeps
    <3>2. QED
      BY <3>1 DEF later
  <2>5. P \ {x} = P /\ R \ {x} \subseteq Entries /\ (R \ {x}) \cap P = {}
    BY <1>1, <1>3
  <2>6. later \in Heap /\ later.next[last] = heap.next[last]
    BY <1>1, <1>2, <2>2 DEF Heap, ListRemove
  <2> HIDE DEF later
  <2>7. Open(later, R \ {x}, P \ {x}, last)
    BY <1>1, <2>3, <2>4, <2>5, <2>6 DEF Open
  <2>8. QED
    BY <2>6, <2>7 DEF later
<1>4. CASE x \in P
  <2>1. x \in X /\ heap.prev[x] \in X /\ heap.next[x] \in P
    BY <1>1, <1>4 DEF Joins
  <2>2. heap.prev[x] \notin R \cup {USED} /\ heap.next[x] \notin R \cup {USED} /\ heap.prev[x] # last
    BY <1>1, <2>1
  <2>3. Ring(later, R, USED)
    <3> HIDE DEF later
    <3>1. Ring(ListRemove(heap, x), R, USED)
      BY <1>1, <1>2, <2>2, RingKept
    <3>2. QED
      BY <3>1 DEF later
  <2>4. Joins(later, X \ {x}, P \ {x})
    <3>1. x \in X \cap P
      BY <1>4, <2>1
    <3> HIDE DEF X
    <3>2. QED
      BY <1>1, <3>1, RemoveJoins
  <2>5. R \ {x} = R /\ X \ {x} = ((P \ {x}) \cup {FREE}) \ {last} /\ last \in (P \ {x}) \cup {FREE}
    BY <1>1, <1>4
  <2>6. later \in Heap /\ later.next[last] = heap.next[last]
    BY <1>1, <1>2, <2>2 DEF Heap, ListRemove
  <2> HIDE DEF later, X
  <2>7. Open(later, R \ {x}, P \ {x}, last)
    BY <1>1, <2>3, <2>4, <2>5, <2>6 DEF Open
  <2>8. QED
    BY <2>6, <2>7 DEF later
<1>5. QED
  BY <1>3, <1>4

LEMMA UsedStraysLoses ==
  ASSUME NEW heap, NEW A, NEW B, NEW T, NEW last, NEW c, UsedStrays(heap, A, B, T, last, c),
         NEW x \in A \cup B \cup T, x # last, x # c
  PROVE  UsedStrays(ListRemove(heap, x), A \ {x}, B \ {x}, T \ {x}, last, c)
<1> DEFINE Y     == (T \ {c}) \cup {USED}
           X     == (A \cup {USED}) \ {last}
           V     == B \cup {FREE}
           W     == B \cup {c}
           later == ListRemove(heap, x)
<1>1. /\ heap \in Heap /\ A \subseteq Entries /\ B \subseteq Entries /\ T \subseteq Entries
      /\ A \in SUBSET Nodes /\ B \in SUBSET Nodes /\ T \in SUBSET Nodes /\ Entries \subseteq Nodes
      /\ A \cap B = {} /\ A \cap T = {} /\ B \cap T = {} /\ c \in T
      /\ FREE \in Nodes /\ USED \in Nodes /\ FREE # USED /\ FREE \notin Entries /\ USED \notin Entries
      /\ last \in A \cup {USED} /\ last \in Nodes /\ heap.next[last] = c
      /\ Joins(heap, X, A) /\ Joins(heap, V, W) /\ Joins(heap, T, Y)
      /\ Ends(heap, A) /\ Ends(heap, B) /\ Ends(heap, T)
  BY HeadFacts DEF UsedStrays, Heads, Nodes
<1>2. x \in Nodes /\ x \in Entries /\ heap.prev[x] \in Nodes /\ heap.next[x] \in Nodes
  BY <1>1 DEF Heap
<1>3. X \in SUBSET Nodes /\ Y \in SUBSET Nodes /\ V \in SUBSET Nodes /\ W \in SUBSET Nodes
  BY <1>1
<1>4. /\ x \in A => x \in X /\ heap.prev[x] \in X /\ heap.next[x] \in A
      /\ x \in B => x \in V /\ x \in W /\ heap.prev[x] \in V /\ heap.next[x] \in W
      /\ x \in T => x \in Y /\ heap.prev[x] \in T /\ heap.next[x] \in Y
  BY <1>1, <1>2 DEF Joins
<1>5. /\ x \notin A => heap.prev[x] \notin X /\ heap.next[x] \notin A /\ heap.prev[x] \notin A
                       /\ X \ {x} = X /\ A \ {x} = A
      /\ x \notin B => heap.prev[x] \notin V /\ heap.next[x] \notin W /\ heap.prev[x] \notin B
                       /\ V \ {x} = V /\ W \ {x} = W /\ B \ {x} = B
      /\ x \notin T => heap.prev[x] \notin T /\ heap.next[x] \notin Y
                       /\ Y \ {x} = Y /\ T \ {x} = T
      /\ heap.prev[x] # last
  BY <1>1, <1>4
<1>6. /\ X \ {x} = ((A \ {x}) \cup {USED}) \ {last} /\ last \in (A \ {x}) \cup {USED}
      /\ V \ {x} = (B \ {x}) \cup {FREE} /\ W \ {x} = (B \ {x}) \cup {c}
      /\ Y \ {x} = ((T \ {x}) \ {c}) \cup {USED} /\ c \in T \ {x}
  BY <1>1, <1>2
<1>7. heap.next[heap.prev[x]] = x
  BY <1>1, <1>4 DEF Joins
<1>8. later \in Heap /\ later.next[last] = c
  BY <1>1, <1>2, <1>5 DEF Heap, ListRemove
<1> HIDE DEF X, Y, V, W
<1>9. Joins(ListRemove(heap, x), X \ {x}, A \ {x}) /\ Ends(ListRemove(heap, x), A \ {x})
  <2>1. CASE x \in A
    <3>1. x \in X \cap A
      BY <1>4, <2>1
    <3>2. QED
      BY <1>1, <1>3, <1>7, <2>1, <3>1, RemoveJoins, RemoveEnds
  <2>2. CASE x \notin A
    <3>1. Joins(ListRemove(heap, x), X, A)
      BY <1>1, <1>2, <1>3, <1>5, <2>2, RemoveKeeps
    <3>2. Ends(ListRemove(heap, x), A)
      BY <1>1, <1>2, <1>5, <2>2, RemoveKeepsEnds
    <3>3. QED
      BY <1>5, <2>2, <3>1, <3>2
  <2>3. QED
    BY <2>1, <2>2
<1>10. Joins(ListRemove(heap, x), V \ {x}, W \ {x}) /\ Ends(ListRemove(heap, x), B \ {x})
  <2>1. CASE x \in B
    <3>1. x \in V \cap W
      BY <1>4, <2>1
    <3>2. QED
      BY <1>1, <1>3, <1>7, <2>1, <3>1, RemoveJoins, RemoveEnds
  <2>2. CASE x \notin B
    <3>1. Joins(ListRemove(heap, x), V, W)
      BY <1>1, <1>2, <1>3, <1>5, <2>2, RemoveKeeps
    <3>2. Ends(ListRemove(heap, x), B)
      BY <1>1, <1>2, <1>5, <2>2, RemoveKeepsEnds
    <3>3. QED
      BY <1>5, <2>2, <3>1, <3>2
  <2>3. QED
    BY <2>1, <2>2
<1>11. Joins(ListRemove(heap, x), T \ {x}, Y \ {x}) /\ Ends(ListRemove(heap, x), T \ {x})
  <2>1. CASE x \in T
    <3>1. x \in T \cap Y
      BY <1>4, <2>1
    <3>2. QED
      BY <1>1, <1>3, <1>7, <2>1, <3>1, RemoveJoins, RemoveEnds
  <2>2. CASE x \notin T
    <3>1. Joins(ListRemove(heap, x), T, Y)
      BY <1>1, <1>2, <1>3, <1>5, <2>2, RemoveKeeps
    <3>2. Ends(ListRemove(heap, x), T)
      BY <1>1, <1>2, <1>5, <2>2, RemoveKeepsEnds
    <3>3. QED
      BY <1>5, <2>2, <3>1, <3>2
  <2>3. QED
    BY <2>1, <2>2
<1>12. /\ A \ {x} \subseteq Entries /\ B \ {x} \subseteq Entries /\ T \ {x} \subseteq Entries
       /\ (A \ {x}) \cap (B \ {x}) = {} /\ (A \ {x}) \cap (T \ {x}) = {} /\ (B \ {x}) \cap (T \ {x}) = {}
  BY <1>1
<1>13. QED
  BY <1>6, <1>8, <1>9, <1>10, <1>11, <1>12 DEF UsedStrays

\* An entry that is on neither list is put in front of the free one.
LEMMA StrayedPushed ==
  ASSUME NEW heap, NEW R, NEW P, NEW last, Open(heap, R, P, last), NEW x \in Entries, x \notin R \cup P,
         heap.next[last] \in R \cup P \cup {x}
  PROVE  \E W : R \subseteq W /\ Strayed(ListAddFirst(heap, x, FREE), W)
<1> DEFINE f     == heap.next[FREE]
           later == LinkBetween(heap, x, FREE, f)
<1>1. /\ heap \in Heap /\ Ring(heap, R, USED) /\ Joins(heap, (P \cup {FREE}) \ {last}, P)
      /\ Joins(heap, R \cup {USED}, R \cup {USED})
      /\ R \subseteq Entries /\ P \subseteq Entries /\ R \cap P = {}
      /\ R \in SUBSET Nodes /\ P \in SUBSET Nodes /\ Entries \subseteq Nodes
      /\ FREE \in Nodes /\ USED \in Nodes /\ FREE # USED /\ FREE \notin Entries /\ USED \notin Entries
      /\ last \in P \cup {FREE} /\ last \in Nodes
  BY OpenFacts
<1>2. later = ListAddFirst(heap, x, FREE)
  BY DEF ListAddFirst
<1>3. CASE last # FREE
  <2> HIDE DEF later, f
  <2>1. Open(ListAddFirst(heap, x, FREE), R, P \cup {x}, last)
        /\ ListAddFirst(heap, x, FREE).next[last] = heap.next[last]
    BY <1>3, OpenPushed
  <2>2. FreeStrays(later, R, P \cup {x}, last)
    BY <1>2, <2>1 DEF FreeStrays
  <2>3. QED
    BY <1>2, <2>2 DEF Strayed
<1>4. CASE last = FREE
  <2>1. Joins(heap, P, P) /\ f \in R \cup P \cup {x}
    <3>1. (P \cup {FREE}) \ {FREE} = P
      BY <1>1
    <3>2. QED
      BY <1>1, <1>4, <3>1
  <2>2. x \in Nodes /\ f \in Nodes /\ x # FREE /\ x # USED /\ f # FREE /\ f # USED
    BY <1>1, <2>1
  <2>3. later \in Heap /\ later.next[FREE] = x /\ later.next[x] = f
        /\ \A n \in Nodes \ {x, FREE} : later.next[n] = heap.next[n]
    BY <1>1, <2>2 DEF Heap, LinkBetween
  <2>4. Joins(later, {x}, {f}) /\ (x # f => Joins(later, {FREE}, {x}))
    <3> HIDE DEF f
    <3>1. QED
      BY <1>1, <2>2, LinkJoins
  <2>5. f \notin R => Ring(later, R, USED)
    <3>1. x \notin R \cup {USED} /\ FREE \notin R \cup {USED}
      BY <1>1
    <3> HIDE DEF f
    <3>2. QED
      BY <1>1, <2>2, <3>1, RingKept
  <2>6. CASE f = x
    <3>1. Joins(later, P, P)
      <4>1. x \notin P /\ FREE \notin P /\ f \notin P
        BY <1>1, <2>6
      <4> HIDE DEF f
      <4>2. QED
        BY <1>1, <2>1, <2>2, <4>1, LinkKeeps
    <3> HIDE DEF later, f
    <3>2. Joins(later, P \cup {x}, P \cup {f})
      BY <2>4, <3>1, JoinsTogether
    <3>3. ((P \cup {x}) \cup {FREE}) \ {FREE} = P \cup {x}
      BY <1>1, <2>2
    <3>4. FreeStrays(later, R, P \cup {x}, FREE)
      BY <1>1, <2>3, <2>5, <2>6, <3>2, <3>3 DEF FreeStrays, Open
    <3>5. QED
      BY <1>2, <3>4 DEF Strayed
  <2>7. CASE f \in P
    <3> DEFINE g == heap.prev[f]
    <3>1. g \in P /\ heap.next[g] = f
      BY <2>1, <2>7 DEF Joins
    <3> DEFINE P1 == P \ {g}
    <3>2. Joins(heap, P1, P \ {f})
      BY <2>1, <3>1, JoinsPair
    <3>3. /\ x \notin P1 /\ FREE \notin P1 /\ x \notin P \ {f} /\ f \notin P \ {f} /\ x # f
          /\ P1 \in SUBSET Nodes /\ P \ {f} \in SUBSET Nodes
      BY <1>1, <2>7
    <3>4. later.next[g] = f
      BY <1>1, <2>3, <3>1
    <3>5. (P1 \cup {FREE}) \cup {x} = ((P \cup {x}) \cup {FREE}) \ {g}
      BY <1>1, <3>1
    <3> HIDE DEF P1, f, g
    <3>6. Joins(later, P1, P \ {f})
      BY <1>1, <2>2, <3>2, <3>3, LinkKeeps
    <3> HIDE DEF later
    <3>7. Joins(later, P1 \cup {FREE}, (P \ {f}) \cup {x})
      BY <2>4, <3>3, <3>6, JoinsTogether
    <3>8. Joins(later, (P1 \cup {FREE}) \cup {x}, ((P \ {f}) \cup {x}) \cup {f})
      BY <2>4, <3>7, JoinsTogether
    <3>9. ((P \ {f}) \cup {x}) \cup {f} = P \cup {x}
      BY <2>7
    <3>10. f \notin R
      BY <1>1, <2>7
    <3>11. FreeStrays(later, R, P \cup {x}, g)
      BY <1>1, <2>3, <2>5, <2>7, <3>1, <3>4, <3>5, <3>8, <3>9, <3>10 DEF FreeStrays, Open
    <3>12. QED
      BY <1>2, <3>11 DEF Strayed
  <2>8. CASE f \in R
    <3> DEFINE last2 == heap.prev[f]
    <3>1. PICK T \in SUBSET R : SplitAt(heap, R, f, T)
      <4> HIDE DEF f
      <4>1. QED
        BY <1>1, <2>8, RingSplits
    <3> DEFINE A == R \ T
               X == (A \cup {USED}) \ {last2}
               Y == (T \ {f}) \cup {USED}
    <3>2. /\ x \notin X /\ FREE \notin X /\ x \notin A /\ f \notin A /\ x # f
          /\ x \notin T /\ FREE \notin T /\ x \notin Y /\ f \notin Y
          /\ X \in SUBSET Nodes /\ A \in SUBSET Nodes /\ T \in SUBSET Nodes /\ Y \in SUBSET Nodes
      BY <1>1, <2>2, <2>8, <3>1 DEF SplitAt
    <3>3. Joins(heap, X, A) /\ Joins(heap, T, Y) /\ Ends(heap, T) /\ Ends(heap, A)
      BY <3>1 DEF SplitAt
    <3>4. last2 # x /\ last2 # FREE /\ last2 \in Nodes /\ last2 \in A \cup {USED} /\ A \cup T = R
          /\ heap.next[last2] = f
      BY <1>1, <2>2, <3>1 DEF SplitAt
    <3>5. later.next[last2] = f
      BY <2>3, <3>4
    <3> HIDE DEF X, Y, f, last2, A
    <3>6. Joins(later, X, A) /\ Joins(later, T, Y)
      BY <1>1, <2>2, <3>2, <3>3, LinkKeeps
    <3>7. Ends(later, A) /\ Ends(later, T)
      BY <1>1, <2>2, <3>2, <3>3, LinkKeepsEnds
    <3> HIDE DEF later
    <3>8. Joins(later, {x} \cup {FREE}, {f} \cup {x})
      BY <2>4, <3>2, JoinsTogether
    <3>9. Ends(later, {x})
      BY <2>3, <3>2 DEF Ends
    <3>10. {f} \cup {x} = {x} \cup {f} /\ {x} \subseteq Entries /\ A \subseteq Entries /\ T \subseteq Entries
           /\ A \cap {x} = {} /\ {x} \cap T = {} /\ f \in T
      BY <1>1, <3>1, <3>2 DEF A, SplitAt
    <3>11. A \cap T = {}
      BY DEF A
    <3>12. UsedStrays(later, A, {x}, T, last2, f)
      BY <2>3, <3>3, <3>4, <3>5, <3>6, <3>7, <3>8, <3>9, <3>10, <3>11 DEF UsedStrays, X, Y
    <3>13. Strayed(later, R)
      BY <3>4, <3>12 DEF Strayed
    <3>14. QED
      BY <1>2, <3>13
  <2>9. QED
    BY <2>1, <2>6, <2>7, <2>8
<1>5. QED
  BY <1>3, <1>4

\* free_entry.
LEMMA FreeStraysFrees ==
  ASSUME NEW heap, NEW R, NEW P, NEW last, FreeStrays(heap, R, P, last), NEW x \in R
  PROVE  \E W : R \ {x} \subseteq W /\ Strayed(ListAddFirst(ListRemove(heap, x), x, FREE), W)
<1> DEFINE between == ListRemove(heap, x)
           R1      == R \ {x}
<1>1. /\ Open(heap, R, P, last) /\ heap.next[last] \in R \cup P
      /\ R \subseteq Entries /\ P \subseteq Entries /\ R \cap P = {} /\ last \in P \cup {FREE}
      /\ FREE \notin Entries
  BY HeadFacts DEF FreeStrays, Open, Ring, Heads
<1>2. x # last /\ P \ {x} = P /\ x \in R \cup P
  BY <1>1
<1>3. Open(between, R1, P, last) /\ between.next[last] = heap.next[last]
  <2>1. /\ Open(ListRemove(heap, x), R \ {x}, P \ {x}, last)
        /\ ListRemove(heap, x).next[last] = heap.next[last]
    BY <1>1, <1>2, OpenLoses
  <2>2. QED
    BY <1>2, <2>1
<1>4. between.next[last] \in R1 \cup P \cup {x} /\ x \notin R1 \cup P /\ x \in Entries
  BY <1>1, <1>3
<1> HIDE DEF R1, between
<1>5. \E W : R1 \subseteq W /\ Strayed(ListAddFirst(between, x, FREE), W)
  BY <1>3, <1>4, StrayedPushed
<1>6. QED
  BY <1>5 DEF R1, between

LEMMA UsedStraysFrees ==
  ASSUME NEW heap, NEW A, NEW B, NEW T, NEW last, NEW c, UsedStrays(heap, A, B, T, last, c),
         NEW x \in A \cup T
  PROVE  \E W : (A \cup T) \ {x} \subseteq W /\ Strayed(ListAddFirst(ListRemove(heap, x), x, FREE), W)
<1> DEFINE Y       == (T \ {c}) \cup {USED}
           X       == (A \cup {USED}) \ {last}
           V       == B \cup {FREE}
           U       == B \cup {c}
           p       == heap.prev[x]
           between == ListRemove(heap, x)
           later   == ListAddFirst(between, x, FREE)
<1>1. /\ heap \in Heap /\ A \subseteq Entries /\ B \subseteq Entries /\ T \subseteq Entries
      /\ A \in SUBSET Nodes /\ B \in SUBSET Nodes /\ T \in SUBSET Nodes /\ Entries \subseteq Nodes
      /\ A \cap B = {} /\ A \cap T = {} /\ B \cap T = {} /\ c \in T
      /\ FREE \in Nodes /\ USED \in Nodes /\ FREE # USED /\ FREE \notin Entries /\ USED \notin Entries
      /\ last \in A \cup {USED} /\ last \in Nodes /\ heap.next[last] = c
      /\ Joins(heap, X, A) /\ Joins(heap, V, U) /\ Joins(heap, T, Y)
      /\ Ends(heap, A) /\ Ends(heap, B) /\ Ends(heap, T)
  BY HeadFacts DEF UsedStrays, Heads, Nodes
<1>2. x \in Nodes /\ x \in Entries /\ p \in Nodes /\ heap.next[x] \in Nodes
  BY <1>1 DEF Heap
<1>3. X \in SUBSET Nodes /\ Y \in SUBSET Nodes /\ V \in SUBSET Nodes /\ U \in SUBSET Nodes
  BY <1>1
<1>4. between \in Heap /\ between.next[p] = heap.next[x]
      /\ \A n \in Nodes : n # p => between.next[n] = heap.next[n]
  BY <1>1, <1>2 DEF Heap, ListRemove
<1>5. CASE x # last /\ x # c
  <2> HIDE DEF between, later
  <2>1. x \in A \cup B \cup T /\ x \notin (A \ {x}) \cup (B \ {x}) \cup (T \ {x})
    BY <1>1
  <2>2. UsedStrays(ListRemove(heap, x), A \ {x}, B \ {x}, T \ {x}, last, c)
    BY <1>5, <2>1, UsedStraysLoses
  <2>3. UsedStrays(between, A \ {x}, B \ {x}, T \ {x}, last, c)
    BY <2>2 DEF between
  <2>4. UsedStrays(ListAddFirst(between, x, FREE), A \ {x}, (B \ {x}) \cup {x}, T \ {x}, last, c)
    BY <1>2, <2>1, <2>3, UsedStraysPushed
  <2>5. (A \cup T) \ {x} = (A \ {x}) \cup (T \ {x})
    OBVIOUS
  <2>6. Strayed(ListAddFirst(between, x, FREE), (A \cup T) \ {x})
    BY <2>4, <2>5 DEF Strayed
  <2>7. QED
    BY <2>6 DEF between
<1>6. CASE x = last /\ x # c
  \* What was behind it is now behind its predecessor: the used list is a ring again.
  <2> DEFINE A1 == A \ {x}
             b  == heap.prev[c]
  <2>1. x \in A /\ x \notin T /\ x \notin B
    BY <1>1, <1>6
  <2>2. p \in X /\ heap.next[p] = x /\ heap.next[x] = c /\ b \in V /\ heap.next[b] = c /\ b \in Nodes
    BY <1>1, <1>6, <2>1 DEF Joins
  <2>3. Joins(heap, X \ {p}, A1)
    BY <1>1, <2>2, JoinsPair
  <2>4. Joins(heap, V \ {b}, B)
    <3>1. Joins(heap, V \ {b}, U \ {c})
      BY <1>1, <2>2, JoinsPair
    <3>2. U \ {c} = B
      BY <1>1
    <3>3. QED
      BY <3>1, <3>2
  <2>5. /\ p \notin X \ {p} /\ heap.next[x] \notin A1 /\ p \notin V \ {b} /\ heap.next[x] \notin B
        /\ p \notin T /\ heap.next[x] \notin Y /\ p \in (A1 \cup {USED}) /\ b # p
        /\ X \ {p} \in SUBSET Nodes /\ A1 \in SUBSET Nodes /\ V \ {b} \in SUBSET Nodes
    BY <1>1, <1>3, <1>6, <2>2
  <2>6. (X \ {p}) \cup {p} = A1 \cup {USED} /\ A1 \cup {c} \cup Y = A1 \cup T \cup {USED}
        /\ (A1 \cup {USED}) \cup T = A1 \cup T \cup {USED}
    BY <1>1, <1>6, <2>2
  <2>7. Joins(between, {p}, {c})
    BY <1>1, <1>2, <2>2 DEF Joins, Heap, ListRemove
  <2> HIDE DEF X, Y, V, U, p, A1, b
  <2>8. /\ Joins(ListRemove(heap, x), X \ {p}, A1) /\ Joins(ListRemove(heap, x), V \ {b}, B)
        /\ Joins(ListRemove(heap, x), T, Y)
    <3>1. heap.prev[x] = p
      BY DEF p
    <3>2. QED
      BY <1>1, <1>2, <1>3, <2>3, <2>4, <2>5, <3>1, RemoveKeeps
  <2>9. Ends(ListRemove(heap, x), A1) /\ Ends(ListRemove(heap, x), T)
    <3>1. heap.next[heap.prev[x]] = x /\ heap.prev[x] \notin T
      BY <2>2, <2>5 DEF p
    <3>2. Ends(ListRemove(heap, x), A \ {x})
      BY <1>1, <2>1, <3>1, RemoveEnds
    <3>3. Ends(ListRemove(heap, x), T)
      BY <1>1, <1>2, <3>1, RemoveKeepsEnds
    <3>4. QED
      BY <3>2, <3>3 DEF A1
  <2>10. between = ListRemove(heap, x)
    OBVIOUS
  <2> HIDE DEF between, later
  <2>11. Joins(between, (X \ {p}) \cup {p}, A1 \cup {c})
    BY <2>7, <2>8, <2>10, JoinsTogether
  <2>12. Joins(between, A1 \cup {USED}, A1 \cup {c})
    BY <2>6, <2>11
  <2>13. Joins(between, (A1 \cup {USED}) \cup T, A1 \cup {c} \cup Y)
    BY <2>8, <2>10, <2>12, JoinsTogether
  <2>14. Joins(between, A1 \cup T \cup {USED}, A1 \cup T \cup {USED})
    BY <2>6, <2>13
  <2>15. Ends(between, A1 \cup T)
    <3>1. \A n \in T : between.next[n] \notin A1
      BY <1>1, <2>8, <2>10 DEF Joins, Y, A1
    <3>2. QED
      BY <2>9, <2>10, <3>1, EndsTogether
  <2> DEFINE R == A1 \cup T
  <2>16. R \subseteq Entries /\ R \cap B = {} /\ x \notin R \cup B
    BY <1>1, <2>1 DEF A1
  <2>17. Ring(between, R, USED)
    BY <2>14, <2>15, <2>16 DEF Ring
  <2>18. Joins(between, (B \cup {FREE}) \ {b}, B) /\ b \in B \cup {FREE}
    BY <2>2, <2>8, <2>10 DEF V
  <2>19. between.next[b] \in R \cup B \cup {x}
    BY <1>1, <1>4, <2>2, <2>5
  <2>20. Open(between, R, B, b)
    BY <1>1, <1>4, <2>16, <2>17, <2>18 DEF Open
  <2>21. R = (A \cup T) \ {x}
    BY <2>1 DEF A1
  <2> HIDE DEF R
  <2>22. \E W : R \subseteq W /\ Strayed(ListAddFirst(between, x, FREE), W)
    BY <1>2, <2>16, <2>19, <2>20, StrayedPushed
  <2>23. QED
    BY <2>10, <2>21, <2>22
<1>7. CASE x = c
  \* It becomes the first free entry: the used list strays to the front of the free one.
  <2> DEFINE T1 == T \ {c}
             C  == B \cup T
             C1 == C \ {c}
             Vs == C \cup {FREE}
             Us == C \cup {USED}
             f  == between.next[FREE]
  <2>1. p \in V /\ heap.next[p] = c /\ heap.next[c] \in Y /\ c # FREE /\ c # USED
    BY <1>1, <1>7 DEF Joins
  <2>2. Joins(heap, Vs, Us)
    <3>1. Joins(heap, V \cup T, U \cup Y)
      BY <1>1, JoinsTogether
    <3>2. V \cup T = Vs /\ U \cup Y = Us
      BY <1>1
    <3>3. QED
      BY <3>1, <3>2
  <2>3. Joins(between, Vs \ {c}, Us \ {c})
    <3>1. c \in Vs \cap Us /\ Vs \in SUBSET Nodes /\ Us \in SUBSET Nodes
      BY <1>1
    <3>2. c \in Vs /\ c \in Us
      BY <3>1
    <3> HIDE DEF Vs, Us, between
    <3>3. Joins(ListRemove(heap, c), Vs \ {c}, Us \ {c})
      BY <1>1, <2>2, <3>1, RemoveJoins
    <3>4. QED
      BY <1>7, <3>3 DEF between
  <2>4. f \in Us \ {c} /\ f \in Nodes /\ FREE \in Vs \ {c}
    <3>1. FREE \in Vs \ {c}
      BY <2>1
    <3>2. QED
      BY <1>1, <2>3, <3>1 DEF Joins
  <2>5. Ends(between, C1)
    <3>1. Ends(heap, C)
      <4>1. \A n \in T : heap.next[n] \notin B
        BY <1>1 DEF Joins
      <4>2. QED
        BY <1>1, <4>1, EndsTogether
    <3>2. C \in SUBSET Nodes /\ c \in C /\ heap.next[heap.prev[c]] = c
      BY <1>1, <1>7, <2>1
    <3> HIDE DEF C, between
    <3>3. Ends(ListRemove(heap, c), C \ {c})
      BY <1>1, <3>1, <3>2, RemoveEnds
    <3>4. QED
      BY <1>7, <3>3 DEF between
  <2>6. Joins(between, X, A) /\ Ends(between, A) /\ between.next[last] = c
    <3>1. heap.prev[c] \notin X /\ heap.next[c] \notin A /\ heap.prev[c] \notin A /\ last # p
      BY <1>1, <1>7, <2>1
    <3>2. between.next[last] = c
      BY <1>1, <1>4, <3>1
    <3> HIDE DEF X, between
    <3>3. Joins(ListRemove(heap, c), X, A) /\ Ends(ListRemove(heap, c), A)
      BY <1>1, <1>2, <1>3, <1>7, <3>1, RemoveKeeps, RemoveKeepsEnds
    <3>4. QED
      BY <1>7, <3>2, <3>3 DEF between
  <2> DEFINE linked == LinkBetween(between, c, FREE, f)
  <2>7. later = linked
    BY <1>7 DEF ListAddFirst
  <2>8. linked \in Heap /\ linked.next[FREE] = c /\ linked.next[c] = f
        /\ \A n \in Nodes \ {c, FREE} : linked.next[n] = between.next[n]
    BY <1>1, <1>4, <2>1, <2>4 DEF Heap, LinkBetween
  <2>9. Joins(linked, Vs, Us)
    <3>1. (Vs \ {c}) \cup {c} = Vs /\ (Us \ {c}) \cup {c} = Us
      BY <1>1
    <3>2. Vs \ {c} \in SUBSET Nodes /\ Us \ {c} \in SUBSET Nodes /\ c \notin Vs \ {c} /\ c \notin Us \ {c} /\ c \in Nodes
      BY <1>1
    <3> DEFINE V1 == Vs \ {c}
               U1 == Us \ {c}
    <3>3. V1 \in SUBSET Nodes /\ U1 \in SUBSET Nodes /\ c \notin V1 /\ c \notin U1 /\ FREE \in V1
          /\ Joins(between, V1, U1)
      BY <2>3, <2>4, <3>2
    <3> HIDE DEF V1, U1, Vs, Us, between
    <3>4. Joins(linked, V1 \cup {c}, U1 \cup {c})
      BY <1>4, <3>2, <3>3, LinkInserts
    <3>5. QED
      BY <3>1, <3>4 DEF V1, U1
  <2>10. Joins(linked, {FREE}, {c}) /\ Joins(linked, C, (C \ {c}) \cup {USED})
    <3>1. FREE \in Vs /\ Vs \ {FREE} = C /\ Us \ {c} = (C \ {c}) \cup {USED}
      BY <1>1, <2>1
    <3> HIDE DEF Vs, Us, C, linked
    <3>2. Joins(linked, {FREE}, {linked.next[FREE]}) /\ Joins(linked, Vs \ {FREE}, Us \ {linked.next[FREE]})
      BY <2>9, <3>1, JoinsPair
    <3>3. QED
      BY <2>8, <3>1, <3>2
  <2>11. Ends(linked, C)
    <3>1. Ends(linked, C1)
      <4>1. C1 \in SUBSET Nodes /\ c \notin C1
        BY <1>1
      <4> HIDE DEF C1, f, between
      <4>2. QED
        BY <1>1, <1>4, <2>1, <2>4, <2>5, <4>1, LinkKeepsEnds
    <3>2. Ends(linked, {c})
      BY <2>4, <2>8 DEF Ends
    <3>3. \A n \in C1 : linked.next[n] \notin {c}
      <4>1. FREE \notin C1 /\ C1 \subseteq C /\ FREE \in {FREE}
        BY <1>1
      <4>2. \A n \in C : linked.prev[linked.next[n]] = n
        BY <2>10 DEF Joins
      <4>3. linked.prev[c] = FREE
        BY <2>8, <2>10 DEF Joins
      <4> HIDE DEF linked, C1, C
      <4>4. QED
        BY <4>1, <4>2, <4>3
    <3>4. C = {c} \cup C1
      BY <1>1
    <3> HIDE DEF linked, C, C1
    <3>5. Ends(linked, {c} \cup C1)
      BY <3>1, <3>2, <3>3, EndsTogether
    <3>6. QED
      BY <3>4, <3>5
  <2>12. Joins(linked, X, A) /\ Ends(linked, A) /\ linked.next[last] = c
    <3>1. /\ c \notin X /\ FREE \notin X /\ c \notin A /\ f \notin A /\ last # FREE /\ last # c
          /\ c \in Nodes /\ FREE # c
      BY <1>1, <2>1, <2>4
    <3>2. linked.next[last] = c
      BY <1>1, <2>6, <2>8, <3>1
    <3> HIDE DEF X, between, f
    <3>3. Joins(linked, X, A) /\ Ends(linked, A)
      BY <1>1, <1>3, <1>4, <2>4, <2>6, <3>1, LinkKeeps, LinkKeepsEnds
    <3>4. QED
      BY <3>2, <3>3
  <2>13. UsedStrays(linked, A, {}, C, last, c)
    <3>1. C \subseteq Entries /\ A \cap C = {} /\ c \in C /\ {} \cup {FREE} = {FREE} /\ {} \cup {c} = {c}
          /\ A \cap {} = {} /\ {} \cap C = {} /\ {} \subseteq Entries
      BY <1>1
    <3>2. Ends(linked, {})
      BY DEF Ends
    <3> HIDE DEF linked, C
    <3>3. QED
      BY <1>1, <2>8, <2>10, <2>11, <2>12, <3>1, <3>2 DEF UsedStrays
  <2>14. Strayed(linked, A \cup C)
    <3> HIDE DEF linked, C
    <3>1. QED
      BY <2>13 DEF Strayed
  <2>15. (A \cup T) \ {x} \subseteq A \cup C
    OBVIOUS
  <2> HIDE DEF linked, C
  <2>16. \E W : (A \cup T) \ {x} \subseteq W /\ Strayed(later, W)
    BY <2>7, <2>14, <2>15
  <2>17. QED
    BY <2>16 DEF later
<1>8. QED
  BY <1>5, <1>6, <1>7

\* allocate_entry, from the free list.
LEMMA FreeStraysAllocates ==
  ASSUME NEW heap, NEW R, NEW P, NEW last, FreeStrays(heap, R, P, last), NEW x, x = heap.next[FREE]
  PROVE  \E W : Strayed(ListAddLast(ListRemove(heap, x), x, USED), W)
<1> DEFINE between == ListRemove(heap, x)
           y       == heap.next[last]
<1>1. /\ Open(heap, R, P, last) /\ heap \in Heap /\ Ring(heap, R, USED)
      /\ Joins(heap, (P \cup {FREE}) \ {last}, P)
      /\ Joins(heap, R \cup {USED}, R \cup {USED})
      /\ R \subseteq Entries /\ P \subseteq Entries /\ R \cap P = {}
      /\ R \in SUBSET Nodes /\ P \in SUBSET Nodes /\ Entries \subseteq Nodes
      /\ FREE \in Nodes /\ USED \in Nodes /\ FREE # USED /\ FREE \notin Entries /\ USED \notin Entries
      /\ last \in P \cup {FREE} /\ last \in Nodes /\ heap.next[last] \in R \cup P
  BY OpenFacts DEF FreeStrays
<1>2. x \in R \cup P /\ x \in Entries /\ x \in Nodes
  <2>1. CASE last = FREE
    BY <1>1, <2>1
  <2>2. CASE last # FREE
    BY <1>1, <2>2 DEF Joins
  <2>3. QED
    BY <2>1, <2>2
<1>3. CASE x # last
  <2> HIDE DEF between
  <2>1. /\ Open(ListRemove(heap, x), R \ {x}, P \ {x}, last)
        /\ ListRemove(heap, x).next[last] = heap.next[last]
    BY <1>1, <1>2, <1>3, OpenLoses
  <2>2. x \notin (R \ {x}) \cup (P \ {x})
    OBVIOUS
  <2>3. Open(between, R \ {x}, P \ {x}, last) /\ between.next[last] = heap.next[last]
    BY <2>1 DEF between
  <2> DEFINE R1 == R \ {x}
             P1 == P \ {x}
  <2>4. Open(between, R1, P1, last) /\ x \notin R1 \cup P1
    BY <2>2, <2>3
  <2>5. \A n \in R \cup P : n \in (R1 \cup {x}) \cup P1
    BY <1>2
  <2> HIDE DEF R1, P1
  <2>6. /\ Open(ListAddLast(between, x, USED), R1 \cup {x}, P1, last)
        /\ ListAddLast(between, x, USED).next[last] = between.next[last]
    BY <1>2, <2>4, OpenGrows
  <2>7. FreeStrays(ListAddLast(between, x, USED), R1 \cup {x}, P1, last)
    BY <1>1, <2>3, <2>5, <2>6 DEF FreeStrays
  <2>8. Strayed(ListAddLast(between, x, USED), R1 \cup {x})
    BY <2>7 DEF Strayed
  <2>9. QED
    BY <2>8 DEF between
<1>4. CASE x = last
  <2> DEFINE P1 == P \ {x}
             X  == (P \cup {FREE}) \ {last}
  <2>1. x \in P /\ x \notin R /\ y = heap.next[x] /\ y \in Nodes /\ y \in R \cup P /\ x # FREE
    BY <1>1, <1>2, <1>4
  <2>2. FREE \in X /\ heap.prev[x] = FREE
    BY <1>1, <1>4, <2>1 DEF Joins
  <2>3. Joins(heap, P1, P1)
    <3>1. X \ {FREE} = P1
      BY <1>1, <1>4, <2>1
    <3> HIDE DEF X, P1
    <3>2. Joins(heap, X, P)
      BY <1>1 DEF X
    <3>3. Joins(heap, X \ {FREE}, P \ {heap.next[FREE]})
      BY <2>2, <3>2, JoinsPair
    <3>4. QED
      BY <3>1, <3>3 DEF P1
  <2>4. /\ between \in Heap /\ between.next[FREE] = y /\ between.prev[y] = FREE
        /\ \A n \in Nodes : n # FREE => between.next[n] = heap.next[n]
    BY <1>1, <1>2, <2>1, <2>2 DEF Heap, ListRemove
  <2>5. ASSUME NEW X1 \in SUBSET Nodes, NEW Y1 \in SUBSET Nodes, Joins(heap, X1, Y1), FREE \notin X1, y \notin Y1
        PROVE  Joins(between, X1, Y1)
    BY <1>1, <1>2, <2>1, <2>2, <2>5, RemoveKeeps
  <2>6. ASSUME NEW X1 \in SUBSET Nodes, Ends(heap, X1), FREE \notin X1
        PROVE  Ends(between, X1)
    BY <1>1, <1>2, <2>1, <2>2, <2>6, RemoveKeepsEnds
  <2>7. y \notin R => Ring(between, R, USED)
    <3>1. y \notin R => heap.prev[x] \notin R \cup {USED} /\ heap.next[x] \notin R \cup {USED}
      BY <1>1, <2>1, <2>2
    <3> HIDE DEF y, between
    <3>2. y \notin R => Ring(ListRemove(heap, x), R, USED)
      BY <1>1, <1>2, <3>1, RingKept
    <3>3. QED
      BY <3>2 DEF between
  <2>8. Joins(between, {FREE}, {y})
    BY <2>4 DEF Joins
  <2>9. P1 \in SUBSET Nodes /\ FREE \notin P1 /\ x \notin P1 /\ P1 \subseteq Entries /\ R \cap P1 = {} /\ x \notin R \cup P1
    BY <1>1, <2>1
  <2>10. ASSUME NEW last2, Open(between, R, P1, last2), between.next[last2] \in R \cup P1 \cup {x}
         PROVE  \E W : Strayed(ListAddLast(between, x, USED), W)
    <3>0. Open(between, R, P1, last2) /\ x \in Entries /\ x \notin R \cup P1
      BY <1>2, <2>9, <2>10
    <3> HIDE DEF P1, between, y, X
    <3>1. /\ Open(ListAddLast(between, x, USED), R \cup {x}, P1, last2)
          /\ ListAddLast(between, x, USED).next[last2] = between.next[last2]
      BY <3>0, OpenGrows
    <3>2. ListAddLast(between, x, USED).next[last2] \in (R \cup {x}) \cup P1
      BY <2>10, <3>1
    <3>3. FreeStrays(ListAddLast(between, x, USED), R \cup {x}, P1, last2)
      BY <3>1, <3>2 DEF FreeStrays
    <3>4. QED
      BY <3>3 DEF Strayed
  <2>11. CASE y = x
    <3>1. Joins(between, P1, P1)
      BY <2>3, <2>5, <2>9, <2>11
    <3>2. (P1 \cup {FREE}) \ {FREE} = P1 /\ y \notin R
      BY <2>1, <2>9, <2>11
    <3> HIDE DEF P1, y, between
    <3>3. Open(between, R, P1, FREE)
      BY <1>1, <2>4, <2>7, <2>9, <3>1, <3>2 DEF Open
    <3>4. between.next[FREE] \in R \cup P1 \cup {x}
      BY <2>4, <2>11
    <3>5. \E W : Strayed(ListAddLast(between, x, USED), W)
      BY <2>10, <3>3, <3>4
    <3>6. QED
      BY <3>5 DEF between
  <2>12. CASE y \in P1
    <3> DEFINE last2 == heap.prev[y]
               V     == P1 \ {last2}
    <3>1. last2 \in P1 /\ heap.next[last2] = y
      BY <2>3, <2>12 DEF Joins
    <3>2. Joins(heap, V, P1 \ {y})
      <4> HIDE DEF P1, y
      <4>1. Joins(heap, P1 \ {last2}, P1 \ {heap.next[last2]})
        BY <2>3, <3>1, JoinsPair
      <4>2. QED
        BY <3>1, <4>1
    <3>3. V \in SUBSET Nodes /\ P1 \ {y} \in SUBSET Nodes /\ FREE \notin V /\ y \notin P1 \ {y}
      BY <2>9
    <3>4. V \cup {FREE} = (P1 \cup {FREE}) \ {last2} /\ (P1 \ {y}) \cup {y} = P1 /\ y \notin R /\ last2 # FREE
          /\ last2 \in Nodes /\ last2 \in P1 \cup {FREE}
      BY <2>9, <2>12, <3>1
    <3> HIDE DEF V, P1, y, between, last2
    <3>5. Joins(between, V, P1 \ {y})
      BY <2>5, <3>2, <3>3
    <3>6. Joins(between, V \cup {FREE}, (P1 \ {y}) \cup {y})
      BY <2>8, <3>5, JoinsTogether
    <3>7. Open(between, R, P1, last2)
      BY <1>1, <2>4, <2>7, <2>9, <3>4, <3>6 DEF Open
    <3>8. between.next[last2] \in R \cup P1 \cup {x}
      BY <2>4, <2>12, <3>1, <3>4
    <3>9. \E W : Strayed(ListAddLast(between, x, USED), W)
      BY <2>10, <3>7, <3>8
    <3>10. QED
      BY <3>9 DEF between
  <2>13. CASE y \in R
    <3> DEFINE last2 == heap.prev[y]
    <3>1. PICK T \in SUBSET R : SplitAt(heap, R, y, T)
      <4> HIDE DEF y
      <4>1. QED
        BY <1>1, <2>13, RingSplits
    <3> DEFINE A  == R \ T
               X1 == (A \cup {USED}) \ {last2}
               Y1 == (T \ {y}) \cup {USED}
    <3>2. /\ y \in T /\ Ends(heap, T) /\ Joins(heap, T, Y1) /\ Ends(heap, A) /\ Joins(heap, X1, A)
          /\ last2 \in A \cup {USED} /\ heap.next[last2] = y
      BY <3>1 DEF SplitAt
    <3>3. /\ FREE \notin X1 /\ FREE \notin A /\ FREE \notin T /\ y \notin A /\ y \notin Y1
          /\ X1 \in SUBSET Nodes /\ A \in SUBSET Nodes /\ T \in SUBSET Nodes /\ Y1 \in SUBSET Nodes
          /\ last2 # FREE /\ last2 \in Nodes
      BY <1>1, <2>13, <3>2
    <3>4. A \cap T = {} /\ A \subseteq Entries /\ T \subseteq Entries /\ x \notin A \cup {} \cup T
          /\ {} \cup {FREE} = {FREE} /\ {} \cup {y} = {y} /\ A \cap {} = {} /\ {} \cap T = {} /\ {} \subseteq Entries
      BY <1>1, <2>1
    <3> HIDE DEF A, y, between, last2
    <3>5. Joins(between, X1, A) /\ Joins(between, T, Y1) /\ Ends(between, A) /\ Ends(between, T)
      <4> HIDE DEF X1, Y1
      <4>1. QED
        BY <2>5, <2>6, <3>2, <3>3
    <3>6. between.next[last2] = y /\ Ends(between, {})
      BY <2>4, <3>2, <3>3 DEF Ends
    <3>7. UsedStrays(between, A, {}, T, last2, y)
      BY <2>4, <2>8, <3>2, <3>4, <3>5, <3>6 DEF UsedStrays
    <3>8. UsedStrays(ListAddLast(between, x, USED), A, {}, T \cup {x}, last2, y)
      BY <1>2, <3>4, <3>7, UsedStraysGrows
    <3>9. Strayed(ListAddLast(between, x, USED), A \cup (T \cup {x}))
      BY <3>8 DEF Strayed
    <3>10. QED
      BY <3>9 DEF between
  <2>14. QED
    BY <2>1, <2>11, <2>12, <2>13
<1>5. QED
  BY <1>3, <1>4

LEMMA UsedStraysAllocates ==
  ASSUME NEW heap, NEW A, NEW B, NEW T, NEW last, NEW c, UsedStrays(heap, A, B, T, last, c),
         NEW x, x = heap.next[FREE]
  PROVE  \E W : Strayed(ListAddLast(ListRemove(heap, x), x, USED), W)
<1> DEFINE Y       == (T \ {c}) \cup {USED}
           X       == (A \cup {USED}) \ {last}
           V       == B \cup {FREE}
           U       == B \cup {c}
           between == ListRemove(heap, x)
<1>1. /\ heap \in Heap /\ A \subseteq Entries /\ B \subseteq Entries /\ T \subseteq Entries
      /\ A \in SUBSET Nodes /\ B \in SUBSET Nodes /\ T \in SUBSET Nodes /\ Entries \subseteq Nodes
      /\ A \cap B = {} /\ A \cap T = {} /\ B \cap T = {} /\ c \in T
      /\ FREE \in Nodes /\ USED \in Nodes /\ FREE # USED /\ FREE \notin Entries /\ USED \notin Entries
      /\ last \in A \cup {USED} /\ last \in Nodes /\ heap.next[last] = c
      /\ Joins(heap, X, A) /\ Joins(heap, V, U) /\ Joins(heap, T, Y)
      /\ Ends(heap, A) /\ Ends(heap, B) /\ Ends(heap, T)
  BY HeadFacts DEF UsedStrays, Heads, Nodes
<1>2. x \in U /\ heap.prev[x] = FREE /\ x \in Entries /\ x \in Nodes /\ heap.next[x] \in Nodes
  BY <1>1 DEF Joins, Heap
<1>3. CASE x # c
  <2> HIDE DEF between
  <2>1. x \in A \cup B \cup T /\ x # last /\ x \notin (A \ {x}) \cup (B \ {x}) \cup (T \ {x})
    BY <1>1, <1>2, <1>3
  <2>2. UsedStrays(ListRemove(heap, x), A \ {x}, B \ {x}, T \ {x}, last, c)
    BY <1>3, <2>1, UsedStraysLoses
  <2>3. UsedStrays(between, A \ {x}, B \ {x}, T \ {x}, last, c)
    BY <2>2 DEF between
  <2>4. UsedStrays(ListAddLast(between, x, USED), A \ {x}, B \ {x}, (T \ {x}) \cup {x}, last, c)
    BY <1>2, <2>1, <2>3, UsedStraysGrows
  <2>5. Strayed(ListAddLast(between, x, USED), (A \ {x}) \cup ((T \ {x}) \cup {x}))
    BY <2>4 DEF Strayed
  <2>6. QED
    BY <2>5 DEF between
<1>4. CASE x = c
  \* All of the used list's stray part becomes free, but for this entry.
  <2> DEFINE T1 == T \ {c}
             V1 == T1 \cup {FREE}
             U1 == T1 \cup {USED}
             q  == between.prev[USED]
             Vq == V1 \ {q}
             later == LinkBetween(between, c, q, USED)
  <2>1. Joins(heap, T \cup {FREE}, T \cup {USED})
    <3>1. Joins(heap, {FREE}, {c})
      BY <1>1, <1>2, <1>4 DEF Joins
    <3>2. Joins(heap, T \cup {FREE}, Y \cup {c})
      BY <1>1, <3>1, JoinsTogether
    <3>3. Y \cup {c} = T \cup {USED}
      BY <1>1
    <3>4. QED
      BY <3>2, <3>3
  <2>2. Joins(between, V1, U1)
    <3> DEFINE Vs == T \cup {FREE}
               Us == T \cup {USED}
    <3>1. c \in Vs \cap Us /\ Vs \in SUBSET Nodes /\ Us \in SUBSET Nodes /\ Vs \ {c} = V1 /\ Us \ {c} = U1
      BY <1>1
    <3>2. Joins(heap, Vs, Us)
      BY <2>1
    <3> HIDE DEF Vs, Us, between, V1, U1
    <3>3. Joins(ListRemove(heap, c), Vs \ {c}, Us \ {c})
      BY <1>1, <3>1, <3>2, RemoveJoins
    <3>4. QED
      BY <1>4, <3>1, <3>3 DEF between
  <2>3. /\ between \in Heap /\ \A n \in Nodes : n # FREE => between.next[n] = heap.next[n]
    BY <1>1, <1>2, <1>4 DEF Heap, ListRemove
  <2>4. q \in V1 /\ between.next[q] = USED /\ q \in Nodes /\ q # c /\ c # USED /\ c \in Nodes
    <3>1. q \in V1 /\ between.next[q] = USED
      BY <2>2 DEF Joins
    <3>2. QED
      BY <1>1, <3>1
  <2>5. Joins(between, Vq, T1)
    <3>1. U1 \ {USED} = T1
      BY <1>1
    <3> HIDE DEF V1, U1, T1, between, q
    <3>2. Joins(between, V1 \ {q}, U1 \ {between.next[q]})
      BY <2>2, <2>4, JoinsPair
    <3>3. QED
      BY <2>4, <3>1, <3>2
  <2>6. Joins(between, X, A) /\ Ends(between, A) /\ Ends(between, T1)
    <3>1. heap.prev[c] \notin X /\ heap.next[c] \notin A /\ heap.prev[c] \notin A /\ heap.prev[c] \notin T1
          /\ X \in SUBSET Nodes /\ T1 \in SUBSET Nodes /\ c \in Nodes
      <4>1. heap.next[c] \in Y /\ heap.prev[c] = FREE
        BY <1>1, <1>2, <1>4 DEF Joins
      <4>2. QED
        BY <1>1, <4>1
    <3>2. Ends(heap, T1)
      BY <1>1, EndsPart
    <3> HIDE DEF X, between, T1
    <3>3. Joins(ListRemove(heap, c), X, A) /\ Ends(ListRemove(heap, c), A) /\ Ends(ListRemove(heap, c), T1)
      BY <1>1, <3>1, <3>2, RemoveKeeps, RemoveKeepsEnds
    <3>4. QED
      BY <1>4, <3>3 DEF between
  <2>7. /\ c \notin X /\ q \notin X /\ c \notin A /\ USED \notin A /\ X \in SUBSET Nodes
        /\ c \notin Vq /\ q \notin Vq /\ c \notin T1 /\ USED \notin T1
        /\ Vq \in SUBSET Nodes /\ T1 \in SUBSET Nodes /\ last # q /\ last # c /\ last # FREE
    BY <1>1, <2>4
  <2>8. /\ later \in Heap /\ later.next[c] = USED /\ Joins(later, {c}, {USED}) /\ Joins(later, {q}, {c})
        /\ \A n \in Nodes \ {c, q} : later.next[n] = between.next[n]
    <3>1. between \in Heap /\ c \in Nodes /\ q \in Nodes /\ USED \in Nodes /\ c # q /\ c # USED
      BY <1>1, <2>3, <2>4
    <3> HIDE DEF q, between
    <3>2. QED
      BY <3>1 DEF Heap, LinkBetween, Joins
  <2>9. Joins(later, X, A) /\ Joins(later, Vq, T1) /\ Ends(later, A) /\ Ends(later, T1)
    <3> HIDE DEF q, between, X, Vq, T1
    <3>1. QED
      BY <1>1, <2>3, <2>4, <2>5, <2>6, <2>7, LinkKeeps, LinkKeepsEnds
  <2>10. Joins(later, T1 \cup {FREE}, T1 \cup {c})
    <3>1. Vq \cup {q} = T1 \cup {FREE}
      BY <2>4
    <3> HIDE DEF q, Vq, T1, later
    <3>2. Joins(later, Vq \cup {q}, T1 \cup {c})
      BY <2>8, <2>9, JoinsTogether
    <3>3. QED
      BY <3>1, <3>2
  <2>11. later.next[last] = c /\ Ends(later, {c})
    <3>1. between.next[last] = c
      BY <1>1, <2>3, <2>7
    <3> HIDE DEF later, between, q
    <3>2. QED
      BY <1>1, <2>4, <2>7, <2>8, <3>1 DEF Ends
  <2>12. /\ T1 \subseteq Entries /\ {c} \subseteq Entries /\ A \cap T1 = {} /\ A \cap {c} = {} /\ T1 \cap {c} = {}
         /\ ({c} \ {c}) \cup {USED} = {USED} /\ c \in {c}
    BY <1>1
  <2> HIDE DEF later, T1, Vq, V1, U1, q
  <2>13. UsedStrays(later, A, T1, {c}, last, c)
    BY <1>1, <2>8, <2>9, <2>10, <2>11, <2>12 DEF UsedStrays
  <2>14. Strayed(later, A \cup {c})
    BY <2>13 DEF Strayed
  <2>15. later = ListAddLast(ListRemove(heap, x), x, USED)
    BY <1>4 DEF later, q, between, ListAddLast
  <2>16. QED
    BY <2>14, <2>15
<1>5. QED
  BY <1>3, <1>4

\* allocate_entry, when it takes the oldest used entry: the entry is freed and added to
\* the used list without being taken off the free one.
LEMMA RingsEvict ==
  ASSUME NEW heap, NEW F, NEW U, Rings(heap, F, U), heap.next[FREE] = FREE,
         NEW node \in U
  PROVE  \E W : Strayed(ListAddLast(ListAddFirst(ListRemove(heap, node), node, FREE), node, USED), W)
<1> DEFINE freed == ListAddFirst(ListRemove(heap, node), node, FREE)
           R     == U \ {node}
<1>1. Rings(freed, F \cup {node}, R)
  BY MoveToFree
<1>2. heap \in Heap /\ F = {} /\ F \cup U = Entries /\ node \in Entries /\ R \subseteq Entries
  BY RingsFacts DEF Rings
<1>3. freed.next[FREE] = node
  BY <1>2, HeadFacts DEF ListAddFirst, LinkBetween, ListRemove, Heap
<1> HIDE DEF freed
<1>4. Ring(freed, R, USED) /\ freed \in Heap
  <2> HIDE DEF R
  <2>1. PICK f, u : AreRings(freed, F \cup {node}, R, f, u)
    BY <1>1 DEF Rings
  <2>2. Chain(u) /\ Range(u) = R /\ IsRing(freed, USED, u) /\ freed \in Heap
    BY <1>1, <2>1 DEF AreRings, Rings
  <2>3. Ring(freed, Range(u), USED)
    BY <2>2, RingOfChain, HeadFacts
  <2>4. QED
    BY <2>2, <2>3
<1>5. Open(freed, R, {}, FREE)
  <2>1. ({} \cup {FREE}) \ {FREE} = {}
    OBVIOUS
  <2>2. QED
    BY <1>2, <1>4, <2>1 DEF Open, Joins
<1>6. node \notin R \cup {} /\ node \in (R \cup {node}) \cup {}
  OBVIOUS
<1> HIDE DEF R
<1>7. /\ Open(ListAddLast(freed, node, USED), R \cup {node}, {}, FREE)
      /\ ListAddLast(freed, node, USED).next[FREE] = freed.next[FREE]
  BY <1>2, <1>5, <1>6, OpenGrows
<1>8. FreeStrays(ListAddLast(freed, node, USED), R \cup {node}, {}, FREE)
  BY <1>3, <1>6, <1>7 DEF FreeStrays
<1>9. Strayed(ListAddLast(freed, node, USED), R \cup {node})
  BY <1>8 DEF Strayed
<1>10. QED
  BY <1>9 DEF freed

\* What an iteration over the used list does.
Walk(heap, W) ==
  /\ heap \in Heap /\ W \subseteq Entries /\ Ends(heap, W)
  /\ \A n \in W \cup {USED} : heap.next[n] \in W \cup {USED}

LEMMA RingsWalk ==
  ASSUME NEW heap, NEW F, NEW U, Rings(heap, F, U)
  PROVE  Walk(heap, U)
<1>1. PICK f, u : AreRings(heap, F, U, f, u)
  BY DEF Rings
<1>2. Chain(u) /\ Range(u) = U /\ IsRing(heap, USED, u) /\ heap \in Heap
  BY <1>1 DEF AreRings, Rings
<1>3. Ring(heap, Range(u), USED)
  BY <1>2, RingOfChain, HeadFacts
<1>4. QED
  BY <1>2, <1>3 DEF Ring, Joins, Walk

LEMMA StrayedWalk ==
  ASSUME NEW heap, NEW W, Strayed(heap, W)
  PROVE  Walk(heap, W) /\ heap.next[FREE] \in Entries
<1>1. CASE \E P, last : FreeStrays(heap, W, P, last)
  <2>1. PICK P, last : FreeStrays(heap, W, P, last)
    BY <1>1
  <2>2. heap \in Heap /\ W \subseteq Entries /\ P \subseteq Entries /\ Ends(heap, W)
        /\ Joins(heap, W \cup {USED}, W \cup {USED}) /\ Joins(heap, (P \cup {FREE}) \ {last}, P)
        /\ last \in P \cup {FREE} /\ heap.next[last] \in W \cup P
    BY <2>1 DEF FreeStrays, Open, Ring
  <2>3. heap.next[FREE] \in Entries
    <3>1. CASE last = FREE
      BY <2>2, <3>1
    <3>2. CASE last # FREE
      BY <2>2, <3>2 DEF Joins
    <3>3. QED
      BY <3>1, <3>2
  <2>4. QED
    BY <2>2, <2>3 DEF Walk, Joins
<1>2. CASE \E A, B, T, last, c : W = A \cup T /\ UsedStrays(heap, A, B, T, last, c)
  <2>1. PICK A, B, T, last, c : W = A \cup T /\ UsedStrays(heap, A, B, T, last, c)
    BY <1>2
  <2>2. /\ heap \in Heap /\ A \subseteq Entries /\ B \subseteq Entries /\ T \subseteq Entries
        /\ A \cap T = {} /\ c \in T /\ last \in A \cup {USED} /\ heap.next[last] = c
        /\ Joins(heap, (A \cup {USED}) \ {last}, A) /\ Joins(heap, B \cup {FREE}, B \cup {c})
        /\ Joins(heap, T, (T \ {c}) \cup {USED})
        /\ Ends(heap, A) /\ Ends(heap, T) /\ USED \notin Entries
    BY <2>1, HeadFacts DEF UsedStrays, Heads
  <2>3. Ends(heap, A \cup T)
    <3>1. \A n \in T : heap.next[n] \notin A
      BY <2>2 DEF Joins
    <3>2. QED
      BY <2>2, <3>1, EndsTogether
  <2>4. heap.next[FREE] \in Entries
    BY <2>2 DEF Joins
  <2>5. ASSUME NEW n \in (A \cup T) \cup {USED} PROVE heap.next[n] \in (A \cup T) \cup {USED}
    <3>1. CASE n \in T
      BY <2>2, <3>1 DEF Joins
    <3>2. CASE n = last
      BY <2>2, <3>2
    <3>3. CASE n \notin T /\ n # last
      BY <2>2, <3>3 DEF Joins
    <3>4. QED
      BY <3>1, <3>2, <3>3
  <2>6. QED
    BY <2>1, <2>2, <2>3, <2>4, <2>5 DEF Walk
<1>3. QED
  BY <1>1, <1>2 DEF Strayed

\* find_arp_entry stops, at a used entry or behind the last one.
LEMMA FindEnds ==
  ASSUME NEW W, Walk(links, W), NEW ip
  PROVE  Find(ip) \in W \cup {USED}
<1> DEFINE N     == Cardinality(Nodes)
           visit == Visits(links, USED)
           stops == {k \in DOMAIN visit : \/ visit[k] \in {FREE, USED}
                                          \/ arp_entries[visit[k]].ip = ip}
           S     == {k \in 0 .. N : visit[k] \in W \cup {USED}}
<1>1. /\ links \in Heap /\ N \in Nat /\ IsFiniteSet(Nodes) /\ W \subseteq Nodes /\ Ends(links, W)
      /\ \A n \in W \cup {USED} : links.next[n] \in W \cup {USED}
  BY NodesFinite DEF Walk, Nodes
<1>2. IsWalk(visit, links, USED)
  BY <1>1, HeadFacts, VisitsWalk
<1>3. Find(ip) = IF stops = {} THEN NONE ELSE visit[Min(stops)]
  BY DEF Find
<1> HIDE DEF visit
<1>4. \A k \in 0 .. N : k \in S
  <2>1. 0 \in S
    BY <1>1, <1>2 DEF IsWalk
  <2>2. ASSUME NEW k \in 0 .. N - 1, k \in S PROVE k + 1 \in S
    <3>1. k + 1 \in 1 .. N /\ k + 1 \in 0 .. N /\ (k + 1) - 1 = k
      BY <1>1
    <3>2. visit[k + 1] = links.next[visit[k]]
      BY <1>2, <3>1 DEF IsWalk
    <3>3. QED
      BY <1>1, <2>2, <3>1, <3>2
  <2> HIDE DEF S
  <2>3. QED
    BY <1>1, <2>1, <2>2, UpTo
<1>5. \E k \in 0 .. N : visit[k] = USED
  <2>1. SUFFICES ASSUME \A k \in 0 .. N : visit[k] # USED PROVE FALSE
    OBVIOUS
  <2>2. \A k \in 0 .. N : visit[k] \in W
    BY <1>4, <2>1
  <2>3. \E i, j \in 0 .. N : i < j /\ visit[i] = visit[j]
    <3>1. SUFFICES ASSUME \A i, j \in 0 .. N : i < j => visit[i] # visit[j] PROVE FALSE
      OBVIOUS
    <3>2. \A i, j \in 0 .. N : visit[i] = visit[j] => i = j
      <4>1. SUFFICES ASSUME NEW i \in 0 .. N, NEW j \in 0 .. N, visit[i] = visit[j], i # j PROVE FALSE
        OBVIOUS
      <4>2. i < j \/ j < i
        BY <1>1, <4>1
      <4>3. QED
        BY <3>1, <4>1, <4>2
    <3>3. visit \in Injection(0 .. N, Nodes)
      BY <1>2, <3>2 DEF IsWalk, Injection, IsInjective
    <3>4. IsFiniteSet(0 .. N) /\ Cardinality(0 .. N) = N + 1
      <4>1. 0 =< N /\ N - 0 + 1 = N + 1
        BY <1>1
      <4> HIDE DEF N
      <4>2. QED
        BY <1>1, <4>1, FS_Interval
    <3>5. Cardinality(0 .. N) =< Cardinality(Nodes)
      BY <1>1, <3>3, <3>4, FS_Injection
    <3>6. QED
      BY <1>1, <3>4, <3>5
  <2>4. PICK i \in 0 .. N, j \in 0 .. N : i < j /\ visit[i] = visit[j]
    BY <2>3
  <2> DEFINE Z == {visit[k] : k \in i .. j - 1}
  <2>5. Z \in SUBSET W /\ Z # {}
    <3>1. i \in i .. j - 1 /\ \A k \in i .. j - 1 : k \in 0 .. N
      BY <1>1, <2>4
    <3>2. QED
      BY <2>2, <3>1
  <2>6. ASSUME NEW n \in Z PROVE links.next[n] \in Z
    <3>1. PICK k \in i .. j - 1 : n = visit[k]
      OBVIOUS
    <3>2. k + 1 \in 1 .. N /\ (k + 1) - 1 = k /\ (k + 1 = j \/ k + 1 \in i .. j - 1) /\ i \in i .. j - 1
      BY <1>1, <2>4, <3>1
    <3>3. visit[k + 1] = links.next[n]
      BY <1>2, <3>1, <3>2 DEF IsWalk
    <3>4. QED
      BY <2>4, <3>2, <3>3
  <2> HIDE DEF Z
  <2>7. QED
    BY <1>1, <2>5, <2>6 DEF Ends
<1>6. stops \subseteq Nat /\ stops # {} /\ stops \subseteq 0 .. N
  <2>1. DOMAIN visit = 0 .. N
    BY <1>2 DEF IsWalk
  <2>2. QED
    BY <1>1, <1>5, <2>1
<1> HIDE DEF stops
<1>7. PICK m \in stops : m = Min(stops) /\ \A k \in stops : m =< k
  BY <1>6, MinOfNat
<1>8. Find(ip) = visit[m] /\ m \in 0 .. N
  BY <1>3, <1>6, <1>7
<1>9. QED
  BY <1>4, <1>8

\* An iteration over the used list meets the entries W.
Iterates(W) ==
  /\ (\E F : Rings(links, F, W)) \/ Strayed(links, W)
  /\ cursor \in W \cup {USED}

LEMMA SendAllocatesWalks ==
  ASSUME NEW W, Iterates(W), cursor = USED, NEW ip \in Ips, SendAllocates(ip)
  PROVE  \E V : Iterates(V)'
<1> DEFINE node  == links.next[FREE]
           later == ListAddLast(ListRemove(links, node), node, USED)
<1>1. node \in Entries /\ links' = later /\ cursor' = USED
  BY DEF SendAllocates, ListFirst
<1>2. \E V : (\E F : Rings(later, F, V)) \/ Strayed(later, V)
  <2>1. CASE \E F : Rings(links, F, W)
    <3>1. PICK F : Rings(links, F, W)
      BY <2>1
    <3>2. Rings(later, F \ {node}, W \cup {node})
      <4>1. ListFirst(links, FREE) \in Entries /\ ListFirst(links, FREE) = node
        BY <1>1 DEF ListFirst
      <4> HIDE DEF node
      <4>2. QED
        BY <3>1, <4>1, MoveToUsed
    <3>3. QED
      BY <3>2
  <2>2. CASE \E P, last : FreeStrays(links, W, P, last)
    BY <2>2, FreeStraysAllocates
  <2>3. CASE \E A, B, T, last, c : W = A \cup T /\ UsedStrays(links, A, B, T, last, c)
    <3>1. PICK A, B, T, last, c : UsedStrays(links, A, B, T, last, c)
      BY <2>3
    <3>2. QED
      BY <3>1, UsedStraysAllocates
  <2>4. QED
    BY <2>1, <2>2, <2>3 DEF Iterates, Strayed
<1> HIDE DEF later
<1>3. QED
  BY <1>1, <1>2 DEF Iterates

LEMMA SendEvictsWalks ==
  ASSUME NEW W, Iterates(W), cursor = USED, NEW ip \in Ips, SendEvicts(ip)
  PROVE  \E V : Iterates(V)'
<1> DEFINE node == links.next[USED]
<1>1. /\ links.next[FREE] = FREE /\ node \in Entries /\ cursor' = USED
      /\ links' = ListAddLast(ListAddFirst(ListRemove(links, node), node, FREE), node, USED)
  BY DEF SendEvicts, ListFirst, ListIsEmpty, FreeLinks
<1>2. ~Strayed(links, W)
  BY <1>1, StrayedWalk, HeadFacts DEF Heads
<1>3. PICK F : Rings(links, F, W)
  BY <1>2 DEF Iterates
<1>4. node \in W
  BY <1>1, <1>3, RingsFacts, HeadFacts DEF Heads
<1> HIDE DEF node
<1>5. PICK V : Strayed(ListAddLast(ListAddFirst(ListRemove(links, node), node, FREE), node, USED), V)
  BY <1>1, <1>3, <1>4, RingsEvict
<1>6. QED
  BY <1>1, <1>5 DEF Iterates

LEMMA TaskFreesWalks ==
  ASSUME NEW W, Iterates(W), TaskFrees
  PROVE  \E V : Iterates(V)'
<1> DEFINE node == cursor
           later == ListAddFirst(ListRemove(links, node), node, FREE)
<1>1. node \in Entries /\ links' = later /\ cursor' = links.next[node]
  BY DEF TaskFrees, TaskEntry, FreeLinks
<1>2. node \in W
  BY <1>1, HeadFacts DEF Iterates, Heads
<1>3. links.next[node] \in (W \ {node}) \cup {USED}
  <2>1. Walk(links, W)
    BY RingsWalk, StrayedWalk DEF Iterates
  <2>2. links.next[node] \in W \cup {USED}
    BY <1>2, <2>1 DEF Walk
  <2>3. links.next[node] # node
    <3>1. {node} \in SUBSET W /\ {node} # {}
      BY <1>2
    <3>2. PICK n \in {node} : links.next[n] \notin {node}
      BY <2>1, <3>1 DEF Walk, Ends
    <3>3. QED
      BY <3>2
  <2>4. QED
    BY <2>2, <2>3
<1> HIDE DEF node
<1>4. \E V : W \ {node} \subseteq V /\ ((\E F : Rings(later, F, V)) \/ Strayed(later, V))
  <2>1. CASE \E F : Rings(links, F, W)
    <3>1. PICK F : Rings(links, F, W)
      BY <2>1
    <3>2. Rings(later, F \cup {node}, W \ {node})
      BY <1>2, <3>1, MoveToFree
    <3>3. QED
      BY <3>2
  <2>2. CASE \E P, last : FreeStrays(links, W, P, last)
    <3>1. PICK P, last : FreeStrays(links, W, P, last)
      BY <2>2
    <3>2. QED
      BY <1>2, <3>1, FreeStraysFrees
  <2>3. CASE \E A, B, T, last, c : W = A \cup T /\ UsedStrays(links, A, B, T, last, c)
    <3>1. PICK A, B, T, last, c : W = A \cup T /\ UsedStrays(links, A, B, T, last, c)
      BY <2>3
    <3>2. \E V : (A \cup T) \ {node} \subseteq V /\ Strayed(later, V)
      BY <1>2, <3>1, UsedStraysFrees
    <3>3. QED
      BY <3>1, <3>2
  <2>4. QED
    BY <2>1, <2>2, <2>3 DEF Iterates, Strayed
<1> HIDE DEF later
<1>5. QED
  BY <1>1, <1>3, <1>4 DEF Iterates

\* The steps that leave the lists alone.
LEMMA ListsStay ==
  ASSUME NEW W, Iterates(W), links' = links,
         cursor' \in {cursor, links.next[USED]} \/ (cursor \in Entries /\ cursor' = links.next[cursor])
  PROVE  Iterates(W)'
<1>1. Walk(links, W)
  BY RingsWalk, StrayedWalk DEF Iterates
<1>2. cursor' \in W \cup {USED}
  BY <1>1, HeadFacts DEF Walk, Iterates, Heads
<1>3. QED
  BY <1>2 DEF Iterates

LEMMA NextWalks == (\E W : Iterates(W)) /\ [Next]_vars => (\E W : Iterates(W))'
<1> SUFFICES ASSUME NEW W, Iterates(W), [Next]_vars PROVE \E V : Iterates(V)'
  OBVIOUS
<1>1. ASSUME NEW ip \in Ips, ArpSend(ip) PROVE \E V : Iterates(V)'
  <2>1. cursor = USED
    BY <1>1 DEF ArpSend, Ready
  <2>2. CASE SendResolved(ip) \/ SendWaits(ip)
    BY <2>2, ListsStay DEF SendResolved, SendWaits
  <2>3. QED
    BY <1>1, <2>1, <2>2, SendAllocatesWalks, SendEvictsWalks DEF ArpSend
<1>2. ASSUME NEW ip \in Ips, NEW target_ip \in Ips \cup {OurIp}, HandleReply(ip, target_ip)
      PROVE  \E V : Iterates(V)'
  BY <1>2, ListsStay DEF HandleReply
<1>3. CASE TaskFrees
  BY <1>3, TaskFreesWalks
<1>4. CASE Quiet
  BY <1>4, ListsStay DEF Quiet, HandleRequest, TaskStarts, TaskRetries, TaskPasses, TaskEntry,
                         Tick, vars, ListFirst
<1>5. QED
  BY <1>1, <1>2, <1>3, <1>4 DEF Next, ArpTask, Quiet

LEMMA WalksAlways == Spec => [](\E W : Iterates(W))
<1>1. Init => \E W : Iterates(W)
  BY InitialTable DEF Init, Iterates
<1>2. QED
  BY <1>1, NextWalks, PTL DEF Spec

\* For every table and number of hosts, and whatever is evicted: the loops of
\* find_arp_entry and arp_task end, on a used entry or behind the last one, and
\* allocate_entry always finds an entry.
THEOREM WalksEnd == Spec => []WalksStayInList
<1>1. ASSUME NEW W, Iterates(W) PROVE WalksStayInList
  <2>1. Walk(links, W)
    BY <1>1, RingsWalk, StrayedWalk DEF Iterates
  <2>2. W \subseteq Entries /\ FREE \notin Entries /\ USED \notin Entries /\ FREE # USED
    BY <2>1, HeadFacts DEF Walk, Heads
  <2>3. cursor # FREE
    BY <1>1, <2>2 DEF Iterates
  <2>4. ASSUME NEW ip \in Ips PROVE Find(ip) \in Entries \/ Find(ip) = USED
    BY <2>1, <2>2, FindEnds
  <2>5. ListFirst(links, IF ListIsEmpty(links, FREE) THEN USED ELSE FREE) \in Entries
    <3>1. CASE Strayed(links, W)
      BY <2>2, <3>1, StrayedWalk DEF ListIsEmpty, ListFirst
    <3>2. CASE \E F : Rings(links, F, W)
      <4>1. PICK F : Rings(links, F, W)
        BY <3>2
      <4>2. /\ links.next[FREE] \in F \cup {FREE} /\ F \subseteq Entries
            /\ links.next[USED] \in W \cup {USED}
            /\ links.next[FREE] = FREE <=> F = {}
            /\ F \cup W = Entries /\ \A n \in Nodes : links.prev[links.next[n]] = n
        BY <4>1, RingsFacts DEF Rings
      <4>3. CASE F # {}
        BY <4>2, <4>3 DEF ListIsEmpty, ListFirst
      <4>4. CASE F = {}
        <5>1. W = Entries /\ W # {}
          BY <4>2, <4>4, ListAssumption
        <5>2. PICK n \in W : links.next[n] \notin W
          BY <2>1, <5>1 DEF Walk, Ends
        <5>3. links.next[n] = USED /\ n \in Nodes /\ USED \in Nodes /\ n # USED
          BY <2>1, <2>2, <5>2, HeadFacts DEF Walk, Nodes
        <5>4. links.next[USED] # USED
          BY <4>2, <5>3
        <5>5. QED
          BY <2>2, <4>2, <4>4, <5>4 DEF ListIsEmpty, ListFirst
      <4>5. QED
        BY <4>3, <4>4
    <3>3. QED
      BY <1>1, <3>1, <3>2 DEF Iterates
  <2>6. QED
    BY <2>3, <2>4, <2>5 DEF WalksStayInList
<1>2. (\E W : Iterates(W)) => WalksStayInList
  BY <1>1
<1>3. QED
  BY <1>2, WalksAlways, PTL
==============================================================================
