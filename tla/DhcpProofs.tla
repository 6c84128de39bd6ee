----------------------------- MODULE DhcpProofs -----------------------------
(***************************************************************************)
(* Theorems about Dhcp.tla, for any servers, addresses and lease times.    *)
(*                                                                         *)
(* That the client is configured as one server granted needs to be known   *)
(* of every answer in flight: an ACK, on the wire or in the queue, is for  *)
(* an address that was granted; and of every request in flight, that it is *)
(* for an address of the lease the client had in mind.                     *)
(***************************************************************************)
EXTENDS Dhcp, QueueLemmas

Table  == IsTable(used_connections, {Port}, Answers, {1})
Queued == {d \in Answers : InQueue(used_connections, d)}

\* The states in which the fields of dhcp describe a lease.
Holds == state \in {"REQUESTING", "BOUND", "RENEWING", "REBINDING"}

\* Requests are for addresses.
RequestsAddress == \A m \in to_server : m.kind \in {"REQUEST", "RENEW", "RELEASE"} => m.ip \in Ips

\* The lease is one of its server.
LeaseKnown == Holds => leased_ip \in Ips /\ server_ip = Pool[leased_ip]

\* An ACK that is still to be read is for an address that was granted.
AcksGranted == \A ip \in Ips : Answer("ACK", ip) \in to_client \cup Queued => ip \in granted

\* The configuration is that of the lease, and its time that of an ACK.
Configured ==
  IsDone => /\ our_ip = leased_ip /\ our_netmask = netmask /\ our_ip \in granted
            /\ lease_time = Lease

IInv == TypeOK /\ Table /\ RequestsAddress /\ LeaseKnown /\ AcksGranted /\ Configured

\* The types of everything but the queue.
OtherTypes ==
  /\ state \in {"DISABLED", "DISCOVER", "REQUESTING", "BOUND", "RENEWING", "REBINDING"}
  /\ leased_ip \in Ips \cup {NONE} /\ server_ip \in Servers \cup {NONE}
  /\ netmask \in Netmasks /\ options_netmask \in Netmasks /\ our_netmask \in Netmasks
  /\ lease_time \in 0 .. WordModulus - 1 /\ elapsed \in 0 .. Lease + 1
  /\ backoff_count \in {0, 1}
  /\ our_ip \in Ips \cup {NONE}
  /\ to_client \subseteq Answers
  /\ bindings \in [Ips -> 0 .. Lease]

-----------------------------------------------------------------------------

\* The lease in milliseconds is a u32, and so is what the client computes.
LEMMA LeaseFits ==
  /\ Lease \in Nat /\ Lease \in 0 .. WordModulus - 1
  /\ (LeaseSeconds * Milliseconds) % WordModulus = Lease
<1>1. Lease = LeaseSeconds * Milliseconds /\ LeaseSeconds * Milliseconds \in Nat
  BY DhcpAssumption DEF Lease
<1>2. \A a, m \in Nat : a < m => a % m = a
  OBVIOUS
<1>3. QED
  BY <1>1, <1>2, DhcpAssumption

\* Queues of at most one datagram.
LEMMA TypesSplit ==
  /\ Table => (TypeOK <=> OtherTypes)
  /\ Table' => (TypeOK' <=> OtherTypes')
<1> DEFINE C == ConnectionsOf({Port}, Answers, {1})
<1>1. ASSUME NEW table, IsTable(table, {Port}, Answers, {1}), NEW i \in DOMAIN table
      PROVE  Range(table[i].packet_queue) \subseteq Answers /\ Len(table[i].packet_queue) =< 1
  <2> HIDE DEF C
  <2>1. table \in Seq(C) /\ Counted(table[i])
    BY <1>1 DEF IsTable, C
  <2>2. table[i] \in C
    BY <2>1
  <2>3. table[i].packet_queue \in Seq(Answers) /\ table[i].max_packet_count = 1
    BY <2>2 DEF C, ConnectionsOf
  <2>4. QED
    BY <2>1, <2>3 DEF Counted, Range
<1>2. QED
  BY <1>1 DEF Table, TypeOK, OtherTypes

\* The fields of an answer.
LEMMA AnswerFields ==
  ASSUME NEW kind, NEW ip
  PROVE  /\ Answer(kind, ip).kind = kind /\ Answer(kind, ip).ip = ip
         /\ Answer(kind, ip).server = Pool[ip]
         /\ kind # "NACK" => Answer(kind, ip).netmask = NetmaskOf[Pool[ip]]
         /\ kind = "NACK" => Answer(kind, ip).netmask = NONE
BY DEF Answer

\* Any answer is one a server gave for one of its addresses.
LEMMA AnswerKinds ==
  ASSUME NEW m \in Answers
  PROVE  /\ m.ip \in Ips /\ m.server = Pool[m.ip] /\ m.server \in Servers
         /\ m = Answer(m.kind, m.ip)
         /\ m.kind # "NACK" => m.netmask = NetmaskOf[m.server]
         /\ m.netmask # NONE => m.netmask \in Netmasks
<1>1. PICK kind \in {"OFFER", "ACK", "NACK"}, ip \in Ips : m = Answer(kind, ip)
  BY DEF Answers
<1>2. Pool[ip] \in Servers
  BY DhcpAssumption DEF Servers
<1>3. NetmaskOf[Pool[ip]] \in Netmasks
  BY <1>2 DEF Netmasks
<1>4. QED
  BY <1>1, <1>2, <1>3, AnswerFields

\* What dhcp_read does to the queue and to the options it remembers.
LEMMA ReadEffect ==
  ASSUME Table, options_netmask \in Netmasks, DhcpRead
  PROVE  /\ Table' /\ Queued' \subseteq Queued
         /\ options_netmask' \in Netmasks
         /\ Waiting => /\ First \in Answers /\ First \in Queued
                       /\ First.kind = "OFFER" /\ First.netmask # NONE =>
                            options_netmask' = NetmaskOf[First.server]
<1>1. CASE ~Waiting
  BY <1>1 DEF DhcpRead, Table, Queued
<1>2. CASE Waiting
  <2>1. /\ First \in Answers /\ InQueue(used_connections, First)
        /\ IsTable(WithoutFirst(used_connections, Port), {Port}, Answers, {1})
        /\ \A d : InQueue(WithoutFirst(used_connections, Port), d) => InQueue(used_connections, d)
    BY <1>2, TakenFromTable DEF Table, Waiting, First
  <2>2. /\ used_connections' = WithoutFirst(used_connections, Port)
        /\ options_netmask' = IF First.netmask = NONE THEN options_netmask ELSE First.netmask
    BY <1>2 DEF DhcpRead
  <2>3. /\ First.netmask # NONE => First.netmask \in Netmasks
        /\ First.kind # "NACK" => First.netmask = NetmaskOf[First.server]
    BY <2>1, AnswerKinds
  <2>4. QED
    BY <2>1, <2>2, <2>3 DEF Table, Queued
<1>3. QED
  BY <1>1, <1>2

\* Nothing has happened.
LEMMA InitIInv == Init => IInv
<1> SUFFICES ASSUME Init PROVE IInv
  OBVIOUS
<1>1. Table /\ Queued = {}
  BY DEF Init, Table, Queued, IsTable, InQueue
<1>2. NoNetmask \in Netmasks
  BY DEF Netmasks
<1>3. OtherTypes
  BY <1>2, LeaseFits, DhcpAssumption DEF Init, OtherTypes
<1>4. RequestsAddress /\ LeaseKnown /\ AcksGranted /\ Configured
  BY <1>1 DEF Init, RequestsAddress, LeaseKnown, AcksGranted, Configured, Holds, IsDone
<1>5. QED
  BY <1>1, <1>3, <1>4, TypesSplit DEF IInv

\* What the client sends is for the address of its lease.
LEMMA SendsAddress ==
  ASSUME RequestsAddress, NEW kind, kind = "DISCOVER" \/ leased_ip \in Ips,
         to_server' \subseteq to_server \cup Packets(kind)
  PROVE  RequestsAddress'
<1>1. \A m \in Packets(kind) : m.kind = kind /\ m.ip = leased_ip
  BY DEF Packets
<1>2. QED
  BY <1>1 DEF RequestsAddress

\* Answers that have been read or lost need no grant any more.
LEMMA AcksKept ==
  ASSUME AcksGranted, to_client' \cup Queued' \subseteq to_client \cup Queued, granted' = granted
  PROVE  AcksGranted'
BY DEF AcksGranted, Answer

\* An ACK that is accepted is one the server granted.
LEMMA AcceptedIsGranted ==
  ASSUME Table, AcksGranted, IsAck
  PROVE  leased_ip \in granted
<1>1. First \in Answers /\ InQueue(used_connections, First)
  BY TakenFromTable DEF Table, Waiting, First, IsAck
<1>2. First = Answer("ACK", leased_ip) /\ leased_ip \in Ips
  BY <1>1, AnswerKinds DEF IsAck
<1>3. QED
  BY <1>1, <1>2 DEF AcksGranted, Queued

\* dhcp_task in DISCOVER.
LEMMA DiscoversKeepsIInv ==
  ASSUME IInv, NEW fires, Discovers(fires), UNCHANGED <<to_client, outside>>
  PROVE  IInv'
<1>1. Table /\ OtherTypes /\ options_netmask \in Netmasks
  BY TypesSplit DEF IInv, TypeOK
<1>2. /\ Table' /\ Queued' \subseteq Queued /\ options_netmask' \in Netmasks
      /\ Waiting => First \in Answers
  BY <1>1, ReadEffect DEF Discovers
<1>3. IsOffer => First.ip \in Ips /\ First.server = Pool[First.ip] /\ First.server \in Servers
  BY <1>2, AnswerKinds DEF IsOffer
<1>4. RequestsAddress'
  BY SendsAddress DEF IInv, Discovers, TimerSends
<1>5. AcksGranted'
  BY <1>2, AcksKept DEF IInv, outside
<1>6. OtherTypes'
  BY <1>1, <1>2, <1>3 DEF OtherTypes, Discovers, TimerCounts, lease, config, outside
<1>7. LeaseKnown' /\ Configured'
  BY <1>3 DEF Discovers, LeaseKnown, Configured, Holds, IsDone, lease
<1>8. QED
  BY <1>2, <1>4, <1>5, <1>6, <1>7, TypesSplit DEF IInv

\* dhcp_task in REQUESTING.
LEMMA RequestsKeepsIInv ==
  ASSUME IInv, NEW fires, Requests(fires), UNCHANGED <<to_client, outside>>
  PROVE  IInv'
<1>1. Table /\ OtherTypes /\ options_netmask \in Netmasks
  BY TypesSplit DEF IInv, TypeOK
<1>2. /\ Table' /\ Queued' \subseteq Queued /\ options_netmask' \in Netmasks
  BY <1>1, ReadEffect DEF Requests
<1>3. leased_ip \in Ips /\ server_ip = Pool[leased_ip]
  BY DEF IInv, LeaseKnown, Holds, Requests
<1>4. RequestsAddress'
  BY <1>3, SendsAddress DEF IInv, Requests, TimerSends
<1>5. AcksGranted'
  BY <1>2, AcksKept DEF IInv, outside
<1>6. IsAck => leased_ip \in granted
  BY AcceptedIsGranted DEF IInv
<1>7. Renewed => lease_time' = Lease /\ lease_time' \in 0 .. WordModulus - 1 /\ elapsed' \in 0 .. Lease + 1
  BY LeaseFits DEF Renewed
<1>8. OtherTypes'
  BY <1>1, <1>2, <1>7 DEF OtherTypes, Requests, TimerCounts, lease, config, outside
<1>9. LeaseKnown'
  BY <1>3 DEF Requests, LeaseKnown, lease
<1>10. Configured'
  BY <1>6, <1>7 DEF Requests, Configured, IsDone, lease, outside
<1>11. QED
  BY <1>2, <1>4, <1>5, <1>8, <1>9, <1>10, TypesSplit DEF IInv

\* dhcp_task in RENEWING.
LEMMA RenewsKeepsIInv ==
  ASSUME IInv, NEW fires, Renews(fires), UNCHANGED <<to_client, outside>>
  PROVE  IInv'
<1>1. Table /\ OtherTypes /\ options_netmask \in Netmasks
  BY TypesSplit DEF IInv, TypeOK
<1>2. /\ Table' /\ Queued' \subseteq Queued /\ options_netmask' \in Netmasks
  BY <1>1, ReadEffect DEF Renews
<1>3. leased_ip \in Ips /\ server_ip = Pool[leased_ip]
  BY DEF IInv, LeaseKnown, Holds, Renews
<1>4. RequestsAddress'
  BY <1>3, SendsAddress DEF IInv, Renews, TimerSends
<1>5. AcksGranted'
  BY <1>2, AcksKept DEF IInv, outside
<1>6. Renewed => lease_time' = Lease /\ lease_time' \in 0 .. WordModulus - 1 /\ elapsed' \in 0 .. Lease + 1
  BY LeaseFits DEF Renewed
<1>7. OtherTypes'
  BY <1>1, <1>2, <1>6 DEF OtherTypes, Renews, TimerCounts, lease, config, outside
<1>8. LeaseKnown'
  BY <1>3 DEF Renews, LeaseKnown, lease
<1>9. Configured'
  BY <1>6 DEF Renews, IInv, Configured, IsDone, lease, config, outside
<1>10. QED
  BY <1>2, <1>4, <1>5, <1>7, <1>8, <1>9, TypesSplit DEF IInv

\* dhcp_task in BOUND and REBINDING.
LEMMA WaitsKeepIInv ==
  ASSUME IInv, Bound \/ Rebinds, UNCHANGED <<to_client, outside>>
  PROVE  IInv'
<1>1. Table /\ OtherTypes
  BY TypesSplit DEF IInv
<1>2. Table' /\ Queued' = Queued
  BY <1>1 DEF Table, Queued, Bound, Rebinds
<1>3. AcksGranted'
  BY <1>2, AcksKept DEF IInv, outside
<1>4. OtherTypes' /\ RequestsAddress'
  BY <1>1 DEF OtherTypes, IInv, RequestsAddress, Bound, Rebinds, lease, config, outside
<1>5. LeaseKnown' /\ Configured'
  BY DEF IInv, LeaseKnown, Configured, Holds, IsDone, Bound, Rebinds, lease, config, outside
<1>6. QED
  BY <1>2, <1>3, <1>4, <1>5, TypesSplit DEF IInv

\* dhcp_start, dhcp_release, and steps that leave everything alone.
LEMMA CallsKeepIInv ==
  ASSUME IInv, DhcpStart \/ DhcpRelease \/ UNCHANGED vars
  PROVE  IInv'
<1>1. Table /\ OtherTypes
  BY TypesSplit DEF IInv
<1>2. Table' /\ Queued' \subseteq Queued
  <2>1. CASE DhcpStart
    <3> DEFINE later == Listening(used_connections, Port, 1)
    <3>1. Port \in {Port} /\ 1 \in {1} /\ 1 \in Nat
      OBVIOUS
    <3>2. /\ IsTable(later, {Port}, Answers, {1})
          /\ \A d : InQueue(later, d) => InQueue(used_connections, d)
      BY <1>1, <3>1, ListeningTable DEF Table
    <3>3. QED
      BY <2>1, <3>2 DEF Table, Queued, DhcpStart
  <2>2. CASE ~DhcpStart
    BY <1>1, <2>2 DEF Table, Queued, DhcpRelease, vars
  <2>3. QED
    BY <2>1, <2>2
<1>3. UNCHANGED <<lease, lease_time, options_netmask, config, to_client, outside>>
  BY DEF DhcpStart, DhcpRelease, vars, client
<1>4. RequestsAddress'
  <2>1. CASE DhcpRelease
    BY <2>1, SendsAddress DEF IInv, LeaseKnown, Holds, IsDone, DhcpRelease
  <2>2. CASE ~DhcpRelease
    BY <2>2 DEF IInv, RequestsAddress, DhcpStart, vars
  <2>3. QED
    BY <2>1, <2>2
<1>5. AcksGranted'
  BY <1>2, <1>3, AcksKept DEF IInv, outside
<1>6. OtherTypes'
  BY <1>1, <1>3, LeaseFits DEF OtherTypes, DhcpStart, DhcpRelease, vars, client, lease, config, outside
<1>7. LeaseKnown' /\ Configured'
  BY <1>3 DEF IInv, LeaseKnown, Configured, Holds, IsDone, DhcpStart, DhcpRelease, vars,
              client, lease, config, outside
<1>8. QED
  BY <1>2, <1>4, <1>5, <1>6, <1>7, TypesSplit DEF IInv

\* What a step that is none of the client's leaves alone is enough for the
\* client's part of the invariant.
LEMMA ClientKept ==
  ASSUME IInv, UNCHANGED <<state, lease, lease_time, config>>, granted \subseteq granted'
  PROVE  LeaseKnown' /\ Configured'
BY DEF IInv, LeaseKnown, Configured, Holds, IsDone, lease, config

\* The network, up to the queue.
LEMMA NetworkKeepsIInv ==
  ASSUME IInv, Lose \/ \E m \in to_client : Arrive(m)
  PROVE  IInv'
<1>1. Table /\ OtherTypes
  BY TypesSplit DEF IInv
<1>2. CASE Lose
  <2>1. /\ UNCHANGED <<client, used_connections, bindings, granted>>
        /\ to_server' \subseteq to_server /\ to_client' \subseteq to_client
    BY <1>2 DEF Lose
  <2>2. Table' /\ Queued' = Queued
    BY <1>1, <2>1 DEF Table, Queued
  <2>3. AcksGranted' /\ RequestsAddress'
    <3>1. AcksGranted'
      BY <2>1, <2>2, AcksKept DEF IInv
    <3>2. QED
      BY <2>1, <3>1 DEF IInv, RequestsAddress
  <2>4. OtherTypes'
    BY <1>1, <2>1 DEF OtherTypes, client, lease, config
  <2>5. LeaseKnown' /\ Configured'
    BY <2>1, ClientKept DEF client
  <2>6. QED
    BY <2>2, <2>3, <2>4, <2>5, TypesSplit DEF IInv
<1>3. CASE \E m \in to_client : Arrive(m)
  <2>1. PICK m \in to_client : Arrive(m)
    BY <1>3
  <2>2. /\ UNCHANGED <<client, to_server, outside>> /\ to_client' \subseteq to_client
        /\ \/ used_connections' = used_connections
           \/ used_connections' = WithPacket(used_connections, Port, m)
    BY <2>1 DEF Arrive
  <2>3. m \in Answers
    BY <1>1 DEF OtherTypes
  <2>4. Table' /\ Queued' \subseteq Queued \cup {m}
    <3>1. /\ IsTable(WithPacket(used_connections, Port, m), {Port}, Answers, {1})
          /\ \A d : InQueue(WithPacket(used_connections, Port, m), d) =>
                      InQueue(used_connections, d) \/ d = m
      BY <1>1, <2>3, ArrivedInTable DEF Table
    <3>2. QED
      BY <1>1, <2>2, <3>1 DEF Table, Queued
  <2>5. AcksGranted'
    BY <2>2, <2>4, AcksKept DEF IInv, outside
  <2>6. OtherTypes' /\ RequestsAddress'
    BY <1>1, <2>2 DEF OtherTypes, IInv, RequestsAddress, client, lease, config, outside
  <2>7. LeaseKnown' /\ Configured'
    BY <2>2, ClientKept DEF client, outside
  <2>8. QED
    BY <2>4, <2>5, <2>6, <2>7, TypesSplit DEF IInv
<1>4. QED
  BY <1>2, <1>3

\* The clock.
LEMMA TickKeepsIInv == IInv /\ Tick => IInv'
<1> SUFFICES ASSUME IInv, Tick PROVE IInv'
  OBVIOUS
<1>1. Table /\ OtherTypes
  BY TypesSplit DEF IInv
<1>2. elapsed' \in 0 .. Lease + 1
  <2> DEFINE S == {elapsed + 1, Lease + 1}
  <2>1. S \subseteq 0 .. Lease + 2 /\ S \subseteq Nat /\ S # {} /\ Lease + 1 \in S
    BY <1>1, LeaseFits DEF OtherTypes
  <2> HIDE DEF S
  <2>2. Min(S) \in S /\ \A n \in S : Min(S) =< n
    BY <2>1, MinOfNat
  <2>3. elapsed' = Min(S)
    BY DEF Tick, S
  <2>4. Min(S) \in Nat /\ Min(S) =< Lease + 1
    BY <2>1, <2>2
  <2>5. QED
    BY <2>3, <2>4, LeaseFits
<1>3. bindings' \in [Ips -> 0 .. Lease]
  <2>1. SUFFICES ASSUME NEW ip \in Ips PROVE Max({bindings[ip] - 1, 0}) \in 0 .. Lease
    BY DEF Tick
  <2>2. bindings[ip] \in 0 .. Lease
    BY <1>1 DEF OtherTypes
  <2>3. \A a \in Int : \E x \in {a, 0} : \A y \in {a, 0} : x >= y
    OBVIOUS
  <2>4. /\ Max({bindings[ip] - 1, 0}) \in {bindings[ip] - 1, 0}
        /\ Max({bindings[ip] - 1, 0}) >= 0
    BY <2>2, <2>3, LeaseFits DEF Max
  <2>5. QED
    BY <2>2, <2>4, LeaseFits
<1>4. Table' /\ Queued' = Queued
  BY <1>1 DEF Table, Queued, Tick
<1>5. AcksGranted' /\ RequestsAddress'
  <2>1. AcksGranted'
    BY <1>4, AcksKept DEF IInv, Tick
  <2>2. QED
    BY <2>1 DEF IInv, RequestsAddress, Tick
<1>6. OtherTypes'
  BY <1>1, <1>2, <1>3 DEF OtherTypes, Tick, lease, config
<1>7. LeaseKnown' /\ Configured'
  BY ClientKept DEF Tick
<1>8. QED
  BY <1>4, <1>5, <1>6, <1>7, TypesSplit DEF IInv

\* An answer that is not an ACK is none for any address.
LEMMA AnswersDiffer ==
  ASSUME NEW kind \in {"OFFER", "ACK", "NACK"}, NEW ip \in Ips
  PROVE  /\ Answer(kind, ip) \in Answers
         /\ \A other \in Ips : Answer("ACK", other) = Answer(kind, ip) =>
                                 kind = "ACK" /\ other = ip
<1>1. Answer(kind, ip) \in Answers
  BY DEF Answers
<1>2. QED
  BY <1>1, AnswerFields

\* The servers and the other clients.
LEMMA ServersKeepIInv ==
  ASSUME IInv, (\E s \in Servers : Server(s)) \/ (\E ip \in Ips : OtherClient(ip))
  PROVE  IInv'
<1>1. Table /\ OtherTypes
  BY TypesSplit DEF IInv
<1>2. UNCHANGED <<client, used_connections>> /\ to_server' \subseteq to_server
  BY DEF Server, OtherClient, ServerOffers, ServerAnswers, ServerReleases, Handles
<1>3. Table' /\ Queued' = Queued /\ RequestsAddress'
  <2>1. Table' /\ Queued' = Queued
    BY <1>1, <1>2 DEF Table, Queued
  <2>2. QED
    BY <1>2, <2>1 DEF IInv, RequestsAddress
<1> DEFINE Answered ==
             /\ to_client' \subseteq Answers /\ bindings' \in [Ips -> 0 .. Lease]
             /\ granted \subseteq granted'
             /\ \A ip \in Ips : Answer("ACK", ip) \in to_client' =>
                                  Answer("ACK", ip) \in to_client \/ ip \in granted'
<1>4. Answered
  <2>1. to_client \subseteq Answers /\ bindings \in [Ips -> 0 .. Lease]
    BY <1>1 DEF OtherTypes
  <2>2. ASSUME UNCHANGED <<to_client, granted>>, bindings' \in [Ips -> 0 .. Lease] PROVE Answered
    BY <2>1, <2>2
  <2>3. ASSUME NEW ip \in Ips, NEW kind \in {"OFFER", "NACK"},
               to_client' = to_client \cup {Answer(kind, ip)}, UNCHANGED <<bindings, granted>>
        PROVE  Answered
    <3>1. /\ Answer(kind, ip) \in Answers
          /\ \A other \in Ips : Answer("ACK", other) # Answer(kind, ip)
      BY AnswersDiffer
    <3>2. QED
      BY <2>1, <2>3, <3>1
  <2>4. ASSUME NEW ip \in Ips, Grants(ip) PROVE Answered
    <3>1. /\ Answer("ACK", ip) \in Answers
          /\ \A other \in Ips : Answer("ACK", other) = Answer("ACK", ip) => other = ip
      BY AnswersDiffer
    <3>2. bindings' \in [Ips -> 0 .. Lease]
      BY <2>1, <2>4, LeaseFits DEF Grants
    <3>3. QED
      BY <2>1, <2>4, <3>1, <3>2 DEF Grants
  <2>5. CASE \E ip \in Ips : OtherClient(ip)
    BY <2>1, <2>2, <2>5 DEF OtherClient
  <2>6. ASSUME NEW s \in Servers, ServerOffers(s) PROVE Answered
    <3>1. \/ UNCHANGED <<to_client, bindings, granted>>
          \/ \E ip \in Ips : /\ to_client' = to_client \cup {Answer("OFFER", ip)}
                             /\ UNCHANGED <<bindings, granted>>
      BY <2>6 DEF ServerOffers
    <3> HIDE DEF Answered
    <3>2. QED
      BY <2>1, <2>2, <2>3, <3>1
  <2>7. ASSUME NEW s \in Servers, ServerAnswers(s) PROVE Answered
    <3>1. PICK m \in to_server :
            /\ m.kind \in {"REQUEST", "RENEW"}
            /\ \/ UNCHANGED <<to_client, bindings, granted>>
               \/ Refuses(m.ip) \/ Grants(m.ip)
      BY <2>7 DEF ServerAnswers, Handles
    <3>2. m.ip \in Ips
      BY <3>1 DEF IInv, RequestsAddress
    <3>3. CASE Refuses(m.ip)
      BY <2>3, <3>2, <3>3 DEF Refuses
    <3>4. CASE Grants(m.ip)
      BY <2>4, <3>2, <3>4
    <3> HIDE DEF Answered
    <3>5. QED
      BY <2>1, <2>2, <3>1, <3>3, <3>4
  <2>8. ASSUME NEW s \in Servers, ServerReleases(s) PROVE Answered
    <3>1. PICK m \in to_server :
            /\ bindings' = IF m.server = s THEN [bindings EXCEPT ![m.ip] = 0] ELSE bindings
            /\ UNCHANGED <<to_client, granted>>
      BY <2>8 DEF ServerReleases, Handles
    <3>2. \A ip : [bindings EXCEPT ![ip] = 0] \in [Ips -> 0 .. Lease]
      <4>1. 0 \in 0 .. Lease
        BY LeaseFits
      <4>2. QED
        BY <2>1, <4>1
    <3>3. bindings' \in [Ips -> 0 .. Lease]
      BY <2>1, <3>1, <3>2
    <3>4. QED
      BY <2>2, <3>1, <3>3
  <2> HIDE DEF Answered
  <2>9. QED
    BY <2>5, <2>6, <2>7, <2>8 DEF Server
<1>5. AcksGranted'
  BY <1>3, <1>4 DEF IInv, AcksGranted, Answer
<1>6. OtherTypes'
  BY <1>1, <1>2, <1>4 DEF OtherTypes, client, lease, config
<1>7. LeaseKnown' /\ Configured'
  BY <1>2, <1>4, ClientKept DEF client
<1>8. QED
  BY <1>3, <1>5, <1>6, <1>7, TypesSplit DEF IInv

\* Every step keeps the invariant.
LEMMA NextIInv == IInv /\ [Next]_vars => IInv'
<1> SUFFICES ASSUME IInv, [Next]_vars PROVE IInv'
  OBVIOUS
<1>1. CASE DhcpTask
  BY <1>1, DiscoversKeepsIInv, RequestsKeepsIInv, RenewsKeepsIInv, WaitsKeepIInv DEF DhcpTask, Task
<1>2. CASE DhcpStart \/ DhcpRelease \/ UNCHANGED vars
  BY <1>2, CallsKeepIInv
<1>3. CASE Lose \/ \E m \in to_client : Arrive(m)
  BY <1>3, NetworkKeepsIInv
<1>4. CASE Tick
  BY <1>4, TickKeepsIInv
<1>5. CASE (\E s \in Servers : Server(s)) \/ (\E ip \in Ips : OtherClient(ip))
  BY <1>5, ServersKeepIInv
<1>6. QED
  BY <1>1, <1>2, <1>3, <1>4, <1>5 DEF Next

\* The invariant holds for any servers.
LEMMA AlwaysIInv == Spec => []IInv
BY InitIInv, NextIInv, PTL DEF Spec

\* The client, its queue and the wire stay in their types: a lease time fits a
\* u32, no connection keeps more than its one datagram, and only addresses that
\* a server leases are asked for and answered.
THEOREM TypeCorrect == Spec => []TypeOK
<1>1. IInv => TypeOK
  BY DEF IInv
<1>2. QED
  BY <1>1, AlwaysIInv, PTL

-----------------------------------------------------------------------------

\* The netmask of the lease is the one its server sends.
Agreed == Holds => netmask = NetmaskOf[server_ip]

\* Only an offer changes the lease, and it brings the netmask along.
LEMMA AgreedKept ==
  ASSUME \A s \in Servers : NetmaskOf[s] # NONE, IInv, Agreed, [Next]_vars
  PROVE  Agreed'
<1>1. Table /\ options_netmask \in Netmasks
  BY DEF IInv, TypeOK
<1>2. ASSUME NEW fires, Discovers(fires) PROVE Agreed'
  <2>1. CASE IsOffer
    <3>1. /\ DhcpRead /\ Waiting /\ First.kind = "OFFER"
          /\ netmask' = options_netmask' /\ server_ip' = First.server
      BY <1>2, <2>1 DEF Discovers, IsOffer
    <3>2. First \in Answers
      BY <1>1, <3>1, ReadEffect
    <3>3. First.netmask = NetmaskOf[First.server] /\ First.server \in Servers
      BY <3>1, <3>2, AnswerKinds
    <3>4. options_netmask' = NetmaskOf[First.server]
      BY <1>1, <3>1, <3>3, ReadEffect
    <3>5. QED
      BY <3>1, <3>4 DEF Agreed
  <2>2. CASE ~IsOffer
    BY <1>2, <2>2 DEF Discovers, Agreed, Holds, lease
  <2>3. QED
    BY <2>1, <2>2
<1>3. ASSUME NEW fires, Requests(fires) \/ Renews(fires) PROVE Agreed'
  BY <1>3 DEF Requests, Renews, Agreed, Holds, lease
<1>4. CASE Bound \/ Rebinds
  BY <1>4 DEF Bound, Rebinds, Agreed, Holds, lease
<1>5. CASE DhcpStart
  BY <1>5 DEF DhcpStart, Agreed, Holds
<1>6. CASE UNCHANGED <<state, lease>>
  BY <1>6 DEF Agreed, Holds, lease
<1>7. \/ DhcpTask \/ DhcpStart \/ UNCHANGED <<state, lease>>
  BY DEF Next, vars, client, DhcpRelease, Arrive, Lose, Tick, Server, OtherClient
<1>8. QED
  BY <1>2, <1>3, <1>4, <1>5, <1>6, <1>7 DEF DhcpTask, Task

\* Whatever offers, answers to older requests and refusals are on the wire, and
\* whatever is lost: the address, the server and the netmask that dhcp_task
\* configures are those of one lease, and its server granted it.  The servers
\* send their netmask: for one that does not, dhcp_read leaves the netmask of
\* an earlier datagram in `options`.
THEOREM ConfiguredFromOneLease ==
  ASSUME \A s \in Servers : NetmaskOf[s] # NONE
  PROVE  Spec => []ConfiguredAsGranted
<1>1. Init => Agreed
  BY DEF Init, Agreed, Holds
<1>2. IInv /\ Agreed /\ [Next]_vars => Agreed'
  BY AgreedKept
<1>3. IInv /\ Agreed => ConfiguredAsGranted
  BY DEF IInv, Agreed, LeaseKnown, Configured, Holds, IsDone, ConfiguredAsGranted
<1>4. QED
  BY <1>1, <1>2, <1>3, AlwaysIInv, PTL DEF Spec
=============================================================================
