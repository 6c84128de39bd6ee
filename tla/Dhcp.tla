-------------------------------- MODULE Dhcp --------------------------------
(***************************************************************************)
(* src/dhcp.c: the DHCP client, over the queue udp.c keeps for its port    *)
(* and behind the address filter of ip.c, with DHCP servers and a network  *)
(* that loses, delays and reorders datagrams.                              *)
(*                                                                         *)
(* One call of dhcp_task is one step; a branch of it is an action.  The    *)
(* client keeps one transaction id, so any reply to it matches.  Of the    *)
(* static structure `options`, which survives from one datagram to the     *)
(* next, only the netmask can be used without having been received: the    *)
(* other fields are read only if their bit is set in options.mask.  The    *)
(* back-off timer is as in Tftp.  A tick of the clock is a fixed share of  *)
(* the lease.                                                              *)
(***************************************************************************)
EXTENDS UdpQueues

CONSTANTS
  Ips,               \* addresses the servers lease
  Pool,              \* the server that leases each of them
  NetmaskOf,         \* the netmask each server sends, NONE if it does not
  NONE,
  LeaseSeconds,      \* the lease time option
  Milliseconds,      \* 1000
  WordModulus,       \* 2^32: lease times are u32
  NackHasLease,      \* whether a NACK carries a lease time option
  BroadcastReplies,  \* whether offers and ACKs are broadcast or sent to the
                     \* address they offer
  MayRelease,        \* whether dhcp_release is called
  MaxTaken,          \* bound: addresses given to other clients
  MaxLosses,         \* bound: datagrams the network loses
  MaxOnWire,         \* bound: datagrams on the wire after a send
  MaxTicks           \* bound: clock ticks

ASSUME DhcpAssumption ==
  /\ IsFiniteSet(Ips) /\ Pool \in [Ips -> DOMAIN NetmaskOf]
  /\ LeaseSeconds \in Nat /\ Milliseconds \in Nat
  /\ WordModulus \in Nat \ {0} /\ LeaseSeconds * Milliseconds < WordModulus
  /\ NackHasLease \in BOOLEAN /\ BroadcastReplies \in BOOLEAN /\ MayRelease \in BOOLEAN
  /\ MaxTaken \in Nat /\ MaxTaken < Cardinality(Ips)
  /\ MaxLosses \in Nat /\ MaxTicks \in Nat /\ MaxOnWire \in Nat

Servers == DOMAIN NetmaskOf
Port == 68               \* DHCP_CLIENT_PORT
NoNetmask == "0.0.0.0"   \* options.netmask before one was received
Lease == LeaseSeconds * Milliseconds

VARIABLES
  state,            \* dhcp.state, without the prefix DHCP_
  leased_ip, server_ip, netmask, lease_time,   \* the fields of dhcp
  elapsed,          \* get_elapsed(dhcp.time, get_time())
  backoff_count,    \* 0, or 1 for any greater count
  options_netmask,  \* options.netmask
  our_ip, our_netmask,   \* the variables of network.c
  used_connections, \* the connections of udp.c
  to_server, to_client,  \* datagrams on the wire
  bindings,         \* ticks each address stays bound to us at its server
  taken,            \* addresses leased to other clients
  granted,          \* addresses a server has ACKed to us so far
  losses, ticks

lease   == <<leased_ip, server_ip, netmask>>
config  == <<our_ip, our_netmask>>
client  == <<state, lease, lease_time, elapsed, backoff_count, options_netmask, config>>
outside == <<bindings, taken, granted, losses, ticks>>
vars    == <<client, used_connections, to_server, to_client, outside>>

-----------------------------------------------------------------------------

Init ==
  /\ state = "DISABLED"
  /\ leased_ip = NONE /\ server_ip = NONE /\ netmask = NoNetmask
  /\ lease_time = 0 /\ elapsed = 0
  /\ backoff_count = 0
  /\ options_netmask = NoNetmask
  /\ our_ip = NONE /\ our_netmask = NoNetmask
  /\ used_connections = <<>>
  /\ to_server = {} /\ to_client = {}
  /\ bindings = [ip \in Ips |-> 0]
  /\ taken = {} /\ granted = {}
  /\ losses = 0 /\ ticks = 0

\* The application starts the client once.
DhcpStart ==
  /\ state = "DISABLED"
  /\ state' = "DISCOVER"
  /\ elapsed' = 0
  /\ backoff_count' = 0
  /\ used_connections' = Listening(used_connections, Port, 1)
  /\ UNCHANGED <<lease, lease_time, options_netmask, config, to_server, to_client, outside>>

\* What dhcp_send_packet broadcasts; each server gets its copy.
Packets(kind) == {[kind |-> kind, ip |-> leased_ip, server |-> server_ip, at |-> s] : s \in Servers}

HasRoom == Cardinality(to_server) + Cardinality(to_client) + Cardinality(Servers) =< MaxOnWire

TimeoutOnce ==   \* mutant: the timer fires after a reset only
  IF backoff_count = 0 THEN {TRUE} ELSE {FALSE}

\* backoff_timeout: the possible outcomes.
Timeout == IF backoff_count = 0 THEN {TRUE} ELSE BOOLEAN

TimerSends(fires, kind) ==
  /\ fires => HasRoom
  /\ to_server' = to_server \cup IF fires THEN Packets(kind) ELSE {}

TimerCounts(fires) == backoff_count' = IF fires THEN 1 ELSE backoff_count

-----------------------------------------------------------------------------
(* dhcp_read, try_read_offer, try_read_ack. *)

Waiting == HasPacket(used_connections, Port)
First   == FirstPacket(used_connections, Port)

\* The packet is taken from the queue and freed, its options are remembered.
DhcpRead ==
  IF Waiting
  THEN /\ used_connections' = WithoutFirst(used_connections, Port)
       /\ options_netmask' = IF First.netmask = NONE THEN options_netmask ELSE First.netmask
  ELSE UNCHANGED <<used_connections, options_netmask>>

IsOffer == Waiting /\ First.kind = "OFFER" /\ First.has_lease

IsNack == Waiting /\ First.kind = "NACK" /\ First.has_lease

IsAckAny ==   \* mutant: the address in the ACK is not compared
  Waiting /\ First.kind = "ACK" /\ First.has_lease

IsAck ==
  /\ Waiting /\ First.kind = "ACK" /\ First.has_lease
  /\ netmask = IF First.netmask = NONE THEN options_netmask ELSE First.netmask
  /\ First.server = server_ip
  /\ First.ip = leased_ip

\* An ACK restarts the lease.
Renewed ==
  /\ elapsed' = 0
  /\ lease_time' = (LeaseSeconds * Milliseconds) % WordModulus

-----------------------------------------------------------------------------
(* dhcp_task *)

Discovers(fires) ==
  /\ state = "DISCOVER"
  /\ TimerSends(fires, "DISCOVER")
  /\ DhcpRead
  /\ IF IsOffer
     THEN /\ state' = "REQUESTING"
          /\ leased_ip' = First.ip
          /\ server_ip' = First.server
          /\ netmask' = options_netmask'
          /\ backoff_count' = 0
     ELSE TimerCounts(fires) /\ UNCHANGED <<state, lease>>
  /\ UNCHANGED <<lease_time, elapsed, config>>

Requests(fires) ==
  /\ state = "REQUESTING"
  /\ TimerSends(fires, "REQUEST")
  /\ DhcpRead
  /\ \/ /\ IsAck
        /\ Renewed
        /\ state' = "BOUND"
        /\ our_ip' = leased_ip
        /\ our_netmask' = netmask
        /\ TimerCounts(fires)
     \/ /\ IsNack
        /\ state' = "DISCOVER"
        /\ backoff_count' = 0
        /\ UNCHANGED <<lease_time, elapsed, config>>
     \/ /\ ~IsAck /\ ~IsNack
        /\ TimerCounts(fires)
        /\ UNCHANGED <<state, lease_time, elapsed, config>>
  /\ UNCHANGED lease

RenewingExpiredExactly ==   \* mutant: a poll that comes late misses the timer
  elapsed = lease_time \div 2 + 1

RenewingExpired == elapsed > lease_time \div 2

RebindingExpired == elapsed > ((3 * lease_time) % WordModulus) \div 4

\* In this state the queue is not read: what arrives waits for the next one.
Bound ==
  /\ state = "BOUND"
  /\ RenewingExpired
  /\ state' = "RENEWING"
  /\ backoff_count' = 0
  /\ UNCHANGED <<lease, lease_time, elapsed, options_netmask, config,
                 used_connections, to_server>>

\* An answer in the queue overrules the change to REBINDING; the timer is not
\* reset by a NACK.
Renews(fires) ==
  /\ state = "RENEWING"
  /\ TimerSends(fires, "RENEW")
  /\ TimerCounts(fires)
  /\ DhcpRead
  /\ \/ /\ IsAck
        /\ Renewed
        /\ state' = "BOUND"
     \/ /\ IsNack
        /\ state' = "DISCOVER"
        /\ UNCHANGED <<lease_time, elapsed>>
     \/ /\ ~IsAck /\ ~IsNack
        /\ state' = IF RebindingExpired THEN "REBINDING" ELSE "RENEWING"
        /\ UNCHANGED <<lease_time, elapsed>>
  /\ UNCHANGED <<lease, config>>

\* Nothing is sent and nothing is read until the lease is over.
Rebinds ==
  /\ state = "REBINDING"
  /\ elapsed >= lease_time
  /\ state' = "DISCOVER"
  /\ backoff_count' = 0
  /\ UNCHANGED <<lease, lease_time, elapsed, options_netmask, config,
                 used_connections, to_server>>

Task(fires) ==
  /\ Discovers(fires) \/ Requests(fires) \/ Renews(fires)
  /\ UNCHANGED <<to_client, outside>>

DhcpTask ==
  \/ \E fires \in Timeout : Task(fires)
  \/ (Bound \/ Rebinds) /\ UNCHANGED <<to_client, outside>>

\* dhcp_is_done
IsDone == state \in {"BOUND", "RENEWING", "REBINDING"}

\* dhcp_release tells the server and leaves the client as it is.  The
\* application has something to release while dhcp_is_done().
DhcpRelease ==
  /\ MayRelease /\ HasRoom
  /\ IsDone
  /\ to_server' = to_server \cup Packets("RELEASE")
  /\ UNCHANGED <<client, used_connections, to_client, outside>>

-----------------------------------------------------------------------------
(* The network, up to handle_udp, and the clock. *)

\* should_filter_away
Accepted(m) == \/ our_ip \in {NONE, m.ip}
               \/ BroadcastReplies
               \/ m.kind = "NACK"

Arrive(m) ==
  /\ m \in to_client
  /\ to_client' = to_client \ {m}
  /\ used_connections' = IF Accepted(m) THEN WithPacket(used_connections, Port, m)
                                        ELSE used_connections
  /\ UNCHANGED <<client, to_server, outside>>

Lose ==
  /\ losses < MaxLosses
  /\ losses' = losses + 1
  /\ \/ \E m \in to_server : to_server' = to_server \ {m} /\ UNCHANGED to_client
     \/ \E m \in to_client : to_client' = to_client \ {m} /\ UNCHANGED to_server
  /\ UNCHANGED <<client, used_connections, bindings, taken, granted, ticks>>

\* A datagram on the wire arrives, and a state that reads the queue has read
\* it, within a tick: a tick is a share of the lease, not a millisecond.
Tick ==
  /\ ticks < MaxTicks
  /\ to_server = {} /\ to_client = {}
  /\ state \in {"DISCOVER", "REQUESTING", "RENEWING"} => ~Waiting
  /\ ticks' = ticks + 1
  /\ elapsed' = Min({elapsed + 1, Lease + 1})
  /\ bindings' = [ip \in Ips |-> Max({bindings[ip] - 1, 0})]
  /\ UNCHANGED <<state, lease, lease_time, backoff_count, options_netmask, config,
                 used_connections, to_server, to_client, taken, granted, losses>>

-----------------------------------------------------------------------------
(* The servers. *)

Answer(kind, ip) == [kind |-> kind, ip |-> ip, server |-> Pool[ip],
                     netmask |-> IF kind = "NACK" THEN NONE ELSE NetmaskOf[Pool[ip]],
                     has_lease |-> kind # "NACK" \/ NackHasLease]

Handles(s, kind) ==
  {m \in to_server : m.at = s /\ m.kind = kind}

ServerOffers(s) ==
  \E m \in Handles(s, "DISCOVER") :
    /\ to_server' = to_server \ {m}
    /\ \/ \E ip \in Ips \ taken :
            Pool[ip] = s /\ to_client' = to_client \cup {Answer("OFFER", ip)}
       \/ (\A ip \in Ips \ taken : Pool[ip] # s) /\ UNCHANGED to_client
    /\ UNCHANGED <<bindings, granted>>

Grants(ip) ==
  /\ to_client' = to_client \cup {Answer("ACK", ip)}
  /\ bindings' = [bindings EXCEPT ![ip] = Lease]
  /\ granted' = granted \cup {ip}

Refuses(ip) ==
  /\ to_client' = to_client \cup {Answer("NACK", ip)}
  /\ UNCHANGED <<bindings, granted>>

ServerAnswers(s) ==
  \E m \in Handles(s, "REQUEST") \cup Handles(s, "RENEW") :
    /\ to_server' = to_server \ {m}
    /\ IF Pool[m.ip] # s
       THEN UNCHANGED <<to_client, bindings, granted>>
       ELSE IF m.ip \in taken \/ (m.kind = "RENEW" /\ bindings[m.ip] = 0)
            THEN Refuses(m.ip)
            ELSE Grants(m.ip)

ServerReleases(s) ==
  \E m \in Handles(s, "RELEASE") :
    /\ to_server' = to_server \ {m}
    /\ bindings' = IF m.server = s THEN [bindings EXCEPT ![m.ip] = 0] ELSE bindings
    /\ UNCHANGED <<to_client, granted>>

Server(s) ==
  /\ ServerOffers(s) \/ ServerAnswers(s) \/ ServerReleases(s)
  /\ UNCHANGED <<client, used_connections, taken, losses, ticks>>

OtherClient(ip) ==
  /\ ip \notin taken
  /\ bindings[ip] = 0
  /\ Cardinality(taken) < MaxTaken
  /\ taken' = taken \cup {ip}
  /\ UNCHANGED <<client, used_connections, to_server, to_client, bindings, granted,
                 losses, ticks>>

-----------------------------------------------------------------------------

Next ==
  \/ DhcpStart \/ DhcpTask \/ DhcpRelease
  \/ \E m \in to_client : Arrive(m)
  \/ Lose
  \/ Tick
  \/ \E s \in Servers : Server(s)
  \/ \E ip \in Ips : OtherClient(ip)

Spec == Init /\ [][Next]_vars

UsefulTask == DhcpTask /\ state' # state

Answers == {Answer(kind, ip) : kind \in {"OFFER", "ACK", "NACK"}, ip \in Ips}

\* The main loop polls and its back-off timer fires, datagrams arrive, the
\* servers answer.  Strong fairness: the datagrams that wait behind the newest
\* one do not push it out of the queue before every single poll.
LiveSpec ==
  /\ Spec
  /\ WF_vars(DhcpTask) /\ WF_vars(TRUE \in Timeout /\ Task(TRUE)) /\ SF_vars(UsefulTask)
  /\ \A m \in Answers : WF_vars(Arrive(m))
  /\ \A s \in Servers : WF_vars(Server(s))
  /\ WF_vars(Tick)

-----------------------------------------------------------------------------

Netmasks == {NetmaskOf[s] : s \in Servers} \cup {NoNetmask}

\* The client, its queue and the wire stay in their types.
TypeOK ==
  /\ state \in {"DISABLED", "DISCOVER", "REQUESTING", "BOUND", "RENEWING", "REBINDING"}
  /\ leased_ip \in Ips \cup {NONE} /\ server_ip \in Servers \cup {NONE}
  /\ netmask \in Netmasks /\ options_netmask \in Netmasks /\ our_netmask \in Netmasks
  /\ lease_time \in 0 .. WordModulus - 1 /\ elapsed \in 0 .. Lease + 1
  /\ backoff_count \in {0, 1}
  /\ our_ip \in Ips \cup {NONE}
  /\ to_client \subseteq Answers
  /\ bindings \in [Ips -> 0 .. Lease]
  /\ \A i \in DOMAIN used_connections :
       /\ Range(used_connections[i].packet_queue) \subseteq Answers
       /\ Len(used_connections[i].packet_queue) =< 1

\* The network configuration is that of the lease, and the lease is one that
\* its server granted: no answer to an older request, and no offer of another
\* server, is ever mixed into it.
ConfiguredAsGranted ==
  IsDone =>
    /\ our_ip = leased_ip /\ our_ip \in granted
    /\ server_ip = Pool[our_ip]
    /\ our_netmask = netmask /\ netmask = NetmaskOf[server_ip]

\* A lease that is over is given up, or was renewed: from each of the three
\* states in which the client counts on it, however late it is polled, whatever
\* answers come in between, and while the application releases it.
LeaseIsGivenUp ==
  (IsDone /\ elapsed >= lease_time) ~> (~IsDone \/ elapsed < lease_time)

\* REBINDING is entered in the last quarter of the lease, so that RENEWING had
\* its share of it.  Only leases whose triple fits a u32 have this.
RenewingHasItsTime ==
  [][state = "RENEWING" /\ state' = "REBINDING" => 4 * elapsed > 3 * Lease]_vars

\* While the client counts on its lease no other client is given the address.
LeaseHonoured == IsDone /\ elapsed < Lease => our_ip \notin taken

\* A client that looks for an address gets one.
AddressObtained == state = "DISCOVER" ~> state = "BOUND"

\* The client tries to rebind before the lease is over.
RebindIsTried == (state = "REBINDING") ~> (\E m \in to_server : m.kind = "REBIND")
==============================================================================
