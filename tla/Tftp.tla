-------------------------------- MODULE Tftp --------------------------------
(***************************************************************************)
(* src/tftp.c: the TFTP client, over the queue udp.c keeps for its port,   *)
(* with a TFTP server that supports options (RFC 1350, RFC 2347) and a     *)
(* network that loses, repeats and delays datagrams.                       *)
(*                                                                         *)
(* One call of tftp_read is one step; a branch of it is an action.  The    *)
(* back-off timer fires at once when its count is 0 and at any call after  *)
(* that: how long it waits is left to Backoff.  Datagrams on the wire stay *)
(* there until they are lost, so that each may arrive any number of times, *)
(* in any order; the file of download d is the file d.  The client         *)
(* compares ports, never addresses, so other hosts may answer it as well:  *)
(* theirs is the file 0.                                                   *)
(***************************************************************************)
EXTENDS UdpQueues

CONSTANTS
  Tids,            \* the ports a server picks, one for every request it sees
  StrayPorts,      \* those from which another host sends to the client too
  LastBlock,       \* number of DATA blocks of a file
  LastSize,        \* bytes in the last one: 0 if the size is a multiple of 512
  BlockModulus,    \* 2^16: the block number is a u16
  OackNumber,      \* 25196: what the letters "bl" of an OACK are as a number
  BufferSize,      \* `size`: what the caller has room for in one tftp_read
  MaxFilenameLength, \* 64: TFTP_MAX_FILENAME_LENGTH
  NamesShrink,     \* whether each file has a shorter name than the one before
  ErrorCodes,      \* codes of the ERROR datagrams the server sends
  MayAbort,        \* whether the application calls tftp_abort_download
  MaxDownloads,    \* bound: calls of tftp_download_file
  MaxLosses        \* bound: datagrams the network loses

Port == 23456           \* TFTP_CLIENT_PORT
InitialServerPort == 69 \* TFTP_INITIAL_SERVER_PORT

\* A server listens for requests on the initial port and picks any other.
ASSUME TftpAssumption ==
  /\ InitialServerPort \notin Tids /\ StrayPorts \subseteq Tids
  /\ LastBlock \in Nat \ {0} /\ LastSize \in 0 .. 511
  /\ BlockModulus \in Nat /\ BlockModulus > 1
  /\ OackNumber \in 0 .. BlockModulus - 1
  /\ ErrorCodes \subseteq 0 .. BlockModulus - 1
  /\ BufferSize \in Nat \ {0} /\ MaxFilenameLength \in Nat \ {0}
  /\ NamesShrink \in BOOLEAN /\ MayAbort \in BOOLEAN
  /\ MaxDownloads \in Nat /\ MaxLosses \in Nat

Numbers == 0 .. BlockModulus - 1
Files == 1 .. MaxDownloads

\* The name of a file: a letter of its own, repeated.
Name(file) ==
  [k \in 1 .. IF NamesShrink THEN MaxDownloads + 1 - file ELSE file |-> file]

VARIABLES
  state,             \* TFTP_STATE_...; IDLE before tftp_download_file
  block_number,      \* of the last block returned to the caller
  server_port,
  filename,          \* the characters up to the first zero, or all of them
  backoff_count,     \* 0, or 1 for any greater count
  used_connections,  \* the connections of udp.c
  download,          \* which call of tftp_download_file this is
  delivered,         \* what tftp_read returned during this download
  server,            \* the transfers of the server
  network,           \* the datagrams on the wire
  losses

client   == <<state, block_number, server_port, filename, backoff_count, download, delivered>>
vars     == <<client, used_connections, server, network, losses>>

-----------------------------------------------------------------------------
(* Datagrams.  The client reads the bytes 2 and 3 of all of them as a block *)
(* number: those of an ERROR are its code, those of an OACK the letters of *)
(* "blksize".                                                              *)

ReadRequest(name) == [kind |-> "RRQ", name |-> name]
Ack(port, number) == [kind |-> "ACK", port |-> port, number |-> number]
ErrorTo(port)     == [kind |-> "ERROR", to |-> port]

Oack(port) == [kind |-> "OACK", port |-> port, number |-> OackNumber,
               content |-> [options |-> "blksize"]]
Data(port, file, block) ==
  [kind |-> "DATA", port |-> port, number |-> block % BlockModulus,
   content |-> [file |-> file, block |-> block]]
Error(port, code) == [kind |-> "ERROR", port |-> port, number |-> code,
                      content |-> [message |-> code]]

\* What another host sends: a transfer of its own, a file of the same length.
Strays == {Oack(t) : t \in StrayPorts}
            \cup {Data(t, 0, b) : t \in StrayPorts, b \in 1 .. LastBlock}

ToClient == {Oack(t) : t \in Tids}
              \cup {Data(t, f, b) : t \in Tids, f \in Files, b \in 1 .. LastBlock}
              \cup {Error(t, code) : t \in Tids, code \in ErrorCodes}
              \cup Strays

\* The bytes after the four of TftpDataHeader, and how many the caller gets.
PayloadSize(datagram) ==
  IF datagram.kind # "DATA" THEN 10
  ELSE IF datagram.content.block = LastBlock THEN LastSize ELSE 512

Bytes(datagram) ==
  IF BufferSize < PayloadSize(datagram) THEN BufferSize ELSE PayloadSize(datagram)

-----------------------------------------------------------------------------

Unused == [phase |-> "unused", file |-> 0, block |-> 0]

Init ==
  /\ state = "IDLE"
  /\ block_number = 0
  /\ server_port = InitialServerPort
  /\ filename = <<>>
  /\ backoff_count = 0
  /\ used_connections = <<>>
  /\ download = 0
  /\ delivered = <<>>
  /\ server = [t \in Tids |-> Unused]
  /\ network = {}
  /\ losses = 0

\* The loop of tftp_download_file stops at the end of the structure and leaves
\* out the final zero: what is left of a longer name stays behind the new one.
Copied(name, old) ==
  LET length == IF Len(name) < MaxFilenameLength THEN Len(name) ELSE MaxFilenameLength
  IN SubSeq(name, 1, length) \o SubSeq(old, length + 1, Len(old))

\* tftp_download_file: every download listens on the port anew.  Nothing keeps
\* the application from starting one before the last has ended.
TftpDownloadFile ==
  /\ download < MaxDownloads
  /\ download' = download + 1
  /\ state' = "REQUEST"
  /\ block_number' = 0
  /\ server_port' = InitialServerPort
  /\ filename' = Copied(Name(download + 1), filename)
  /\ backoff_count' = 0
  /\ used_connections' = Listening(used_connections, Port, 1)
  /\ delivered' = <<>>
  /\ UNCHANGED <<server, network, losses>>

-----------------------------------------------------------------------------
(* tftp_read in TFTP_STATE_REQUEST *)

\* backoff_timeout: the possible outcomes.
TimeoutOnce == {backoff_count = 0}   \* mutant: nothing is sent again

Timeout == IF backoff_count = 0 THEN {TRUE} ELSE BOOLEAN

Resends(fires, datagram) == network \cup IF fires THEN {datagram} ELSE {}

Waiting == HasPacket(used_connections, Port)
First   == FirstPacket(used_connections, Port)
Taken   == used_connections' = WithoutFirst(used_connections, Port)

\* The name is sent up to a zero.  When it fills the structure there is none in
\* it, and what lies behind the structure may be sent too.
Requests ==
  {ReadRequest(filename \o behind) :
     behind \in IF Len(filename) = MaxFilenameLength THEN {<<>>, <<0>>} ELSE {<<>>}}

RequestPolls(fires) ==
  /\ state = "REQUEST"
  /\ \E request \in Requests : network' = Resends(fires, request)
  /\ UNCHANGED <<filename, download, delivered, server, losses>>

RequestGetsNothing(fires) ==
  /\ RequestPolls(fires)
  /\ ~Waiting
  /\ backoff_count' = IF fires THEN 1 ELSE backoff_count
  /\ UNCHANGED <<state, block_number, server_port, used_connections>>

RequestAccepted(fires) ==
  /\ RequestPolls(fires)
  /\ Waiting /\ First.kind = "OACK"
  /\ Taken
  /\ state' = "READ"
  /\ server_port' = First.port
  /\ block_number' = 0
  /\ backoff_count' = 0

RequestFails(fires) ==
  /\ RequestPolls(fires)
  /\ Waiting /\ First.kind # "OACK"
  /\ Taken
  /\ state' = "ERROR"
  /\ backoff_count' = IF fires THEN 1 ELSE backoff_count
  /\ UNCHANGED <<server_port, block_number>>

-----------------------------------------------------------------------------
(* tftp_read in TFTP_STATE_READ.  The acknowledgement of a block is sent by *)
(* the next call, whose timer fires at once.                               *)

ReadPolls(fires, answer) ==
  /\ state = "READ"
  /\ network' = Resends(fires, Ack(server_port, block_number)) \cup answer
  /\ UNCHANGED <<server_port, filename, download, server, losses>>

NoProgress(fires) ==
  /\ backoff_count' = IF fires THEN 1 ELSE backoff_count
  /\ UNCHANGED <<state, delivered>>

ReadGetsNothing(fires) ==
  /\ ReadPolls(fires, {})
  /\ ~Waiting
  /\ NoProgress(fires)
  /\ UNCHANGED <<block_number, used_connections>>

FromOtherPortAlways(datagram) ==   \* mutant: the source port is not compared
  server_port # InitialServerPort

FromOtherPortNever(datagram) ==    \* mutant: any port may continue
  FALSE

FromOtherPort(datagram) ==
  server_port # InitialServerPort /\ server_port # datagram.port

\* A second transfer, started by a repeated request, is told off.
ReadWrongPort(fires) ==
  /\ Waiting /\ FromOtherPort(First)
  /\ ReadPolls(fires, {ErrorTo(First.port)})
  /\ Taken
  /\ NoProgress(fires)
  /\ UNCHANGED block_number

ReadRepeated(fires) ==
  /\ Waiting /\ ~FromOtherPort(First)
  /\ First.number = block_number
  /\ ReadPolls(fires, {Ack(server_port, block_number)})
  /\ Taken
  /\ NoProgress(fires)
  /\ UNCHANGED block_number

IsNextAny(datagram) ==   \* mutant: any other block is taken
  ~FromOtherPort(datagram) /\ datagram.number # block_number

\* block_number + 1 is computed as an int: after 2^16 - 1 there is no next.
IsNext(datagram) ==
  /\ ~FromOtherPort(datagram)
  /\ datagram.number # block_number
  /\ datagram.number = block_number + 1

IsLastEmpty(datagram) ==   \* mutant: only an empty block ends the file
  Bytes(datagram) = 0

IsLast(datagram) == Bytes(datagram) < 512

\* A block with data; a short one is the last, and is acknowledged at once.
\* The opcode is not looked at.
ReadBlock(fires) ==
  /\ Waiting /\ IsNext(First) /\ Bytes(First) > 0
  /\ ReadPolls(fires, IF IsLast(First) THEN {Ack(server_port, First.number)} ELSE {})
  /\ state' = IF IsLast(First) THEN "DONE" ELSE "READ"
  /\ Taken
  /\ block_number' = First.number
  /\ delivered' = Append(delivered, First.content)
  /\ backoff_count' = 0

\* A block without data looks like no block at all to tftp_read.
ReadEmptyBlock(fires) ==
  /\ Waiting /\ IsNext(First) /\ Bytes(First) = 0
  /\ ReadPolls(fires, {})
  /\ Taken
  /\ block_number' = First.number
  /\ NoProgress(fires)

ReadIgnores(fires) ==
  /\ Waiting /\ ~FromOtherPort(First)
  /\ First.number \notin {block_number, block_number + 1}
  /\ ReadPolls(fires, {})
  /\ Taken
  /\ NoProgress(fires)
  /\ UNCHANGED block_number

Poll(fires) ==
  \/ RequestGetsNothing(fires) \/ RequestAccepted(fires) \/ RequestFails(fires)
  \/ ReadGetsNothing(fires) \/ ReadWrongPort(fires) \/ ReadRepeated(fires)
  \/ ReadBlock(fires) \/ ReadEmptyBlock(fires) \/ ReadIgnores(fires)

TftpRead == \E fires \in Timeout : Poll(fires)

\* The server is told; the connection stays in the state it is in.
TftpAbortDownload ==
  /\ MayAbort
  /\ state # "IDLE"
  /\ network' = network \cup {ErrorTo(server_port)}
  /\ UNCHANGED <<client, used_connections, server, losses>>

-----------------------------------------------------------------------------
(* The network and handle_udp. *)

Arrive(datagram) ==
  /\ datagram \in network \cup Strays
  /\ FindConnection(used_connections, Port) # 0
  /\ used_connections' = WithPacket(used_connections, Port, datagram)
  /\ UNCHANGED <<client, server, network, losses>>

Lose ==
  /\ losses < MaxLosses
  /\ \E datagram \in network : network' = network \ {datagram}
  /\ losses' = losses + 1
  /\ UNCHANGED <<client, used_connections, server>>

-----------------------------------------------------------------------------
(* The server.  A transfer sends its current block until it is acknowledged. *)

Current(t) == IF server[t].block = 0 THEN Oack(t)
                                     ELSE Data(t, server[t].file, server[t].block)

ServerStarts(t) ==
  /\ server[t].phase = "unused"
  /\ \E file \in Files :
       /\ ReadRequest(Name(file)) \in network
       /\ server' = [server EXCEPT ![t] = [phase |-> "active", file |-> file, block |-> 0]]
  /\ network' = network \cup {Oack(t)}
  /\ UNCHANGED <<client, used_connections, losses>>

ServerRetransmits(t) ==
  /\ server[t].phase = "active"
  /\ network' = network \cup {Current(t)}
  /\ UNCHANGED <<client, used_connections, server, losses>>

ServerAcked(t) ==
  /\ server[t].phase = "active"
  /\ Ack(t, server[t].block % BlockModulus) \in network
  /\ IF server[t].block = LastBlock
     THEN /\ server' = [server EXCEPT ![t].phase = "finished"]
          /\ UNCHANGED network
     ELSE /\ server' = [server EXCEPT ![t].block = @ + 1]
          /\ network' = network \cup {Data(t, server[t].file, server[t].block + 1)}
  /\ UNCHANGED <<client, used_connections, losses>>

ServerToldOff(t) ==
  /\ server[t].phase = "active"
  /\ ErrorTo(t) \in network
  /\ server' = [server EXCEPT ![t].phase = "killed"]
  /\ UNCHANGED <<client, used_connections, network, losses>>

ServerFails(t) ==
  /\ server[t].phase = "active"
  /\ server' = [server EXCEPT ![t].phase = "failed"]
  /\ \E code \in ErrorCodes : network' = network \cup {Error(t, code)}
  /\ UNCHANGED <<client, used_connections, losses>>

Server(t) ==
  ServerStarts(t) \/ ServerRetransmits(t) \/ ServerAcked(t) \/ ServerToldOff(t)

-----------------------------------------------------------------------------

Next ==
  \/ TftpDownloadFile \/ TftpRead \/ TftpAbortDownload
  \/ \E datagram \in ToClient : Arrive(datagram)
  \/ Lose
  \/ \E t \in Tids : Server(t) \/ ServerFails(t)

Spec == Init /\ [][Next]_vars

\* A call of tftp_read that moves the download on.
UsefulRead == TftpRead /\ <<state, block_number>>' # <<state, block_number>>

\* The application polls, and the back-off timer fires when its time has come;
\* what stays on the wire arrives; the server works.  Strong fairness: repeated
\* datagrams do not push out the awaited one before every single poll.
LiveSpec ==
  /\ Spec
  /\ WF_vars(TftpDownloadFile)
  /\ WF_vars(TftpRead) /\ WF_vars(TRUE \in Timeout /\ Poll(TRUE))
  /\ SF_vars(UsefulRead)
  /\ \A datagram \in ToClient \ Strays : WF_vars(Arrive(datagram))
  /\ \A t \in Tids : /\ WF_vars(ServerStarts(t)) /\ WF_vars(ServerRetransmits(t))
                     /\ WF_vars(ServerAcked(t)) /\ WF_vars(ServerToldOff(t))

-----------------------------------------------------------------------------

Contents == [file : Files \cup {0}, block : 1 .. LastBlock]
              \cup [message : ErrorCodes] \cup [options : {"blksize"}]

\* The client, the connections and the server stay in their types.
TypeOK ==
  /\ state \in {"IDLE", "REQUEST", "READ", "DONE", "ERROR"}
  /\ block_number \in Numbers
  /\ server_port \in Tids \cup {InitialServerPort}
  /\ filename \in Seq(Files)
  /\ backoff_count \in {0, 1}
  /\ used_connections \in Seq([port : {Port}, packet_queue : Seq(ToClient),
                               packet_count : {0, 1}, max_packet_count : {1}])
  /\ download \in 0 .. MaxDownloads
  /\ delivered \in Seq(Contents)
  /\ server \in [Tids -> [phase : {"unused", "active", "finished", "killed", "failed"},
                          file : 0 .. MaxDownloads, block : 0 .. LastBlock]]
  /\ losses \in 0 .. MaxLosses

\* The caller gets the file it asked for, block after block, and DONE means
\* all of it, whatever the network repeats, delays or loses.
DownloadsFile == INSTANCE Download

IsDownload == DownloadsFile!Spec

\* What the caller gets is made of blocks of the file it asked for.
OnlyFileData == \A i \in DOMAIN delivered : delivered[i] \in [file : {download}, block : 1 .. LastBlock]

\* What the caller gets during one download comes from one transfer of the
\* server, block after block: transfers never mix, even when a datagram of an
\* earlier download makes the client follow the wrong one, and whatever other
\* hosts send, unless from the very port that the client follows.
OneTransfer ==
  delivered # <<>> /\ server_port \notin StrayPorts =>
    delivered = [i \in DOMAIN delivered |-> [file |-> server[server_port].file, block |-> i]]

\* The server is asked for the file that tftp_download_file was called for,
\* whatever names the connection had before.  It is not when a name is followed
\* by a shorter one, or is as long as the structure has room for.
RequestsNamedFile == state = "REQUEST" => Requests = {ReadRequest(Name(download))}

\* The client never ends the transfer it is reading from: the error sent to a
\* wrong port never hits the right one.
OwnTransferLives ==
  state \in {"READ", "DONE"} => server[server_port].phase # "killed"

\* A finished transfer of the server is a finished download of the client, and
\* of no other transfer than the one it read from.
FinishedTogether ==
  \A t \in Tids :
    server[t].phase = "finished" /\ server[t].file = download =>
      state = "DONE" /\ server_port = t

\* Every download comes to an end.
DownloadEnds == (state \in {"REQUEST", "READ"}) ~> (state \in {"DONE", "ERROR"})

\* The server learns that the client has got the last block.
LastBlockConfirmed ==
  \A t \in Tids : (state = "DONE" /\ server_port = t) ~> (server[t].phase = "finished")
==============================================================================
