----------------------------- MODULE TftpProofs -----------------------------
(***************************************************************************)
(* Theorems about Tftp.tla, for any modulus of the block numbers, any set  *)
(* of server ports and any number of downloads, and for every file whose   *)
(* blocks have numbers below those that the bytes of an OACK are read as:  *)
(* 25194 blocks in the code, since after an empty last one the client      *)
(* waits for one more.                                                     *)
(*                                                                         *)
(* What no theorem can say without a hypothesis is said under one: each is *)
(* a constant of the model at a value for which the code is right, and the *)
(* README names the behaviour of the code that makes it necessary.         *)
(***************************************************************************)
EXTENDS Tftp, QueueLemmas

\* The connections of the port, and the datagrams in their queues.
Table == IsTable(used_connections, {Port}, ToClient, {1})

Queued == {d \in ToClient : InQueue(used_connections, d)}

Seen(d)    == d \in network \/ d \in Queued
Started(t) == server[t].phase # "unused"
Reading    == state \in {"READ", "DONE"}

\* Whatever a transfer of the server has sent, or was sent, it has started; it
\* sends one file, up to the block it has reached.  Nothing of the kind is known
\* of a port that another host uses too.
Origins ==
  \A t \in Tids \ StrayPorts :
    /\ Started(t) => server[t].file \in Files
    /\ Seen(Oack(t)) => Started(t)
    /\ \A f \in Files \cup {0}, b \in 1 .. LastBlock :
         Seen(Data(t, f, b)) => Started(t) /\ server[t].file = f /\ b =< server[t].block
    /\ \A n \in Numbers : Ack(t, n) \in network => Started(t)

\* A client that reads follows a transfer that has started, or another host; one
\* that does not read has no block yet.
Follows ==
  IF Reading THEN server_port \in Tids /\ (Started(server_port) \/ server_port \in StrayPorts)
             ELSE server_port = InitialServerPort /\ block_number = 0 /\ delivered = <<>>

IInv == TypeOK /\ Table /\ Origins /\ Follows

-----------------------------------------------------------------------------
(* Datagrams. *)

\* The fields tftp_read looks at.
LEMMA DatagramFields ==
  /\ \A t : Oack(t).kind = "OACK" /\ Oack(t).port = t /\ Oack(t).number = OackNumber
                 /\ Oack(t).content = [options |-> "blksize"]
  /\ \A t, f, b : /\ Data(t, f, b).kind = "DATA" /\ Data(t, f, b).port = t
                  /\ Data(t, f, b).number = b % BlockModulus
                  /\ Data(t, f, b).content = [file |-> f, block |-> b]
  /\ \A t, c : /\ Error(t, c).kind = "ERROR" /\ Error(t, c).port = t
               /\ Error(t, c).number = c /\ Error(t, c).content = [message |-> c]
BY DEF Oack, Data, Error

\* No datagram of the client is one of the server, and none is two of a kind.
LEMMA DatagramsDiffer ==
  /\ \A t, u, f, b, n, x, c :
       /\ Oack(t) \notin {Data(u, f, b), Error(u, c), Ack(u, n), ErrorTo(u), ReadRequest(x)}
       /\ Data(t, f, b) \notin {Oack(u), Error(u, c), Ack(u, n), ErrorTo(u), ReadRequest(x)}
       /\ Ack(t, n) \notin {Oack(u), Data(u, f, b), Error(u, c), ErrorTo(u), ReadRequest(x)}
       /\ ErrorTo(t) \notin {Oack(u), Data(u, f, b), Ack(u, n), ReadRequest(x)}
       /\ ReadRequest(x) \notin {Oack(u), Data(u, f, b), Error(u, c), Ack(u, n), ErrorTo(u)}
  /\ \A t, u : Oack(t) = Oack(u) => t = u
  /\ \A t, u, m, n : Ack(t, m) = Ack(u, n) => t = u /\ m = n
  /\ \A t, u : ErrorTo(t) = ErrorTo(u) => t = u
  /\ \A x, y : ReadRequest(x) = ReadRequest(y) => x = y
BY DEF Oack, Data, Error, Ack, ErrorTo, ReadRequest

\* The error the client sends is not one the server sends.
LEMMA ErrorsDiffer == \A t, u, c : ErrorTo(t) # Error(u, c)
<1>1. \A t : DOMAIN ErrorTo(t) = {"kind", "to"}
  BY DEF ErrorTo
<1>2. \A u, c : "port" \in DOMAIN Error(u, c)
  BY DEF Error
<1>3. QED
  BY <1>1, <1>2

\* A DATA datagram says which one it is.
LEMMA DataIs ==
  ASSUME NEW t, NEW u, NEW f, NEW g, NEW a, NEW b, Data(t, f, a) = Data(u, g, b)
  PROVE  t = u /\ f = g /\ a = b
<1>1. t = u /\ [file |-> f, block |-> a] = [file |-> g, block |-> b]
  BY DatagramFields
<1>2. QED
  BY <1>1

\* What the client can receive.
LEMMA ToClientKinds ==
  ASSUME NEW d \in ToClient
  PROVE  \/ \E t \in Tids : d = Oack(t)
         \/ \E t \in Tids, f \in Files \cup {0}, b \in 1 .. LastBlock : d = Data(t, f, b)
         \/ \E t \in Tids, c \in ErrorCodes : d = Error(t, c)
BY TftpAssumption DEF ToClient, Strays

\* What other hosts send comes from their ports.
LEMMA StrayKinds ==
  ASSUME NEW d \in Strays
  PROVE  d \in ToClient /\ d.port \in StrayPorts
<1>1. \/ \E t \in StrayPorts : d = Oack(t)
      \/ \E t \in StrayPorts, b \in 1 .. LastBlock : d = Data(t, 0, b)
  BY DEF Strays
<1>2. QED
  BY <1>1, DatagramFields DEF ToClient

\* The parts of such a datagram that the client uses.
LEMMA ToClientFields ==
  ASSUME NEW d \in ToClient
  PROVE  /\ d.port \in Tids
         /\ d.kind = "OACK" <=> d = Oack(d.port)
         /\ d.number \in Numbers
         /\ d.content \in Contents
<1>1. BlockModulus \in Nat /\ BlockModulus > 1 /\ LastBlock \in Nat
  BY TftpAssumption
<1>2. CASE \E t \in Tids : d = Oack(t)
  <2>1. PICK t \in Tids : d = Oack(t)
    BY <1>2
  <2>2. OackNumber \in Numbers /\ [options |-> "blksize"] \in Contents
    BY TftpAssumption DEF Numbers, Contents
  <2>3. QED
    BY <2>1, <2>2, DatagramFields
<1>3. CASE \E t \in Tids, f \in Files \cup {0}, b \in 1 .. LastBlock : d = Data(t, f, b)
  <2>1. PICK t \in Tids, f \in Files \cup {0}, b \in 1 .. LastBlock : d = Data(t, f, b)
    BY <1>3
  <2>2. b % BlockModulus \in Numbers
    BY <1>1 DEF Numbers
  <2>3. [file |-> f, block |-> b] \in Contents
    BY DEF Contents
  <2>4. d # Oack(t)
    BY <2>1, DatagramsDiffer
  <2>5. QED
    BY <2>1, <2>2, <2>3, <2>4, DatagramFields
<1>4. CASE \E t \in Tids, c \in ErrorCodes : d = Error(t, c)
  <2>1. PICK t \in Tids, c \in ErrorCodes : d = Error(t, c)
    BY <1>4
  <2>2. c \in Numbers
    BY TftpAssumption DEF Numbers
  <2>3. [message |-> c] \in Contents
    BY DEF Contents
  <2>4. d # Oack(t)
    BY <2>1, DatagramsDiffer
  <2>5. QED
    BY <2>1, <2>2, <2>3, <2>4, DatagramFields
<1>5. QED
  BY <1>2, <1>3, <1>4, ToClientKinds

-----------------------------------------------------------------------------
(* The queue of the port. *)

\* The type of the table as TypeOK has it.
LEMMA TableType ==
  ASSUME NEW table, IsTable(table, {Port}, ToClient, {1})
  PROVE  table \in Seq([port : {Port}, packet_queue : Seq(ToClient),
                        packet_count : {0, 1}, max_packet_count : {1}])
<1> DEFINE B == ConnectionsOf({Port}, ToClient, {1})
           C == [port : {Port}, packet_queue : Seq(ToClient),
                 packet_count : {0, 1}, max_packet_count : {1}]
<1> HIDE DEF B, C
<1>1. table \in Seq(B)
  BY DEF IsTable, B
<1>2. ASSUME NEW i \in DOMAIN table PROVE table[i] \in C
  <2>1. table[i] \in B /\ Counted(table[i])
    BY <1>1 DEF IsTable
  <2>2. QED
    BY <2>1 DEF B, C, ConnectionsOf, Counted
<1>3. table \in Seq(C)
  BY <1>1, <1>2
<1>4. QED
  BY <1>3 DEF C

\* udp_listen adds an empty queue.
LEMMA ListenKeepsTable ==
  ASSUME Table, used_connections' = Listening(used_connections, Port, 1)
  PROVE  Table' /\ Queued' \subseteq Queued
<1> DEFINE later == Listening(used_connections, Port, 1)
<1>1. /\ IsTable(later, {Port}, ToClient, {1})
      /\ \A d : InQueue(later, d) => InQueue(used_connections, d)
  <2>1. Port \in {Port} /\ 1 \in {1} /\ 1 \in Nat
    OBVIOUS
  <2>2. QED
    BY <2>1, ListeningTable DEF Table
<1>2. QED
  BY <1>1 DEF Table, Queued

\* udp_receive: the datagram was in the queue, and none comes into it.
LEMMA TakenWasQueued ==
  ASSUME Table, Waiting
  PROVE  /\ First \in Queued /\ First \in ToClient
         /\ Taken => Table' /\ Queued' \subseteq Queued
<1>1. /\ First \in ToClient /\ InQueue(used_connections, First)
      /\ IsTable(WithoutFirst(used_connections, Port), {Port}, ToClient, {1})
      /\ \A d : InQueue(WithoutFirst(used_connections, Port), d) => InQueue(used_connections, d)
  BY TakenFromTable DEF Table, Waiting, First
<1>2. QED
  BY <1>1 DEF Taken, Table, Queued

\* handle_udp puts nothing but the datagram into a queue.
LEMMA ArrivedIsQueued ==
  ASSUME Table, NEW d \in ToClient,
         used_connections' = WithPacket(used_connections, Port, d)
  PROVE  Table' /\ Queued' \subseteq Queued \cup {d}
<1>1. /\ IsTable(WithPacket(used_connections, Port, d), {Port}, ToClient, {1})
      /\ \A x : InQueue(WithPacket(used_connections, Port, d), x) =>
                  InQueue(used_connections, x) \/ x = d
  BY ArrivedInTable DEF Table
<1>2. QED
  BY <1>1 DEF Table, Queued

-----------------------------------------------------------------------------
(* What a call of tftp_read does, in five cases. *)

Idles == UNCHANGED <<state, block_number, server_port, delivered>>

Accepts ==
  /\ state = "REQUEST" /\ Waiting /\ First.kind = "OACK"
  /\ state' = "READ" /\ server_port' = First.port /\ block_number' = 0
  /\ delivered' = delivered

Fails ==
  /\ state = "REQUEST" /\ state' = "ERROR"
  /\ UNCHANGED <<block_number, server_port, delivered>>

TakesBlock ==
  /\ state = "READ" /\ Waiting /\ IsNext(First) /\ Bytes(First) > 0
  /\ state' = IF IsLast(First) THEN "DONE" ELSE "READ"
  /\ block_number' = First.number
  /\ delivered' = Append(delivered, First.content)
  /\ server_port' = server_port

TakesEmpty ==
  /\ state = "READ" /\ Waiting /\ IsNext(First) /\ Bytes(First) = 0
  /\ block_number' = First.number
  /\ UNCHANGED <<state, server_port, delivered>>

\* What the call sends.
Sent(d) ==
  \/ state = "REQUEST" /\ d \in Requests
  \/ state = "READ" /\ d = Ack(server_port, block_number)
  \/ TakesBlock /\ d = Ack(server_port, First.number)
  \/ state = "READ" /\ Waiting /\ FromOtherPort(First) /\ d = ErrorTo(First.port)

\* The branches of tftp_read, in these cases.
LEMMA PollEffect ==
  ASSUME Table, backoff_count \in {0, 1}, NEW fires, Poll(fires)
  PROVE  /\ Idles \/ Accepts \/ Fails \/ TakesBlock \/ TakesEmpty
         /\ Table' /\ Queued' \subseteq Queued
         /\ backoff_count' \in {0, 1}
         /\ UNCHANGED <<filename, download, server, losses>>
         /\ network \subseteq network'
         /\ \A d \in network' : d \in network \/ Sent(d)
<1>1. /\ used_connections' = used_connections => Table' /\ Queued' \subseteq Queued
      /\ Waiting /\ Taken => Table' /\ Queued' \subseteq Queued
  BY TakenWasQueued DEF Table, Queued
<1>2. CASE RequestGetsNothing(fires)
  BY <1>1, <1>2 DEF RequestGetsNothing, RequestPolls, Resends, Idles, Sent
<1>3. CASE RequestAccepted(fires)
  BY <1>1, <1>3 DEF RequestAccepted, RequestPolls, Resends, Accepts, Sent
<1>4. CASE RequestFails(fires)
  BY <1>1, <1>4 DEF RequestFails, RequestPolls, Resends, Fails, Sent
<1>5. CASE ReadGetsNothing(fires)
  BY <1>1, <1>5 DEF ReadGetsNothing, ReadPolls, NoProgress, Resends, Idles, Sent
<1>6. CASE ReadWrongPort(fires)
  BY <1>1, <1>6 DEF ReadWrongPort, ReadPolls, NoProgress, Resends, Idles, Sent
<1>7. CASE ReadRepeated(fires)
  BY <1>1, <1>7 DEF ReadRepeated, ReadPolls, NoProgress, Resends, Idles, Sent
<1>8. CASE ReadBlock(fires)
  <2>1. TakesBlock
    BY <1>8 DEF ReadBlock, ReadPolls, TakesBlock
  <2>2. QED
    BY <1>1, <1>8, <2>1 DEF ReadBlock, ReadPolls, Resends, Sent
<1>9. CASE ReadEmptyBlock(fires)
  BY <1>1, <1>9 DEF ReadEmptyBlock, ReadPolls, NoProgress, Resends, TakesEmpty, Sent
<1>10. CASE ReadIgnores(fires)
  BY <1>1, <1>10 DEF ReadIgnores, ReadPolls, NoProgress, Resends, Idles, Sent
<1>11. QED
  BY <1>2, <1>3, <1>4, <1>5, <1>6, <1>7, <1>8, <1>9, <1>10 DEF Poll

\* What the client reads is a datagram for it, and the next block has a number
\* that is one.
LEMMA FirstIs ==
  ASSUME Table, Waiting, block_number \in Numbers
  PROVE  /\ First \in ToClient /\ First \in Queued /\ First.port \in Tids
         /\ First.kind = "OACK" => First = Oack(First.port)
         /\ First.content \in Contents
         /\ IsNext(First) => /\ First.number \in Numbers \ {0}
                             /\ First.number = block_number + 1
<1>1. First \in ToClient /\ First \in Queued
  BY TakenWasQueued
<1>2. /\ First.port \in Tids
      /\ First.kind = "OACK" => First = Oack(First.port)
      /\ First.number \in Numbers /\ First.content \in Contents
  BY <1>1, ToClientFields
<1>3. ASSUME IsNext(First) PROVE First.number = block_number + 1 /\ First.number \in Numbers \ {0}
  <2>1. First.number = block_number + 1
    BY <1>3 DEF IsNext
  <2>2. QED
    BY <1>2, <2>1, TftpAssumption DEF Numbers
<1>4. QED
  BY <1>1, <1>2, <1>3

-----------------------------------------------------------------------------
(* The invariant without hypotheses. *)

\* Nothing has happened.
LEMMA InitIInv == Init => IInv
<1> SUFFICES ASSUME Init PROVE IInv
  OBVIOUS
<1>1. \A S : <<>> \in Seq(S) /\ DOMAIN <<>> = {}
  OBVIOUS
<1>2. Table /\ Queued = {}
  BY <1>1 DEF Init, Table, Queued, IsTable, InQueue
<1>3. Unused \in [phase : {"unused", "active", "finished", "killed", "failed"},
                  file : 0 .. MaxDownloads, block : 0 .. LastBlock]
  BY TftpAssumption DEF Unused
<1>4. TypeOK
  <2>1. 0 \in Numbers /\ 0 \in 0 .. MaxDownloads /\ 0 \in 0 .. MaxLosses
    BY TftpAssumption DEF Numbers
  <2>2. filename \in Seq(Files) /\ delivered \in Seq(Contents)
    BY <1>1 DEF Init
  <2>3. QED
    BY <1>2, <1>3, <2>1, <2>2, TableType DEF Init, TypeOK, Table
<1>5. Origins
  BY <1>2 DEF Init, Origins, Seen, Started, Unused
<1>6. Follows
  BY DEF Init, Follows, Reading
<1>7. QED
  BY <1>2, <1>4, <1>5, <1>6 DEF IInv

ServerTypes == [phase : {"unused", "active", "finished", "killed", "failed"},
                file : 0 .. MaxDownloads, block : 0 .. LastBlock]

\* The types of everything but the queues.
OtherTypes ==
  /\ state \in {"IDLE", "REQUEST", "READ", "DONE", "ERROR"}
  /\ block_number \in Numbers
  /\ server_port \in Tids \cup {InitialServerPort}
  /\ filename \in Seq(Files)
  /\ backoff_count \in {0, 1}
  /\ download \in 0 .. MaxDownloads
  /\ delivered \in Seq(Contents)
  /\ server \in [Tids -> ServerTypes]
  /\ losses \in 0 .. MaxLosses

\* TypeOK is what the table of connections says and the types of the rest.
LEMMA TypesSplit ==
  /\ Table => (TypeOK <=> OtherTypes)
  /\ Table' => (TypeOK' <=> OtherTypes')
BY TableType DEF Table, TypeOK, OtherTypes, ServerTypes

\* The client's part of a step: nothing new but acknowledgements to the
\* transfer it follows can be seen, and the server does not move.
LEMMA OriginsKept ==
  ASSUME IInv, server' = server,
         \A d \in ToClient : d \in Queued' => Seen(d) \/ d \in Strays,
         \A d \in network' : \/ d \in network
                             \/ \E n : Reading /\ d = Ack(server_port, n)
                             \/ \E t : d = ErrorTo(t)
                             \/ \E x : d = ReadRequest(x)
  PROVE  Origins'
<1>1. SUFFICES ASSUME NEW t \in Tids \ StrayPorts
               PROVE  /\ Started(t)' => server'[t].file \in Files
                      /\ Seen(Oack(t))' => Started(t)'
                      /\ \A f \in Files \cup {0}, b \in 1 .. LastBlock :
                           Seen(Data(t, f, b))' =>
                             Started(t)' /\ server'[t].file = f /\ b =< server'[t].block
                      /\ \A n \in Numbers : Ack(t, n) \in network' => Started(t)'
  BY DEF Origins
<1>2. Started(t)' <=> Started(t)
  BY DEF Started
<1>3. Seen(Oack(t))' => Seen(Oack(t))
  <2>1. Oack(t) \in ToClient /\ Oack(t) \notin Strays
    BY StrayKinds, DatagramFields DEF ToClient
  <2>2. Oack(t) \in network' => Oack(t) \in network
    BY DatagramsDiffer
  <2>3. QED
    BY <2>1, <2>2 DEF Seen
<1>4. ASSUME NEW f \in Files \cup {0}, NEW b \in 1 .. LastBlock
      PROVE  Seen(Data(t, f, b))' => Seen(Data(t, f, b))
  <2>1. Data(t, f, b) \notin Strays
    BY StrayKinds, DatagramFields
  <2>2. Data(t, f, b) \in network' => Data(t, f, b) \in network
    BY DatagramsDiffer
  <2>3. Data(t, f, b) \in Queued' => Data(t, f, b) \in ToClient
    BY DEF Queued
  <2>4. QED
    BY <2>1, <2>2, <2>3 DEF Seen
<1>5. ASSUME NEW n \in Numbers, Ack(t, n) \in network' PROVE Started(t)
  <2>1. Ack(t, n) \in network \/ (Reading /\ t = server_port)
    BY <1>5, DatagramsDiffer
  <2>2. QED
    BY <2>1 DEF IInv, Origins, Follows
<1>6. QED
  BY <1>2, <1>3, <1>4, <1>5 DEF IInv, Origins

\* The name of a file is a text.
LEMMA NameType == \A f \in Files : Name(f) \in Seq(Files) /\ Name(f) # <<>>
<1>1. SUFFICES ASSUME NEW f \in Files PROVE Name(f) \in Seq(Files) /\ Name(f) # <<>>
  OBVIOUS
<1>2. f \in Nat /\ MaxDownloads + 1 - f \in Nat /\ f > 0 /\ MaxDownloads + 1 - f > 0
  BY TftpAssumption DEF Files
<1>3. PICK n \in Nat : n > 0 /\ Name(f) = [k \in 1 .. n |-> f]
  BY <1>2 DEF Name
<1>4. QED
  BY <1>3

\* tftp_download_file.
LEMMA DownloadKeepsIInv == IInv /\ TftpDownloadFile => IInv'
<1> SUFFICES ASSUME IInv, TftpDownloadFile PROVE IInv'
  OBVIOUS
<1>1. Table /\ OtherTypes
  BY TypesSplit DEF IInv
<1>2. Table' /\ Queued' \subseteq Queued
  BY <1>1, ListenKeepsTable DEF TftpDownloadFile
<1>3. Origins'
  BY <1>2, OriginsKept DEF TftpDownloadFile, Seen
<1>4. download + 1 \in Files /\ 0 \in Numbers /\ download + 1 \in 0 .. MaxDownloads
  BY <1>1, TftpAssumption DEF OtherTypes, TftpDownloadFile, Files, Numbers
<1>5. filename' \in Seq(Files)
  <2> DEFINE name == Name(download + 1)
  <2>1. name \in Seq(Files) /\ filename \in Seq(Files) /\ filename' = Copied(name, filename)
    BY <1>1, <1>4, NameType DEF OtherTypes, TftpDownloadFile
  <2> HIDE DEF name
  <2> DEFINE length == IF Len(name) < MaxFilenameLength THEN Len(name) ELSE MaxFilenameLength
  <2>2. length \in 0 .. Len(name)
    BY <2>1, TftpAssumption
  <2>3. filename' = SubSeq(name, 1, length) \o SubSeq(filename, length + 1, Len(filename))
    BY <2>1 DEF Copied
  <2> HIDE DEF length
  <2>4. SubSeq(filename, length + 1, Len(filename)) \in Seq(Files)
    BY <2>1, <2>2
  <2>5. SubSeq(name, 1, length) \in Seq(Files)
    BY <2>1, <2>2
  <2>6. QED
    BY <2>3, <2>4, <2>5
<1>6. <<>> \in Seq(Contents)
  OBVIOUS
<1>7. OtherTypes'
  BY <1>1, <1>4, <1>5, <1>6 DEF OtherTypes, TftpDownloadFile
<1>8. Follows'
  BY DEF TftpDownloadFile, Follows, Reading
<1>9. QED
  BY <1>2, <1>3, <1>7, <1>8, TypesSplit DEF IInv

\* tftp_read.
LEMMA ReadKeepsIInv == IInv /\ TftpRead => IInv'
<1> SUFFICES ASSUME IInv, NEW fires, Poll(fires) PROVE IInv'
  BY DEF TftpRead
<1>1. Table /\ OtherTypes
  BY TypesSplit DEF IInv
<1>2. /\ Idles \/ Accepts \/ Fails \/ TakesBlock \/ TakesEmpty
      /\ Table' /\ Queued' \subseteq Queued
      /\ backoff_count' \in {0, 1}
      /\ UNCHANGED <<filename, download, server, losses>>
      /\ \A d \in network' : d \in network \/ Sent(d)
  BY <1>1, PollEffect DEF OtherTypes
<1>3. Origins'
  <2>1. \A d \in network' : \/ d \in network
                            \/ \E n : Reading /\ d = Ack(server_port, n)
                            \/ \E t : d = ErrorTo(t)
                            \/ \E x : d = ReadRequest(x)
    BY <1>2 DEF Sent, Requests, Reading, TakesBlock
  <2>2. QED
    BY <1>2, <2>1, OriginsKept DEF Seen
<1>4. \A t \in Tids : Started(t)' <=> Started(t)
  BY <1>2 DEF Started
<1>5. Waiting => /\ First.port \in Tids
                 /\ First.kind = "OACK" => Started(First.port) \/ First.port \in StrayPorts
                 /\ First.content \in Contents /\ (IsNext(First) => First.number \in Numbers)
  <2>1. SUFFICES ASSUME Waiting
                 PROVE  /\ First.port \in Tids
                        /\ First.kind = "OACK" => Started(First.port) \/ First.port \in StrayPorts
                        /\ First.content \in Contents /\ (IsNext(First) => First.number \in Numbers)
    OBVIOUS
  <2>2. /\ First \in Queued /\ First.port \in Tids
        /\ First.kind = "OACK" => First = Oack(First.port)
        /\ First.content \in Contents /\ (IsNext(First) => First.number \in Numbers)
    BY <1>1, <2>1, FirstIs DEF OtherTypes
  <2>3. ASSUME First.kind = "OACK", First.port \notin StrayPorts PROVE Started(First.port)
    BY <2>2, <2>3 DEF IInv, Origins, Seen
  <2>4. QED
    BY <2>2, <2>3
<1>6. OtherTypes' /\ Follows'
  <2>1. CASE Idles
    BY <1>1, <1>2, <1>4, <2>1 DEF Idles, OtherTypes, IInv, Follows, Reading
  <2>2. CASE Accepts
    <3>1. 0 \in Numbers
      BY TftpAssumption DEF Numbers
    <3>2. QED
      BY <1>1, <1>2, <1>4, <1>5, <2>2, <3>1 DEF Accepts, OtherTypes, IInv, Follows, Reading
  <2>3. CASE Fails
    BY <1>1, <1>2, <2>3 DEF Fails, OtherTypes, IInv, Follows, Reading
  <2>4. CASE TakesBlock
    <3>1. delivered' \in Seq(Contents)
      BY <1>1, <1>5, <2>4 DEF TakesBlock, OtherTypes
    <3>2. QED
      BY <1>1, <1>2, <1>4, <1>5, <2>4, <3>1 DEF TakesBlock, OtherTypes, IInv, Follows, Reading
  <2>5. CASE TakesEmpty
    BY <1>1, <1>2, <1>4, <1>5, <2>5 DEF TakesEmpty, OtherTypes, IInv, Follows, Reading
  <2>6. QED
    BY <1>2, <2>1, <2>2, <2>3, <2>4, <2>5
<1>7. QED
  BY <1>2, <1>3, <1>6, TypesSplit DEF IInv

\* What a step of the transfer t of the server does.
LEMMA ServerEffect ==
  ASSUME OtherTypes, NEW t \in Tids, Server(t) \/ ServerFails(t)
  PROVE  /\ UNCHANGED <<client, used_connections, losses>>
         /\ server' \in [Tids -> ServerTypes]
         /\ \A u \in Tids \ {t} : server'[u] = server[u]
         /\ Started(t)'
         /\ Started(t) => server'[t].file = server[t].file
         /\ ~Started(t) => /\ server'[t].block = 0 /\ server'[t].phase = "active"
                           /\ \E f \in Files : /\ ReadRequest(Name(f)) \in network
                                               /\ server'[t].file = f
         /\ \/ server'[t].block = server[t].block
            \/ ~Started(t)
            \/ /\ server[t].block # LastBlock /\ server'[t].block = server[t].block + 1
               /\ Ack(t, server[t].block % BlockModulus) \in network
         /\ server'[t].phase = "finished" =>
              \/ server[t].phase = "finished"
              \/ server[t].block = LastBlock /\ Ack(t, LastBlock % BlockModulus) \in network
         /\ server'[t].phase = "killed" => server[t].phase = "killed" \/ ErrorTo(t) \in network
         /\ \A d \in network' : \/ d \in network
                                \/ d = Oack(t)
                                \/ /\ server'[t].block # 0
                                   /\ d = Data(t, server'[t].file, server'[t].block)
                                \/ \E c : d = Error(t, c)
<1>1. server \in [Tids -> ServerTypes] /\ server[t] \in ServerTypes
  BY DEF OtherTypes
<1>2. CASE ServerStarts(t)
  <2>1. PICK f \in Files :
          /\ ReadRequest(Name(f)) \in network
          /\ server' = [server EXCEPT ![t] = [phase |-> "active", file |-> f, block |-> 0]]
    BY <1>2 DEF ServerStarts
  <2>2. [phase |-> "active", file |-> f, block |-> 0] \in ServerTypes
    BY TftpAssumption DEF ServerTypes, Files
  <2>3. /\ server'[t] = [phase |-> "active", file |-> f, block |-> 0]
        /\ \A u \in Tids \ {t} : server'[u] = server[u]
        /\ server' \in [Tids -> ServerTypes]
    BY <1>1, <2>1, <2>2
  <2>4. server'[t].phase = "active" /\ server'[t].file = f /\ server'[t].block = 0
    BY <2>3
  <2>5. QED
    BY <1>2, <2>1, <2>3, <2>4 DEF ServerStarts, Started
<1>3. CASE ServerRetransmits(t)
  BY <1>1, <1>3 DEF ServerRetransmits, Current, Started
<1>4. CASE ServerAcked(t) /\ server[t].block = LastBlock
  <2>1. server' = [server EXCEPT ![t].phase = "finished"]
    BY <1>4 DEF ServerAcked
  <2>2. /\ server'[t].phase = "finished" /\ server'[t].file = server[t].file
        /\ server'[t].block = server[t].block
        /\ \A u \in Tids \ {t} : server'[u] = server[u]
        /\ server' \in [Tids -> ServerTypes]
    BY <1>1, <2>1 DEF ServerTypes
  <2>3. QED
    BY <1>4, <2>2 DEF ServerAcked, Started
<1>5. CASE ServerAcked(t) /\ server[t].block # LastBlock
  <2>1. server' = [server EXCEPT ![t].block = @ + 1]
    BY <1>5 DEF ServerAcked
  <2>2. server[t].block + 1 \in 1 .. LastBlock /\ server[t].block + 1 # 0
    BY <1>1, <1>5, TftpAssumption DEF ServerTypes
  <2>3. /\ server'[t].phase = server[t].phase /\ server'[t].file = server[t].file
        /\ server'[t].block = server[t].block + 1
        /\ \A u \in Tids \ {t} : server'[u] = server[u]
    BY <1>1, <2>1 DEF ServerTypes
  <2>4. server' \in [Tids -> ServerTypes]
    BY <1>1, <2>1, <2>2 DEF ServerTypes
  <2>5. QED
    BY <1>5, <2>2, <2>3, <2>4 DEF ServerAcked, Started
<1>6. CASE ServerToldOff(t)
  <2>1. server' = [server EXCEPT ![t].phase = "killed"]
    BY <1>6 DEF ServerToldOff
  <2>2. /\ server'[t].phase = "killed" /\ server'[t].file = server[t].file
        /\ server'[t].block = server[t].block
        /\ \A u \in Tids \ {t} : server'[u] = server[u]
        /\ server' \in [Tids -> ServerTypes]
    BY <1>1, <2>1 DEF ServerTypes
  <2>3. QED
    BY <1>6, <2>2 DEF ServerToldOff, Started
<1>7. CASE ServerFails(t)
  <2>1. server' = [server EXCEPT ![t].phase = "failed"]
    BY <1>7 DEF ServerFails
  <2>2. /\ server'[t].phase = "failed" /\ server'[t].file = server[t].file
        /\ server'[t].block = server[t].block
        /\ \A u \in Tids \ {t} : server'[u] = server[u]
        /\ server' \in [Tids -> ServerTypes]
    BY <1>1, <2>1 DEF ServerTypes
  <2>3. QED
    BY <1>7, <2>2 DEF ServerFails, Started
<1>8. QED
  BY <1>2, <1>3, <1>4, <1>5, <1>6, <1>7 DEF Server

\* The server.
LEMMA ServerKeepsIInv ==
  ASSUME IInv, NEW t \in Tids, Server(t) \/ ServerFails(t)
  PROVE  IInv'
<1>1. Table /\ OtherTypes
  BY TypesSplit DEF IInv
<1>2. /\ UNCHANGED <<client, used_connections, losses>>
      /\ server' \in [Tids -> ServerTypes]
      /\ \A u \in Tids \ {t} : server'[u] = server[u]
      /\ Started(t)'
      /\ Started(t) => server'[t].file = server[t].file
      /\ ~Started(t) => server'[t].file \in Files
      /\ \/ server'[t].block = server[t].block
         \/ ~Started(t)
         \/ server'[t].block = server[t].block + 1
      /\ \A d \in network' : \/ d \in network
                             \/ d = Oack(t)
                             \/ /\ server'[t].block # 0
                                /\ d = Data(t, server'[t].file, server'[t].block)
                             \/ \E c : d = Error(t, c)
  BY <1>1, ServerEffect
<1>3. Table' /\ OtherTypes' /\ Queued' = Queued
  BY <1>1, <1>2 DEF Table, OtherTypes, Queued, client
<1>4. Follows'
  BY <1>2 DEF IInv, Follows, Reading, Started, client
<1>5. Origins'
  <2>1. SUFFICES ASSUME NEW u \in Tids \ StrayPorts
                 PROVE  /\ Started(u)' => server'[u].file \in Files
                        /\ Seen(Oack(u))' => Started(u)'
                        /\ \A f \in Files \cup {0}, b \in 1 .. LastBlock :
                             Seen(Data(u, f, b))' =>
                               Started(u)' /\ server'[u].file = f /\ b =< server'[u].block
                        /\ \A n \in Numbers : Ack(u, n) \in network' => Started(u)'
    BY DEF Origins
  <2>2. Started(u)' <=> (u = t \/ Started(u))
    BY <1>2 DEF Started
  <2>3. Oack(u) \in network' => u = t \/ Oack(u) \in network
    BY <1>2, DatagramsDiffer
  <2>4. \A n : Ack(u, n) \in network' => Ack(u, n) \in network
    BY <1>2, DatagramsDiffer
  <2>5. ASSUME NEW f \in Files \cup {0}, NEW b \in 1 .. LastBlock, Seen(Data(u, f, b))'
        PROVE  server'[u].file = f /\ b =< server'[u].block /\ Started(u)'
    <3>1. \/ Seen(Data(u, f, b))
          \/ Data(u, f, b) = Data(t, server'[t].file, server'[t].block)
      BY <1>2, <1>3, <2>5, DatagramsDiffer DEF Seen
    <3>2. CASE Data(u, f, b) = Data(t, server'[t].file, server'[t].block)
      <4>1. u = t /\ f = server'[t].file /\ b = server'[t].block
        BY <3>2, DataIs
      <4>2. QED
        BY <2>2, <4>1
    <3>3. CASE Seen(Data(u, f, b))
      <4>1. Started(u) /\ server[u].file = f /\ b =< server[u].block
        BY <3>3 DEF IInv, Origins
      <4>2. server[u].block \in Nat /\ server'[u].block >= server[u].block
        <5>1. server[u] \in ServerTypes
          BY <1>1 DEF OtherTypes
        <5>2. server[u].block \in Nat
          BY <5>1, TftpAssumption DEF ServerTypes
        <5>3. QED
          BY <1>2, <4>1, <5>2
      <4>3. server'[u].block \in Int
        <5>1. server'[u] \in ServerTypes
          BY <1>2
        <5>2. QED
          BY <5>1, TftpAssumption DEF ServerTypes
      <4>4. QED
        BY <1>2, <2>2, <4>1, <4>2, <4>3, TftpAssumption
    <3>4. QED
      BY <3>1, <3>2, <3>3
  <2>6. Started(u)' => server'[u].file \in Files
    BY <1>2, <2>2 DEF IInv, Origins
  <2>7. QED
    BY <1>3, <2>2, <2>3, <2>4, <2>5, <2>6 DEF IInv, Origins, Seen
<1>6. QED
  BY <1>3, <1>4, <1>5, TypesSplit DEF IInv

\* The network, tftp_abort_download, and steps of others.
LEMMA OthersKeepIInv ==
  ASSUME IInv,
         \/ TftpAbortDownload \/ Lose \/ UNCHANGED vars
         \/ \E d \in ToClient : Arrive(d)
  PROVE  IInv'
<1>1. Table /\ OtherTypes
  BY TypesSplit DEF IInv
<1>2. /\ UNCHANGED <<client, server>>
      /\ \A d \in network' : d \in network \/ \E t : d = ErrorTo(t)
      /\ losses' \in 0 .. MaxLosses
  BY <1>1, TftpAssumption DEF TftpAbortDownload, Lose, Arrive, vars, OtherTypes
<1>3. Table' /\ \A d \in ToClient : d \in Queued' => Seen(d) \/ d \in Strays
  <2>1. CASE UNCHANGED used_connections
    BY <1>1, <2>1 DEF Table, Queued, Seen
  <2>2. CASE \E d \in ToClient : Arrive(d)
    <3>1. PICK d \in ToClient : Arrive(d)
      BY <2>2
    <3>2. Table' /\ Queued' \subseteq Queued \cup {d} /\ d \in network \cup Strays
      BY <1>1, <3>1, ArrivedIsQueued DEF Arrive
    <3>3. QED
      BY <3>2 DEF Seen
  <2>3. QED
    BY <2>1, <2>2 DEF TftpAbortDownload, Lose, vars
<1>4. Origins'
  BY <1>2, <1>3, OriginsKept
<1>5. Follows' /\ OtherTypes'
  BY <1>1, <1>2 DEF IInv, Follows, Reading, Started, OtherTypes, client
<1>6. QED
  BY <1>3, <1>4, <1>5, TypesSplit DEF IInv

\* Every step of the client, the network and the server keeps the invariant.
LEMMA NextIInv == IInv /\ [Next]_vars => IInv'
BY DownloadKeepsIInv, ReadKeepsIInv, ServerKeepsIInv, OthersKeepIInv DEF Next

\* The invariant holds without any hypothesis.
LEMMA AlwaysIInv == Spec => []IInv
BY InitIInv, NextIInv, PTL DEF Spec

\* The client, the connections and the server stay in their types: in
\* particular block_number remains a u16, there is room for one datagram on the
\* port, and the name stays without a zero, whatever comes from which host.
THEOREM TypeCorrect == Spec => []TypeOK
<1>1. IInv => TypeOK
  BY DEF IInv
<1>2. QED
  BY <1>1, AlwaysIInv, PTL

-----------------------------------------------------------------------------
(* The name in the request. *)

\* What is in the structure is the name of the current download.
IsNamed == filename = Name(download)

\* A name at least as long as the one before it covers all of it, if there is
\* room for it.
LEMMA LongerNameCopied ==
  ASSUME NamesShrink = FALSE, NEW f \in Nat, f + 1 < MaxFilenameLength
  PROVE  Copied(Name(f + 1), Name(f)) = Name(f + 1)
<1>1. ASSUME NEW n \in Nat
      PROVE  /\ Name(n) = [k \in 1 .. n |-> n]
             /\ Name(n) \in Seq(Nat) /\ Len(Name(n)) = n
  <2>1. Name(n) = [k \in 1 .. n |-> n]
    BY DEF Name
  <2>2. QED
    BY <2>1
<1>2. f + 1 \in Nat
  OBVIOUS
<1>3. SubSeq(Name(f), (f + 1) + 1, f) = <<>>
  BY <1>1
<1>4. \A s \in Seq(Nat) : s \o <<>> = s /\ SubSeq(s, 1, Len(s)) = s
  OBVIOUS
<1>5. /\ Len(Name(f + 1)) = f + 1 /\ Name(f + 1) \in Seq(Nat) /\ Len(Name(f)) = f
      /\ SubSeq(Name(f + 1), 1, f + 1) = Name(f + 1)
  BY <1>1, <1>2, <1>4
<1>6. Copied(Name(f + 1), Name(f)) = SubSeq(Name(f + 1), 1, f + 1) \o SubSeq(Name(f), (f + 1) + 1, f)
  BY <1>5 DEF Copied
<1>7. QED
  BY <1>3, <1>4, <1>5, <1>6

\* The structure holds the name of the current download and nothing of another,
\* as long as no name is followed by a shorter one (tftp.c:62-68 does not copy the
\* final zero) and each leaves room for a zero.
LEMMA AlwaysNamed ==
  ASSUME NamesShrink = FALSE, MaxDownloads < MaxFilenameLength
  PROVE  Spec => []IsNamed
<1>1. Init => IsNamed
  <2>1. Name(0) = <<>>
    BY DEF Name
  <2>2. QED
    BY <2>1 DEF Init, IsNamed
<1>2. IInv /\ IsNamed /\ [Next]_vars => IsNamed'
  <2>1. SUFFICES ASSUME IInv, IsNamed, [Next]_vars PROVE IsNamed'
    OBVIOUS
  <2>2. /\ Table /\ OtherTypes
        /\ download \in Nat
    <3>1. Table /\ OtherTypes
      BY <2>1, TypesSplit DEF IInv
    <3>2. QED
      BY <3>1, TftpAssumption DEF OtherTypes
  <2>3. CASE TftpDownloadFile
    <3>1. download + 1 < MaxFilenameLength
      BY <2>2, <2>3, TftpAssumption DEF TftpDownloadFile
    <3>2. QED
      BY <2>1, <2>2, <2>3, <3>1, LongerNameCopied DEF TftpDownloadFile, IsNamed
  <2>4. CASE TftpRead
    <3>1. UNCHANGED <<filename, download>>
      BY <2>2, <2>4, PollEffect DEF TftpRead, OtherTypes
    <3>2. QED
      BY <2>1, <3>1 DEF IsNamed
  <2>5. CASE \E t \in Tids : Server(t) \/ ServerFails(t)
    BY <2>1, <2>2, <2>5, ServerEffect DEF IsNamed, client
  <2>6. CASE ~TftpDownloadFile /\ ~TftpRead /\ ~\E t \in Tids : Server(t) \/ ServerFails(t)
    BY <2>1, <2>6 DEF Next, TftpAbortDownload, Lose, Arrive, IsNamed, client, vars
  <2>7. QED
    BY <2>3, <2>4, <2>5, <2>6
<1>3. QED
  BY <1>1, <1>2, AlwaysIInv, PTL DEF Spec

\* It is then what the request names.
LEMMA NamedRequests ==
  ASSUME NamesShrink = FALSE, MaxDownloads < MaxFilenameLength,
         IsNamed, download \in 0 .. MaxDownloads
  PROVE  Requests = {ReadRequest(Name(download))}
<1>1. download \in Nat /\ Name(download) = [k \in 1 .. download |-> download]
  BY TftpAssumption DEF Name
<1>2. filename \in Seq(Nat) /\ Len(filename) = download
  BY <1>1 DEF IsNamed
<1>3. filename \o <<>> = filename /\ Len(filename) # MaxFilenameLength
  BY <1>2, TftpAssumption
<1>4. QED
  BY <1>3 DEF Requests, IsNamed

-----------------------------------------------------------------------------
(* What the caller gets. *)

\* An OACK is not taken for the block behind the last one, nor for any before it.
FewBlocks == LastBlock + 1 < OackNumber

Block(f, b) == [file |-> f, block |-> b]

\* The blocks of the transfer, from the first; an empty last one is counted but
\* not returned.
InOrder ==
  Reading /\ server_port \notin StrayPorts =>
    /\ block_number =< LastBlock
    /\ \A i \in 1 .. Len(delivered) : delivered[i] = Block(server[server_port].file, i)
    /\ block_number \in {Len(delivered), LastBlock}

\* Numbers below the modulus are themselves, and no number reaches it.
LEMMA Moduli ==
  \A b \in Nat : /\ b % BlockModulus \in 0 .. BlockModulus - 1
                 /\ b < BlockModulus => b % BlockModulus = b
BY TftpAssumption

\* The next block is the next block of the transfer the client follows.
LEMMA NextBlock ==
  ASSUME ErrorCodes \subseteq {0}, FewBlocks, IInv, InOrder,
         state = "READ", server_port \notin StrayPorts, Waiting, IsNext(First)
  PROVE  /\ First = Data(server_port, server[server_port].file, block_number + 1)
         /\ block_number + 1 \in 1 .. LastBlock
         /\ server[server_port].file \in Files
<1>1. /\ Table /\ OtherTypes /\ block_number \in Nat /\ BlockModulus \in Nat /\ LastBlock \in Nat
      /\ OackNumber \in Nat /\ LastBlock < BlockModulus
  BY TypesSplit, TftpAssumption DEF IInv, OtherTypes, Numbers, FewBlocks
<1>2. /\ First \in ToClient /\ First \in Queued /\ First.number = block_number + 1
      /\ First.number \in Numbers /\ First.number # 0
  BY <1>1, FirstIs DEF OtherTypes
<1>3. ASSUME NEW t \in Tids, First = Oack(t) PROVE FALSE
  <2>1. block_number =< LastBlock
    BY DEF InOrder, Reading
  <2>2. First.number = OackNumber
    BY <1>3, DatagramFields
  <2>3. QED
    BY <1>1, <1>2, <2>1, <2>2 DEF FewBlocks
<1>4. ASSUME NEW t \in Tids, NEW c \in ErrorCodes, First = Error(t, c) PROVE FALSE
  BY <1>1, <1>2, <1>4, DatagramFields
<1>5. PICK t \in Tids, f \in Files \cup {0}, b \in 1 .. LastBlock : First = Data(t, f, b)
  BY <1>2, <1>3, <1>4, ToClientKinds
<1>6. First.port = t /\ First.number = b % BlockModulus
  BY <1>5, DatagramFields
<1>7. server_port = t
  BY <1>6, TftpAssumption DEF IsNext, FromOtherPort, IInv, Follows, Reading
<1>8. server[t].file = f /\ f \in Files /\ b =< server[t].block
  BY <1>2, <1>5, <1>7 DEF IInv, Origins, Seen
<1>9. b \in Nat /\ server[t].block \in Nat
  <2>1. server[t] \in ServerTypes
    BY <1>1 DEF OtherTypes
  <2>2. QED
    BY <2>1, TftpAssumption DEF ServerTypes
<1>10. b < BlockModulus
  BY <1>1, <1>9
<1>11. b = block_number + 1
  BY <1>2, <1>6, <1>9, <1>10, Moduli
<1>12. QED
  BY <1>5, <1>7, <1>8, <1>11

\* How many bytes of a block the caller gets.
LEMMA BlockBytes ==
  ASSUME NEW t, NEW f, NEW b \in 1 .. LastBlock
  PROVE  /\ Bytes(Data(t, f, b)) \in Nat
         /\ Bytes(Data(t, f, b)) = 0 => b = LastBlock /\ LastSize = 0
         /\ BufferSize >= 512 => (IsLast(Data(t, f, b)) <=> b = LastBlock)
         /\ b = LastBlock => IsLast(Data(t, f, b))
<1>1. Data(t, f, b).content.block = b /\ Data(t, f, b).kind = "DATA"
  <2>1. Data(t, f, b).content = [file |-> f, block |-> b] /\ Data(t, f, b).kind = "DATA"
    BY DatagramFields
  <2>2. QED
    BY <2>1
<1>2. PayloadSize(Data(t, f, b)) = IF b = LastBlock THEN LastSize ELSE 512
  BY <1>1 DEF PayloadSize
<1>3. QED
  BY <1>2, TftpAssumption DEF Bytes, IsLast

\* Every step keeps the order, if the next block is what NextBlock says.
LEMMA InOrderKept ==
  ASSUME ErrorCodes \subseteq {0}, FewBlocks, IInv, InOrder, [Next]_vars
  PROVE  InOrder'
<1>1. Table /\ OtherTypes
  BY TypesSplit DEF IInv
<1>2. delivered \in Seq(Contents) /\ Len(delivered) \in Nat
  BY <1>1 DEF OtherTypes
<1>3. ASSUME server' = server, Idles PROVE InOrder'
  BY <1>3 DEF Idles, InOrder, Reading, Block
<1>4. CASE TftpDownloadFile
  BY <1>4 DEF TftpDownloadFile, InOrder, Reading
<1>5. CASE TftpRead
  <2>1. /\ Idles \/ Accepts \/ Fails \/ TakesBlock \/ TakesEmpty
        /\ server' = server
    BY <1>1, <1>5, PollEffect DEF TftpRead, OtherTypes
  <2>2. CASE Idles
    BY <1>3, <2>1, <2>2
  <2>3. CASE Accepts
    <3>1. delivered' = <<>> /\ block_number' = 0 /\ 0 =< LastBlock
      BY <2>3, TftpAssumption DEF Accepts, IInv, Follows, Reading
    <3>2. QED
      BY <3>1 DEF InOrder
  <2>4. CASE Fails
    BY <2>4 DEF Fails, InOrder, Reading
  <2>5. CASE TakesBlock /\ server_port \notin StrayPorts
    <3> DEFINE F == server[server_port].file
    <3>1. /\ First = Data(server_port, F, block_number + 1)
          /\ block_number + 1 \in 1 .. LastBlock
          /\ First.number = block_number + 1
      <4>1. First = Data(server_port, F, block_number + 1) /\ block_number + 1 \in 1 .. LastBlock
        BY <2>5, NextBlock DEF TakesBlock
      <4>2. QED
        BY <2>5, <4>1 DEF TakesBlock, IsNext
    <3>2. block_number = Len(delivered) /\ \A i \in 1 .. Len(delivered) : delivered[i] = Block(F, i)
      <4>1. block_number # LastBlock
        BY <3>1, TftpAssumption
      <4>2. QED
        BY <2>5, <4>1 DEF InOrder, Reading, TakesBlock
    <3>3. First.content = Block(F, block_number + 1)
      BY <3>1, DatagramFields DEF Block
    <3>4. /\ delivered' = Append(delivered, Block(F, block_number + 1))
          /\ block_number' = block_number + 1 /\ server'[server_port'].file = F
      BY <2>1, <2>5, <3>1, <3>3 DEF TakesBlock
    <3> HIDE DEF F
    <3>5. /\ Len(delivered') = Len(delivered) + 1
          /\ \A i \in 1 .. Len(delivered) : delivered'[i] = delivered[i]
          /\ delivered'[Len(delivered) + 1] = Block(F, block_number + 1)
      BY <1>2, <3>4
    <3>6. \A i \in 1 .. Len(delivered) + 1 : i \in 1 .. Len(delivered) \/ i = Len(delivered) + 1
      BY <1>2
    <3>7. \A i \in 1 .. Len(delivered') : delivered'[i] = Block(F, i)
      BY <3>2, <3>5, <3>6
    <3>8. block_number' =< LastBlock
      BY <3>1, <3>4, TftpAssumption
    <3>9. QED
      BY <3>2, <3>4, <3>5, <3>7, <3>8 DEF InOrder, Block
  <2>6. CASE TakesEmpty /\ server_port \notin StrayPorts
    <3> DEFINE F == server[server_port].file
    <3>1. First = Data(server_port, F, block_number + 1) /\ block_number + 1 \in 1 .. LastBlock
      BY <2>6, NextBlock DEF TakesEmpty
    <3>2. block_number' = LastBlock
      BY <2>6, <3>1, BlockBytes DEF TakesEmpty, IsNext
    <3>3. QED
      BY <2>1, <2>6, <3>2, TftpAssumption DEF TakesEmpty, InOrder, Reading, Block
  <2>7. CASE (TakesBlock \/ TakesEmpty) /\ server_port \in StrayPorts
    BY <2>7 DEF TakesBlock, TakesEmpty, InOrder
  <2>8. QED
    BY <2>1, <2>2, <2>3, <2>4, <2>5, <2>6, <2>7
<1>6. CASE \E t \in Tids : Server(t) \/ ServerFails(t)
  <2>1. PICK t \in Tids : Server(t) \/ ServerFails(t)
    BY <1>6
  <2>2. /\ UNCHANGED client
        /\ \A u \in Tids \ {t} : server'[u] = server[u]
        /\ Started(t) => server'[t].file = server[t].file
    BY <1>1, <2>1, ServerEffect
  <2>3. Reading /\ server_port \notin StrayPorts =>
          server'[server_port].file = server[server_port].file
    BY <2>2 DEF IInv, Follows
  <2>4. QED
    BY <2>2, <2>3 DEF InOrder, Reading, client, Block
<1>7. CASE ~TftpDownloadFile /\ ~TftpRead /\ ~\E t \in Tids : Server(t) \/ ServerFails(t)
  BY <1>3, <1>7 DEF Next, TftpAbortDownload, Lose, Arrive, Idles, client, vars
<1>8. QED
  BY <1>4, <1>5, <1>6, <1>7

\* Before the first download nothing is read.
LEMMA InitInOrder == Init => InOrder
BY DEF Init, InOrder, Reading

\* In order is what OneTransfer says.
LEMMA InOrderIsOneTransfer == IInv /\ InOrder => OneTransfer
<1> SUFFICES ASSUME IInv, InOrder, delivered # <<>>, server_port \notin StrayPorts
             PROVE  delivered = [i \in DOMAIN delivered |->
                                   [file |-> server[server_port].file, block |-> i]]
  BY DEF OneTransfer
<1>1. Table /\ OtherTypes
  BY TypesSplit DEF IInv
<1>2. delivered \in Seq(Contents) /\ DOMAIN delivered = 1 .. Len(delivered)
  BY <1>1 DEF OtherTypes
<1>3. Reading
  BY DEF IInv, Follows
<1>4. \A i \in DOMAIN delivered :
         delivered[i] = [file |-> server[server_port].file, block |-> i]
  BY <1>2, <1>3 DEF InOrder, Block
<1>5. delivered = [i \in DOMAIN delivered |-> delivered[i]]
  BY <1>2
<1>6. QED
  BY <1>4, <1>5

\* Blocks of two transfers never mix, and the caller gets those of the one from
\* the first on, each once: whatever the network repeats, delays or loses,
\* however many downloads were given up before, whatever hosts send from ports
\* other than the one followed, and whatever the size of the caller's buffer.
\* The hypotheses exclude what the code does wrong: it does not look at the
\* opcode, so an ERROR whose code is the number of the next block is taken for
\* that block, and so is a repeated OACK in a file long enough (tftp.c:209-228).
THEOREM TransfersDoNotMix ==
  ASSUME ErrorCodes \subseteq {0}, LastBlock + 1 < OackNumber
  PROVE  Spec => []OneTransfer
<1> FewBlocks
  BY DEF FewBlocks
<1>1. IInv /\ InOrder /\ [Next]_vars => InOrder'
  BY InOrderKept
<1>2. QED
  BY <1>1, InitInOrder, InOrderIsOneTransfer, AlwaysIInv, PTL DEF Spec

-----------------------------------------------------------------------------
(* One download. *)

\* A connection that is not idle belongs to a download.
Asked == state # "IDLE" => download # 0

\* Nothing happens to a connection before tftp_download_file.
LEMMA AlwaysAsked == Spec => []Asked
<1>1. Init => Asked
  BY DEF Init, Asked
<1>2. IInv /\ Asked /\ [Next]_vars => Asked'
  <2>1. SUFFICES ASSUME IInv, Asked, [Next]_vars PROVE Asked'
    OBVIOUS
  <2>2. Table /\ OtherTypes
    BY <2>1, TypesSplit DEF IInv
  <2>3. CASE TftpDownloadFile
    BY <2>2, <2>3 DEF TftpDownloadFile, Asked, OtherTypes
  <2>4. CASE TftpRead
    <3>1. /\ Idles \/ Accepts \/ Fails \/ TakesBlock \/ TakesEmpty
          /\ download' = download
      BY <2>2, <2>4, PollEffect DEF TftpRead, OtherTypes
    <3>2. QED
      BY <2>1, <3>1 DEF Asked, Idles, Accepts, Fails, TakesBlock, TakesEmpty
  <2>5. CASE \E t \in Tids : Server(t) \/ ServerFails(t)
    BY <2>1, <2>2, <2>5, ServerEffect DEF Asked, client
  <2>6. CASE ~TftpDownloadFile /\ ~TftpRead /\ ~\E t \in Tids : Server(t) \/ ServerFails(t)
    BY <2>1, <2>6 DEF Next, TftpAbortDownload, Lose, Arrive, Asked, client, vars
  <2>7. QED
    BY <2>3, <2>4, <2>5, <2>6
<1>3. QED
  BY <1>1, <1>2, AlwaysIInv, PTL DEF Spec

\* The first download starts from nothing.
LEMMA FirstDownload ==
  ASSUME MaxDownloads =< 1, OtherTypes, Asked, TftpDownloadFile
  PROVE  ~Reading /\ download = 0
BY TftpAssumption DEF OtherTypes, Asked, TftpDownloadFile, Reading

\* What tftp_read does to the block number of a client that reads.
LEMMA BlockNumberGrows ==
  ASSUME IInv, Reading, Idles \/ TakesBlock \/ TakesEmpty
  PROVE  /\ Reading' /\ server_port' = server_port
         /\ block_number \in Nat /\ block_number' \in Nat /\ block_number =< block_number'
         /\ block_number = BlockModulus - 1 => block_number' = block_number
<1>1. Table /\ OtherTypes
  BY TypesSplit DEF IInv
<1>2. block_number \in Nat
  BY <1>1, TftpAssumption DEF OtherTypes, Numbers
<1>3. Waiting /\ IsNext(First) => /\ First.number = block_number + 1
                                  /\ First.number \in 0 .. BlockModulus - 1
  BY <1>1, FirstIs DEF OtherTypes, Numbers
<1>4. QED
  BY <1>2, <1>3, TftpAssumption DEF Idles, TakesBlock, TakesEmpty, Reading

\* tftp.c keeps the promise of Download: the calls of tftp_read return the
\* blocks of the file, each once and in order, and the state is DONE exactly
\* when the last one has been returned.  Of the hypotheses the first excludes
\* a late OACK of an earlier download, which makes the client read that file;
\* the second another host at a port of the server (tftp.c:192 and 214 compare
\* no addresses); the next two are those of TransfersDoNotMix; the last is a
\* caller with room for a block, without which the rest of it is lost.
THEOREM ImplementsDownload ==
  ASSUME MaxDownloads =< 1, StrayPorts = {}, ErrorCodes \subseteq {0},
         LastBlock + 1 < OackNumber, BufferSize >= 512
  PROVE  Spec => IsDownload
<1> FewBlocks
  BY DEF FewBlocks
<1>1. Init => DownloadsFile!Init
  BY DEF Init, DownloadsFile!Init
<1>3. IInv /\ InOrder /\ [Next]_vars => InOrder'
  BY InOrderKept
<1>4. IInv /\ Asked /\ InOrder /\ [Next]_vars => [DownloadsFile!Next]_DownloadsFile!vars
  <2>1. SUFFICES ASSUME IInv, Asked, InOrder, [Next]_vars
                 PROVE  [DownloadsFile!Next]_DownloadsFile!vars
    OBVIOUS
  <2>2. Table /\ OtherTypes
    BY <2>1, TypesSplit DEF IInv
  <2>3. ASSUME UNCHANGED <<state, download, delivered>>
        PROVE  [DownloadsFile!Next]_DownloadsFile!vars
    BY <2>3 DEF DownloadsFile!vars
  <2>4. CASE TftpDownloadFile
    BY <2>4 DEF TftpDownloadFile, DownloadsFile!Next, DownloadsFile!Start
  <2>5. CASE TftpRead
    <3>1. /\ Idles \/ Accepts \/ Fails \/ TakesBlock \/ TakesEmpty
          /\ download' = download
      BY <2>2, <2>5, PollEffect DEF TftpRead, OtherTypes
    <3>2. CASE Idles \/ TakesEmpty
      BY <2>3, <3>1, <3>2 DEF Idles, TakesEmpty
    <3>3. CASE Accepts
      BY <3>1, <3>3 DEF Accepts, DownloadsFile!Next, DownloadsFile!Accept
    <3>4. CASE Fails
      BY <3>1, <3>4 DEF Fails, DownloadsFile!Next, DownloadsFile!Fail
    <3>5. CASE TakesBlock
      <4> DEFINE F == server[server_port].file
      <4>1. /\ First = Data(server_port, F, block_number + 1)
            /\ block_number + 1 \in 1 .. LastBlock /\ F \in Files
        BY <2>1, <3>5, NextBlock DEF TakesBlock
      <4>2. F = download
        <5>1. download # 0
          BY <2>1, <3>5 DEF TakesBlock, Asked
        <5>2. QED
          BY <2>2, <4>1, <5>1, TftpAssumption DEF OtherTypes, Files
      <4>3. block_number = Len(delivered)
        <5>1. block_number # LastBlock
          BY <4>1, TftpAssumption
        <5>2. QED
          BY <2>1, <3>5, <5>1 DEF InOrder, Reading, TakesBlock
      <4>4. First.content = [file |-> download, block |-> Len(delivered) + 1]
        BY <4>1, <4>2, <4>3, DatagramFields
      <4>5. IsLast(First) <=> Len(delivered) + 1 = LastBlock
        BY <4>1, <4>3, BlockBytes
      <4>6. DownloadsFile!ReturnBlock
        BY <3>1, <3>5, <4>4, <4>5 DEF TakesBlock, DownloadsFile!ReturnBlock
      <4>7. QED
        BY <4>6 DEF DownloadsFile!Next
    <3>6. QED
      BY <3>1, <3>2, <3>3, <3>4, <3>5
  <2>6. CASE \E t \in Tids : Server(t) \/ ServerFails(t)
    BY <2>2, <2>3, <2>6, ServerEffect DEF client
  <2>7. CASE ~TftpDownloadFile /\ ~TftpRead /\ ~\E t \in Tids : Server(t) \/ ServerFails(t)
    BY <2>1, <2>3, <2>7 DEF Next, TftpAbortDownload, Lose, Arrive, client, vars
  <2>8. QED
    BY <2>4, <2>5, <2>6, <2>7
<1>5. QED
  BY <1>1, <1>3, <1>4, InitInOrder, AlwaysIInv, AlwaysAsked, PTL
  DEF Spec, IsDownload, DownloadsFile!Spec

-----------------------------------------------------------------------------
(* Which transfers are told off, and which are finished. *)

\* Only transfers other than the one the client reads from are told off.
ToldOff ==
  \A t \in Tids : ErrorTo(t) \in network \/ server[t].phase = "killed" =>
                    t # server_port /\ Reading

\* The error sent to a wrong port never ends the transfer the client reads from.
\* An application that calls tftp_abort_download means to end it; in a second
\* download the client may follow a transfer it told off in the first.
THEOREM RightTransferLives ==
  ASSUME MaxDownloads =< 1, MayAbort = FALSE
  PROVE  Spec => []OwnTransferLives
<1>1. Init => ToldOff
  BY DEF Init, ToldOff, Unused
<1>2. IInv /\ Asked /\ ToldOff /\ [Next]_vars => ToldOff'
  <2>1. SUFFICES ASSUME IInv, Asked, ToldOff, [Next]_vars PROVE ToldOff'
    OBVIOUS
  <2>2. Table /\ OtherTypes
    BY <2>1, TypesSplit DEF IInv
  <2>3. CASE TftpDownloadFile
    <3>1. ~Reading
      BY <2>1, <2>2, <2>3, FirstDownload
    <3>2. QED
      BY <2>1, <2>3, <3>1 DEF TftpDownloadFile, ToldOff
  <2>4. CASE TftpRead
    <3>1. /\ Idles \/ Accepts \/ Fails \/ TakesBlock \/ TakesEmpty
          /\ server' = server
          /\ \A d \in network' : d \in network \/ Sent(d)
      BY <2>2, <2>4, PollEffect DEF TftpRead, OtherTypes
    <3>2. ASSUME NEW t \in Tids, ErrorTo(t) \in network'
          PROVE  ErrorTo(t) \in network \/ (state = "READ" /\ t # server_port)
      <4>1. \/ ErrorTo(t) \in network
            \/ state = "READ" /\ FromOtherPort(First) /\ t = First.port
        BY <3>1, <3>2, DatagramsDiffer DEF Sent, Requests
      <4>2. QED
        BY <4>1 DEF FromOtherPort
    <3>3. Reading => Reading' /\ server_port' = server_port
      BY <3>1 DEF Idles, Accepts, Fails, TakesBlock, TakesEmpty, Reading
    <3>4. QED
      BY <2>1, <3>1, <3>2, <3>3 DEF ToldOff, Reading
  <2>5. CASE \E t \in Tids : Server(t) \/ ServerFails(t)
    <3>1. PICK t \in Tids : Server(t) \/ ServerFails(t)
      BY <2>5
    <3>2. /\ UNCHANGED client
          /\ \A u \in Tids \ {t} : server'[u] = server[u]
          /\ server'[t].phase = "killed" => server[t].phase = "killed" \/ ErrorTo(t) \in network
          /\ \A d \in network' : \/ d \in network
                                 \/ d = Oack(t)
                                 \/ d = Data(t, server'[t].file, server'[t].block)
                                 \/ \E c : d = Error(t, c)
      BY <2>2, <3>1, ServerEffect
    <3>3. \A u : ErrorTo(u) \in network' => ErrorTo(u) \in network
      BY <3>2, DatagramsDiffer, ErrorsDiffer
    <3>4. QED
      BY <2>1, <3>2, <3>3 DEF ToldOff, Reading, client
  <2>6. CASE ~TftpDownloadFile /\ ~TftpRead /\ ~\E t \in Tids : Server(t) \/ ServerFails(t)
    <3>1. UNCHANGED <<client, server>> /\ network' \subseteq network
      BY <2>1, <2>6 DEF Next, TftpAbortDownload, Lose, Arrive, vars
    <3>2. QED
      BY <2>1, <3>1 DEF ToldOff, Reading, client
  <2>7. QED
    BY <2>3, <2>4, <2>5, <2>6
<1>3. IInv /\ ToldOff => OwnTransferLives
  BY DEF IInv, Follows, ToldOff, OwnTransferLives, Reading
<1>4. QED
  BY <1>1, <1>2, <1>3, AlwaysIInv, AlwaysAsked, PTL DEF Spec

\* Of the transfers of the current file only the one the client follows is
\* acknowledged, up to the block the client has, and so can come to its end.
Acknowledged ==
  \A t \in Tids : Started(t) /\ server[t].file = download =>
    /\ \A n \in Numbers : Ack(t, n) \in network => t = server_port /\ Reading /\ n =< block_number
    /\ server[t].phase = "finished" => t = server_port /\ Reading /\ LastBlock =< block_number

\* Only files that the application has asked for are requested and sent.
Requested ==
  /\ \A f \in Files : ReadRequest(Name(f)) \in network => f =< download
  /\ \A t \in Tids : Started(t) => server[t].file \in 1 .. download

\* A client that still reads has not had the last block.
NotAtEnd == state = "READ" => block_number < LastBlock

\* A name belongs to one file.
LEMMA NamesDiffer ==
  ASSUME NamesShrink = FALSE, NEW f \in Nat, NEW g \in Nat, Name(f) = Name(g)
  PROVE  f = g
<1>1. ASSUME NEW n \in Nat PROVE DOMAIN Name(n) = 1 .. n
  BY DEF Name
<1>2. 1 .. f = 1 .. g
  BY <1>1
<1>3. QED
  BY <1>2

\* A block that is not the last one leaves a block to come; an empty one does
\* not come at all.
LEMMA NotAtEndKept ==
  ASSUME FewBlocks, LastSize > 0, StrayPorts = {}, IInv, NotAtEnd,
         Idles \/ Accepts \/ Fails \/ TakesBlock \/ TakesEmpty
  PROVE  NotAtEnd' /\ ~TakesEmpty
<1>1. Table /\ OtherTypes
  BY TypesSplit DEF IInv
<1>2. /\ LastBlock \in Nat /\ LastBlock > 0 /\ BlockModulus \in Nat /\ BufferSize \in Nat \ {0}
      /\ OackNumber \in Nat /\ LastBlock < BlockModulus /\ block_number \in Nat
  BY <1>1, TftpAssumption DEF FewBlocks, OtherTypes, Numbers
<1>3. ASSUME state = "READ", Waiting, IsNext(First)
      PROVE  Bytes(First) > 0 /\ (~IsLast(First) => First.number < LastBlock)
  <2>1. First \in ToClient /\ First.number \in Numbers
    BY <1>1, <1>3, FirstIs DEF OtherTypes
  <2>2. ASSUME NEW t \in Tids, First = Oack(t) PROVE FALSE
    <3>1. block_number < LastBlock /\ First.number = block_number + 1
      BY <1>1, <1>3, FirstIs DEF NotAtEnd, OtherTypes
    <3>2. First.number = OackNumber
      BY <2>2, DatagramFields
    <3>3. QED
      BY <1>2, <3>1, <3>2 DEF FewBlocks
  <2>3. CASE \E t \in Tids, c \in ErrorCodes : First = Error(t, c)
    <3>1. First.kind = "ERROR"
      BY <2>3, DatagramFields
    <3>2. PayloadSize(First) = 10
      BY <3>1 DEF PayloadSize
    <3>3. QED
      BY <1>2, <3>2 DEF Bytes, IsLast
  <2>4. CASE \E t \in Tids, f \in Files \cup {0}, b \in 1 .. LastBlock : First = Data(t, f, b)
    <3>1. PICK t \in Tids, f \in Files \cup {0}, b \in 1 .. LastBlock : First = Data(t, f, b)
      BY <2>4
    <3>2. First.number = b
      <4>1. b \in Nat /\ b < BlockModulus
        BY <1>2
      <4>2. QED
        BY <3>1, <4>1, Moduli, DatagramFields
    <3>3. /\ Bytes(First) \in Nat /\ Bytes(First) # 0
          /\ b = LastBlock => IsLast(First)
      BY <3>1, BlockBytes
    <3>4. QED
      BY <1>2, <3>2, <3>3
  <2>5. QED
    BY <2>1, <2>2, <2>3, <2>4, ToClientKinds
<1>4. ~TakesEmpty
  BY <1>3 DEF TakesEmpty
<1>5. QED
  BY <1>2, <1>3, <1>4 DEF NotAtEnd, Idles, Accepts, Fails, TakesBlock

\* The last block ends the download.
LEMMA AlwaysNotAtEnd ==
  ASSUME FewBlocks, LastSize > 0, StrayPorts = {}
  PROVE  Spec => []NotAtEnd
<1>1. Init => NotAtEnd
  BY DEF Init, NotAtEnd
<1>2. IInv /\ NotAtEnd /\ [Next]_vars => NotAtEnd'
  <2>1. SUFFICES ASSUME IInv, NotAtEnd, [Next]_vars PROVE NotAtEnd'
    OBVIOUS
  <2>2. Table /\ OtherTypes
    BY <2>1, TypesSplit DEF IInv
  <2>3. CASE TftpDownloadFile
    BY <2>3 DEF TftpDownloadFile, NotAtEnd
  <2>4. CASE TftpRead
    <3>1. Idles \/ Accepts \/ Fails \/ TakesBlock \/ TakesEmpty
      BY <2>2, <2>4, PollEffect DEF TftpRead, OtherTypes
    <3>2. QED
      BY <2>1, <3>1, NotAtEndKept
  <2>5. CASE \E t \in Tids : Server(t) \/ ServerFails(t)
    BY <2>1, <2>2, <2>5, ServerEffect DEF NotAtEnd, client
  <2>6. CASE ~TftpDownloadFile /\ ~TftpRead /\ ~\E t \in Tids : Server(t) \/ ServerFails(t)
    BY <2>1, <2>6 DEF Next, TftpAbortDownload, Lose, Arrive, NotAtEnd, client, vars
  <2>7. QED
    BY <2>3, <2>4, <2>5, <2>6
<1>3. QED
  BY <1>1, <1>2, AlwaysIInv, PTL DEF Spec

\* Every step keeps to the files that were asked for.
LEMMA RequestedKept ==
  ASSUME NamesShrink = FALSE, MaxDownloads < MaxFilenameLength,
         IInv, IsNamed, Requested, [Next]_vars
  PROVE  Requested'
<1>1. Table /\ OtherTypes
  BY TypesSplit DEF IInv
<1>2. download \in Nat /\ \A f \in Files : f \in Nat /\ f >= 1
  BY <1>1, TftpAssumption DEF OtherTypes, Files
<1>3. CASE TftpDownloadFile
  <2>1. download' = download + 1 /\ UNCHANGED <<server, network>>
    BY <1>3 DEF TftpDownloadFile
  <2>2. \A f \in Files : ReadRequest(Name(f)) \in network' => f =< download'
    BY <1>2, <2>1 DEF Requested
  <2>3. \A t \in Tids : Started(t)' => server'[t].file \in 1 .. download'
    BY <1>2, <2>1 DEF Requested, Started
  <2>4. QED
    BY <2>2, <2>3 DEF Requested
<1>4. CASE TftpRead
  <2>1. /\ UNCHANGED <<download, server>>
        /\ \A d \in network' : d \in network \/ Sent(d)
    BY <1>1, <1>4, PollEffect DEF TftpRead, OtherTypes
  <2>2. ASSUME NEW f \in Files, ReadRequest(Name(f)) \in network' PROVE f =< download
    <3>1. ReadRequest(Name(f)) \in network \/ Name(f) = Name(download)
      <4>1. Requests = {ReadRequest(Name(download))}
        BY <1>1, NamedRequests DEF OtherTypes
      <4>2. QED
        BY <2>1, <2>2, <4>1, DatagramsDiffer DEF Sent
    <3>2. Name(f) = Name(download) => f = download
      BY <1>2, NamesDiffer
    <3>3. QED
      BY <1>2, <3>1, <3>2 DEF Requested
  <2>3. QED
    BY <2>1, <2>2 DEF Requested, Started
<1>5. CASE \E t \in Tids : Server(t) \/ ServerFails(t)
  <2>1. PICK t \in Tids : Server(t) \/ ServerFails(t)
    BY <1>5
  <2>2. /\ UNCHANGED client
        /\ \A u \in Tids \ {t} : server'[u] = server[u]
        /\ Started(t) => server'[t].file = server[t].file
        /\ ~Started(t) => \E f \in Files : /\ ReadRequest(Name(f)) \in network
                                           /\ server'[t].file = f
        /\ \A d \in network' : \/ d \in network
                               \/ d = Oack(t)
                               \/ d = Data(t, server'[t].file, server'[t].block)
                               \/ \E c : d = Error(t, c)
    BY <1>1, <2>1, ServerEffect
  <2>3. \A x : ReadRequest(x) \in network' => ReadRequest(x) \in network
    BY <2>2, DatagramsDiffer
  <2>4. download' = download
    BY <2>2 DEF client
  <2>5. server'[t].file \in 1 .. download
    BY <1>2, <2>2 DEF Requested
  <2>6. QED
    BY <2>2, <2>3, <2>4, <2>5 DEF Requested, Started
<1>6. CASE ~TftpDownloadFile /\ ~TftpRead /\ ~\E t \in Tids : Server(t) \/ ServerFails(t)
  <2>1. /\ UNCHANGED <<client, server>>
        /\ \A d \in network' : d \in network \/ \E t : d = ErrorTo(t)
    BY <1>6 DEF Next, TftpAbortDownload, Lose, Arrive, vars
  <2>2. \A x : ReadRequest(x) \in network' => ReadRequest(x) \in network
    BY <2>1, DatagramsDiffer
  <2>3. QED
    BY <2>1, <2>2 DEF Requested, Started, client
<1>7. QED
  BY <1>3, <1>4, <1>5, <1>6

\* Every step keeps the acknowledgements with the transfer that is followed.
LEMMA AcknowledgedKept ==
  ASSUME LastBlock < BlockModulus, StrayPorts = {}, IInv, Requested, Acknowledged, [Next]_vars
  PROVE  Acknowledged'
<1>1. Table /\ OtherTypes
  BY TypesSplit DEF IInv
<1>2. /\ download \in Nat /\ LastBlock \in Nat /\ BlockModulus \in Nat /\ LastBlock \in Numbers
      /\ block_number \in Nat
  BY <1>1, TftpAssumption DEF OtherTypes, Numbers
<1>3. CASE TftpDownloadFile
  <2>1. download' = download + 1 /\ server' = server
    BY <1>3 DEF TftpDownloadFile
  <2>2. \A t \in Tids : Started(t)' => server'[t].file # download'
    BY <1>2, <2>1 DEF Requested, Started
  <2>3. QED
    BY <2>2 DEF Acknowledged
<1>4. CASE TftpRead
  <2>1. /\ Idles \/ Accepts \/ Fails \/ TakesBlock \/ TakesEmpty
        /\ UNCHANGED <<download, server>>
        /\ \A d \in network' : d \in network \/ Sent(d)
    BY <1>1, <1>4, PollEffect DEF TftpRead, OtherTypes
  <2>2. SUFFICES ASSUME NEW t \in Tids, Started(t), server[t].file = download
                 PROVE  /\ \A n \in Numbers : Ack(t, n) \in network' =>
                             t = server_port' /\ Reading' /\ n =< block_number'
                        /\ server[t].phase = "finished" =>
                             t = server_port' /\ Reading' /\ LastBlock =< block_number'
    BY <2>1 DEF Acknowledged, Started
  <2>3. ASSUME NEW n \in Numbers, Ack(t, n) \in network'
        PROVE  \/ Ack(t, n) \in network
               \/ t = server_port /\ Reading /\ n = block_number
               \/ TakesBlock /\ t = server_port /\ Reading /\ n = First.number
    BY <2>1, <2>3, DatagramsDiffer DEF Sent, Requests, Reading, TakesBlock
  <2>4. CASE Reading
    <3>1. Idles \/ TakesBlock \/ TakesEmpty
      BY <2>1, <2>4 DEF Accepts, Fails, Reading
    <3>2. /\ Reading' /\ server_port' = server_port
          /\ block_number' \in Nat /\ block_number =< block_number'
      BY <2>4, <3>1, BlockNumberGrows
    <3>3. ASSUME NEW n \in Numbers, Ack(t, n) \in network'
          PROVE  t = server_port /\ n =< block_number'
      <4>1. CASE Ack(t, n) \in network
        <5>1. t = server_port /\ n =< block_number
          BY <2>2, <4>1 DEF Acknowledged
        <5>2. QED
          BY <1>2, <3>2, <5>1 DEF Numbers
      <4>2. CASE t = server_port /\ n = block_number
        BY <3>2, <4>2
      <4>3. CASE t = server_port /\ TakesBlock /\ n = First.number
        BY <3>2, <4>3 DEF TakesBlock
      <4>4. QED
        BY <2>3, <3>3, <4>1, <4>2, <4>3
    <3>4. ASSUME server[t].phase = "finished" PROVE t = server_port /\ LastBlock =< block_number'
      <4>1. t = server_port /\ LastBlock =< block_number
        BY <2>2, <3>4 DEF Acknowledged
      <4>2. QED
        BY <1>2, <3>2, <4>1
    <3>5. QED
      BY <3>2, <3>3, <3>4
  <2>5. CASE ~Reading
    BY <2>2, <2>3, <2>5 DEF Acknowledged
  <2>6. QED
    BY <2>4, <2>5
<1>5. CASE \E t \in Tids : Server(t) \/ ServerFails(t)
  <2>1. PICK t \in Tids : Server(t) \/ ServerFails(t)
    BY <1>5
  <2>2. /\ UNCHANGED client
        /\ \A u \in Tids \ {t} : server'[u] = server[u]
        /\ Started(t) => server'[t].file = server[t].file
        /\ ~Started(t) => server'[t].phase = "active"
        /\ server'[t].phase = "finished" =>
             \/ server[t].phase = "finished"
             \/ Ack(t, LastBlock % BlockModulus) \in network
        /\ \A d \in network' : \/ d \in network
                               \/ d = Oack(t)
                               \/ d = Data(t, server'[t].file, server'[t].block)
                               \/ \E c : d = Error(t, c)
    BY <1>1, <2>1, ServerEffect
  <2>3. \A u, n : Ack(u, n) \in network' => Ack(u, n) \in network
    BY <2>2, DatagramsDiffer
  <2>4. LastBlock % BlockModulus = LastBlock
    BY <1>2, Moduli
  <2>5. ~Started(t) => \A n \in Numbers : Ack(t, n) \notin network
    BY DEF IInv, Origins
  <2>6. SUFFICES ASSUME NEW u \in Tids, Started(u)', server'[u].file = download
                 PROVE  /\ \A n \in Numbers : Ack(u, n) \in network =>
                             u = server_port /\ Reading /\ n =< block_number
                        /\ server'[u].phase = "finished" =>
                             u = server_port /\ Reading /\ LastBlock =< block_number
    BY <2>2, <2>3 DEF Acknowledged, Reading, client
  <2>7. CASE u # t
    BY <2>2, <2>6, <2>7 DEF Acknowledged, Started
  <2>8. CASE u = t /\ ~Started(t)
    BY <2>2, <2>5, <2>8
  <2>9. CASE u = t /\ Started(t)
    BY <1>2, <2>2, <2>4, <2>6, <2>9 DEF Acknowledged
  <2>10. QED
    BY <2>7, <2>8, <2>9
<1>6. CASE ~TftpDownloadFile /\ ~TftpRead /\ ~\E t \in Tids : Server(t) \/ ServerFails(t)
  <2>1. /\ UNCHANGED <<client, server>>
        /\ \A d \in network' : d \in network \/ \E t : d = ErrorTo(t)
    BY <1>6 DEF Next, TftpAbortDownload, Lose, Arrive, vars
  <2>2. \A u, n : Ack(u, n) \in network' => Ack(u, n) \in network
    BY <2>1, DatagramsDiffer
  <2>3. QED
    BY <2>1, <2>2 DEF Acknowledged, Started, Reading, client
<1>7. QED
  BY <1>3, <1>4, <1>5, <1>6

\* A transfer of the current file that the server takes for finished is the one
\* the client read from, and the client has had all of it; for any number of
\* downloads.  The hypotheses are names that the structure has room for and that
\* do not get shorter (AlwaysNamed), no other host at a port of the server, no
\* more blocks than in TransfersDoNotMix, and a last block that is not empty:
\* after an empty one the client stays in TFTP_STATE_READ.
THEOREM FinishTogether ==
  ASSUME NamesShrink = FALSE, MaxDownloads < MaxFilenameLength, StrayPorts = {},
         LastBlock + 1 < OackNumber, LastSize > 0
  PROVE  Spec => []FinishedTogether
<1> FewBlocks /\ LastBlock < BlockModulus
  BY TftpAssumption DEF FewBlocks
<1>1. Init => Requested /\ Acknowledged
  BY DEF Init, Requested, Acknowledged, Started, Unused
<1>2. IInv /\ IsNamed /\ Requested /\ [Next]_vars => Requested'
  BY RequestedKept
<1>3. IInv /\ Requested /\ Acknowledged /\ [Next]_vars => Acknowledged'
  BY AcknowledgedKept
<1>4. IInv /\ Acknowledged /\ NotAtEnd => FinishedTogether
  <2>1. SUFFICES ASSUME IInv, Acknowledged, NotAtEnd, NEW t \in Tids,
                        server[t].phase = "finished", server[t].file = download
                 PROVE  state = "DONE" /\ server_port = t
    BY DEF FinishedTogether
  <2>2. Table /\ OtherTypes
    BY <2>1, TypesSplit DEF IInv
  <2>3. t = server_port /\ Reading /\ LastBlock =< block_number
    BY <2>1 DEF Acknowledged, Started
  <2>4. QED
    BY <2>1, <2>2, <2>3, TftpAssumption DEF NotAtEnd, Reading, OtherTypes, Numbers
<1>5. QED
  BY <1>1, <1>2, <1>3, <1>4, AlwaysIInv, AlwaysNamed, AlwaysNotAtEnd, PTL DEF Spec
=============================================================================
