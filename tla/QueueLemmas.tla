----------------------------- MODULE QueueLemmas -----------------------------
(***************************************************************************)
(* Lemmas about sequences and about the operators of UdpQueues.tla, used   *)
(* by the proofs of the modules that keep packets in queues, and about the *)
(* lists of IntrusiveLists.tla, used by those of Arp and Stack: a ring of  *)
(* linked nodes stands for a sequence, and what list.h does to the         *)
(* pointers is what happens to that sequence.                              *)
(***************************************************************************)
EXTENDS UdpQueues, IntrusiveLists, FiniteSetTheorems, WellFoundedInduction, TLAPS

\* The smallest element of a set of natural numbers is what it is called.
LEMMA MinOfNat ==
  ASSUME NEW S, S \subseteq Nat, S # {}
  PROVE  Min(S) \in S /\ \A n \in S : Min(S) =< n
<1> DEFINE less == {pair \in Nat \X Nat : pair[1] < pair[2]}
<1>1. IsWellFoundedOn(less, Nat)
  BY NatLessThanWellFounded, Zenon DEF OpToRel
<1>2. PICK m \in S : \A n \in S : ~(<<n, m>> \in less)
  <2> HIDE DEF less
  <2>1. QED
    BY <1>1, WFMin
<1>3. \A n \in S : m =< n
  <2>1. \A a, b \in Nat : a < b => <<a, b>> \in less
    OBVIOUS
  <2> HIDE DEF less
  <2>2. SUFFICES ASSUME NEW n \in S PROVE m =< n
    OBVIOUS
  <2>3. n \in Nat /\ m \in Nat /\ ~(<<n, m>> \in less)
    BY <1>2
  <2>4. ~(n < m)
    BY <2>1, <2>3, Zenon
  <2>5. QED
    BY <2>3, <2>4
<1>4. QED
  BY <1>3 DEF Min

\* Induction up to a bound.
LEMMA UpTo ==
  ASSUME NEW N \in Nat, NEW S, 0 \in S, \A n \in 0 .. N - 1 : n \in S => n + 1 \in S
  PROVE  \A n \in 0 .. N : n \in S
<1> DEFINE T == {n \in 0 .. N : n \notin S}
<1>1. SUFFICES ASSUME T # {} PROVE FALSE
  OBVIOUS
<1>2. T \subseteq Nat
  OBVIOUS
<1>3. Min(T) \in T /\ \A n \in T : Min(T) =< n
  <2> HIDE DEF T
  <2>1. QED
    BY <1>1, <1>2, MinOfNat
<1>4. PICK m \in T : \A n \in T : m =< n
  BY <1>3
<1>5. m \in 0 .. N /\ m \notin S /\ m # 0
  OBVIOUS
<1>6. m - 1 \in 0 .. N - 1 /\ m - 1 \in 0 .. N /\ (m - 1) + 1 = m /\ ~(m =< m - 1)
  BY <1>5
<1>7. m - 1 \in S
  BY <1>4, <1>6
<1>8. QED
  BY <1>5, <1>6, <1>7

\* What a loop computes: its start, and then what each turn makes of the value before.
IsLoop(v, T, start, step, n) ==
  /\ v \in [0 .. n -> T] /\ v[0] = start
  /\ \A k \in 1 .. n : v[k] = step[<<k, v[k - 1]>>]

\* A loop with a bound computes something.
LEMMA LoopsExist ==
  ASSUME NEW T, NEW start \in T, NEW N \in Nat, NEW step \in [(1 .. N) \X T -> T]
  PROVE  \E v : IsLoop(v, T, start, step, N)
<1> DEFINE S == {n \in 0 .. N : \E v : IsLoop(v, T, start, step, n)}
<1>1. 0 \in S
  <2>1. IsLoop([k \in 0 .. 0 |-> start], T, start, step, 0) /\ 0 \in 0 .. N
    BY DEF IsLoop
  <2>2. QED
    BY <2>1
<1>2. ASSUME NEW n \in 0 .. N - 1, n \in S PROVE n + 1 \in S
  <2>1. PICK v : IsLoop(v, T, start, step, n)
    BY <1>2
  <2> DEFINE last == step[<<n + 1, v[n]>>]
             w    == [k \in 0 .. n + 1 |-> IF k = n + 1 THEN last ELSE v[k]]
  <2>2. /\ v \in [0 .. n -> T] /\ v[0] = start
        /\ \A k \in 1 .. n : v[k] = step[<<k, v[k - 1]>>]
    BY <2>1 DEF IsLoop
  <2>3. last \in T
    <3>1. n + 1 \in 1 .. N /\ n \in 0 .. n
      OBVIOUS
    <3>2. <<n + 1, v[n]>> \in (1 .. N) \X T
      BY <2>2, <3>1
    <3>3. QED
      BY <3>2
  <2>4. w \in [0 .. n + 1 -> T] /\ w[n + 1] = last /\ \A k \in 0 .. n : w[k] = v[k]
    <3> HIDE DEF last
    <3>1. QED
      BY <2>2, <2>3
  <2> HIDE DEF w
  <2>5. ASSUME NEW k \in 1 .. n + 1 PROVE w[k] = step[<<k, w[k - 1]>>]
    <3>1. CASE k = n + 1
      <4>1. k - 1 = n /\ n \in 0 .. n
        BY <3>1
      <4>2. QED
        BY <2>4, <3>1, <4>1
    <3>2. CASE k # n + 1
      <4>1. k \in 0 .. n /\ k - 1 \in 0 .. n /\ k \in 1 .. n
        BY <3>2
      <4>2. QED
        BY <2>2, <2>4, <4>1
    <3>3. QED
      BY <3>1, <3>2
  <2>6. n + 1 \in 0 .. N /\ 0 \in 0 .. n
    OBVIOUS
  <2>7. IsLoop(w, T, start, step, n + 1)
    BY <2>2, <2>4, <2>5, <2>6 DEF IsLoop
  <2>8. QED
    BY <2>6, <2>7
<1>3. \A n \in 0 .. N : n \in S
  <2> HIDE DEF S
  <2>1. QED
    BY <1>1, <1>2, UpTo
<1>4. N \in 0 .. N
  OBVIOUS
<1>5. QED
  BY <1>3, <1>4

\* Taking the first element off a list without duplicates removes exactly it
\* (list_remove_first).
LEMMA TailRemoves ==
  ASSUME NEW S, NEW s \in Seq(S), s # <<>>, IsInjective(s)
  PROVE  /\ Head(s) \in S
         /\ Head(s) \in Range(s)
         /\ Tail(s) \in Seq(S)
         /\ IsInjective(Tail(s))
         /\ Range(Tail(s)) = Range(s) \ {Head(s)}
<1>1. /\ Len(s) \in Nat /\ Len(s) # 0 /\ DOMAIN s = 1 .. Len(s)
      /\ Head(s) = s[1] /\ s[1] \in S
  OBVIOUS
<1>2. /\ Tail(s) \in Seq(S) /\ DOMAIN Tail(s) = 1 .. Len(s) - 1
      /\ \A k \in 1 .. Len(s) - 1 : Tail(s)[k] = s[k + 1]
  BY <1>1
<1>3. IsInjective(Tail(s))
  BY <1>1, <1>2 DEF IsInjective
<1>4. ASSUME NEW x \in Range(s) \ {Head(s)}
      PROVE  x \in Range(Tail(s))
  <2>1. PICK k \in 1 .. Len(s) : s[k] = x
    BY <1>1, <1>4 DEF Range
  <2>2. k - 1 \in 1 .. Len(s) - 1 /\ Tail(s)[k - 1] = x
    BY <1>1, <1>2, <1>4, <2>1
  <2>3. QED
    BY <1>2, <2>2 DEF Range
<1>5. ASSUME NEW x \in Range(Tail(s))
      PROVE  x \in Range(s) \ {Head(s)}
  <2>1. PICK k \in 1 .. Len(s) - 1 : Tail(s)[k] = x
    BY <1>2, <1>5 DEF Range
  <2>2. k + 1 \in 1 .. Len(s) /\ s[k + 1] = x /\ k + 1 # 1
    BY <1>1, <1>2, <2>1
  <2>3. QED
    BY <1>1, <2>2 DEF Range, IsInjective
<1>6. Head(s) \in Range(s)
  BY <1>1 DEF Range
<1>7. Range(Tail(s)) = Range(s) \ {Head(s)}
  BY <1>4, <1>5
<1>8. QED
  BY <1>1, <1>2, <1>3, <1>6, <1>7

\* Adding an element at the end of a list that does not hold it adds exactly it
\* (list_add_last).
LEMMA AppendAdds ==
  ASSUME NEW S, NEW s \in Seq(S), NEW p \in S
  PROVE  /\ Append(s, p) \in Seq(S) /\ Append(s, p) # <<>>
         /\ Len(Append(s, p)) = Len(s) + 1
         /\ Range(Append(s, p)) = Range(s) \cup {p}
         /\ IsInjective(s) /\ p \notin Range(s) => IsInjective(Append(s, p))
<1> DEFINE t == Append(s, p)
<1>1. /\ Len(s) \in Nat /\ DOMAIN s = 1 .. Len(s)
      /\ t \in Seq(S) /\ t # <<>> /\ Len(t) = Len(s) + 1 /\ DOMAIN t = 1 .. Len(s) + 1
      /\ t[Len(s) + 1] = p /\ \A k \in 1 .. Len(s) : t[k] = s[k]
  OBVIOUS
<1> HIDE DEF t
<1>2. \A k \in 1 .. Len(s) + 1 : k \in 1 .. Len(s) \/ k = Len(s) + 1
  BY <1>1
<1>3. Range(t) = Range(s) \cup {p}
  <2>1. ASSUME NEW x \in Range(t) PROVE x \in Range(s) \cup {p}
    BY <1>1, <1>2, <2>1 DEF Range
  <2>2. p \in Range(t)
    BY <1>1 DEF Range
  <2>3. ASSUME NEW x \in Range(s) PROVE x \in Range(t)
    BY <1>1, <2>3 DEF Range
  <2>4. QED
    BY <2>1, <2>2, <2>3
<1>4. ASSUME IsInjective(s), p \notin Range(s) PROVE IsInjective(t)
  <2>1. \A k \in 1 .. Len(s) : t[k] # p
    BY <1>1, <1>4 DEF Range
  <2>2. QED
    BY <1>1, <1>2, <1>4, <2>1 DEF IsInjective
<1>5. QED
  BY <1>1, <1>3, <1>4 DEF t

\* find_connection returns the first connection of the list with the port.
LEMMA FindConnectionFinds ==
  ASSUME NEW T, NEW table \in Seq(T), NEW port
  PROVE  LET c == FindConnection(table, port) IN
         /\ c \in 0 .. Len(table)
         /\ c # 0 => /\ c \in 1 .. Len(table) /\ table[c].port = port
                     /\ \A i \in 1 .. c - 1 : table[i].port # port
         /\ c = 0 => \A i \in 1 .. Len(table) : table[i].port # port
<1> DEFINE I == {i \in 1 .. Len(table) : table[i].port = port}
<1>1. FindConnection(table, port) = IF I # {} THEN Min(I) ELSE 0
  BY DEF FindConnection, SelectInSeq
<1>2. I \subseteq Nat /\ Len(table) \in Nat
  OBVIOUS
<1>3. CASE I = {}
  BY <1>1, <1>2, <1>3
<1>4. CASE I # {}
  <2>1. /\ Min(I) \in I /\ \A n \in I : Min(I) =< n
    BY <1>2, <1>4, MinOfNat
  <2>2. FindConnection(table, port) = Min(I)
    BY <1>1, <1>4
  <2> DEFINE c == Min(I)
  <2>3. c \in 1 .. Len(table) /\ table[c].port = port
    BY <2>1
  <2>4. \A i \in 1 .. c - 1 : table[i].port # port
    BY <1>2, <2>1, <2>3
  <2> HIDE DEF c
  <2>5. QED
    BY <1>2, <2>2, <2>3, <2>4 DEF c
<1>5. QED
  BY <1>3, <1>4

-----------------------------------------------------------------------------
(* One connection. *)

\* Connections for the ports P, with packets of D and limits of M.
ConnectionsOf(P, D, M) ==
  [port : P, packet_queue : Seq(D), packet_count : Nat, max_packet_count : M]

\* The field packet_count is right and within its limit.
Counted(c) ==
  /\ c.packet_count = Len(c.packet_queue)
  /\ c.max_packet_count \in Nat /\ c.packet_count =< c.max_packet_count

Updated(c, queue, count) == [c EXCEPT !.packet_queue = queue, !.packet_count = count]

\* What the assignments to the queue and its count leave alone.
LEMMA UpdatedConnection ==
  ASSUME NEW P, NEW D, NEW M, NEW c \in ConnectionsOf(P, D, M),
         NEW queue \in Seq(D), NEW count \in Nat
  PROVE  LET d == Updated(c, queue, count) IN
         /\ d \in ConnectionsOf(P, D, M)
         /\ d.port = c.port /\ d.max_packet_count = c.max_packet_count
         /\ d.packet_queue = queue /\ d.packet_count = count
BY DEF ConnectionsOf, Updated

\* udp_listen sets up an empty queue.
LEMMA NewConnectionCounted ==
  ASSUME NEW P, NEW D, NEW M, NEW port \in P, NEW max \in M, max \in Nat
  PROVE  LET c == NewConnection(port, max) IN
         /\ c \in ConnectionsOf(P, D, M) /\ Counted(c)
         /\ c.port = port /\ c.packet_queue = <<>> /\ c.max_packet_count = max
<1>1. <<>> \in Seq(D) /\ Len(<<>>) = 0 /\ max \in Nat
  OBVIOUS
<1>2. QED
  BY <1>1 DEF NewConnection, ConnectionsOf, Counted

\* handle_udp adds the packet at the end; what overflows is the first one of
\* the longer queue, and that is what it frees.
LEMMA DeliveredQueue ==
  ASSUME NEW P, NEW D, NEW M, NEW c \in ConnectionsOf(P, D, M), Counted(c), NEW p \in D
  PROVE  LET d == Delivered(c, p) IN
         /\ d \in ConnectionsOf(P, D, M) /\ Counted(d)
         /\ d.port = c.port /\ d.max_packet_count = c.max_packet_count
         /\ d.packet_queue = IF Len(c.packet_queue) = c.max_packet_count
                             THEN Tail(Append(c.packet_queue, p))
                             ELSE Append(c.packet_queue, p)
         /\ Evicted(c, p) \subseteq Range(c.packet_queue) \cup {p}
         /\ IsInjective(c.packet_queue) /\ p \notin Range(c.packet_queue) =>
              /\ IsInjective(d.packet_queue)
              /\ Range(d.packet_queue) = (Range(c.packet_queue) \cup {p}) \ Evicted(c, p)
<1> DEFINE q == Append(c.packet_queue, p)
           d == Delivered(c, p)
<1>1. /\ c.packet_queue \in Seq(D) /\ c.packet_count \in Nat /\ c.max_packet_count \in Nat
      /\ c.packet_count = Len(c.packet_queue) /\ c.packet_count =< c.max_packet_count
  BY DEF ConnectionsOf, Counted
<1>2. /\ q \in Seq(D) /\ q # <<>> /\ Len(q) = c.packet_count + 1
      /\ Range(q) = Range(c.packet_queue) \cup {p}
      /\ IsInjective(c.packet_queue) /\ p \notin Range(c.packet_queue) => IsInjective(q)
  BY <1>1, AppendAdds
<1>3. /\ Tail(q) \in Seq(D) /\ Len(Tail(q)) = c.packet_count
      /\ Head(q) \in Range(q)
  <2>1. Tail(q) \in Seq(D) /\ Len(Tail(q)) = Len(q) - 1
    BY <1>2
  <2>2. 1 \in DOMAIN q /\ Head(q) = q[1]
    BY <1>1, <1>2
  <2>3. QED
    BY <1>1, <1>2, <2>1, <2>2 DEF Range
<1>4. Overflows(c) <=> Len(c.packet_queue) = c.max_packet_count
  BY <1>1 DEF Overflows
<1> DEFINE queue == IF Overflows(c) THEN Tail(q) ELSE q
           count == IF Overflows(c) THEN c.packet_count ELSE c.packet_count + 1
<1>5. /\ d \in ConnectionsOf(P, D, M)
      /\ d.port = c.port /\ d.max_packet_count = c.max_packet_count
      /\ d.packet_queue = queue /\ d.packet_count = count
  <2>1. queue \in Seq(D) /\ count \in Nat
    BY <1>1, <1>2, <1>3
  <2>2. d = Updated(c, queue, count)
    BY DEF Delivered, Updated
  <2> HIDE DEF d, queue, count
  <2>3. QED
    BY <2>1, <2>2, UpdatedConnection
<1> HIDE DEF d, q
<1>6. d \in ConnectionsOf(P, D, M) /\ Counted(d)
  BY <1>1, <1>2, <1>3, <1>4, <1>5 DEF Counted
<1>7. Evicted(c, p) = IF Overflows(c) THEN {Head(q)} ELSE {}
  BY DEF Evicted, q
<1>8. ASSUME IsInjective(c.packet_queue), p \notin Range(c.packet_queue)
      PROVE  /\ IsInjective(d.packet_queue)
             /\ Range(d.packet_queue) = Range(q) \ Evicted(c, p)
  BY <1>2, <1>5, <1>7, <1>8, TailRemoves
<1>9. /\ d.port = c.port /\ d.max_packet_count = c.max_packet_count
      /\ d.packet_queue = IF Overflows(c) THEN Tail(q) ELSE q
  BY <1>5
<1>10. QED
  BY <1>2, <1>3, <1>4, <1>6, <1>7, <1>8, <1>9 DEF d, q

\* udp_receive_zero_copy takes the first packet.
LEMMA DequeuedQueue ==
  ASSUME NEW P, NEW D, NEW M, NEW c \in ConnectionsOf(P, D, M), Counted(c), c.packet_count # 0
  PROVE  LET d == Dequeued(c) IN
         /\ c.packet_queue # <<>> /\ Head(c.packet_queue) \in Range(c.packet_queue)
         /\ d \in ConnectionsOf(P, D, M) /\ Counted(d)
         /\ d.port = c.port /\ d.max_packet_count = c.max_packet_count
         /\ d.packet_queue = Tail(c.packet_queue)
         /\ IsInjective(c.packet_queue) =>
              /\ IsInjective(d.packet_queue)
              /\ Range(d.packet_queue) = Range(c.packet_queue) \ {Head(c.packet_queue)}
<1> DEFINE q == c.packet_queue
           d == Dequeued(c)
<1>1. /\ q \in Seq(D) /\ c.packet_count \in Nat /\ c.max_packet_count \in Nat
      /\ c.packet_count = Len(q) /\ c.packet_count =< c.max_packet_count
  BY DEF ConnectionsOf, Counted
<1>2. /\ q # <<>> /\ Tail(q) \in Seq(D) /\ Len(Tail(q)) = c.packet_count - 1
      /\ 1 \in DOMAIN q /\ Head(q) = q[1]
  BY <1>1
<1>3. /\ d \in ConnectionsOf(P, D, M)
      /\ d.port = c.port /\ d.max_packet_count = c.max_packet_count
      /\ d.packet_queue = Tail(q) /\ d.packet_count = c.packet_count - 1
  <2> DEFINE queue == Tail(q)
             count == c.packet_count - 1
  <2>1. queue \in Seq(D) /\ count \in Nat
    BY <1>1, <1>2
  <2>2. d = Updated(c, queue, count)
    BY DEF Dequeued, Updated
  <2> HIDE DEF d, queue, count
  <2>3. /\ d \in ConnectionsOf(P, D, M)
        /\ d.port = c.port /\ d.max_packet_count = c.max_packet_count
        /\ d.packet_queue = queue /\ d.packet_count = count
    BY <2>1, <2>2, UpdatedConnection
  <2>4. QED
    BY <2>3 DEF queue, count
<1> HIDE DEF d, q
<1>4. d \in ConnectionsOf(P, D, M) /\ Counted(d)
  BY <1>1, <1>2, <1>3 DEF Counted
<1>5. Head(q) \in Range(q)
  BY <1>2 DEF Range
<1>6. ASSUME IsInjective(q)
      PROVE  IsInjective(Tail(q)) /\ Range(Tail(q)) = Range(q) \ {Head(q)}
  BY <1>1, <1>2, <1>6, TailRemoves
<1>7. d.port = c.port /\ d.max_packet_count = c.max_packet_count /\ d.packet_queue = Tail(q)
  BY <1>3
<1>8. QED
  BY <1>2, <1>4, <1>5, <1>6, <1>7 DEF d, q

-----------------------------------------------------------------------------
(* The table of connections. *)

\* Traffic changes no port and moves no connection, and so not what
\* find_connection returns.
LEMMA FindConnectionStable ==
  ASSUME NEW T, NEW table \in Seq(T), NEW U, NEW later \in Seq(U), NEW port,
         Len(later) = Len(table),
         \A i \in 1 .. Len(table) : later[i].port = table[i].port
  PROVE  FindConnection(later, port) = FindConnection(table, port)
<1> DEFINE I(t) == {i \in 1 .. Len(t) : t[i].port = port}
<1>1. I(table) = I(later)
  OBVIOUS
<1>2. ASSUME NEW t PROVE FindConnection(t, port) = IF I(t) # {} THEN Min(I(t)) ELSE 0
  BY DEF FindConnection, SelectInSeq
<1> HIDE DEF I
<1>3. QED
  BY <1>1, <1>2

\* udp_listen puts the new connection first: it shadows an older one with the
\* same port and hides no other.
LEMMA ListeningShifts ==
  ASSUME NEW T, NEW table \in Seq(T), NEW port, NEW max, NewConnection(port, max) \in T
  PROVE  LET later == Listening(table, port, max) IN
         /\ later \in Seq(T) /\ Len(later) = Len(table) + 1
         /\ later[1] = NewConnection(port, max)
         /\ \A i \in 1 .. Len(table) : later[i + 1] = table[i]
BY DEF Listening

\* What find_connection finds after udp_listen.
LEMMA ListeningFinds ==
  ASSUME NEW T, NEW table \in Seq(T), NEW port, NEW max, NewConnection(port, max) \in T,
         NEW other
  PROVE  FindConnection(Listening(table, port, max), other) =
           IF other = port THEN 1
           ELSE IF FindConnection(table, other) = 0 THEN 0
           ELSE FindConnection(table, other) + 1
<1> DEFINE later == Listening(table, port, max)
           c     == FindConnection(table, other)
           d     == FindConnection(later, other)
<1>1. /\ later \in Seq(T) /\ Len(later) = Len(table) + 1 /\ Len(table) \in Nat
      /\ later[1].port = port
      /\ \A i \in 1 .. Len(table) : later[i + 1] = table[i]
  BY ListeningShifts DEF NewConnection
<1>2. /\ d \in 0 .. Len(later)
      /\ d # 0 => /\ d \in 1 .. Len(later) /\ later[d].port = other
                  /\ \A i \in 1 .. d - 1 : later[i].port # other
      /\ d = 0 => \A i \in 1 .. Len(later) : later[i].port # other
  BY <1>1, FindConnectionFinds
<1>3. /\ c \in 0 .. Len(table)
      /\ c # 0 => /\ c \in 1 .. Len(table) /\ table[c].port = other
                  /\ \A i \in 1 .. c - 1 : table[i].port # other
      /\ c = 0 => \A i \in 1 .. Len(table) : table[i].port # other
  BY FindConnectionFinds
<1> HIDE DEF later, c, d
<1>4. CASE other = port
  <2>1. 1 \in 1 .. Len(later) /\ later[1].port = other
    BY <1>1, <1>4
  <2>2. d # 0
    BY <1>2, <2>1
  <2>3. d = 1
    BY <1>1, <1>2, <2>1, <2>2
  <2>4. QED
    BY <1>4, <2>3 DEF d, later
<1>5. CASE other # port
  <2>1. \A i \in 2 .. Len(later) : i - 1 \in 1 .. Len(table) /\ later[i] = table[i - 1]
    BY <1>1
  <2>2. ASSUME d # 0 PROVE d - 1 \in 1 .. Len(table) /\ table[d - 1].port = other
    BY <1>1, <1>2, <1>5, <2>1, <2>2
  <2>3. ASSUME c # 0
        PROVE  /\ c + 1 \in 1 .. Len(later) /\ later[c + 1].port = other /\ d # 0
    BY <1>1, <1>2, <1>3, <2>3
  <2>4. ASSUME c # 0, d # 0 PROVE d = c + 1
    <3>1. ~(c < d - 1)
      BY <1>1, <1>2, <1>3, <2>3, <2>4
    <3>2. ~(d - 1 < c)
      BY <1>1, <1>3, <2>2, <2>4
    <3>3. QED
      BY <1>1, <1>2, <1>3, <3>1, <3>2
  <2>5. d = IF c = 0 THEN 0 ELSE c + 1
    BY <1>2, <1>3, <2>2, <2>3, <2>4
  <2>6. QED
    BY <1>5, <2>5 DEF c, d, later
<1>6. QED
  BY <1>4, <1>5

-----------------------------------------------------------------------------
(* Tables that are only asked which datagrams are queued. *)

\* A table of connections with right counts.
IsTable(table, P, D, M) ==
  /\ table \in Seq(ConnectionsOf(P, D, M))
  /\ \A i \in DOMAIN table : Counted(table[i])

InQueue(table, d) == \E i \in DOMAIN table : d \in Range(table[i].packet_queue)

\* udp_listen adds an empty queue.
LEMMA ListeningTable ==
  ASSUME NEW P, NEW D, NEW M, NEW table, IsTable(table, P, D, M),
         NEW port \in P, NEW max \in M, max \in Nat
  PROVE  LET later == Listening(table, port, max) IN
         /\ IsTable(later, P, D, M)
         /\ \A d : InQueue(later, d) => InQueue(table, d)
<1> DEFINE n     == Len(table)
           new   == NewConnection(port, max)
           later == Listening(table, port, max)
           C     == ConnectionsOf(P, D, M)
<1>1. new \in C /\ Counted(new) /\ new.packet_queue = <<>>
  BY NewConnectionCounted
<1> HIDE DEF C
<1>2. table \in Seq(C) /\ n \in Nat
  BY DEF IsTable, C
<1>3. /\ later \in Seq(C) /\ Len(later) = n + 1 /\ later[1] = new
      /\ \A i \in 1 .. n : later[i + 1] = table[i]
  <2>1. table \in Seq(C) /\ NewConnection(port, max) \in C
    BY <1>1, <1>2
  <2>2. /\ Listening(table, port, max) \in Seq(C)
        /\ Len(Listening(table, port, max)) = Len(table) + 1
        /\ Listening(table, port, max)[1] = NewConnection(port, max)
        /\ \A i \in 1 .. Len(table) : Listening(table, port, max)[i + 1] = table[i]
    BY <2>1, ListeningShifts
  <2>3. QED
    BY <2>2
<1> HIDE DEF n, new, later
<1>4. /\ DOMAIN later = 1 .. n + 1 /\ DOMAIN table = 1 .. n
      /\ \A i \in 2 .. n + 1 : i - 1 \in 1 .. n /\ later[i] = table[i - 1]
  BY <1>2, <1>3 DEF n
<1>5. ASSUME NEW i \in 1 .. n + 1, i # 1
      PROVE  i - 1 \in DOMAIN table /\ later[i] = table[i - 1]
  BY <1>2, <1>4, <1>5
<1>6. \A i \in 1 .. n + 1 : Counted(later[i])
  BY <1>1, <1>3, <1>5 DEF IsTable
<1>7. ASSUME NEW d, InQueue(later, d) PROVE InQueue(table, d)
  <2>1. PICK i \in 1 .. n + 1 : d \in Range(later[i].packet_queue)
    BY <1>4, <1>7 DEF InQueue
  <2>2. i # 1
    BY <1>1, <1>3, <2>1 DEF Range
  <2>3. QED
    BY <1>5, <2>1, <2>2 DEF InQueue
<1>8. QED
  BY <1>3, <1>4, <1>6, <1>7 DEF IsTable, later, C

\* What replacing one connection does to the table.
LEMMA ReplacedInTable ==
  ASSUME NEW P, NEW D, NEW M, NEW table, IsTable(table, P, D, M),
         NEW c \in 1 .. Len(table), NEW e \in ConnectionsOf(P, D, M), Counted(e)
  PROVE  LET later == [table EXCEPT ![c] = e] IN
         /\ IsTable(later, P, D, M)
         /\ \A d : InQueue(later, d) => InQueue(table, d) \/ d \in Range(e.packet_queue)
<1> DEFINE C     == ConnectionsOf(P, D, M)
           later == [table EXCEPT ![c] = e]
<1> HIDE DEF C
<1>1. /\ table \in Seq(C) /\ DOMAIN table = 1 .. Len(table) /\ e \in C
  BY DEF IsTable, C
<1>2. /\ later \in Seq(C) /\ DOMAIN later = DOMAIN table /\ later[c] = e
      /\ \A i \in DOMAIN table : i # c => later[i] = table[i]
  BY <1>1
<1> HIDE DEF later
<1>3. IsTable(later, P, D, M)
  BY <1>2 DEF IsTable, C
<1>4. \A d : InQueue(later, d) => InQueue(table, d) \/ d \in Range(e.packet_queue)
  BY <1>2 DEF InQueue
<1>5. QED
  BY <1>3, <1>4 DEF later

\* The elements of a list behind the first are elements of it.
LEMMA TailWithin ==
  ASSUME NEW S, NEW s \in Seq(S), s # <<>>
  PROVE  Range(Tail(s)) \subseteq Range(s)
<1>1. SUFFICES ASSUME NEW x \in Range(Tail(s)) PROVE x \in Range(s)
  OBVIOUS
<1>2. PICK k \in DOMAIN Tail(s) : x = Tail(s)[k]
  BY <1>1 DEF Range
<1>3. k + 1 \in DOMAIN s /\ x = s[k + 1]
  BY <1>2
<1>4. QED
  BY <1>3 DEF Range

\* udp_receive_zero_copy: the packet was queued, and none is added.
LEMMA TakenFromTable ==
  ASSUME NEW P, NEW D, NEW M, NEW table, IsTable(table, P, D, M), NEW port, HasPacket(table, port)
  PROVE  /\ FirstPacket(table, port) \in D /\ InQueue(table, FirstPacket(table, port))
         /\ IsTable(WithoutFirst(table, port), P, D, M)
         /\ \A d : InQueue(WithoutFirst(table, port), d) => InQueue(table, d)
<1> DEFINE C == ConnectionsOf(P, D, M)
           c == FindConnection(table, port)
           k == table[c]
           e == Dequeued(k)
<1>1. c # 0 /\ k.packet_count # 0
  BY DEF HasPacket
<1>2. table \in Seq(C) /\ DOMAIN table = 1 .. Len(table)
  <2> HIDE DEF C
  <2>1. QED
    BY DEF IsTable, C
<1>3. c \in 1 .. Len(table)
  <2> HIDE DEF C
  <2>1. QED
    BY <1>1, <1>2, FindConnectionFinds
<1>4. k \in ConnectionsOf(P, D, M) /\ Counted(k)
  <2> HIDE DEF C
  <2>1. k \in C
    BY <1>2, <1>3
  <2>2. QED
    BY <1>2, <1>3, <2>1 DEF IsTable, C
<1>5. k.packet_queue \in Seq(D)
  BY <1>4 DEF ConnectionsOf
<1>6. FirstPacket(table, port) = Head(k.packet_queue)
  BY DEF FirstPacket
<1>7. WithoutFirst(table, port) = [table EXCEPT ![c] = e]
  BY DEF WithoutFirst
<1> HIDE DEF C, c, k
<1>8. /\ k.packet_queue # <<>> /\ Head(k.packet_queue) \in Range(k.packet_queue)
      /\ e \in ConnectionsOf(P, D, M) /\ Counted(e)
      /\ e.packet_queue = Tail(k.packet_queue)
  BY <1>1, <1>4, DequeuedQueue
<1> HIDE DEF e
<1>9. Range(e.packet_queue) \subseteq Range(k.packet_queue)
  BY <1>5, <1>8, TailWithin
<1>10. \A d \in Range(k.packet_queue) : InQueue(table, d)
  BY <1>2, <1>3 DEF InQueue, k
<1>11. /\ IsTable([table EXCEPT ![c] = e], P, D, M)
       /\ \A d : InQueue([table EXCEPT ![c] = e], d) =>
                   InQueue(table, d) \/ d \in Range(e.packet_queue)
  BY <1>3, <1>8, ReplacedInTable
<1>12. Head(k.packet_queue) \in D
  BY <1>5, <1>8
<1>13. QED
  BY <1>6, <1>7, <1>8, <1>9, <1>10, <1>11, <1>12

\* handle_udp adds nothing but the packet.
LEMMA ArrivedInTable ==
  ASSUME NEW P, NEW D, NEW M, NEW table, IsTable(table, P, D, M), NEW port, NEW p \in D
  PROVE  /\ IsTable(WithPacket(table, port, p), P, D, M)
         /\ \A d : InQueue(WithPacket(table, port, p), d) => InQueue(table, d) \/ d = p
<1> DEFINE C == ConnectionsOf(P, D, M)
           c == FindConnection(table, port)
           k == table[c]
           e == Delivered(k, p)
<1>1. table \in Seq(C) /\ DOMAIN table = 1 .. Len(table)
  <2> HIDE DEF C
  <2>1. QED
    BY DEF IsTable, C
<1>2. WithPacket(table, port, p) = [table EXCEPT ![c] = e]
  BY DEF WithPacket
<1>3. CASE c \notin DOMAIN table
  <2> HIDE DEF C, c, e
  <2>1. [table EXCEPT ![c] = e] = table
    BY <1>1, <1>3
  <2>2. QED
    BY <1>2, <2>1
<1>4. CASE c \in DOMAIN table
  <2>1. k \in ConnectionsOf(P, D, M) /\ Counted(k)
    <3> HIDE DEF C, c
    <3>1. k \in C
      BY <1>1, <1>4
    <3>2. QED
      BY <1>4, <3>1 DEF IsTable, C
  <2>2. k.packet_queue \in Seq(D)
    BY <2>1 DEF ConnectionsOf
  <2>3. c \in 1 .. Len(table)
    BY <1>1, <1>4
  <2> DEFINE q == k.packet_queue
             a == Append(q, p)
  <2> HIDE DEF C, c, k
  <2>4. /\ e \in ConnectionsOf(P, D, M) /\ Counted(e)
        /\ e.packet_queue = IF Len(q) = k.max_packet_count THEN Tail(a) ELSE a
    BY <2>1, DeliveredQueue
  <2>5. a \in Seq(D) /\ a # <<>> /\ Range(a) = Range(q) \cup {p}
    BY <2>2, AppendAdds
  <2> HIDE DEF a, q, e
  <2>6. Range(e.packet_queue) \subseteq Range(q) \cup {p}
    BY <2>4, <2>5, TailWithin
  <2>7. \A d \in Range(q) : InQueue(table, d)
    BY <1>4 DEF InQueue, q, k
  <2>8. /\ IsTable([table EXCEPT ![c] = e], P, D, M)
        /\ \A d : InQueue([table EXCEPT ![c] = e], d) =>
                    InQueue(table, d) \/ d \in Range(e.packet_queue)
    BY <2>3, <2>4, ReplacedInTable
  <2>9. QED
    BY <1>2, <2>6, <2>7, <2>8
<1>5. QED
  BY <1>3, <1>4

-----------------------------------------------------------------------------
(* Walks over linked nodes. *)

\* The heaps of list nodes.
Heap == [next : [Nodes -> Nodes], prev : [Nodes -> Nodes]]

LEMMA NodesFinite ==
  /\ IsFiniteSet(Nodes) /\ Cardinality(Nodes) \in Nat /\ IsFiniteSet(Entries)
  /\ Cardinality(Entries) \in Nat /\ Cardinality(Entries) < Cardinality(Nodes)
<1>1. IsFiniteSet(Entries) /\ FREE \notin Entries
  BY ListAssumption
<1>2. Nodes = (Entries \cup {FREE}) \cup {USED}
  BY DEF Nodes
<1>3. IsFiniteSet(Entries \cup {FREE}) /\ Cardinality(Entries \cup {FREE}) = Cardinality(Entries) + 1
  BY <1>1, FS_AddElement
<1>4. IsFiniteSet(Nodes)
  BY <1>2, <1>3, FS_AddElement
<1>5. QED
  BY <1>1, <1>2, <1>3, <1>4, FS_CardinalityType, FS_Subset

\* An iteration over a list starts at its first node and goes on with next.
IsWalk(v, heap, list) ==
  /\ v \in [0 .. Cardinality(Nodes) -> Nodes]
  /\ v[0] = heap.next[list]
  /\ \A k \in 1 .. Cardinality(Nodes) : v[k] = heap.next[v[k - 1]]

LEMMA VisitsWalk ==
  ASSUME NEW heap \in Heap, NEW list \in Nodes
  PROVE  IsWalk(Visits(heap, list), heap, list)
<1> DEFINE N    == Cardinality(Nodes)
           next == heap.next
           step == [pair \in (1 .. N) \X Nodes |-> next[pair[2]]]
           V    == Visits(heap, list)
           Body(v) == v = [k \in 0 .. N |-> IF k = 0 THEN next[list] ELSE next[v[k - 1]]]
<1>1. N \in Nat /\ next \in [Nodes -> Nodes] /\ next[list] \in Nodes
  BY NodesFinite DEF Heap
<1>2. V = CHOOSE v : Body(v)
  <2>1. DOMAIN heap.next = Nodes
    BY DEF Heap
  <2>2. QED
    BY <2>1 DEF Visits
<1> HIDE DEF N, next, V
<1>3. step \in [(1 .. N) \X Nodes -> Nodes]
  BY <1>1
<1>4. \A k \in 1 .. N, n \in Nodes : step[<<k, n>>] = next[n]
  OBVIOUS
<1> HIDE DEF step
<1>5. PICK w : IsLoop(w, Nodes, next[list], step, N)
  BY <1>1, <1>3, LoopsExist
<1>6. Body(w)
  <2>1. w \in [0 .. N -> Nodes] /\ w[0] = next[list]
    BY <1>5 DEF IsLoop
  <2>2. \A k \in 0 .. N : k # 0 => k \in 1 .. N /\ k - 1 \in 0 .. N
    BY <1>1
  <2>3. \A k \in 0 .. N : w[k] = IF k = 0 THEN next[list] ELSE next[w[k - 1]]
    BY <1>4, <1>5, <2>1, <2>2 DEF IsLoop
  <2>4. QED
    BY <2>1, <2>3
<1>7. Body(V)
  <2> HIDE DEF Body
  <2>1. QED
    BY <1>2, <1>6
<1>8. DOMAIN V = 0 .. N /\ \A k \in 0 .. N : V[k] = IF k = 0 THEN next[list] ELSE next[V[k - 1]]
  BY <1>7
<1>9. 0 \in 0 .. N /\ \A k \in 1 .. N : k \in 0 .. N /\ k # 0
  BY <1>1
<1>10. V[0] = next[list] /\ \A k \in 1 .. N : V[k] = next[V[k - 1]]
  BY <1>8, <1>9
<1>11. \A k \in 0 .. N : V[k] \in Nodes
  <2> DEFINE S == {k \in 0 .. N : V[k] \in Nodes}
  <2>1. 0 \in S
    BY <1>1, <1>9, <1>10
  <2>2. ASSUME NEW k \in 0 .. N - 1, k \in S PROVE k + 1 \in S
    <3>1. k + 1 \in 1 .. N /\ k + 1 \in 0 .. N /\ (k + 1) - 1 = k
      BY <1>1
    <3>2. QED
      BY <1>1, <1>10, <2>2, <3>1
  <2>3. \A k \in 0 .. N : k \in S
    <3> HIDE DEF S
    <3>1. QED
      BY <1>1, <2>1, <2>2, UpTo
  <2>4. QED
    BY <2>3
<1>12. V \in [0 .. N -> Nodes]
  <2>1. V = [k \in 0 .. N |-> V[k]]
    BY <1>7
  <2>2. QED
    BY <1>11, <2>1
<1>13. QED
  BY <1>10, <1>12 DEF IsWalk, N, next, V

-----------------------------------------------------------------------------
(* Rings: what list.h makes of nodes as long as each is in one list. *)

Heads == {FREE, USED}

\* The elements of a list, in their order.
Chain(s) == s \in Seq(Entries) /\ IsInjective(s)

\* The nodes of the ring: 0 and Len(s) + 1 are the list head.
RingNode(list, s, k) == IF k \in 1 .. Len(s) THEN s[k] ELSE list

IsRing(heap, list, s) ==
  \A k \in 0 .. Len(s) : /\ heap.next[RingNode(list, s, k)] = RingNode(list, s, k + 1)
                         /\ heap.prev[RingNode(list, s, k + 1)] = RingNode(list, s, k)

LEMMA ChainFacts ==
  ASSUME NEW s, Chain(s)
  PROVE  /\ Len(s) \in Nat /\ DOMAIN s = 1 .. Len(s)
         /\ \A k \in 1 .. Len(s) : s[k] \in Entries /\ s[k] \in Nodes /\ s[k] \notin Heads
         /\ \A j, k \in 1 .. Len(s) : s[j] = s[k] => j = k
         /\ \A e : e \in Range(s) <=> \E k \in 1 .. Len(s) : s[k] = e
         /\ Range(s) \subseteq Entries
<1>1. Len(s) \in Nat /\ DOMAIN s = 1 .. Len(s) /\ \A k \in 1 .. Len(s) : s[k] \in Entries
  BY DEF Chain
<1>2. \A e \in Entries : e \in Nodes /\ e \notin Heads
  BY ListAssumption DEF Nodes, Heads
<1>3. \A j, k \in 1 .. Len(s) : s[j] = s[k] => j = k
  BY <1>1 DEF Chain, IsInjective
<1>4. \A e : e \in Range(s) <=> \E k \in 1 .. Len(s) : s[k] = e
  BY <1>1 DEF Range
<1>5. QED
  BY <1>1, <1>2, <1>3, <1>4

\* A list has no more elements than there are entries.
LEMMA ChainLength ==
  ASSUME NEW s, Chain(s)
  PROVE  Len(s) \in Nat /\ Len(s) < Cardinality(Nodes) /\ Cardinality(Nodes) \in Nat
<1>1. s \in Injection(1 .. Len(s), Entries)
  BY ChainFacts DEF Injection, Chain, IsInjective
<1>2. Cardinality(1 .. Len(s)) = Len(s) /\ IsFiniteSet(1 .. Len(s))
  BY ChainFacts, FS_Interval
<1> DEFINE D == 1 .. Len(s)
<1>3. s \in Injection(D, Entries)
  BY <1>1
<1> HIDE DEF D
<1>4. Cardinality(D) =< Cardinality(Entries)
  BY <1>3, NodesFinite, FS_Injection
<1>5. QED
  BY <1>2, <1>4, NodesFinite, ChainFacts DEF D

\* The nodes of a ring are different, but for the list head at both ends.
LEMMA RingNodes ==
  ASSUME NEW list \in Heads, NEW s, Chain(s)
  PROVE  /\ \A k \in 0 .. Len(s) + 1 : RingNode(list, s, k) \in Range(s) \cup {list}
         /\ \A k \in 0 .. Len(s) + 1 : RingNode(list, s, k) \in Nodes
         /\ \A j, k \in 0 .. Len(s) : RingNode(list, s, j) = RingNode(list, s, k) => j = k
         /\ \A j, k \in 1 .. Len(s) + 1 : RingNode(list, s, j) = RingNode(list, s, k) => j = k
         /\ RingNode(list, s, 0) = list /\ RingNode(list, s, Len(s) + 1) = list
         /\ \A k \in 1 .. Len(s) : RingNode(list, s, k) = s[k]
<1>1. list \in Nodes
  BY DEF Heads, Nodes
<1>2. QED
  BY <1>1, ChainFacts DEF RingNode

\* An iteration meets the elements in their order, and then the head.
LEMMA RingWalk ==
  ASSUME NEW heap \in Heap, NEW list \in Heads, NEW s, Chain(s), IsRing(heap, list, s)
  PROVE  /\ DOMAIN Visits(heap, list) = 0 .. Cardinality(Nodes)
         /\ \A k \in 0 .. Len(s) : Visits(heap, list)[k] = RingNode(list, s, k + 1)
<1> DEFINE V == Visits(heap, list)
           S == {k \in 0 .. Len(s) : V[k] = RingNode(list, s, k + 1)}
<1>1. Len(s) \in Nat /\ Len(s) < Cardinality(Nodes) /\ Cardinality(Nodes) \in Nat
  BY ChainLength
<1>2. list \in Nodes
  BY DEF Nodes, Heads
<1>3. IsWalk(V, heap, list)
  BY <1>2, VisitsWalk
<1> HIDE DEF V
<1>4. 0 \in S
  <2>1. RingNode(list, s, 0) = list /\ 0 \in 0 .. Len(s) /\ 0 + 1 = 1
    BY <1>1 DEF RingNode
  <2>2. QED
    BY <1>3, <2>1 DEF IsRing, IsWalk
<1>5. ASSUME NEW k \in 0 .. Len(s) - 1, k \in S PROVE k + 1 \in S
  <2>1. k + 1 \in 0 .. Len(s) /\ k + 1 \in 1 .. Cardinality(Nodes) /\ (k + 1) - 1 = k
    BY <1>1
  <2>2. V[k + 1] = heap.next[RingNode(list, s, k + 1)]
    BY <1>3, <1>5, <2>1 DEF IsWalk
  <2>3. QED
    BY <2>1, <2>2 DEF IsRing
<1>6. \A k \in 0 .. Len(s) : k \in S
  <2> HIDE DEF S
  <2>1. QED
    BY <1>1, <1>4, <1>5, UpTo
<1>7. DOMAIN V = 0 .. Cardinality(Nodes)
  BY <1>3 DEF IsWalk
<1>8. QED
  BY <1>6, <1>7 DEF V

LEMMA RingElements ==
  ASSUME NEW heap \in Heap, NEW list \in Heads, NEW s, Chain(s), IsRing(heap, list, s)
  PROVE  Elements(heap, list) = Range(s)
<1> DEFINE V == Visits(heap, list)
<1>1. DOMAIN V = 0 .. Cardinality(Nodes) /\ \A k \in 0 .. Len(s) : V[k] = RingNode(list, s, k + 1)
  BY RingWalk
<1>2. Len(s) \in Nat /\ Len(s) < Cardinality(Nodes) /\ Cardinality(Nodes) \in Nat
  BY ChainLength
<1>3. Elements(heap, list) = {V[k] : k \in {k \in DOMAIN V : \A j \in 0 .. k : V[j] # list}}
  BY DEF Elements
<1> HIDE DEF V
<1>4. \A k \in 0 .. Len(s) - 1 : k \in 0 .. Len(s) /\ k + 1 \in 1 .. Len(s) /\ V[k] = s[k + 1] /\ V[k] # list
  BY <1>1, <1>2, ChainFacts DEF RingNode
<1>5. V[Len(s)] = list
  BY <1>1, <1>2 DEF RingNode
<1>6. ASSUME NEW k \in DOMAIN V PROVE (\A j \in 0 .. k : V[j] # list) <=> k \in 0 .. Len(s) - 1
  <2>1. CASE k < Len(s)
    <3>1. k \in 0 .. Len(s) - 1 /\ \A j \in 0 .. k : j \in 0 .. Len(s) - 1
      BY <1>1, <1>2, <2>1
    <3>2. QED
      BY <1>4, <3>1
  <2>2. CASE ~(k < Len(s))
    <3>1. Len(s) \in 0 .. k
      BY <1>1, <1>2, <2>2
    <3>2. QED
      BY <1>2, <1>5, <2>2, <3>1
  <2>3. QED
    BY <2>1, <2>2
<1>7. 0 .. Len(s) - 1 \subseteq DOMAIN V
  BY <1>1, <1>2
<1>8. Elements(heap, list) = {V[k] : k \in 0 .. Len(s) - 1}
  <2>1. {k \in DOMAIN V : \A j \in 0 .. k : V[j] # list} = 0 .. Len(s) - 1
    BY <1>6, <1>7
  <2>2. QED
    BY <1>3, <2>1
<1>9. ASSUME NEW e \in Range(s) PROVE e \in Elements(heap, list)
  <2>1. PICK k \in 1 .. Len(s) : s[k] = e
    BY ChainFacts
  <2>2. k - 1 \in 0 .. Len(s) - 1 /\ (k - 1) + 1 = k
    BY <1>2
  <2>3. V[k - 1] = e
    BY <1>4, <2>1, <2>2
  <2>4. QED
    BY <1>8, <2>2, <2>3
<1>10. ASSUME NEW k \in 0 .. Len(s) - 1 PROVE V[k] \in Range(s)
  BY <1>4, ChainFacts
<1>11. QED
  BY <1>8, <1>9, <1>10

\* A chain with a node behind its first i, and one without its i-th.
Inserted(s, i, node) ==
  [k \in 1 .. Len(s) + 1 |-> IF k =< i THEN s[k] ELSE IF k = i + 1 THEN node ELSE s[k - 1]]

Removed(s, i) == [k \in 1 .. Len(s) - 1 |-> IF k < i THEN s[k] ELSE s[k + 1]]

LEMMA InsertedChain ==
  ASSUME NEW s, Chain(s), NEW i \in 0 .. Len(s), NEW node \in Entries, node \notin Range(s)
  PROVE  /\ Chain(Inserted(s, i, node)) /\ Len(Inserted(s, i, node)) = Len(s) + 1
         /\ Range(Inserted(s, i, node)) = Range(s) \cup {node}
<1> DEFINE t == Inserted(s, i, node)
<1>1. /\ Len(s) \in Nat /\ \A k \in 1 .. Len(s) : s[k] \in Entries
      /\ \A j, k \in 1 .. Len(s) : s[j] = s[k] => j = k
      /\ \A e : e \in Range(s) <=> \E k \in 1 .. Len(s) : s[k] = e
  BY ChainFacts
<1>2. /\ \A k \in 1 .. i : k \in 1 .. Len(s) /\ t[k] = s[k]
      /\ t[i + 1] = node
      /\ \A k \in i + 2 .. Len(s) + 1 : k - 1 \in 1 .. Len(s) /\ t[k] = s[k - 1]
  BY <1>1 DEF Inserted
<1>3. DOMAIN t = 1 .. Len(s) + 1 /\ t = [k \in 1 .. Len(s) + 1 |-> t[k]]
  BY DEF Inserted
<1> HIDE DEF t
<1>4. ASSUME NEW k \in 1 .. Len(s) + 1
      PROVE  k \in 1 .. i \/ k = i + 1 \/ k \in i + 2 .. Len(s) + 1
  BY <1>1
<1>5. \A k \in 1 .. Len(s) + 1 : t[k] \in Entries
  BY <1>1, <1>2, <1>4
<1>6. t \in Seq(Entries) /\ Len(t) = Len(s) + 1
  BY <1>1, <1>3, <1>5
<1>7. ASSUME NEW j \in 1 .. Len(s) + 1, NEW k \in 1 .. Len(s) + 1, t[j] = t[k] PROVE j = k
  BY <1>1, <1>2, <1>4, <1>7
<1>8. IsInjective(t)
  BY <1>3, <1>7 DEF IsInjective
<1>9. \A e : e \in Range(t) <=> \E k \in 1 .. Len(s) + 1 : t[k] = e
  BY <1>3 DEF Range
<1>10. ASSUME NEW e \in Range(s) \cup {node} PROVE e \in Range(t)
  <2>1. CASE e = node
    <3>1. i + 1 \in 1 .. Len(s) + 1
      BY <1>1
    <3>2. QED
      BY <1>2, <1>9, <2>1, <3>1
  <2>2. CASE e \in Range(s)
    <3>1. PICK k \in 1 .. Len(s) : s[k] = e
      BY <1>1, <2>2
    <3>2. CASE k =< i
      <4>1. k \in 1 .. i /\ k \in 1 .. Len(s) + 1
        BY <1>1, <3>2
      <4>2. QED
        BY <1>2, <1>9, <3>1, <4>1
    <3>3. CASE ~(k =< i)
      <4>1. k + 1 \in i + 2 .. Len(s) + 1 /\ (k + 1) - 1 = k /\ k + 1 \in 1 .. Len(s) + 1
        BY <1>1, <3>3
      <4>2. t[k + 1] = e
        BY <1>2, <3>1, <4>1
      <4>3. QED
        BY <1>9, <4>1, <4>2
    <3>4. QED
      BY <3>2, <3>3
  <2>3. QED
    BY <2>1, <2>2
<1>11. ASSUME NEW k \in 1 .. Len(s) + 1 PROVE t[k] \in Range(s) \cup {node}
  BY <1>1, <1>2, <1>4
<1>12. QED
  BY <1>6, <1>8, <1>9, <1>10, <1>11 DEF Chain, t

LEMMA RemovedChain ==
  ASSUME NEW s, Chain(s), NEW i \in 1 .. Len(s)
  PROVE  /\ Chain(Removed(s, i)) /\ Len(Removed(s, i)) = Len(s) - 1
         /\ Range(Removed(s, i)) = Range(s) \ {s[i]}
<1> DEFINE t == Removed(s, i)
<1>1. /\ Len(s) \in Nat /\ \A k \in 1 .. Len(s) : s[k] \in Entries
      /\ \A j, k \in 1 .. Len(s) : s[j] = s[k] => j = k
      /\ \A e : e \in Range(s) <=> \E k \in 1 .. Len(s) : s[k] = e
  BY ChainFacts
<1>2. /\ \A k \in 1 .. i - 1 : k \in 1 .. Len(s) /\ t[k] = s[k]
      /\ \A k \in i .. Len(s) - 1 : k + 1 \in 1 .. Len(s) /\ t[k] = s[k + 1]
  BY <1>1 DEF Removed
<1>3. DOMAIN t = 1 .. Len(s) - 1 /\ t = [k \in 1 .. Len(s) - 1 |-> t[k]] /\ Len(s) - 1 \in Nat
  BY <1>1 DEF Removed
<1> HIDE DEF t
<1>4. ASSUME NEW k \in 1 .. Len(s) - 1 PROVE k \in 1 .. i - 1 \/ k \in i .. Len(s) - 1
  BY <1>1
<1>5. \A k \in 1 .. Len(s) - 1 : t[k] \in Entries
  BY <1>1, <1>2, <1>4
<1>6. t \in Seq(Entries) /\ Len(t) = Len(s) - 1
  BY <1>1, <1>3, <1>5
<1>7. ASSUME NEW j \in 1 .. Len(s) - 1, NEW k \in 1 .. Len(s) - 1, t[j] = t[k] PROVE j = k
  BY <1>1, <1>2, <1>4, <1>7
<1>8. IsInjective(t)
  BY <1>3, <1>7 DEF IsInjective
<1>9. \A e : e \in Range(t) <=> \E k \in 1 .. Len(s) - 1 : t[k] = e
  BY <1>3 DEF Range
<1>10. ASSUME NEW e \in Range(s), e # s[i] PROVE e \in Range(t)
  <2>1. PICK k \in 1 .. Len(s) : s[k] = e
    BY <1>1, <1>10
  <2>2. CASE k < i
    <3>1. k \in 1 .. i - 1 /\ k \in 1 .. Len(s) - 1
      BY <1>1, <2>2
    <3>2. QED
      BY <1>2, <1>9, <2>1, <3>1
  <2>3. CASE k > i
    <3>1. k - 1 \in i .. Len(s) - 1 /\ (k - 1) + 1 = k /\ k - 1 \in 1 .. Len(s) - 1
      BY <1>1, <2>3
    <3>2. t[k - 1] = e
      BY <1>2, <2>1, <3>1
    <3>3. QED
      BY <1>9, <3>1, <3>2
  <2>4. k # i
    BY <1>10, <2>1
  <2>5. QED
    BY <1>1, <2>2, <2>3, <2>4
<1>11. ASSUME NEW k \in 1 .. Len(s) - 1 PROVE t[k] \in Range(s) /\ t[k] # s[i]
  BY <1>1, <1>2, <1>4
<1>12. QED
  BY <1>6, <1>8, <1>9, <1>10, <1>11 DEF Chain, t

\* What the operations of list.h do to the pointers.
LEMMA LinkedHeap ==
  ASSUME NEW heap \in Heap, NEW node \in Nodes, NEW before \in Nodes, NEW after \in Nodes,
         node # before, node # after
  PROVE  LET later == LinkBetween(heap, node, before, after) IN
         /\ later \in Heap
         /\ later.next[node] = after /\ later.prev[node] = before
         /\ later.next[before] = node /\ later.prev[after] = node
         /\ \A n \in Nodes : /\ n \notin {node, before} => later.next[n] = heap.next[n]
                             /\ n \notin {node, after} => later.prev[n] = heap.prev[n]
BY DEF Heap, LinkBetween

LEMMA RemovedHeap ==
  ASSUME NEW heap \in Heap, NEW node \in Nodes
  PROVE  LET later == ListRemove(heap, node) IN
         /\ later \in Heap
         /\ later.next[heap.prev[node]] = heap.next[node]
         /\ later.prev[heap.next[node]] = heap.prev[node]
         /\ \A n \in Nodes : /\ n # heap.prev[node] => later.next[n] = heap.next[n]
                             /\ n # heap.next[node] => later.prev[n] = heap.prev[n]
BY DEF Heap, ListRemove

\* A node linked between the i-th and the next one of a ring makes a longer ring.
LEMMA RingInsert ==
  ASSUME NEW heap \in Heap, NEW list \in Heads, NEW s, Chain(s), IsRing(heap, list, s),
         NEW node \in Entries, node \notin Range(s), NEW i \in 0 .. Len(s)
  PROVE  IsRing(LinkBetween(heap, node, RingNode(list, s, i), RingNode(list, s, i + 1)),
                list, Inserted(s, i, node))
<1> DEFINE t     == Inserted(s, i, node)
           R(k)  == RingNode(list, s, k)
           Q(k)  == RingNode(list, t, k)
           later == LinkBetween(heap, node, R(i), R(i + 1))
<1>1. /\ Len(s) \in Nat /\ Len(t) = Len(s) + 1 /\ i + 1 \in 1 .. Len(s) + 1
      /\ i \in 0 .. Len(s) + 1 /\ i + 1 \in 0 .. Len(s) + 1
  BY ChainFacts, InsertedChain
<1>2. node \in Nodes /\ node \notin Heads /\ node # list
  BY ListAssumption DEF Nodes, Heads
<1>3. /\ \A k \in 0 .. Len(s) + 1 : R(k) \in Nodes /\ R(k) # node
      /\ \A j, k \in 0 .. Len(s) : R(j) = R(k) => j = k
      /\ \A j, k \in 1 .. Len(s) + 1 : R(j) = R(k) => j = k
  BY <1>2, RingNodes
<1>4. /\ \A k \in 0 .. i : Q(k) = R(k)
      /\ Q(i + 1) = node
      /\ \A k \in i + 2 .. Len(s) + 2 : Q(k) = R(k - 1)
  <2>1. \A k \in 0 .. i : Q(k) = R(k)
    BY <1>1 DEF RingNode, Inserted
  <2>2. Q(i + 1) = node
    BY <1>1 DEF RingNode, Inserted
  <2>3. \A k \in i + 2 .. Len(s) + 2 : Q(k) = R(k - 1)
    BY <1>1 DEF RingNode, Inserted
  <2>4. QED
    BY <2>1, <2>2, <2>3
<1>5. \A k \in 0 .. Len(s) : heap.next[R(k)] = R(k + 1) /\ heap.prev[R(k + 1)] = R(k)
  BY DEF IsRing
<1> HIDE DEF t, R, Q
<1>6. /\ later.next[node] = R(i + 1) /\ later.prev[node] = R(i)
      /\ later.next[R(i)] = node /\ later.prev[R(i + 1)] = node
      /\ \A n \in Nodes : /\ n \notin {node, R(i)} => later.next[n] = heap.next[n]
                          /\ n \notin {node, R(i + 1)} => later.prev[n] = heap.prev[n]
  <2>1. R(i) \in Nodes /\ R(i + 1) \in Nodes /\ R(i) # node /\ R(i + 1) # node
    BY <1>1, <1>3
  <2>2. QED
    BY <1>2, <2>1, LinkedHeap
<1> HIDE DEF later
<1>7. ASSUME NEW k \in 0 .. Len(t) PROVE later.next[Q(k)] = Q(k + 1) /\ later.prev[Q(k + 1)] = Q(k)
  <2>1. CASE k < i
    <3>1. /\ k \in 0 .. i /\ k + 1 \in 0 .. i /\ k \in 0 .. Len(s) /\ k # i /\ k + 1 # i + 1
          /\ k + 1 \in 1 .. Len(s) + 1 /\ k \in 0 .. Len(s) + 1 /\ k + 1 \in 0 .. Len(s) + 1
      BY <1>1, <2>1
    <3>2. later.next[R(k)] = heap.next[R(k)] /\ later.prev[R(k + 1)] = heap.prev[R(k + 1)]
      BY <1>1, <1>3, <1>6, <3>1
    <3>3. QED
      BY <1>4, <1>5, <3>1, <3>2
  <2>2. CASE k = i
    BY <1>1, <1>4, <1>6, <2>2
  <2>3. CASE k = i + 1
    <3>1. Q(k + 1) = R(i + 1)
      BY <1>1, <1>4, <2>3
    <3>2. QED
      BY <1>4, <1>6, <2>3, <3>1
  <2>4. CASE k > i + 1
    <3>1. /\ k \in i + 2 .. Len(s) + 2 /\ k + 1 \in i + 2 .. Len(s) + 2 /\ k - 1 \in 0 .. Len(s)
          /\ (k + 1) - 1 = k /\ (k - 1) + 1 = k /\ k - 1 # i /\ k # i + 1 /\ k \in 1 .. Len(s) + 1
          /\ k - 1 \in 0 .. Len(s) + 1 /\ k \in 0 .. Len(s) + 1
      BY <1>1, <2>4
    <3>2. later.next[R(k - 1)] = heap.next[R(k - 1)] /\ later.prev[R(k)] = heap.prev[R(k)]
      BY <1>1, <1>3, <1>6, <3>1
    <3>3. heap.next[R(k - 1)] = R(k) /\ heap.prev[R(k)] = R(k - 1)
      BY <1>5, <3>1
    <3>4. Q(k) = R(k - 1) /\ Q(k + 1) = R(k)
      BY <1>4, <3>1
    <3>5. QED
      BY <3>2, <3>3, <3>4
  <2>5. QED
    BY <1>1, <2>1, <2>2, <2>3, <2>4
<1>8. QED
  BY <1>7 DEF IsRing, t, Q, R, later

\* The other nodes of a ring close up behind a removed one.
LEMMA RingRemove ==
  ASSUME NEW heap \in Heap, NEW list \in Heads, NEW s, Chain(s), IsRing(heap, list, s),
         NEW i \in 1 .. Len(s)
  PROVE  IsRing(ListRemove(heap, s[i]), list, Removed(s, i))
<1> DEFINE t     == Removed(s, i)
           R(k)  == RingNode(list, s, k)
           Q(k)  == RingNode(list, t, k)
           later == ListRemove(heap, s[i])
<1>1. /\ Len(s) \in Nat /\ Len(t) = Len(s) - 1 /\ i - 1 \in 0 .. Len(s) /\ i + 1 \in 1 .. Len(s) + 1
      /\ i \in 0 .. Len(s) /\ (i - 1) + 1 = i
  BY ChainFacts, RemovedChain
<1>2. s[i] \in Nodes /\ R(i) = s[i]
  BY ChainFacts, RingNodes
<1>3. /\ \A k \in 0 .. Len(s) + 1 : R(k) \in Nodes
      /\ \A j, k \in 0 .. Len(s) : R(j) = R(k) => j = k
      /\ \A j, k \in 1 .. Len(s) + 1 : R(j) = R(k) => j = k
  BY RingNodes
<1>4. /\ \A k \in 0 .. i - 1 : Q(k) = R(k)
      /\ \A k \in i .. Len(s) : Q(k) = R(k + 1)
  <2>1. \A k \in 0 .. i - 1 : Q(k) = R(k)
    BY <1>1 DEF RingNode, Removed
  <2>2. \A k \in i .. Len(s) : Q(k) = R(k + 1)
    BY <1>1 DEF RingNode, Removed
  <2>3. QED
    BY <2>1, <2>2
<1>5. \A k \in 0 .. Len(s) : heap.next[R(k)] = R(k + 1) /\ heap.prev[R(k + 1)] = R(k)
  BY DEF IsRing
<1> HIDE DEF t, R, Q
<1>6. heap.next[s[i]] = R(i + 1) /\ heap.prev[s[i]] = R(i - 1)
  BY <1>1, <1>2, <1>5
<1>7. /\ later.next[R(i - 1)] = R(i + 1) /\ later.prev[R(i + 1)] = R(i - 1)
      /\ \A n \in Nodes : /\ n # R(i - 1) => later.next[n] = heap.next[n]
                          /\ n # R(i + 1) => later.prev[n] = heap.prev[n]
  BY <1>2, <1>6, RemovedHeap
<1> HIDE DEF later
<1>8. ASSUME NEW k \in 0 .. Len(t) PROVE later.next[Q(k)] = Q(k + 1) /\ later.prev[Q(k + 1)] = Q(k)
  <2>1. CASE k < i - 1
    <3>1. /\ k \in 0 .. i - 1 /\ k + 1 \in 0 .. i - 1 /\ k \in 0 .. Len(s) /\ k # i - 1
          /\ k + 1 # i + 1 /\ k + 1 \in 1 .. Len(s) + 1
          /\ k \in 0 .. Len(s) + 1 /\ k + 1 \in 0 .. Len(s) + 1
      BY <1>1, <2>1
    <3>2. later.next[R(k)] = heap.next[R(k)] /\ later.prev[R(k + 1)] = heap.prev[R(k + 1)]
      BY <1>1, <1>3, <1>7, <3>1
    <3>3. QED
      BY <1>4, <1>5, <3>1, <3>2
  <2>2. CASE k = i - 1
    <3>1. Q(k) = R(i - 1) /\ Q(k + 1) = R(i + 1)
      BY <1>1, <1>4, <2>2
    <3>2. QED
      BY <1>7, <3>1
  <2>3. CASE k > i - 1
    <3>1. /\ k \in i .. Len(s) /\ k + 1 \in i .. Len(s) /\ k + 1 \in 0 .. Len(s)
          /\ (k + 1) + 1 = k + 2 /\ k + 1 # i - 1 /\ k + 2 # i + 1 /\ k + 2 \in 1 .. Len(s) + 1
          /\ k + 1 \in 0 .. Len(s) + 1 /\ k + 2 \in 0 .. Len(s) + 1
      BY <1>1, <2>3
    <3>2. later.next[R(k + 1)] = heap.next[R(k + 1)] /\ later.prev[R(k + 2)] = heap.prev[R(k + 2)]
      BY <1>1, <1>3, <1>7, <3>1
    <3>3. heap.next[R(k + 1)] = R(k + 2) /\ heap.prev[R(k + 2)] = R(k + 1)
      BY <1>5, <3>1
    <3>4. Q(k) = R(k + 1) /\ Q(k + 1) = R(k + 2)
      BY <1>4, <3>1
    <3>5. QED
      BY <3>2, <3>3, <3>4
  <2>4. QED
    BY <1>1, <2>1, <2>2, <2>3
<1>9. QED
  BY <1>8 DEF IsRing, t, Q, R, later

\* A ring does not change when none of its nodes does.
LEMMA RingUntouched ==
  ASSUME NEW heap, NEW later, NEW list \in Heads, NEW s, Chain(s), IsRing(heap, list, s),
         \A n \in Range(s) \cup {list} : later.next[n] = heap.next[n] /\ later.prev[n] = heap.prev[n]
  PROVE  IsRing(later, list, s)
<1>1. \A k \in 0 .. Len(s) : k \in 0 .. Len(s) + 1 /\ k + 1 \in 0 .. Len(s) + 1
  BY ChainFacts
<1>2. QED
  BY <1>1, RingNodes DEF IsRing

\* A node that moves from one list to another: both stay rings.
LEMMA Move ==
  ASSUME NEW heap \in Heap, NEW a \in Heads, NEW b \in Heads, a # b,
         NEW s, NEW t, Chain(s), Chain(t), Range(s) \cap Range(t) = {},
         IsRing(heap, a, s), IsRing(heap, b, t), NEW i \in 1 .. Len(s), NEW j \in 0 .. Len(t)
  PROVE  LET between == ListRemove(heap, s[i])
             later   == LinkBetween(between, s[i], RingNode(b, t, j), RingNode(b, t, j + 1)) IN
         /\ IsRing(between, b, t)
         /\ later \in Heap
         /\ IsRing(later, a, Removed(s, i)) /\ IsRing(later, b, Inserted(t, j, s[i]))
<1> DEFINE node    == s[i]
           between == ListRemove(heap, node)
           before  == RingNode(b, t, j)
           after   == RingNode(b, t, j + 1)
           later   == LinkBetween(between, node, before, after)
<1>1. node \in Entries /\ node \in Nodes /\ node \notin Heads /\ node \in Range(s) /\ node \notin Range(t)
  BY ChainFacts
<1>2. /\ heap.next[node] \in Range(s) \cup {a} /\ heap.prev[node] \in Range(s) \cup {a}
  <2>1. /\ i \in 0 .. Len(s) /\ i - 1 \in 0 .. Len(s) /\ (i - 1) + 1 = i
        /\ i + 1 \in 0 .. Len(s) + 1 /\ i - 1 \in 0 .. Len(s) + 1
    BY ChainFacts
  <2>2. RingNode(a, s, i) = node
    BY RingNodes
  <2>3. heap.next[node] = RingNode(a, s, i + 1) /\ heap.prev[node] = RingNode(a, s, i - 1)
    BY <2>1, <2>2 DEF IsRing
  <2>4. QED
    BY <2>1, <2>3, RingNodes
<1>3. /\ before \in Nodes /\ after \in Nodes
      /\ before \in Range(t) \cup {b} /\ after \in Range(t) \cup {b}
      /\ node # before /\ node # after
  <2>1. j \in 0 .. Len(t) + 1 /\ j + 1 \in 0 .. Len(t) + 1
    BY ChainFacts
  <2>2. QED
    BY <1>1, <2>1, RingNodes
<1>4. /\ Range(s) \subseteq Nodes \ Heads /\ Range(t) \subseteq Nodes \ Heads
      /\ a \in Nodes /\ b \in Nodes
  BY ChainFacts, ListAssumption DEF Heads, Nodes
<1>5. between \in Heap
  BY <1>1, RemovedHeap
<1>6. IsRing(between, a, Removed(s, i))
  BY RingRemove
<1>7. IsRing(between, b, t)
  <2>1. ASSUME NEW n \in Range(t) \cup {b}
        PROVE  between.next[n] = heap.next[n] /\ between.prev[n] = heap.prev[n]
    <3>1. n \in Nodes /\ n \notin Range(s) \cup {a}
      BY <1>4
    <3>2. n # heap.next[node] /\ n # heap.prev[node]
      BY <1>2, <3>1
    <3>3. QED
      BY <1>1, <3>1, <3>2, RemovedHeap
  <2> HIDE DEF between
  <2>2. QED
    BY <2>1, RingUntouched
<1> HIDE DEF between
<1>8. IsRing(later, b, Inserted(t, j, node))
  BY <1>1, <1>5, <1>7, RingInsert
<1>9. later \in Heap
  BY <1>1, <1>3, <1>5, LinkedHeap
<1>10. IsRing(later, a, Removed(s, i))
  <2>1. Chain(Removed(s, i)) /\ Range(Removed(s, i)) = Range(s) \ {node}
    BY RemovedChain
  <2>2. ASSUME NEW n \in Range(Removed(s, i)) \cup {a}
        PROVE  later.next[n] = between.next[n] /\ later.prev[n] = between.prev[n]
    <3>1. n \in Nodes /\ n \notin {node, before, after}
      BY <1>1, <1>3, <1>4, <2>1
    <3>2. QED
      BY <1>1, <1>3, <1>5, <3>1, LinkedHeap
  <2> HIDE DEF later
  <2>3. QED
    BY <1>6, <2>1, <2>2, RingUntouched
<1>11. QED
  BY <1>7, <1>8, <1>9, <1>10 DEF between

\* The entries F are on the free list, the entries U on the used one.
AreRings(heap, F, U, f, u) ==
  /\ Chain(f) /\ Chain(u) /\ Range(f) = F /\ Range(u) = U
  /\ IsRing(heap, FREE, f) /\ IsRing(heap, USED, u)

Rings(heap, F, U) ==
  /\ heap \in Heap /\ F \cap U = {} /\ F \cup U = Entries
  /\ \E f, u : AreRings(heap, F, U, f, u)

LEMMA HeadFacts == FREE \in Heads /\ USED \in Heads /\ FREE # USED /\ FREE \in Nodes /\ USED \in Nodes
                   /\ Entries \cap Heads = {} /\ Nodes = Entries \cup Heads
BY ListAssumption DEF Heads, Nodes

\* The first node of a ring, and the one behind each.
LEMMA RingSuccessors ==
  ASSUME NEW heap, NEW list \in Heads, NEW s, Chain(s), IsRing(heap, list, s)
  PROVE  /\ heap.next[list] \in Range(s) \cup {list}
         /\ heap.next[list] = list <=> Range(s) = {}
         /\ \A e \in Range(s) : heap.next[e] \in (Range(s) \ {e}) \cup {list}
         /\ \A n \in Range(s) \cup {list} : heap.prev[heap.next[n]] = n
<1>1. Len(s) \in Nat /\ 0 \in 0 .. Len(s) /\ list \notin Range(s)
  BY ChainFacts
<1>2. heap.next[list] = RingNode(list, s, 1)
  BY <1>1, RingNodes DEF IsRing
<1>3. /\ heap.next[list] \in Range(s) \cup {list}
      /\ heap.next[list] = list <=> Range(s) = {}
  <2>1. CASE Len(s) = 0
    <3>1. Range(s) = {} /\ RingNode(list, s, 1) = list
      BY <2>1, ChainFacts DEF RingNode
    <3>2. QED
      BY <1>2, <3>1
  <2>2. CASE Len(s) # 0
    <3>1. 1 \in 1 .. Len(s)
      BY <1>1, <2>2
    <3>2. RingNode(list, s, 1) = s[1] /\ s[1] \in Range(s) /\ s[1] # list
      BY <3>1, ChainFacts, RingNodes
    <3>3. QED
      BY <1>2, <3>2
  <2>3. QED
    BY <2>1, <2>2
<1>4. ASSUME NEW k \in 0 .. Len(s)
      PROVE  heap.prev[heap.next[RingNode(list, s, k)]] = RingNode(list, s, k)
  BY DEF IsRing
<1>5. ASSUME NEW e \in Range(s)
      PROVE  heap.next[e] \in (Range(s) \ {e}) \cup {list} /\ heap.prev[heap.next[e]] = e
  <2>1. PICK k \in 1 .. Len(s) : s[k] = e
    BY ChainFacts
  <2>2. k \in 0 .. Len(s) /\ k + 1 \in 0 .. Len(s) + 1 /\ k + 1 \in 1 .. Len(s) + 1 /\ k \in 1 .. Len(s) + 1
    BY <1>1
  <2>3. RingNode(list, s, k) = e
    BY <2>1, RingNodes
  <2>4. heap.next[e] = RingNode(list, s, k + 1)
    BY <2>2, <2>3 DEF IsRing
  <2>5. RingNode(list, s, k + 1) \in Range(s) \cup {list} /\ RingNode(list, s, k + 1) # e
    <3>1. RingNode(list, s, k + 1) \in Range(s) \cup {list}
      BY <2>2, RingNodes
    <3>2. RingNode(list, s, k + 1) = RingNode(list, s, k) => k + 1 = k
      BY <2>2, RingNodes
    <3>3. k + 1 # k
      OBVIOUS
    <3>4. QED
      BY <2>3, <3>1, <3>2, <3>3
  <2>6. QED
    BY <1>4, <2>2, <2>3, <2>4, <2>5
<1>6. heap.prev[heap.next[list]] = list
  BY <1>1, <1>4, RingNodes
<1>7. QED
  BY <1>3, <1>5, <1>6

\* What find_arp_entry, allocate_entry and arp_task read in such lists.
LEMMA RingsFacts ==
  ASSUME NEW heap, NEW F, NEW U, Rings(heap, F, U)
  PROVE  /\ Elements(heap, FREE) = F /\ Elements(heap, USED) = U
         /\ heap.next[FREE] \in F \cup {FREE} /\ heap.next[USED] \in U \cup {USED}
         /\ heap.next[FREE] = FREE <=> F = {}
         /\ \A e \in U : heap.next[e] \in (U \ {e}) \cup {USED}
         /\ \A n \in Nodes : heap.prev[heap.next[n]] = n
<1>1. PICK f, u : AreRings(heap, F, U, f, u)
  BY DEF Rings
<1>2. /\ Chain(f) /\ Chain(u) /\ Range(f) = F /\ Range(u) = U
      /\ IsRing(heap, FREE, f) /\ IsRing(heap, USED, u) /\ heap \in Heap
  BY <1>1 DEF AreRings, Rings
<1>3. Elements(heap, FREE) = F /\ Elements(heap, USED) = U
  BY <1>2, HeadFacts, RingElements
<1>4. /\ heap.next[FREE] \in F \cup {FREE}
      /\ heap.next[FREE] = FREE <=> F = {}
      /\ \A n \in F \cup {FREE} : heap.prev[heap.next[n]] = n
  BY <1>2, RingSuccessors, HeadFacts
<1>5. /\ heap.next[USED] \in U \cup {USED}
      /\ \A e \in U : heap.next[e] \in (U \ {e}) \cup {USED}
      /\ \A n \in U \cup {USED} : heap.prev[heap.next[n]] = n
  BY <1>2, RingSuccessors, HeadFacts
<1>6. Nodes = (F \cup {FREE}) \cup (U \cup {USED})
  BY DEF Rings, Nodes
<1>7. QED
  BY <1>3, <1>4, <1>5, <1>6

\* allocate_entry moves the first free entry behind the used ones.
LEMMA MoveToUsed ==
  ASSUME NEW heap, NEW F, NEW U, Rings(heap, F, U), ListFirst(heap, FREE) \in Entries
  PROVE  LET node == ListFirst(heap, FREE) IN
         /\ node \in F
         /\ Rings(ListAddLast(ListRemove(heap, node), node, USED), F \ {node}, U \cup {node})
<1>1. PICK f, u : AreRings(heap, F, U, f, u)
  BY DEF Rings
<1>2. /\ Chain(f) /\ Chain(u) /\ Range(f) = F /\ Range(u) = U /\ F \cap U = {} /\ F \cup U = Entries
      /\ IsRing(heap, FREE, f) /\ IsRing(heap, USED, u) /\ heap \in Heap
  BY <1>1 DEF AreRings, Rings
<1> DEFINE node    == heap.next[FREE]
           between == ListRemove(heap, node)
           n       == Len(u)
           later   == LinkBetween(between, node, RingNode(USED, u, n), RingNode(USED, u, n + 1))
<1>3. 1 \in 1 .. Len(f) /\ f[1] = node /\ node \in F
  <2>1. node \in Entries /\ FREE \notin Entries
    BY ListAssumption DEF ListFirst
  <2>2. Len(f) \in Nat /\ 0 \in 0 .. Len(f) /\ 0 + 1 = 1
    BY <1>2, ChainFacts
  <2>3. node = RingNode(FREE, f, 1)
    BY <1>2, <2>2, RingNodes, HeadFacts DEF IsRing
  <2>4. 1 \in 1 .. Len(f) /\ f[1] = node
    BY <2>1, <2>2, <2>3 DEF RingNode
  <2>5. QED
    BY <1>2, <2>4, ChainFacts
<1>4. n \in 0 .. Len(u) /\ n \in Nat
  BY <1>2, ChainFacts
<1>5. /\ IsRing(between, USED, u) /\ later \in Heap
      /\ IsRing(later, FREE, Removed(f, 1)) /\ IsRing(later, USED, Inserted(u, n, node))
  BY <1>2, <1>3, <1>4, HeadFacts, Move
<1>6. between.prev[USED] = RingNode(USED, u, n) /\ RingNode(USED, u, n + 1) = USED
  BY <1>2, <1>4, <1>5, HeadFacts, RingNodes DEF IsRing
<1>7. ListAddLast(between, node, USED) = later
  BY <1>6 DEF ListAddLast
<1>8. Chain(Removed(f, 1)) /\ Range(Removed(f, 1)) = F \ {node}
  BY <1>2, <1>3, RemovedChain
<1>9. Chain(Inserted(u, n, node)) /\ Range(Inserted(u, n, node)) = U \cup {node}
  BY <1>2, <1>3, <1>4, InsertedChain
<1> HIDE DEF later
<1>10. AreRings(later, F \ {node}, U \cup {node}, Removed(f, 1), Inserted(u, n, node))
  BY <1>5, <1>8, <1>9 DEF AreRings
<1>11. Rings(later, F \ {node}, U \cup {node})
  BY <1>2, <1>3, <1>5, <1>10 DEF Rings
<1>12. QED
  BY <1>3, <1>7, <1>11 DEF ListFirst

\* free_entry moves a used entry in front of the free ones.
LEMMA MoveToFree ==
  ASSUME NEW heap, NEW F, NEW U, Rings(heap, F, U), NEW node \in U
  PROVE  Rings(ListAddFirst(ListRemove(heap, node), node, FREE), F \cup {node}, U \ {node})
<1>1. PICK f, u : AreRings(heap, F, U, f, u)
  BY DEF Rings
<1>2. /\ Chain(f) /\ Chain(u) /\ Range(f) = F /\ Range(u) = U /\ F \cap U = {} /\ F \cup U = Entries
      /\ IsRing(heap, FREE, f) /\ IsRing(heap, USED, u) /\ heap \in Heap
  BY <1>1 DEF AreRings, Rings
<1>3. PICK i \in 1 .. Len(u) : u[i] = node
  BY <1>2, ChainFacts
<1> DEFINE between == ListRemove(heap, node)
           later   == LinkBetween(between, node, RingNode(FREE, f, 0), RingNode(FREE, f, 0 + 1))
<1>4. 0 \in 0 .. Len(f) /\ 0 + 1 = 1
  BY <1>2, ChainFacts
<1>5. /\ IsRing(between, FREE, f) /\ later \in Heap
      /\ IsRing(later, USED, Removed(u, i)) /\ IsRing(later, FREE, Inserted(f, 0, node))
  BY <1>2, <1>3, <1>4, HeadFacts, Move
<1>6. between.next[FREE] = RingNode(FREE, f, 0 + 1) /\ RingNode(FREE, f, 0) = FREE
  BY <1>2, <1>4, <1>5, HeadFacts, RingNodes DEF IsRing
<1>7. ListAddFirst(between, node, FREE) = later
  BY <1>6 DEF ListAddFirst
<1>8. Chain(Removed(u, i)) /\ Range(Removed(u, i)) = U \ {node}
  BY <1>2, <1>3, RemovedChain
<1>9. Chain(Inserted(f, 0, node)) /\ Range(Inserted(f, 0, node)) = F \cup {node}
  BY <1>2, <1>4, InsertedChain
<1> HIDE DEF later
<1>10. AreRings(later, F \cup {node}, U \ {node}, Inserted(f, 0, node), Removed(u, i))
  BY <1>5, <1>8, <1>9 DEF AreRings
<1>11. Rings(later, F \cup {node}, U \ {node})
  BY <1>2, <1>5, <1>10 DEF Rings
<1>12. QED
  BY <1>7, <1>11

\* The free list after k turns of the loop of arp_init.
Linked(heap, order, k) ==
  /\ heap \in Heap /\ IsRing(heap, USED, <<>>)
  /\ \E f : Chain(f) /\ IsRing(heap, FREE, f) /\ Range(f) = {order[j] : j \in 1 .. k}

LEMMA LinkedFirst ==
  ASSUME NEW heap \in Heap, NEW order \in SetToSeqs(Entries), NEW k \in 1 .. Len(order),
         Linked(heap, order, k - 1)
  PROVE  Linked(ListAddFirst(heap, order[k], FREE), order, k)
<1> DEFINE node  == order[k]
           later == LinkBetween(heap, node, FREE, heap.next[FREE])
<1>1. PICK f : Chain(f) /\ IsRing(heap, FREE, f) /\ Range(f) = {order[j] : j \in 1 .. k - 1}
  BY DEF Linked
<1>2. /\ order \in [1 .. Cardinality(Entries) -> Entries] /\ Len(order) = Cardinality(Entries)
      /\ \A i, j \in 1 .. Len(order) : i # j => order[i] # order[j]
  BY NodesFinite DEF SetToSeqs
<1>3. /\ node \in Entries /\ node \in Nodes /\ node \notin Heads
      /\ Cardinality(Entries) \in Nat
  BY <1>2, NodesFinite, HeadFacts
<1>4. node \notin Range(f)
  <2>1. \A j \in 1 .. k - 1 : j \in 1 .. Len(order) /\ j # k
    BY <1>2, <1>3
  <2>2. QED
    BY <1>1, <1>2, <2>1
<1>5. RingNode(FREE, f, 0) = FREE /\ RingNode(FREE, f, 0 + 1) = heap.next[FREE] /\ 0 \in 0 .. Len(f)
  BY <1>1, ChainFacts, RingNodes, HeadFacts DEF IsRing
<1>6. IsRing(later, FREE, Inserted(f, 0, node))
  BY <1>1, <1>3, <1>4, <1>5, HeadFacts, RingInsert
<1>7. heap.next[FREE] \in Range(f) \cup {FREE}
  BY <1>1, HeadFacts, RingSuccessors
<1>8. /\ heap.next[FREE] \in Nodes /\ heap.next[FREE] # node /\ heap.next[FREE] # USED
      /\ FREE # node /\ USED # node /\ FREE # USED
  BY <1>1, <1>3, <1>4, <1>7, ChainFacts, HeadFacts
<1>9. later \in Heap
  BY <1>3, <1>8, HeadFacts, LinkedHeap
<1>10. IsRing(later, USED, <<>>)
  <2>1. later.next[USED] = heap.next[USED] /\ later.prev[USED] = heap.prev[USED]
    BY <1>3, <1>8, HeadFacts, LinkedHeap
  <2>2. Chain(<<>>) /\ Range(<<>>) = {}
    BY DEF Chain, IsInjective, Range
  <2>3. QED
    BY <2>1, <2>2, HeadFacts, RingUntouched DEF Linked
<1>11. Chain(Inserted(f, 0, node)) /\ Range(Inserted(f, 0, node)) = Range(f) \cup {node}
  BY <1>1, <1>3, <1>4, <1>5, InsertedChain
<1>12. Range(f) \cup {node} = {order[j] : j \in 1 .. k}
  <2>1. 1 .. k = (1 .. k - 1) \cup {k}
    BY <1>2, <1>3
  <2>2. QED
    BY <1>1, <2>1
<1>13. ListAddFirst(heap, order[k], FREE) = later
  BY DEF ListAddFirst
<1> HIDE DEF later
<1>14. QED
  BY <1>6, <1>9, <1>10, <1>11, <1>12, <1>13 DEF Linked

\* arp_init leaves all entries on the free list.
LEMMA InitialRings ==
  ASSUME NEW order \in SetToSeqs(Entries)
  PROVE  Rings(ListOf(Nodes, order, FREE), Entries, {})
<1> DEFINE N    == Len(order)
           step == [pair \in (1 .. N) \X Heap |->
                      IF ListAddFirst(pair[2], order[pair[1]], FREE) \in Heap
                      THEN ListAddFirst(pair[2], order[pair[1]], FREE) ELSE EmptyLists(Nodes)]
           Body(v) == v = [k \in 0 .. N |-> IF k = 0 THEN EmptyLists(Nodes)
                                            ELSE ListAddFirst(v[k - 1], order[k], FREE)]
           V    == CHOOSE v : Body(v)
<1>1. ListOf(Nodes, order, FREE) = V[N]
  BY DEF ListOf
<1>2. /\ N = Cardinality(Entries) /\ N \in Nat /\ order \in [1 .. N -> Entries]
      /\ \A i, j \in 1 .. N : i # j => order[i] # order[j]
  BY NodesFinite DEF SetToSeqs
<1>3. EmptyLists(Nodes) \in Heap
  BY DEF EmptyLists, Heap
<1>4. Linked(EmptyLists(Nodes), order, 0)
  <2>1. Chain(<<>>) /\ Range(<<>>) = {} /\ Len(<<>>) = 0
    BY DEF Chain, IsInjective, Range
  <2>2. ASSUME NEW list \in Heads PROVE IsRing(EmptyLists(Nodes), list, <<>>)
    BY <2>1, HeadFacts DEF IsRing, EmptyLists, RingNode
  <2>3. {order[j] : j \in 1 .. 0} = {}
    OBVIOUS
  <2>4. QED
    BY <1>3, <2>1, <2>2, <2>3, HeadFacts DEF Linked
<1> HIDE DEF N
<1>5. ASSUME NEW k \in 1 .. N, NEW h \in Heap, Linked(h, order, k - 1)
      PROVE  Linked(ListAddFirst(h, order[k], FREE), order, k) /\ ListAddFirst(h, order[k], FREE) \in Heap
  <2>1. Linked(ListAddFirst(h, order[k], FREE), order, k)
    BY <1>5, LinkedFirst DEF N
  <2>2. QED
    BY <2>1 DEF Linked
<1>6. step \in [(1 .. N) \X Heap -> Heap]
  BY <1>3
<1>7. \A k \in 1 .. N, h \in Heap : Linked(h, order, k - 1) =>
        step[<<k, h>>] = ListAddFirst(h, order[k], FREE) /\ Linked(step[<<k, h>>], order, k)
  BY <1>5
<1> HIDE DEF step
<1>8. PICK w : IsLoop(w, Heap, EmptyLists(Nodes), step, N)
  BY <1>2, <1>3, <1>6, LoopsExist
<1>9. \A k \in 0 .. N : Linked(w[k], order, k)
  <2> DEFINE S == {k \in 0 .. N : Linked(w[k], order, k)}
  <2>1. 0 \in S
    BY <1>2, <1>4, <1>8 DEF IsLoop
  <2>2. ASSUME NEW k \in 0 .. N - 1, k \in S PROVE k + 1 \in S
    <3>1. k + 1 \in 1 .. N /\ k + 1 \in 0 .. N /\ (k + 1) - 1 = k /\ k \in 0 .. N
      BY <1>2
    <3>2. w[k] \in Heap /\ w[k + 1] = step[<<k + 1, w[k]>>]
      BY <1>8, <3>1 DEF IsLoop
    <3>3. Linked(w[k], order, (k + 1) - 1)
      BY <2>2, <3>1
    <3>4. Linked(step[<<k + 1, w[k]>>], order, k + 1)
      BY <1>7, <3>1, <3>2, <3>3
    <3>5. QED
      BY <3>1, <3>2, <3>4
  <2>3. \A k \in 0 .. N : k \in S
    <3> HIDE DEF S
    <3>1. QED
      BY <1>2, <2>1, <2>2, UpTo
  <2>4. QED
    BY <2>3
<1>10. Body(w)
  <2>1. w \in [0 .. N -> Heap] /\ w[0] = EmptyLists(Nodes)
    BY <1>8 DEF IsLoop
  <2>2. ASSUME NEW k \in 0 .. N, k # 0 PROVE w[k] = ListAddFirst(w[k - 1], order[k], FREE)
    <3>1. k \in 1 .. N /\ k - 1 \in 0 .. N
      BY <1>2, <2>2
    <3>2. w[k] = step[<<k, w[k - 1]>>] /\ w[k - 1] \in Heap /\ Linked(w[k - 1], order, k - 1)
      BY <1>8, <1>9, <3>1 DEF IsLoop
    <3>3. QED
      BY <1>7, <3>1, <3>2
  <2>3. QED
    BY <2>1, <2>2
<1>11. Body(V)
  <2> HIDE DEF Body
  <2>1. QED
    BY <1>10
<1> HIDE DEF V
<1>12. /\ \A k \in 0 .. N : V[k] = IF k = 0 THEN EmptyLists(Nodes) ELSE ListAddFirst(V[k - 1], order[k], FREE)
  BY <1>11
<1>13. \A k \in 0 .. N : Linked(V[k], order, k)
  <2> DEFINE S == {k \in 0 .. N : Linked(V[k], order, k)}
  <2>1. 0 \in S
    BY <1>2, <1>4, <1>12
  <2>2. ASSUME NEW k \in 0 .. N - 1, k \in S PROVE k + 1 \in S
    <3>1. k + 1 \in 1 .. N /\ k + 1 \in 0 .. N /\ (k + 1) - 1 = k /\ k \in 0 .. N /\ k + 1 # 0
      BY <1>2
    <3>2. V[k + 1] = ListAddFirst(V[k], order[k + 1], FREE)
      BY <1>12, <3>1
    <3>3. Linked(V[k], order, (k + 1) - 1) /\ V[k] \in Heap
      BY <2>2, <3>1 DEF Linked
    <3>4. Linked(ListAddFirst(V[k], order[k + 1], FREE), order, k + 1)
      BY <1>5, <3>1, <3>3
    <3>5. QED
      BY <3>1, <3>2, <3>4
  <2>3. \A k \in 0 .. N : k \in S
    <3> HIDE DEF S
    <3>1. QED
      BY <1>2, <2>1, <2>2, UpTo
  <2>4. QED
    BY <2>3
<1>14. Linked(V[N], order, N)
  BY <1>2, <1>13
<1>15. {order[j] : j \in 1 .. N} = Entries
  <2> DEFINE D == 1 .. N
  <2>1. order \in Injection(D, Entries)
    BY <1>2 DEF Injection, IsInjective
  <2>2. Cardinality(1 .. N) = N
    BY <1>2, FS_Interval
  <2>3. Cardinality(D) = Cardinality(Entries)
    BY <1>2, <2>2
  <2> HIDE DEF D
  <2>4. order \in Surjection(D, Entries)
    BY <2>1, <2>3, NodesFinite, FS_Injection
  <2>5. QED
    BY <1>2, <2>4 DEF Surjection, D
<1>16. PICK f : Chain(f) /\ IsRing(V[N], FREE, f) /\ Range(f) = Entries
  BY <1>14, <1>15 DEF Linked
<1>17. Chain(<<>>) /\ Range(<<>>) = {}
  BY DEF Chain, IsInjective, Range
<1>18. AreRings(V[N], Entries, {}, f, <<>>)
  BY <1>14, <1>16, <1>17 DEF AreRings, Linked
<1>19. Rings(V[N], Entries, {})
  BY <1>14, <1>18 DEF Rings, Linked
<1>20. QED
  BY <1>1, <1>19

\* Where a search in the used list stops: at the first element of M, or behind all.
LEMMA WalkStops ==
  ASSUME NEW heap, NEW F, NEW U, Rings(heap, F, U), NEW M
  PROVE  LET visit == Visits(heap, USED)
             stops == {k \in DOMAIN visit : visit[k] \in {FREE, USED} \cup M}
         IN  /\ stops # {} /\ visit[Min(stops)] \in U \cup {USED}
             /\ visit[Min(stops)] \in U => visit[Min(stops)] \in M
             /\ visit[Min(stops)] = USED => U \cap M = {}
<1>1. PICK f, u : AreRings(heap, F, U, f, u)
  BY DEF Rings
<1>2. Chain(u) /\ Range(u) = U /\ IsRing(heap, USED, u) /\ heap \in Heap
  BY <1>1 DEF AreRings, Rings
<1> DEFINE visit == Visits(heap, USED)
           stops == {k \in DOMAIN visit : visit[k] \in {FREE, USED} \cup M}
<1>3. /\ DOMAIN visit = 0 .. Cardinality(Nodes)
      /\ \A k \in 0 .. Len(u) : visit[k] = RingNode(USED, u, k + 1)
  BY <1>2, HeadFacts, RingWalk
<1>4. Len(u) \in Nat /\ Len(u) < Cardinality(Nodes) /\ Cardinality(Nodes) \in Nat
  BY <1>2, ChainLength
<1> HIDE DEF visit
<1>6. /\ visit[Len(u)] = USED /\ Len(u) \in 0 .. Len(u) /\ Len(u) \in stops
  <2>1. Len(u) \in 0 .. Len(u) /\ Len(u) \in DOMAIN visit
    BY <1>3, <1>4
  <2>2. visit[Len(u)] = USED
    BY <1>2, <1>3, <2>1, HeadFacts, RingNodes
  <2>3. QED
    BY <2>1, <2>2
<1>7. \A k \in 0 .. Len(u) - 1 : /\ k \in DOMAIN visit /\ visit[k] = u[k + 1] /\ k + 1 \in 1 .. Len(u)
                                 /\ visit[k] \in U /\ visit[k] \notin {FREE, USED}
  <2>1. ASSUME NEW k \in 0 .. Len(u) - 1
        PROVE  k \in 0 .. Len(u) /\ k + 1 \in 1 .. Len(u) /\ k \in DOMAIN visit
    BY <1>3, <1>4
  <2>2. ASSUME NEW k \in 1 .. Len(u)
        PROVE  RingNode(USED, u, k) = u[k] /\ u[k] \in U /\ u[k] \notin Heads
    BY <1>2, ChainFacts, RingNodes, HeadFacts
  <2>3. QED
    BY <1>3, <2>1, <2>2 DEF Heads
<1>8. stops \subseteq Nat /\ stops # {}
  BY <1>3, <1>4, <1>6
<1> HIDE DEF stops
<1>9. PICK m \in stops : m = Min(stops) /\ \A k \in stops : m =< k
  BY <1>8, MinOfNat
<1>10. m \in Nat /\ m =< Len(u)
  BY <1>6, <1>8, <1>9
<1>11. CASE m < Len(u)
  <2>1. m \in 0 .. Len(u) - 1
    BY <1>4, <1>10, <1>11
  <2>2. visit[m] \in U /\ visit[m] \notin {FREE, USED}
    BY <1>7, <2>1
  <2>3. visit[m] \in M
    BY <2>2 DEF stops
  <2>4. QED
    BY <1>8, <1>9, <2>2, <2>3 DEF visit, stops
<1>12. CASE m = Len(u)
  <2>1. visit[m] = USED
    BY <1>6, <1>12
  <2>2. ASSUME NEW e \in U PROVE e \notin M
    <3>1. PICK j \in 1 .. Len(u) : u[j] = e
      BY <1>2, ChainFacts
    <3>2. j - 1 \in 0 .. Len(u) - 1 /\ (j - 1) + 1 = j /\ j - 1 < m
      BY <1>4, <1>12
    <3>3. j - 1 \notin stops
      BY <1>9, <1>10, <3>2
    <3>4. j - 1 \in DOMAIN visit /\ visit[j - 1] = e
      BY <1>7, <3>1, <3>2
    <3>5. QED
      BY <3>3, <3>4 DEF stops
  <2>3. USED \notin U
    BY <1>2, ChainFacts, HeadFacts
  <2>4. QED
    BY <1>8, <1>9, <2>1, <2>2, <2>3 DEF visit, stops
<1>13. QED
  BY <1>4, <1>10, <1>11, <1>12
==============================================================================
