-------------------------- MODULE ConversionsProofs --------------------------
(***************************************************************************)
(* Theorems about the pure functions of the stack.                         *)
(***************************************************************************)
EXTENDS MCConversions, QueueLemmas, SequenceTheorems

-----------------------------------------------------------------------------
(* Sums of bytes. *)

\* What a byte at position n counts in a sum of 16-bit words.
Weight(n) == IF n % 2 = 1 THEN 256 ELSE 1

IsTotal(t, m) ==
  /\ t \in [0 .. Len(m) -> Nat] /\ t[0] = 0
  /\ \A n \in 1 .. Len(m) : t[n] = t[n - 1] + m[n] * Weight(n)

\* A message has a running total.
LEMMA TotalsExist ==
  ASSUME NEW m \in Seq(Nat)
  PROVE  \E t : IsTotal(t, m)
<1> DEFINE step == [p \in (1 .. Len(m)) \X Nat |-> p[2] + m[p[1]] * Weight(p[1])]
<1>1. Len(m) \in Nat /\ \A n \in 1 .. Len(m) : m[n] \in Nat
  OBVIOUS
<1>2. \A n \in 1 .. Len(m) : m[n] * Weight(n) \in Nat
  <2>1. SUFFICES ASSUME NEW n \in 1 .. Len(m) PROVE m[n] * Weight(n) \in Nat
    OBVIOUS
  <2>2. m[n] * 256 \in Nat /\ m[n] * 1 \in Nat
    BY <1>1
  <2>3. QED
    BY <2>2 DEF Weight
<1>3. step \in [(1 .. Len(m)) \X Nat -> Nat]
  <2>1. SUFFICES ASSUME NEW p \in (1 .. Len(m)) \X Nat PROVE p[2] + m[p[1]] * Weight(p[1]) \in Nat
    OBVIOUS
  <2>2. p[1] \in 1 .. Len(m) /\ p[2] \in Nat
    OBVIOUS
  <2>3. m[p[1]] * Weight(p[1]) \in Nat
    BY <1>2, <2>2
  <2>4. QED
    BY <2>2, <2>3
<1>4. \A n \in 1 .. Len(m), x \in Nat : step[<<n, x>>] = x + m[n] * Weight(n)
  OBVIOUS
<1> HIDE DEF step
<1>5. 0 \in Nat
  OBVIOUS
<1>6. PICK t : IsLoop(t, Nat, 0, step, Len(m))
  BY <1>1, <1>3, <1>5, LoopsExist
<1>7. t \in [0 .. Len(m) -> Nat] /\ t[0] = 0 /\ \A n \in 1 .. Len(m) : t[n] = step[<<n, t[n - 1]>>]
  BY <1>6 DEF IsLoop
<1>8. ASSUME NEW n \in 1 .. Len(m) PROVE t[n] = t[n - 1] + m[n] * Weight(n)
  <2>1. n - 1 \in 0 .. Len(m)
    BY <1>1
  <2>2. t[n - 1] \in Nat
    BY <1>7, <2>1
  <2>3. QED
    BY <1>4, <1>7, <2>2
<1>9. QED
  BY <1>7, <1>8 DEF IsTotal

\* It has no other, and TotalOf is the last value of it.
LEMMA TotalIsLast ==
  ASSUME NEW m \in Seq(Nat), NEW t, IsTotal(t, m)
  PROVE  TotalOf(m) = t[Len(m)] /\ TotalOf(m) \in Nat
<1> DEFINE v == CHOOSE v : v = [n \in 0 .. Len(m) |-> IF n = 0 THEN 0
                                 ELSE v[n - 1] + m[n] * IF n % 2 = 1 THEN 256 ELSE 1]
           S == {n \in 0 .. Len(m) : v[n] = t[n]}
<1>1. TotalOf(m) = v[Len(m)]
  BY DEF TotalOf
<1>2. /\ Len(m) \in Nat /\ t \in [0 .. Len(m) -> Nat] /\ t[0] = 0
      /\ \A n \in 1 .. Len(m) : t[n] = t[n - 1] + m[n] * Weight(n)
  BY DEF IsTotal
<1>3. t = [n \in 0 .. Len(m) |-> IF n = 0 THEN 0
                                 ELSE t[n - 1] + m[n] * IF n % 2 = 1 THEN 256 ELSE 1]
  <2>1. \A n \in 0 .. Len(m) : t[n] = IF n = 0 THEN 0
                                 ELSE t[n - 1] + m[n] * IF n % 2 = 1 THEN 256 ELSE 1
    <3>1. \A n \in 0 .. Len(m) : n = 0 \/ n \in 1 .. Len(m)
      BY <1>2
    <3>2. QED
      BY <1>2, <3>1, Zenon DEF Weight
  <2>2. QED
    BY <1>2, <2>1, Zenon
<1>4. v = [n \in 0 .. Len(m) |-> IF n = 0 THEN 0
                                 ELSE v[n - 1] + m[n] * IF n % 2 = 1 THEN 256 ELSE 1]
  BY <1>3, Zenon
<1> HIDE DEF v
<1>5. 0 \in S
  BY <1>2, <1>4
<1>6. ASSUME NEW n \in 0 .. Len(m) - 1, n \in S PROVE n + 1 \in S
  <2>1. n + 1 \in 1 .. Len(m) /\ n + 1 \in 0 .. Len(m) /\ (n + 1) - 1 = n /\ n + 1 # 0
    BY <1>2
  <2>2. v[n + 1] = v[n] + m[n + 1] * Weight(n + 1)
    BY <1>4, <2>1, Zenon DEF Weight
  <2>3. QED
    BY <1>2, <1>6, <2>1, <2>2
<1>7. \A n \in 0 .. Len(m) : n \in S
  <2> HIDE DEF S
  <2>1. QED
    BY <1>2, <1>5, <1>6, UpTo
<1>8. QED
  BY <1>1, <1>2, <1>7

LEMMA TotalIsNat ==
  ASSUME NEW m \in Seq(Nat)
  PROVE  TotalOf(m) \in Nat
BY TotalsExist, TotalIsLast

\* Behind an even number of bytes the words of a message are the same.
LEMMA TotalOfConcat ==
  ASSUME NEW a \in Seq(Nat), NEW b \in Seq(Nat), Len(a) % 2 = 0
  PROVE  TotalOf(a \o b) = TotalOf(a) + TotalOf(b)
<1>1. PICK t : IsTotal(t, a)
  BY TotalsExist
<1>2. PICK u : IsTotal(u, b)
  BY TotalsExist
<1> DEFINE A == Len(a)
           B == Len(b)
           w == [n \in 0 .. A + B |-> IF n =< A THEN t[n] ELSE t[A] + u[n - A]]
<1>3. A \in Nat /\ B \in Nat /\ A % 2 = 0 /\ A \in 0 .. A
  OBVIOUS
<1>13. /\ a \o b \in Seq(Nat) /\ Len(a \o b) = A + B
       /\ \A n \in 1 .. B : b[n] \in Nat
       /\ \A n \in 1 .. A : (a \o b)[n] = a[n]
       /\ \A n \in A + 1 .. A + B : (a \o b)[n] = b[n - A]
  OBVIOUS
<1>4. /\ t \in [0 .. A -> Nat] /\ t[0] = 0
      /\ \A n \in 1 .. A : t[n] = t[n - 1] + a[n] * Weight(n)
  BY <1>1 DEF IsTotal
<1>5. /\ u \in [0 .. B -> Nat] /\ u[0] = 0
      /\ \A n \in 1 .. B : u[n] = u[n - 1] + b[n] * Weight(n)
  BY <1>2 DEF IsTotal
<1> HIDE DEF A, B
<1>6. /\ \A n \in 0 .. A : w[n] = t[n]
      /\ \A n \in A .. A + B : w[n] = t[A] + u[n - A]
      /\ w \in [0 .. A + B -> Nat]
  <2>1. \A n \in 0 .. A : w[n] = t[n]
    BY <1>3
  <2>2. \A n \in A .. A + B : w[n] = t[A] + u[n - A]
    <3>1. SUFFICES ASSUME NEW n \in A .. A + B PROVE w[n] = t[A] + u[n - A]
      OBVIOUS
    <3>2. CASE n = A
      <4>1. n - A = 0 /\ w[n] = t[A] /\ t[A] \in Nat
        <5>1. n - A = 0 /\ A \in 0 .. A
          BY <1>3, <3>2
        <5> HIDE DEF w
        <5>2. QED
          BY <1>4, <2>1, <3>2, <5>1
      <4>2. t[A] + 0 = t[A]
        BY <4>1
      <4>3. QED
        BY <1>5, <4>1, <4>2, Zenon
    <3>3. CASE n # A
      BY <1>3, <3>3
    <3>4. QED
      BY <3>2, <3>3
  <2>3. ASSUME NEW n \in 0 .. A + B PROVE w[n] \in Nat
    <3>1. CASE n =< A
      <4>1. n \in 0 .. A
        BY <1>3, <3>1
      <4>2. QED
        BY <1>4, <2>1, <4>1
    <3>2. CASE ~(n =< A)
      <4>1. n - A \in 0 .. B /\ n \in A .. A + B /\ A \in 0 .. A
        BY <1>3, <3>2
      <4>2. t[A] \in Nat /\ u[n - A] \in Nat
        BY <1>4, <1>5, <4>1
      <4>3. w[n] = t[A] + u[n - A]
        BY <2>2, <4>1
      <4>4. QED
        BY <4>2, <4>3
    <3>3. QED
      BY <3>1, <3>2
  <2>4. w \in [0 .. A + B -> Nat]
    BY <2>3
  <2>5. QED
    BY <2>1, <2>2, <2>4
<1> HIDE DEF w
<1>7. ASSUME NEW n \in 1 .. A + B PROVE w[n] = w[n - 1] + (a \o b)[n] * Weight(n)
  <2>1. CASE n =< A
    <3>1. n \in 1 .. A /\ n \in 0 .. A /\ n - 1 \in 0 .. A
      BY <1>3, <2>1
    <3>2. QED
      BY <1>4, <1>6, <1>13, <3>1
  <2>2. CASE ~(n =< A)
    <3>1. /\ n \in A .. A + B /\ n - 1 \in A .. A + B
          /\ n \in A + 1 .. A + B
          /\ n - A \in 1 .. B /\ (n - 1) - A = (n - A) - 1
          /\ (n - A) - 1 \in 0 .. B /\ n - A \in 0 .. B /\ A \in 0 .. A
      BY <1>3, <2>2
    <3>2. Weight(n) = Weight(n - A)
      <4>1. n % 2 = (n - A) % 2
        BY <1>3
      <4>2. QED
        BY <4>1 DEF Weight
    <3>3. w[n] = t[A] + u[n - A] /\ w[n - 1] = t[A] + u[(n - A) - 1]
      BY <1>6, <3>1, Zenon
    <3>4. u[n - A] = u[(n - A) - 1] + b[n - A] * Weight(n - A)
      BY <1>5, <3>1
    <3>5. (a \o b)[n] = b[n - A]
      BY <1>13, <3>1
    <3>6. t[A] \in Nat /\ u[n - A] \in Nat /\ u[(n - A) - 1] \in Nat /\ b[n - A] \in Nat
      BY <1>3, <1>4, <1>5, <1>13, <3>1
    <3>7. Weight(n - A) \in Nat
      BY DEF Weight
    <3> DEFINE x == b[n - A] * Weight(n - A)
    <3>8. x \in Int
      <4>1. b[n - A] * 256 \in Int /\ b[n - A] * 1 \in Int
        BY <3>6
      <4>2. QED
        BY <4>1 DEF Weight
    <3>9. u[n - A] = u[(n - A) - 1] + x
      BY <3>4
    <3>10. (a \o b)[n] * Weight(n) = x
      BY <3>2, <3>5
    <3> HIDE DEF x
    <3>11. t[A] + (u[(n - A) - 1] + x) = (t[A] + u[(n - A) - 1]) + x
      BY <3>6, <3>8
    <3>12. QED
      BY <3>3, <3>9, <3>10, <3>11, Zenon
  <2>3. QED
    BY <2>1, <2>2
<1>8. IsTotal(w, a \o b)
  <2>1. 0 \in 0 .. A /\ w \in [0 .. A + B -> Nat]
    BY <1>3, <1>6
  <2>2. QED
    BY <1>4, <1>6, <1>7, <1>13, <2>1 DEF IsTotal
<1>9. TotalOf(a \o b) = w[A + B]
  BY <1>8, <1>13, TotalIsLast
<1>10. TotalOf(a) = t[A] /\ TotalOf(b) = u[B]
  BY <1>1, <1>2, TotalIsLast DEF A, B
<1>11. A + B \in A .. A + B /\ (A + B) - A = B
  BY <1>3
<1>12. QED
  BY <1>6, <1>9, <1>10, <1>11

LEMMA TotalOfWord ==
  ASSUME NEW x \in Nat, NEW y \in Nat
  PROVE  TotalOf(<<x, y>>) = 256 * x + y
<1> DEFINE m == <<x, y>>
<1>1. m \in Seq(Nat) /\ Len(m) = 2 /\ m[1] = x /\ m[2] = y
  OBVIOUS
<1> HIDE DEF m
<1>2. PICK t : IsTotal(t, m)
  BY <1>1, TotalsExist
<1>3. t[0] = 0 /\ \A n \in 1 .. 2 : t[n] = t[n - 1] + m[n] * Weight(n)
  BY <1>1, <1>2 DEF IsTotal
<1>4. Weight(1) = 256 /\ Weight(2) = 1
  BY DEF Weight
<1>5. t[1] = 0 + x * 256
  <2>1. 1 \in 1 .. 2 /\ 1 - 1 = 0
    OBVIOUS
  <2>2. QED
    BY <1>1, <1>3, <1>4, <2>1
<1>6. t[2] = t[1] + y * 1
  <2>1. 2 \in 1 .. 2 /\ 2 - 1 = 1
    OBVIOUS
  <2>2. QED
    BY <1>1, <1>3, <1>4, <2>1
<1>7. t[2] = 256 * x + y
  BY <1>5, <1>6
<1>8. TotalOf(m) = t[2]
  BY <1>1, <1>2, TotalIsLast
<1>9. QED
  BY <1>7, <1>8 DEF m

\* The loop of the checksums, which takes two bytes a turn, adds up the same.
LEMMA SumIsTotal ==
  ASSUME NEW m \in Seq(Nat)
  PROVE  SumOfWords(m) = TotalOf(m)
<1> DEFINE L == Len(m)
           z == <<0>> \o m
<1>0. L \in Nat /\ 0 \in 0 .. L /\ L \in 0 .. L
  OBVIOUS
<1>1. /\ \A n \in 1 .. L : m[n] \in Nat
      /\ z \in Seq(Nat) /\ Len(z) = L + 1 /\ \A n \in 1 .. L : z[n + 1] = m[n]
  OBVIOUS
<1> HIDE DEF z
<1>2. PICK t : IsTotal(t, m)
  BY TotalsExist
<1>3. PICK u : IsTotal(u, z)
  BY <1>0, <1>1, TotalsExist
<1>4. t \in [0 .. L -> Nat] /\ t[0] = 0 /\ \A n \in 1 .. L : t[n] = t[n - 1] + m[n] * Weight(n)
  BY <1>2 DEF IsTotal
<1>5. u \in [0 .. L + 1 -> Nat] /\ \A n \in 1 .. L + 1 : u[n] = u[n - 1] + z[n] * Weight(n)
  BY <1>0, <1>1, <1>3 DEF IsTotal
<1> HIDE DEF L
<1> DEFINE w == [i \in 1 .. L + 1 |-> IF i % 2 = 1 THEN t[L] - t[i - 1] ELSE u[L + 1] - u[i]]
           v == CHOOSE v : v = [i \in 1 .. L + 1 |-> IF i > L THEN 0 ELSE IF i = L THEN m[i] * 256
                                                     ELSE m[i] * 256 + m[i + 1] + v[i + 2]]
<1>6. \A i \in 1 .. L : /\ i % 2 = 1 => t[i] = t[i - 1] + m[i] * 256 /\ u[i + 1] = u[i] + m[i]
                        /\ i % 2 # 1 => t[i] = t[i - 1] + m[i] /\ u[i + 1] = u[i] + m[i] * 256
  <2>1. SUFFICES ASSUME NEW i \in 1 .. L
                 PROVE  /\ i % 2 = 1 => t[i] = t[i - 1] + m[i] * 256 /\ u[i + 1] = u[i] + m[i]
                        /\ i % 2 # 1 => t[i] = t[i - 1] + m[i] /\ u[i + 1] = u[i] + m[i] * 256
    OBVIOUS
  <2>2. t[i] = t[i - 1] + m[i] * Weight(i)
    BY <1>4
  <2>3. u[i + 1] = u[i] + m[i] * Weight(i + 1)
    <3>1. i + 1 \in 1 .. L + 1 /\ (i + 1) - 1 = i
      BY <1>0, <1>1
    <3>2. QED
      BY <1>0, <1>1, <1>5, <3>1
  <2>4. i % 2 = 1 => Weight(i) = 256 /\ Weight(i + 1) = 1
    BY DEF Weight
  <2>5. i % 2 # 1 => Weight(i) = 1 /\ Weight(i + 1) = 256
    BY DEF Weight
  <2>6. m[i] \in Nat
    BY <1>0, <1>1
  <2>7. m[i] * 1 = m[i]
    BY <2>6
  <2>8. QED
    BY <2>2, <2>3, <2>4, <2>5, <2>7
<1>7. \A i \in 1 .. L + 1 : w[i] = IF i % 2 = 1 THEN t[L] - t[i - 1] ELSE u[L + 1] - u[i]
  OBVIOUS
<1> HIDE DEF w, v
<1>8. ASSUME NEW i \in 1 .. L + 1
      PROVE  w[i] = IF i > L THEN 0 ELSE IF i = L THEN m[i] * 256 ELSE m[i] * 256 + m[i + 1] + w[i + 2]
  <2>1. CASE i = L + 1
    <3>1. w[i] = 0
      <4>1. i - 1 = L /\ t[L] \in Nat /\ u[L + 1] \in Nat
        BY <1>0, <1>1, <1>4, <1>5, <2>1
      <4>2. t[L] - t[L] = 0 /\ u[L + 1] - u[L + 1] = 0
        BY <4>1
      <4>3. QED
        BY <1>7, <2>1, <4>1, <4>2, Zenon
    <3>2. QED
      BY <1>0, <1>1, <2>1, <3>1
  <2>2. CASE i = L
    <3>1. i \in 1 .. L /\ i - 1 \in 0 .. L /\ i \in 0 .. L + 1 /\ L \in 0 .. L /\ L + 1 \in 0 .. L + 1
      BY <1>0, <1>1, <2>2
    <3>2. t[i - 1] \in Nat /\ t[L] \in Nat /\ u[i] \in Nat /\ u[L + 1] \in Nat /\ m[i] \in Nat
      BY <1>0, <1>1, <1>4, <1>5, <3>1
    <3>3. w[i] = m[i] * 256
      <4>1. CASE i % 2 = 1
        <5>1. t[i] = t[i - 1] + m[i] * 256 /\ w[i] = t[i] - t[i - 1]
          BY <1>6, <1>7, <2>2, <3>1, <4>1
        <5>2. QED
          BY <3>2, <5>1
      <4>2. CASE i % 2 # 1
        <5>1. u[i + 1] = u[i] + m[i] * 256 /\ w[i] = u[i + 1] - u[i]
          BY <1>6, <1>7, <2>2, <3>1, <4>2
        <5>2. QED
          BY <2>2, <3>2, <5>1
      <4>3. QED
        BY <4>1, <4>2
    <3>4. QED
      BY <1>0, <1>1, <2>2, <3>3
  <2>3. CASE i < L
    <3>1. /\ i \in 1 .. L /\ i + 1 \in 1 .. L /\ i - 1 \in 0 .. L /\ i \in 0 .. L /\ i + 1 \in 0 .. L
          /\ i \in 0 .. L + 1 /\ i + 1 \in 0 .. L + 1 /\ i + 2 \in 0 .. L + 1
          /\ i + 2 \in 1 .. L + 1 /\ L \in 0 .. L /\ L + 1 \in 0 .. L + 1
          /\ (i + 1) - 1 = i /\ (i + 2) - 1 = i + 1 /\ (i + 1) + 1 = i + 2
      BY <1>0, <1>1, <2>3
    <3>2. /\ t[i - 1] \in Nat /\ t[i] \in Nat /\ t[i + 1] \in Nat /\ t[L] \in Nat
          /\ u[i] \in Nat /\ u[i + 1] \in Nat /\ u[i + 2] \in Nat /\ u[L + 1] \in Nat
          /\ m[i] \in Nat /\ m[i + 1] \in Nat
      BY <1>0, <1>1, <1>4, <1>5, <3>1
    <3>3. CASE i % 2 = 1
      <4>1. (i + 1) % 2 # 1 /\ (i + 2) % 2 = 1
        BY <3>3
      <4>2. t[i] = t[i - 1] + m[i] * 256 /\ t[i + 1] = t[i] + m[i + 1]
        BY <1>6, <3>1, <3>3, <4>1
      <4>3. w[i] = t[L] - t[i - 1] /\ w[i + 2] = t[L] - t[i + 1]
        BY <1>7, <3>1, <3>3, <4>1
      <4>4. w[i] = m[i] * 256 + m[i + 1] + w[i + 2]
        <5> DEFINE a == t[i - 1]
                   b == t[i]
                   c == t[i + 1]
                   d == t[L]
                   x == m[i]
                   y == m[i + 1]
        <5>1. a \in Nat /\ b \in Nat /\ c \in Nat /\ d \in Nat /\ x \in Nat /\ y \in Nat
          BY <3>2
        <5>2. b = a + x * 256 /\ c = b + y /\ w[i] = d - a /\ w[i + 2] = d - c
          BY <4>2, <4>3
        <5> HIDE DEF a, b, c, d
        <5>3. w[i] = x * 256 + y + w[i + 2]
          <6> HIDE DEF x, y
          <6>1. QED
            BY <5>1, <5>2
        <5>4. QED
          BY <5>3
      <4>5. QED
        BY <1>0, <1>1, <2>3, <4>4
    <3>4. CASE i % 2 # 1
      <4>1. (i + 1) % 2 = 1 /\ (i + 2) % 2 # 1
        BY <3>4
      <4>2. u[i + 1] = u[i] + m[i] * 256 /\ u[i + 2] = u[i + 1] + m[i + 1]
        BY <1>6, <3>1, <3>4, <4>1
      <4>3. w[i] = u[L + 1] - u[i] /\ w[i + 2] = u[L + 1] - u[i + 2]
        BY <1>7, <3>1, <3>4, <4>1
      <4>4. w[i] = m[i] * 256 + m[i + 1] + w[i + 2]
        <5> DEFINE a == u[i]
                   b == u[i + 1]
                   c == u[i + 2]
                   d == u[L + 1]
                   x == m[i]
                   y == m[i + 1]
        <5>1. a \in Nat /\ b \in Nat /\ c \in Nat /\ d \in Nat /\ x \in Nat /\ y \in Nat
          BY <3>2
        <5>2. b = a + x * 256 /\ c = b + y /\ w[i] = d - a /\ w[i + 2] = d - c
          BY <4>2, <4>3
        <5> HIDE DEF a, b, c, d
        <5>3. w[i] = x * 256 + y + w[i + 2]
          <6> HIDE DEF x, y
          <6>1. QED
            BY <5>1, <5>2
        <5>4. QED
          BY <5>3
      <4>5. QED
        BY <1>0, <1>1, <2>3, <4>4
    <3>5. QED
      BY <3>3, <3>4
  <2>4. QED
    BY <1>0, <1>1, <2>1, <2>2, <2>3
<1> USE DEF w, v
<1>9. w = [i \in 1 .. L + 1 |-> IF i > L THEN 0 ELSE IF i = L THEN m[i] * 256
                                                     ELSE m[i] * 256 + m[i + 1] + w[i + 2]]
  <2>1. DOMAIN w = 1 .. L + 1 /\ w = [i \in 1 .. L + 1 |-> w[i]]
    OBVIOUS
  <2> HIDE DEF w
  <2>2. QED
    BY <1>8, <2>1, Zenon
<1>10. v = [i \in 1 .. L + 1 |-> IF i > L THEN 0 ELSE IF i = L THEN m[i] * 256
                                                     ELSE m[i] * 256 + m[i + 1] + v[i + 2]]
  <2> HIDE DEF w
  <2>1. QED
    BY <1>9, Zenon
<1>11. SumOfWords(m) = v[1]
  BY DEF SumOfWords, L
<1> HIDE DEF v, w
<1>12. \A i \in 1 .. L + 1 : v[i] = IF i > L THEN 0 ELSE IF i = L THEN m[i] * 256
                                                     ELSE m[i] * 256 + m[i + 1] + v[i + 2]
  BY <1>10, Zenon
<1>13. v[1] = t[L]
  <2>1. SUFFICES \A i \in 1 .. L + 1 : v[i] = w[i]
    <3>1. 1 \in 1 .. L + 1 /\ L \in 0 .. L /\ 1 - 1 = 0 /\ 0 \in 0 .. L
      BY <1>0
    <3>2. w[1] = t[L] - t[0]
      <4>1. 1 % 2 = 1
        OBVIOUS
      <4>2. QED
        BY <1>7, <3>1, <4>1, Zenon
    <3>3. t[L] \in Nat /\ t[0] \in Nat
      BY <1>4, <3>1
    <3>4. t[L] - 0 = t[L]
      BY <3>3
    <3>5. QED
      BY <1>4, <2>1, <3>1, <3>2, <3>4, Zenon
  <2> DEFINE R == {k \in 0 .. L : \A i \in 1 .. L + 1 : i >= L + 1 - k => v[i] = w[i]}
  <2>2. 0 \in R
    <3>1. v[L + 1] = 0 /\ w[L + 1] = 0
      <4>1. L + 1 \in 1 .. L + 1 /\ L + 1 > L
        BY <1>0, <1>1
      <4>2. QED
        BY <1>8, <1>12, <4>1
    <3>2. QED
      BY <1>0, <1>1, <3>1
  <2>3. ASSUME NEW k \in 0 .. L - 1, k \in R PROVE k + 1 \in R
    <3>1. k + 1 \in 0 .. L
      BY <1>0, <1>1
    <3>2. SUFFICES ASSUME NEW i \in 1 .. L + 1, i >= L + 1 - (k + 1) PROVE v[i] = w[i]
      BY <3>1
    <3>3. CASE i >= L + 1 - k
      BY <2>3, <3>3
    <3>4. CASE i < L /\ ~(i >= L + 1 - k)
      <4>1. i + 2 \in 1 .. L + 1 /\ i + 2 >= L + 1 - k
        BY <1>0, <1>1, <3>2, <3>4
      <4>2. v[i + 2] = w[i + 2]
        BY <2>3, <4>1
      <4>3. QED
        BY <1>8, <1>12, <4>2, <3>4
    <3>5. CASE i = L
      BY <1>8, <1>12, <3>5
    <3>6. CASE i > L
      BY <1>8, <1>12, <3>6
    <3>7. QED
      BY <1>0, <1>1, <3>3, <3>4, <3>5, <3>6
  <2>4. \A k \in 0 .. L : k \in R
    <3> HIDE DEF R
    <3>1. QED
      BY <1>0, <1>1, <2>2, <2>3, UpTo
  <2>5. L \in R /\ \A i \in 1 .. L + 1 : i >= L + 1 - L
    <3>1. L \in 0 .. L /\ \A i \in 1 .. L + 1 : i >= L + 1 - L
      BY <1>0, <1>1
    <3>2. QED
      BY <2>4, <3>1
  <2>6. QED
    BY <2>5
<1>14. QED
  BY <1>2, <1>11, <1>13, TotalIsLast DEF L

-----------------------------------------------------------------------------
(* Checksums. *)

\* Adding the carries makes a sum smaller and keeps it modulo 2^16 - 1.
LEMMA CarriedIsCongruent ==
  ASSUME NEW s \in Nat, Carry(s) # 0
  PROVE  /\ Carried(s) \in 1 .. s - 1
         /\ Carried(s) % 65535 = s % 65535
         /\ (Carried(s) - 1) % 65535 = (s - 1) % 65535
<1> DEFINE q == s \div 65536
           m == s % 65536
<1>1. q \in Nat /\ m \in Nat /\ m < 65536 /\ s = 65536 * q + m /\ q >= 1
  BY DEF Carry
<1>2. Carried(s) = m + q
  BY DEF Carried, Carry
<1> HIDE DEF q, m
<1>3. (m + q) % 65535 = s % 65535
  BY <1>1
<1>4. (m + q - 1) % 65535 = (s - 1) % 65535
  BY <1>1
<1>5. m + q \in 1 .. s - 1
  BY <1>1
<1>6. QED
  BY <1>1, <1>2, <1>3, <1>4, <1>5

IsWord(x) == x \in Nat /\ x < 65536

LEMMA CarryOfWord ==
  ASSUME NEW s \in Nat, Carry(s) = 0
  PROVE  IsWord(s)
<1>1. s \in Nat /\ s < 65536
  BY DEF Carry
<1>2. QED
  BY <1>1 DEF IsWord

\* A number of 16 bits that is the sum modulo 2^16 - 1.
IsFolded(x, sum) == IsWord(x) /\ x % 65535 = sum % 65535

LEMMA WordIsFolded ==
  ASSUME NEW x, IsWord(x)
  PROVE  IsFolded(x, x)
BY DEF IsFolded

LEMMA FoldedFurther ==
  ASSUME NEW x, NEW sum \in Nat, Carry(sum) # 0, IsFolded(x, Carried(sum))
  PROVE  IsFolded(x, sum)
BY CarriedIsCongruent DEF IsFolded

\* The loop ends, with such a number.
LEMMA ChecksumFolds ==
  ASSUME NEW sum \in Nat
  PROVE  \E x : IsFolded(x, sum) /\ Checksum(sum) = 65535 - x
<1> DEFINE g == [n \in Nat |-> IF n = 0 THEN 0 ELSE ((n - 1) % 65535) + 1]
           v == CHOOSE v : v = [n \in Nat |-> IF Carry(n) = 0 THEN n ELSE v[Carried(n)]]
           S == {n \in 0 .. sum : \A k \in 0 .. n : IsFolded(v[k], k)}
<1>1. g = [n \in Nat |-> IF Carry(n) = 0 THEN n ELSE g[Carried(n)]]
  <2>1. ASSUME NEW n \in Nat PROVE g[n] = IF Carry(n) = 0 THEN n ELSE g[Carried(n)]
    <3>1. CASE Carry(n) = 0
      <4>1. n \in Nat /\ n < 65536
        <5>1. IsWord(n)
          BY <3>1, CarryOfWord
        <5>2. QED
          BY <5>1 DEF IsWord
      <4>2. g[n] = n
        BY <4>1
      <4>3. QED
        BY <3>1, <4>2
    <3>2. CASE Carry(n) # 0
      <4>1. Carried(n) \in Nat /\ Carried(n) # 0 /\ n # 0 /\ (Carried(n) - 1) % 65535 = (n - 1) % 65535
        <5>1. Carried(n) \in 1 .. n - 1 /\ (Carried(n) - 1) % 65535 = (n - 1) % 65535
          BY <3>2, CarriedIsCongruent
        <5>2. QED
          BY <5>1
      <4>2. g[Carried(n)] = ((Carried(n) - 1) % 65535) + 1
        BY <4>1
      <4>3. g[n] = ((n - 1) % 65535) + 1
        BY <4>1
      <4>4. QED
        BY <3>2, <4>1, <4>2, <4>3
    <3>3. QED
      BY <3>1, <3>2
  <2>2. g = [n \in Nat |-> g[n]]
    OBVIOUS
  <2> HIDE DEF g
  <2>3. QED
    BY <2>1, <2>2, Zenon
<1>2. v = [n \in Nat |-> IF Carry(n) = 0 THEN n ELSE v[Carried(n)]]
  <2> HIDE DEF g
  <2>1. QED
    BY <1>1, Zenon
<1>3. Checksum(sum) = 65535 - v[sum]
  BY DEF Checksum
<1> HIDE DEF v, g
<1>4. \A n \in Nat : v[n] = IF Carry(n) = 0 THEN n ELSE v[Carried(n)]
  BY <1>2, Zenon
<1>5. ASSUME NEW n \in Nat, \A k \in 0 .. n - 1 : IsFolded(v[k], k)
      PROVE  IsFolded(v[n], n)
  <2>1. CASE Carry(n) = 0
    <3>1. v[n] = n
      BY <1>4, <2>1
    <3>2. IsFolded(n, n)
      BY <2>1, CarryOfWord, WordIsFolded
    <3>3. QED
      BY <3>1, <3>2
  <2>2. CASE Carry(n) # 0
    <3>1. Carried(n) \in 0 .. n - 1
      BY <2>2, CarriedIsCongruent
    <3>2. v[n] = v[Carried(n)] /\ IsFolded(v[Carried(n)], Carried(n))
      BY <1>4, <1>5, <2>2, <3>1
    <3>3. IsFolded(v[Carried(n)], n)
      BY <2>2, <3>2, FoldedFurther
    <3>4. QED
      BY <3>2, <3>3
  <2>3. QED
    BY <2>1, <2>2
<1>6. 0 \in S
  <2>1. IsFolded(v[0], 0)
    BY <1>5
  <2>2. 0 \in 0 .. sum /\ \A k \in 0 .. 0 : k = 0
    OBVIOUS
  <2>3. QED
    BY <2>1, <2>2
<1>7. ASSUME NEW n \in 0 .. sum - 1, n \in S PROVE n + 1 \in S
  <2>1. n + 1 \in Nat /\ (n + 1) - 1 = n /\ \A k \in 0 .. n : IsFolded(v[k], k)
    BY <1>7
  <2>2. IsFolded(v[n + 1], n + 1)
    BY <1>5, <2>1
  <2>3. (\A k \in 0 .. n + 1 : k \in 0 .. n \/ k = n + 1) /\ n + 1 \in 0 .. sum
    OBVIOUS
  <2>4. QED
    BY <2>1, <2>2, <2>3
<1>8. \A n \in 0 .. sum : n \in S
  <2> HIDE DEF S
  <2>1. QED
    BY <1>6, <1>7, UpTo
<1>9. IsFolded(v[sum], sum)
  BY <1>8
<1>10. QED
  BY <1>3, <1>9

\* What a checksum is for: with it, the sum is a multiple of 2^16 - 1.
Completes(c, sum) == (sum + c) % 65535 = 0

LEMMA ChecksumCompletes ==
  ASSUME NEW sum \in Nat
  PROVE  IsWord(Checksum(sum)) /\ Completes(Checksum(sum), sum)
<1>1. PICK x : IsFolded(x, sum) /\ Checksum(sum) = 65535 - x
  BY ChecksumFolds
<1>2. x \in Nat /\ x < 65536 /\ x % 65535 = sum % 65535
  BY <1>1 DEF IsFolded, IsWord
<1>3. (sum + (65535 - x)) % 65535 = 0
  BY <1>2
<1>4. 65535 - x \in Nat /\ 65535 - x < 65536
  BY <1>2
<1>5. QED
  BY <1>1, <1>3, <1>4 DEF IsWord, Completes

\* The elements of a concatenation.
LEMMA JoinedAt ==
  ASSUME NEW T, NEW a \in Seq(T), NEW b \in Seq(T)
  PROVE  /\ a \o b \in Seq(T) /\ Len(a \o b) = Len(a) + Len(b)
         /\ \A i \in 1 .. Len(a) : (a \o b)[i] = a[i]
         /\ \A i \in 1 .. Len(b) : (a \o b)[Len(a) + i] = b[i]
OBVIOUS

\* Writing the checksum over the zeros adds it to the sum, and nothing else.
LEMMA SealingAdds ==
  ASSUME NEW a \in Seq(Nat), NEW b \in Seq(Nat), Len(a) % 2 = 0, NEW c \in Nat
  PROVE  LET message == a \o <<0, 0>> \o b
             sealed  == Sealed(message, Len(a) + 1, c)
         IN  /\ sealed \in Seq(Nat)
             /\ TotalOf(sealed) = TotalOf(message) + c
             /\ SumOfWords(message) = TotalOf(message)
             /\ TotalOf(message) \in Nat
<1> DEFINE zeros   == <<0, 0>>
           word    == WriteBe16(c)
           message == a \o zeros \o b
           A       == Len(a)
           B       == Len(b)
<1>1. zeros \in Seq(Nat) /\ Len(zeros) = 2 /\ TotalOf(zeros) = 0
  <2>1. 0 \in Nat
    OBVIOUS
  <2>2. TotalOf(zeros) = 256 * 0 + 0
    BY <2>1, TotalOfWord
  <2>3. QED
    BY <2>2
<1>2. word \in Seq(Nat) /\ Len(word) = 2 /\ TotalOf(word) = c
  <2>1. c \div 256 \in Nat /\ c % 256 \in Nat /\ 256 * (c \div 256) + (c % 256) = c
    OBVIOUS
  <2>2. TotalOf(<<c \div 256, c % 256>>) = 256 * (c \div 256) + (c % 256)
    BY <2>1, TotalOfWord
  <2>3. QED
    BY <2>1, <2>2 DEF WriteBe16
<1> HIDE DEF zeros, word
<1>4. A \in Nat /\ B \in Nat /\ (A + 1) - 1 = A /\ (A + 1) + 2 = A + 3
  OBVIOUS
<1>3. ASSUME NEW w \in Seq(Nat), Len(w) = 2
      PROVE  /\ a \o w \o b \in Seq(Nat)
             /\ TotalOf(a \o w \o b) = TotalOf(a) + TotalOf(w) + TotalOf(b)
             /\ TotalOf(a) \in Nat /\ TotalOf(w) \in Nat /\ TotalOf(b) \in Nat
  <2>1. a \o w \in Seq(Nat) /\ Len(a \o w) = Len(a) + 2 /\ Len(a) \in Nat /\ a \o w \o b \in Seq(Nat)
    <3>1. a \o w \in Seq(Nat) /\ Len(a \o w) = Len(a) + Len(w) /\ Len(a) \in Nat
      <4>1. a \o w \in Seq(Nat) /\ Len(a \o w) = Len(a) + Len(w)
        BY <1>3, JoinedAt
      <4>2. QED
        BY <1>4, <4>1
    <3>2. a \o w \o b \in Seq(Nat)
      BY <3>1, ConcatProperties
    <3>3. QED
      BY <1>3, <3>1, <3>2
  <2>2. Len(a \o w) % 2 = 0
    BY <2>1
  <2>3. TotalOf(a \o w \o b) = TotalOf(a \o w) + TotalOf(b)
    BY <2>1, <2>2, TotalOfConcat
  <2>4. TotalOf(a \o w) = TotalOf(a) + TotalOf(w)
    BY <1>3, TotalOfConcat
  <2>5. TotalOf(a) \in Nat /\ TotalOf(w) \in Nat /\ TotalOf(b) \in Nat
    BY <1>3, TotalIsNat
  <2>6. QED
    BY <2>1, <2>3, <2>4, <2>5
<1>5. /\ message \in Seq(Nat) /\ Len(message) = A + 2 + B
      /\ \A i \in 1 .. A : message[i] = a[i]
      /\ \A i \in 1 .. B : message[A + 2 + i] = b[i]
  <2> DEFINE p == a \o zeros
  <2>1. p \in Seq(Nat) /\ Len(p) = A + 2 /\ \A i \in 1 .. A : p[i] = a[i]
    <3>1. p \in Seq(Nat) /\ Len(p) = A + Len(zeros) /\ \A i \in 1 .. A : p[i] = a[i]
      <4>1. \A i \in 1 .. A : i \in 1 .. A + Len(zeros) /\ i =< A
        <5>1. A + Len(zeros) = A + 2
          BY <1>1
        <5>2. QED
          BY <1>4, <5>1
      <4>2. QED
        BY <1>1, <4>1, ConcatProperties
    <3>2. QED
      BY <1>1, <3>1
  <2>2. message = p \o b
    OBVIOUS
  <2> HIDE DEF p, message
  <2>3. /\ message \in Seq(Nat) /\ Len(message) = A + 2 + B
        /\ \A i \in 1 .. A + 2 : message[i] = p[i]
        /\ \A i \in 1 .. B : message[A + 2 + i] = b[i]
    <3>1. /\ message \in Seq(Nat) /\ Len(message) = Len(p) + Len(b)
          /\ \A i \in 1 .. Len(p) : message[i] = p[i]
          /\ \A i \in 1 .. Len(b) : message[Len(p) + i] = b[i]
      <4>1. /\ p \o b \in Seq(Nat) /\ Len(p \o b) = Len(p) + Len(b)
            /\ \A i \in 1 .. Len(p) : (p \o b)[i] = p[i]
            /\ \A i \in 1 .. Len(b) : (p \o b)[Len(p) + i] = b[i]
        <5>1. p \in Seq(Nat)
          BY <2>1
        <5>2. QED
          BY <5>1, JoinedAt
      <4>2. QED
        BY <2>2, <4>1, Zenon
    <3>2. QED
      BY <2>1, <3>1
  <2>4. \A i \in 1 .. A : i \in 1 .. A + 2
    BY <1>4
  <2>5. QED
    BY <2>1, <2>3, <2>4
<1> HIDE DEF message
<1>6. SubSeq(message, 1, A) = a
  <2>1. /\ SubSeq(message, 1, A) \in Seq(Nat) /\ Len(SubSeq(message, 1, A)) = A
        /\ \A i \in 1 .. A : SubSeq(message, 1, A)[i] = message[i]
    BY <1>4, <1>5
  <2>2. QED
    BY <1>5, <2>1, SeqEqual
<1>7. SubSeq(message, A + 3, Len(message)) = b
  <2>1. /\ SubSeq(message, A + 3, Len(message)) \in Seq(Nat)
        /\ Len(SubSeq(message, A + 3, Len(message))) = B
        /\ \A i \in 1 .. B : SubSeq(message, A + 3, Len(message))[i] = message[A + 2 + i]
    <3> DEFINE M == A + 2 + B
    <3>1. A + 3 \in Int /\ M \in Int /\ \A i \in A + 3 .. M : message[i] \in Nat
      BY <1>4, <1>5
    <3> HIDE DEF M
    <3>2. /\ SubSeq(message, A + 3, M) \in Seq(Nat)
          /\ Len(SubSeq(message, A + 3, M)) = IF A + 3 <= M THEN M - (A + 3) + 1 ELSE 0
          /\ \A i \in 1 .. M - (A + 3) + 1 : SubSeq(message, A + 3, M)[i] = message[A + 3 + i - 1]
      BY <3>1, SubSeqProperties
    <3>3. M - (A + 3) + 1 = B /\ (A + 3 =< M \/ B = 0) /\ \A i \in 1 .. B : A + 3 + i - 1 = A + 2 + i
      BY <1>4 DEF M
    <3>4. QED
      BY <1>5, <3>2, <3>3 DEF M
  <2>2. QED
    BY <1>5, <2>1, SeqEqual
<1>8. Sealed(message, A + 1, c) = a \o word \o b
  BY <1>4, <1>6, <1>7, Zenon DEF Sealed, word
<1>9. /\ Sealed(message, A + 1, c) \in Seq(Nat)
      /\ TotalOf(Sealed(message, A + 1, c)) = TotalOf(message) + c
  <2>1. TotalOf(message) = TotalOf(a) + TotalOf(zeros) + TotalOf(b)
    BY <1>1, <1>3 DEF message
  <2>2. /\ TotalOf(Sealed(message, A + 1, c)) = TotalOf(a) + TotalOf(word) + TotalOf(b)
        /\ Sealed(message, A + 1, c) \in Seq(Nat)
        /\ TotalOf(a) \in Nat /\ TotalOf(b) \in Nat
    BY <1>2, <1>3, <1>8
  <2>3. QED
    BY <1>1, <1>2, <2>1, <2>2
<1>10. SumOfWords(message) = TotalOf(message) /\ TotalOf(message) \in Nat
  BY <1>5, SumIsTotal, TotalIsNat
<1>11. QED
  BY <1>9, <1>10 DEF message, zeros

\* A message sealed with the checksum of its own words.
LEMMA SealedVerifies ==
  ASSUME NEW a \in Seq(Nat), NEW b \in Seq(Nat), Len(a) % 2 = 0
  PROVE  LET message == a \o <<0, 0>> \o b
         IN  Verifies(Sealed(message, Len(a) + 1, Checksum(SumOfWords(message))))
<1> DEFINE message == a \o <<0, 0>> \o b
           sum     == TotalOf(message)
           c       == Checksum(sum)
<1>1. SumOfWords(message) = sum /\ sum \in Nat
  <2>1. 0 \in Nat
    OBVIOUS
  <2>2. QED
    BY <2>1, SealingAdds
<1>2. IsWord(c) /\ Completes(c, sum)
  <2> HIDE DEF sum
  <2>1. QED
    BY <1>1, ChecksumCompletes
<1>6. c \in Nat
  <2> HIDE DEF c
  <2>1. QED
    BY <1>2 DEF IsWord
<1>3. TotalOf(Sealed(message, Len(a) + 1, c)) = sum + c
  <2> HIDE DEF c
  <2>1. QED
    BY <1>6, SealingAdds
<1>4. Verifies(Sealed(message, Len(a) + 1, c))
  <2> HIDE DEF c, sum, message
  <2>1. QED
    BY <1>2, <1>3 DEF Verifies, Completes
<1>5. QED
  BY <1>1, <1>4

LEMMA Be16IsWord ==
  ASSUME NEW x \in Nat
  PROVE  /\ WriteBe16(x) \in Seq(Nat) /\ Len(WriteBe16(x)) = 2
         /\ TotalOf(WriteBe16(x)) = x
<1>1. x \div 256 \in Nat /\ x % 256 \in Nat /\ 256 * (x \div 256) + (x % 256) = x
  OBVIOUS
<1>2. TotalOf(<<x \div 256, x % 256>>) = 256 * (x \div 256) + (x % 256)
  BY <1>1, TotalOfWord
<1>3. QED
  BY <1>1, <1>2 DEF WriteBe16

LEMMA WordAdded ==
  ASSUME NEW s \in Seq(Nat), NEW w \in Seq(Nat), Len(w) = 2
  PROVE  s \o w \in Seq(Nat) /\ Len(s \o w) = Len(s) + 2
<1>1. s \o w \in Seq(Nat) /\ Len(s \o w) = Len(s) + Len(w)
  BY JoinedAt
<1>2. QED
  BY <1>1

\* Every IP header that is sent verifies.
LEMMA IpHeaderVerifies ==
  ASSUME NEW length \in Nat, NEW protocol \in Nat, NEW our_ip \in Seq(Nat), NEW ip \in Seq(Nat)
  PROVE  Verifies(IpHeaderFor(length, protocol, our_ip, ip))
<1> DEFINE first == <<69, 0>>
           last  == <<255, protocol>>
           flags == WriteBe16(2 ^ 14)
           size  == WriteBe16(length)
           none  == WriteBe16(0)
           a     == first \o size \o none \o flags \o last
           b     == our_ip \o ip
           header == a \o none \o our_ip \o ip
<1>1. first \in Seq(Nat) /\ Len(first) = 2 /\ last \in Seq(Nat) /\ Len(last) = 2
  OBVIOUS
<1>2. 2 ^ 14 \in Nat
  OBVIOUS
<1>3. none \in Seq(Nat) /\ Len(none) = 2 /\ none = <<0, 0>>
  BY Be16IsWord DEF WriteBe16
<1>4. size \in Seq(Nat) /\ Len(size) = 2 /\ flags \in Seq(Nat) /\ Len(flags) = 2
  BY <1>2, Be16IsWord
<1>5. IpHeaderFor(length, protocol, our_ip, ip) = Sealed(header, 11, Checksum(SumOfWords(header)))
  BY DEF IpHeaderFor
<1> HIDE DEF first, last, flags, size, none
<1>6. a \in Seq(Nat) /\ Len(a) = 10
  <2> DEFINE p == first \o size
             q == p \o none
             t == q \o flags
  <2>1. p \in Seq(Nat) /\ Len(p) = 4
    <3>1. p \in Seq(Nat) /\ Len(p) = Len(first) + 2
      BY <1>1, <1>4, WordAdded
    <3>2. QED
      BY <1>1, <3>1
  <2> HIDE DEF p
  <2>2. q \in Seq(Nat) /\ Len(q) = 6
    <3>1. q \in Seq(Nat) /\ Len(q) = Len(p) + 2
      BY <1>3, <2>1, WordAdded
    <3>2. QED
      BY <2>1, <3>1
  <2> HIDE DEF q
  <2>3. t \in Seq(Nat) /\ Len(t) = 8
    <3>1. t \in Seq(Nat) /\ Len(t) = Len(q) + 2
      BY <1>4, <2>2, WordAdded
    <3>2. QED
      BY <2>2, <3>1
  <2> HIDE DEF t
  <2>4. t \o last \in Seq(Nat) /\ Len(t \o last) = 10
    <3>1. t \o last \in Seq(Nat) /\ Len(t \o last) = Len(t) + 2
      BY <1>1, <2>3, WordAdded
    <3>2. QED
      BY <2>3, <3>1
  <2>5. a = t \o last
    BY DEF t, q, p
  <2>6. QED
    BY <2>4, <2>5
<1> HIDE DEF a
<1>7. header = a \o <<0, 0>> \o b /\ b \in Seq(Nat)
  <2>1. a \o none \in Seq(Nat)
    BY <1>3, <1>6, WordAdded
  <2>2. (a \o none) \o our_ip \o ip = (a \o none) \o (our_ip \o ip)
    BY <2>1, ConcatAssociative
  <2>3. b \in Seq(Nat)
    BY JoinedAt
  <2>4. QED
    BY <1>3, <2>2, <2>3
<1> HIDE DEF header, b
<1>8. Len(a) % 2 = 0 /\ Len(a) + 1 = 11
  BY <1>6
<1>9. Verifies(Sealed(header, Len(a) + 1, Checksum(SumOfWords(header))))
  BY <1>6, <1>7, <1>8, SealedVerifies
<1>10. QED
  BY <1>5, <1>8, <1>9

\* Every reply to a ping verifies, however long it is.
LEMMA PingReplyVerifies ==
  ASSUME NEW request \in Seq(Nat)
  PROVE  Verifies(PingReply(request))
<1> DEFINE b     == SubSeq(request, 5, Len(request))
           two   == <<0, 0>>
           reply == <<0, 0, 0, 0>> \o b
<1>1. two \in Seq(Nat) /\ Len(two) = 2 /\ Len(two) % 2 = 0 /\ Len(two) + 1 = 3
  OBVIOUS
<1>2. b \in Seq(Nat)
  OBVIOUS
<1>3. <<0, 0, 0, 0>> = <<0, 0>> \o <<0, 0>>
  OBVIOUS
<1>4. reply = two \o <<0, 0>> \o b
  BY <1>3
<1>5. PingReply(request) = Sealed(reply, 3, Checksum(SumOfWords(reply)))
  BY DEF PingReply
<1> HIDE DEF two, b, reply
<1>6. Verifies(Sealed(reply, Len(two) + 1, Checksum(SumOfWords(reply))))
  BY <1>1, <1>2, <1>4, SealedVerifies
<1>7. QED
  BY <1>1, <1>5, <1>6

\* Every UDP datagram verifies, together with the pseudo header.
LEMMA UdpDatagramVerifies ==
  ASSUME NEW source_port \in Nat, NEW dest_port \in Nat, NEW payload \in Seq(Nat),
         NEW our_ip \in Seq(Nat), Len(our_ip) % 2 = 0, NEW ip \in Seq(Nat), Len(ip) % 2 = 0
  PROVE  Verifies(PseudoHeader(our_ip, ip, Len(payload) + 8)
                    \o UdpDatagram(source_port, dest_port, payload, our_ip, ip))
<1> DEFINE length   == Len(payload) + 8
           source   == WriteBe16(source_port)
           dest     == WriteBe16(dest_port)
           size     == WriteBe16(length)
           none     == WriteBe16(0)
           protocol == <<0, 17>>
           a        == source \o dest \o size
           datagram == a \o none \o payload
           pseudo   == our_ip \o ip \o protocol \o size
           sum      == SumOfWords(our_ip) + SumOfWords(ip) + 17 + length + SumOfWords(datagram)
           c        == Checksum(sum)
           sealed   == Sealed(datagram, 7, c)
<1>1. length \in Nat
  OBVIOUS
<1> HIDE DEF length
<1>2. /\ source \in Seq(Nat) /\ Len(source) = 2 /\ dest \in Seq(Nat) /\ Len(dest) = 2
      /\ size \in Seq(Nat) /\ Len(size) = 2 /\ TotalOf(size) = length
  BY <1>1, Be16IsWord
<1>3. none = <<0, 0>>
  BY DEF WriteBe16
<1>4. protocol \in Seq(Nat) /\ Len(protocol) = 2 /\ TotalOf(protocol) = 17
  <2>1. TotalOf(<<0, 17>>) = 256 * 0 + 17
    BY TotalOfWord
  <2>2. QED
    BY <2>1
<1>5. /\ UdpDatagram(source_port, dest_port, payload, our_ip, ip) = sealed
      /\ PseudoHeader(our_ip, ip, Len(payload) + 8) = pseudo
  BY DEF UdpDatagram, PseudoHeader, length
<1> HIDE DEF source, dest, size, none, protocol
<1>6. a \in Seq(Nat) /\ Len(a) = 6 /\ Len(a) % 2 = 0 /\ Len(a) + 1 = 7
  <2> DEFINE p == source \o dest
  <2>1. p \in Seq(Nat) /\ Len(p) = Len(source) + 2
    BY <1>2, WordAdded
  <2>2. Len(p) = 4
    BY <1>2, <2>1
  <2> HIDE DEF p
  <2>3. p \o size \in Seq(Nat) /\ Len(p \o size) = Len(p) + 2
    BY <1>2, <2>1, WordAdded
  <2>4. p \o size \in Seq(Nat) /\ Len(p \o size) = 6
    BY <2>2, <2>3
  <2>5. a = p \o size
    BY DEF p
  <2> HIDE DEF a
  <2>6. a \in Seq(Nat) /\ Len(a) = 6
    BY <2>4, <2>5
  <2>7. QED
    BY <2>6
<1> HIDE DEF a
<1>7. SumOfWords(datagram) = TotalOf(datagram) /\ TotalOf(datagram) \in Nat
  <2>1. 0 \in Nat
    OBVIOUS
  <2>2. QED
    BY <1>3, <1>6, <2>1, SealingAdds
<1>8. /\ SumOfWords(our_ip) = TotalOf(our_ip) /\ TotalOf(our_ip) \in Nat
      /\ SumOfWords(ip) = TotalOf(ip) /\ TotalOf(ip) \in Nat
  BY SumIsTotal, TotalIsNat
<1>9. sum = TotalOf(our_ip) + TotalOf(ip) + 17 + length + TotalOf(datagram) /\ sum \in Nat
  <2> HIDE DEF datagram
  <2>1. QED
    BY <1>1, <1>7, <1>8
<1> HIDE DEF sum
<1>10. IsWord(c) /\ Completes(c, sum)
  BY <1>9, ChecksumCompletes
<1>11. c \in Nat
  <2> HIDE DEF c
  <2>1. QED
    BY <1>10 DEF IsWord
<1> HIDE DEF c
<1>12. sealed \in Seq(Nat) /\ TotalOf(sealed) = TotalOf(datagram) + c
  <2>1. /\ Sealed(datagram, Len(a) + 1, c) \in Seq(Nat)
        /\ TotalOf(Sealed(datagram, Len(a) + 1, c)) = TotalOf(datagram) + c
    BY <1>3, <1>6, <1>11, SealingAdds
  <2>2. sealed = Sealed(datagram, Len(a) + 1, c)
    BY <1>6
  <2> HIDE DEF sealed, datagram
  <2>3. QED
    BY <2>1, <2>2
<1>13. /\ pseudo \in Seq(Nat) /\ Len(pseudo) % 2 = 0
       /\ TotalOf(pseudo) = TotalOf(our_ip) + TotalOf(ip) + 17 + length
  <2> DEFINE p == our_ip \o ip
             q == p \o protocol
  <2>1. p \in Seq(Nat) /\ Len(p) = Len(our_ip) + Len(ip)
    BY JoinedAt
  <2>2. Len(p) % 2 = 0
    <3> DEFINE m == Len(our_ip)
               n == Len(ip)
    <3>1. m \in Nat /\ n \in Nat /\ m % 2 = 0 /\ n % 2 = 0
      OBVIOUS
    <3> HIDE DEF m, n
    <3>2. (m + n) % 2 = 0
      <4>1. PICK i \in Int : m = 2 * i
        BY <3>1
      <4>2. PICK j \in Int : n = 2 * j
        BY <3>1
      <4>3. (2 * i + 2 * j) % 2 = 0
        OBVIOUS
      <4>4. QED
        BY <4>1, <4>2, <4>3
    <3>3. QED
      BY <2>1, <3>2 DEF m, n
  <2>3. TotalOf(p) = TotalOf(our_ip) + TotalOf(ip)
    BY TotalOfConcat
  <2> HIDE DEF p
  <2>4. q \in Seq(Nat) /\ Len(q) = Len(p) + 2
    BY <1>4, <2>1, WordAdded
  <2>5. Len(q) % 2 = 0
    BY <2>1, <2>2, <2>4
  <2>6. TotalOf(q) = TotalOf(p) + TotalOf(protocol)
    BY <1>4, <2>1, <2>2, TotalOfConcat
  <2> HIDE DEF q
  <2>7. q \o size \in Seq(Nat) /\ Len(q \o size) = Len(q) + 2
    BY <1>2, <2>4, WordAdded
  <2>8. Len(q \o size) % 2 = 0
    BY <2>4, <2>5, <2>7
  <2>9. TotalOf(q \o size) = TotalOf(q) + TotalOf(size)
    BY <1>2, <2>4, <2>5, TotalOfConcat
  <2>10. pseudo = q \o size
    BY DEF p, q
  <2>11. TotalOf(q \o size) = TotalOf(our_ip) + TotalOf(ip) + 17 + length
    BY <1>2, <1>4, <2>3, <2>6, <2>9
  <2> HIDE DEF pseudo
  <2>12. QED
    BY <2>7, <2>8, <2>10, <2>11
<1> HIDE DEF pseudo, sealed
<1>14. TotalOf(pseudo \o sealed) = TotalOf(pseudo) + TotalOf(sealed)
  BY <1>12, <1>13, TotalOfConcat
<1>15. TotalOf(pseudo \o sealed) = sum + c
  <2> HIDE DEF datagram
  <2>1. QED
    BY <1>1, <1>7, <1>8, <1>9, <1>11, <1>12, <1>13, <1>14
<1>16. Verifies(pseudo \o sealed)
  BY <1>10, <1>15 DEF Verifies, Completes
<1>17. QED
  BY <1>5, <1>16

-----------------------------------------------------------------------------
(* Concatenations. *)

\* FlattenSeq puts one item behind the other.
LEMMA FlattenIsLast ==
  ASSUME NEW s \in Seq(Seq(Nat)), s # <<>>
  PROVE  \E w : /\ w \in [0 .. Len(s) -> Seq(Nat)] /\ w[0] = <<>>
                /\ \A i \in 1 .. Len(s) : w[i] = w[i - 1] \o s[i]
                /\ FlattenSeq(s) = w[Len(s)]
<1> DEFINE step == [p \in (1 .. Len(s)) \X Seq(Nat) |-> p[2] \o s[p[1]]]
<1>1. Len(s) \in Nat /\ Len(s) # 0 /\ <<>> \in Seq(Nat) /\ \A i \in 1 .. Len(s) : s[i] \in Seq(Nat)
  OBVIOUS
<1>2. step \in [(1 .. Len(s)) \X Seq(Nat) -> Seq(Nat)]
  <2>1. SUFFICES ASSUME NEW p \in (1 .. Len(s)) \X Seq(Nat) PROVE p[2] \o s[p[1]] \in Seq(Nat)
    OBVIOUS
  <2>2. p[1] \in 1 .. Len(s) /\ p[2] \in Seq(Nat)
    OBVIOUS
  <2>3. s[p[1]] \in Seq(Nat)
    BY <1>1, <2>2
  <2>4. QED
    BY <2>2, <2>3
<1>3. \A i \in 1 .. Len(s), x \in Seq(Nat) : step[<<i, x>>] = x \o s[i]
  OBVIOUS
<1> HIDE DEF step
<1>4. PICK w : IsLoop(w, Seq(Nat), <<>>, step, Len(s))
  BY <1>1, <1>2, LoopsExist
<1>5. w \in [0 .. Len(s) -> Seq(Nat)] /\ w[0] = <<>> /\ \A i \in 1 .. Len(s) : w[i] = step[<<i, w[i - 1]>>]
  BY <1>4 DEF IsLoop
<1>6. ASSUME NEW i \in 1 .. Len(s) PROVE w[i] = w[i - 1] \o s[i]
  <2>1. i - 1 \in 0 .. Len(s)
    BY <1>1
  <2>2. w[i - 1] \in Seq(Nat)
    BY <1>5, <2>1
  <2>3. QED
    BY <1>3, <1>5, <2>2
<1>7. w[1] = s[1]
  <2>1. 1 \in 1 .. Len(s) /\ 1 - 1 = 0 /\ s[1] \in Seq(Nat)
    BY <1>1
  <2>2. w[1] = <<>> \o s[1]
    BY <1>5, <1>6, <2>1
  <2>3. QED
    BY <2>1, <2>2
<1> DEFINE D == 1 .. Len(s)
           Is(v) == v = [i \in D |-> IF i = 1 THEN s[i] ELSE v[i - 1] \o s[i]]
           u == [i \in D |-> w[i]]
<1>8. Is(u)
  <2>1. ASSUME NEW i \in D PROVE u[i] = IF i = 1 THEN s[i] ELSE u[i - 1] \o s[i]
    <3>1. CASE i = 1
      BY <1>7, <3>1
    <3>2. CASE i # 1
      <4>1. i - 1 \in D
        BY <1>1, <3>2
      <4>2. u[i - 1] = w[i - 1] /\ u[i] = w[i]
        BY <4>1
      <4>3. QED
        BY <1>6, <3>2, <4>2
    <3>3. QED
      BY <3>1, <3>2
  <2>2. DOMAIN u = D /\ u = [i \in D |-> u[i]]
    OBVIOUS
  <2> HIDE DEF u, D
  <2>3. [i \in D |-> u[i]] = [i \in D |-> IF i = 1 THEN s[i] ELSE u[i - 1] \o s[i]]
    BY <2>1
  <2>4. QED
    BY <2>2, <2>3, Zenon
<1> DEFINE v == CHOOSE x : Is(x)
<1>9. Is(v)
  <2> HIDE DEF Is, u
  <2>1. QED
    BY <1>8, Zenon
<1> HIDE DEF v, u
<1>10. \A i \in D : v[i] = IF i = 1 THEN s[i] ELSE v[i - 1] \o s[i]
  <2>1. SUFFICES ASSUME NEW i \in D PROVE v[i] = IF i = 1 THEN s[i] ELSE v[i - 1] \o s[i]
    OBVIOUS
  <2>2. v = [k \in D |-> IF k = 1 THEN s[k] ELSE v[k - 1] \o s[k]]
    BY <1>9, Zenon
  <2> HIDE DEF D
  <2>3. [k \in D |-> IF k = 1 THEN s[k] ELSE v[k - 1] \o s[k]][i] = IF i = 1 THEN s[i] ELSE v[i - 1] \o s[i]
    BY Zenon
  <2>4. QED
    BY <2>2, <2>3, Zenon
<1>11. \A i \in 0 .. Len(s) : i \in {k \in 0 .. Len(s) : k # 0 => v[k] = w[k]}
  <2> DEFINE S == {k \in 0 .. Len(s) : k # 0 => v[k] = w[k]}
  <2>1. 0 \in S
    BY <1>1
  <2>2. ASSUME NEW k \in 0 .. Len(s) - 1, k \in S PROVE k + 1 \in S
    <3>1. k + 1 \in D /\ (k + 1) - 1 = k /\ k + 1 \in 0 .. Len(s)
      BY <1>1
    <3>2. CASE k = 0
      BY <1>7, <1>10, <3>1, <3>2
    <3>3. CASE k # 0
      <4>1. v[k] = w[k] /\ k + 1 # 1
        BY <2>2, <3>3
      <4>2. v[k + 1] = v[k] \o s[k + 1]
        BY <1>10, <3>1, <4>1
      <4>3. w[k + 1] = w[k] \o s[k + 1]
        BY <1>6, <3>1
      <4>4. QED
        BY <3>1, <4>1, <4>2, <4>3
    <3>4. QED
      BY <3>2, <3>3
  <2> HIDE DEF S
  <2>3. \A k \in 0 .. Len(s) : k \in S
    BY <1>1, <2>1, <2>2, UpTo
  <2>4. QED
    BY <2>3 DEF S
<1>12. FlattenSeq(s) = v[Len(s)]
  BY <1>1 DEF FlattenSeq, v
<1>13. v[Len(s)] = w[Len(s)]
  BY <1>1, <1>11
<1>14. QED
  BY <1>5, <1>6, <1>12, <1>13

\* The positions of two pieces of lengths a and b, one behind the other.
LEMMA BehindEachOther ==
  ASSUME NEW a \in Nat, NEW b \in Nat, NEW c, c = a + b
  PROVE  c \in Nat /\ (\A p \in 1 .. a : p \in 1 .. c) /\ \A p \in 1 .. b : a + p \in 1 .. c
OBVIOUS

\* The text f is made of the pieces s; the i-th ends at e[i].
Pieces(e, s, f) ==
  /\ e \in [0 .. Len(s) -> Nat] /\ e[0] = 0
  /\ f \in Seq(Nat) /\ Len(f) = e[Len(s)]
  /\ \A i \in 1 .. Len(s) :
       /\ e[i] = e[i - 1] + Len(s[i])
       /\ \A j \in 1 .. Len(s[i]) : e[i - 1] + j \in 1 .. e[Len(s)] /\ f[e[i - 1] + j] = s[i][j]

\* FlattenSeq makes it.
LEMMA FlattenedPieces ==
  ASSUME NEW s \in Seq(Seq(Nat)), s # <<>>
  PROVE  \E e : Pieces(e, s, FlattenSeq(s))
<1>1. /\ Len(s) \in Nat /\ Len(s) # 0
      /\ \A i \in 1 .. Len(s) : s[i] \in Seq(Nat) /\ Len(s[i]) \in Nat
  OBVIOUS
<1>3. PICK w : /\ w \in [0 .. Len(s) -> Seq(Nat)] /\ w[0] = <<>>
               /\ \A i \in 1 .. Len(s) : w[i] = w[i - 1] \o s[i]
               /\ FlattenSeq(s) = w[Len(s)]
  BY FlattenIsLast
<1> DEFINE e == [i \in 0 .. Len(s) |-> Len(w[i])]
           f == FlattenSeq(s)
<1>4. \A i \in 0 .. Len(s) : w[i] \in Seq(Nat) /\ e[i] = Len(w[i]) /\ e[i] \in Nat
  <2>1. SUFFICES ASSUME NEW i \in 0 .. Len(s) PROVE w[i] \in Seq(Nat) /\ e[i] = Len(w[i]) /\ e[i] \in Nat
    OBVIOUS
  <2>2. w[i] \in Seq(Nat)
    BY <1>3
  <2>3. e[i] = Len(w[i])
    BY Zenon
  <2> HIDE DEF e
  <2>4. QED
    BY <2>2, <2>3
<1>5. e \in [0 .. Len(s) -> Nat] /\ e[0] = 0
  BY <1>1, <1>3, <1>4
<1> HIDE DEF e
<1>6. \A i \in 1 .. Len(s) : /\ i - 1 \in 0 .. Len(s) /\ i \in 0 .. Len(s)
                            /\ e[i] = e[i - 1] + Len(s[i])
  <2>1. SUFFICES ASSUME NEW i \in 1 .. Len(s) PROVE e[i] = e[i - 1] + Len(s[i])
    BY <1>1
  <2>2. i - 1 \in 0 .. Len(s) /\ i \in 0 .. Len(s)
    BY <1>1
  <2>3. w[i] = w[i - 1] \o s[i] /\ w[i - 1] \in Seq(Nat) /\ s[i] \in Seq(Nat)
    BY <1>1, <1>3, <1>4, <2>2
  <2>4. Len(w[i]) = Len(w[i - 1]) + Len(s[i])
    BY <2>3
  <2>5. QED
    BY <1>4, <2>2, <2>4
<1> DEFINE Held(k) == \A i \in 1 .. k : \A j \in 1 .. Len(s[i]) :
                        e[i - 1] + j \in 1 .. e[k] /\ w[k][e[i - 1] + j] = s[i][j]
           S == {k \in 0 .. Len(s) : Held(k)}
<1>7. \A k \in 0 .. Len(s) : k \in S
  <2>1. 0 \in S
    BY <1>1
  <2>2. ASSUME NEW k \in 0 .. Len(s) - 1, k \in S PROVE k + 1 \in S
    <3>1. k + 1 \in 1 .. Len(s) /\ (k + 1) - 1 = k /\ k \in 0 .. Len(s) /\ k + 1 \in 0 .. Len(s)
      BY <1>1
    <3>2. /\ w[k + 1] = w[k] \o s[k + 1] /\ w[k] \in Seq(Nat) /\ s[k + 1] \in Seq(Nat)
          /\ e[k] = Len(w[k]) /\ e[k + 1] = e[k] + Len(s[k + 1])
      <4>1. w[k + 1] = w[(k + 1) - 1] \o s[k + 1] /\ e[k + 1] = e[(k + 1) - 1] + Len(s[k + 1])
        BY <1>3, <1>6, <3>1
      <4>2. QED
        BY <1>1, <1>4, <3>1, <4>1
    <3>3. /\ \A p \in 1 .. Len(w[k]) : w[k + 1][p] = w[k][p]
          /\ \A p \in 1 .. Len(s[k + 1]) : w[k + 1][Len(w[k]) + p] = s[k + 1][p]
      <4> DEFINE a == w[k]
                 b == s[k + 1]
      <4>1. w[k + 1] = a \o b /\ a \in Seq(Nat) /\ b \in Seq(Nat)
        BY <3>2
      <4> HIDE DEF a, b
      <4>2. /\ \A p \in 1 .. Len(a) : (a \o b)[p] = a[p]
            /\ \A p \in 1 .. Len(b) : (a \o b)[Len(a) + p] = b[p]
        BY <4>1, JoinedAt
      <4>3. QED
        BY <4>1, <4>2, Zenon DEF a, b
    <3>4. /\ Len(s[k + 1]) \in Nat /\ e[k] \in Nat /\ e[k] = Len(w[k])
          /\ e[k + 1] = e[k] + Len(s[k + 1])
      <4>1. e[k + 1] = e[k] + Len(s[k + 1]) /\ e[k] = Len(w[k]) /\ s[k + 1] \in Seq(Nat)
        BY <3>2, Zenon
      <4>2. QED
        BY <1>4, <3>1, <4>1
    <3>5. /\ \A p \in 1 .. e[k] : p \in 1 .. e[k + 1]
          /\ \A p \in 1 .. Len(s[k + 1]) : e[k] + p \in 1 .. e[k + 1]
      <4> DEFINE a == e[k]
                 b == Len(s[k + 1])
                 c == e[k + 1]
      <4>1. a \in Nat /\ b \in Nat /\ c = a + b
        BY <3>4, Zenon
      <4> HIDE DEF a, b, c
      <4>2. (\A p \in 1 .. a : p \in 1 .. c) /\ \A p \in 1 .. b : a + p \in 1 .. c
        BY <4>1, BehindEachOther
      <4>3. QED
        BY <4>2, Zenon DEF a, b, c
    <3>6. ASSUME NEW i \in 1 .. k + 1, NEW j \in 1 .. Len(s[i])
          PROVE  e[i - 1] + j \in 1 .. e[k + 1] /\ w[k + 1][e[i - 1] + j] = s[i][j]
      <4>1. CASE i = k + 1
        <5>1. j \in 1 .. Len(s[k + 1]) /\ e[i - 1] = e[k]
          BY <3>1, <4>1
        <5>2. e[k] + j \in 1 .. e[k + 1]
          BY <3>5, <5>1
        <5>3. QED
          BY <3>4, <3>3, <4>1, <5>1, <5>2
      <4>2. CASE i # k + 1
        <5>1. i \in 1 .. k
          BY <3>1, <4>2
        <5>2. e[i - 1] + j \in 1 .. e[k] /\ w[k][e[i - 1] + j] = s[i][j]
          BY <2>2, <5>1
        <5>3. e[i - 1] + j \in 1 .. e[k + 1]
          BY <3>5, <5>2
        <5>4. QED
          BY <3>4, <3>3, <5>2, <5>3
      <4>3. QED
        BY <4>1, <4>2
    <3>7. QED
      BY <3>1, <3>6
  <2> HIDE DEF S
  <2>3. QED
    BY <1>1, <2>1, <2>2, UpTo
<1>8. Held(Len(s))
  <2>1. Len(s) \in 0 .. Len(s)
    BY <1>1
  <2> HIDE DEF Held
  <2>2. QED
    BY <1>7, <2>1
<1>9. f \in Seq(Nat) /\ Len(f) = e[Len(s)] /\ f = w[Len(s)]
  BY <1>1, <1>3, <1>4
<1> HIDE DEF f
<1>10. Pieces(e, s, f)
  <2>1. ASSUME NEW i \in 1 .. Len(s), NEW j \in 1 .. Len(s[i])
        PROVE  e[i - 1] + j \in 1 .. e[Len(s)] /\ f[e[i - 1] + j] = s[i][j]
    BY <1>8, <1>9
  <2>2. QED
    BY <1>5, <1>6, <1>9, <2>1 DEF Pieces
<1>11. QED
  BY <1>10 DEF f

\* A function on 1 .. n is a sequence.
LEMMA FunctionIsSeq ==
  ASSUME NEW T, NEW n \in Nat, NEW s \in [1 .. n -> T]
  PROVE  s \in Seq(T) /\ Len(s) = n
OBVIOUS

-----------------------------------------------------------------------------
(* Addresses as text. *)

\* The text d is the number b in decimal digits, without a zero in front.
IsDecimal(d, b) ==
  /\ d \in Seq(Nat) /\ Len(d) \in 1 .. 3
  /\ \A i \in 1 .. Len(d) : IsDigit(d[i])
  /\ Len(d) = 1 => d[1] - ZERO = b
  /\ Len(d) = 2 => (d[1] - ZERO) * 10 + d[2] - ZERO = b
  /\ Len(d) = 3 => ((d[1] - ZERO) * 10 + d[2] - ZERO) * 10 + d[3] - ZERO = b
  /\ Len(d) # 1 => d[1] # ZERO

\* One to three digits, from the first to the last, are a number.
LEMMA DecimalOf ==
  ASSUME NEW b, NEW n \in 1 .. 3, NEW d, d \in Seq(Nat), Len(d) = n,
         \A i \in 1 .. n : d[i] \in 48 .. 57,
         /\ n = 1 => d[1] - 48 = b
         /\ n = 2 => (d[1] - 48) * 10 + (d[2] - 48) = b
         /\ n = 3 => ((d[1] - 48) * 10 + (d[2] - 48)) * 10 + (d[3] - 48) = b,
         n # 1 => d[1] # 48
  PROVE  IsDecimal(d, b)
<1>1. \A i \in 1 .. n : IsDigit(d[i]) /\ d[i] \in Nat
  BY DEF IsDigit, ZERO
<1>2. n = 2 => (d[1] - 48) * 10 + d[2] - 48 = b
  <2>1. CASE n = 2
    <3>1. d[1] \in Nat /\ d[2] \in Nat /\ (d[1] - 48) * 10 + (d[2] - 48) = b
      BY <1>1, <2>1
    <3>2. QED
      BY <3>1
  <2>2. QED
    BY <2>1
<1>3. n = 3 => ((d[1] - 48) * 10 + d[2] - 48) * 10 + d[3] - 48 = b
  <2>1. CASE n = 3
    <3>1. /\ d[1] \in Nat /\ d[2] \in Nat /\ d[3] \in Nat
          /\ ((d[1] - 48) * 10 + (d[2] - 48)) * 10 + (d[3] - 48) = b
      BY <1>1, <2>1
    <3>2. QED
      BY <3>1
  <2>2. QED
    BY <2>1
<1>4. QED
  BY <1>1, <1>2, <1>3 DEF IsDecimal, ZERO

LEMMA DigitTaken ==
  ASSUME NEW n \in Nat, NEW s \in Seq(Nat)
  PROVE  TakeDigit([left |-> n, digits |-> s]) =
           IF n = 0 THEN [left |-> n, digits |-> s]
           ELSE [left |-> n \div 10, digits |-> Append(s, (n % 10) + 48)]
BY DEF TakeDigit, ZERO

LEMMA DigitsAppended ==
  ASSUME NEW x \in Nat, NEW y \in Nat, NEW z \in Nat
  PROVE  Append(<<>>, x) = <<x>> /\ Append(<<x>>, y) = <<x, y>> /\ Append(<<x, y>>, z) = <<x, y, z>>
<1>1. Append(<<>>, x) = <<x>>
  OBVIOUS
<1>2. Append(<<x>>, y) = <<x, y>>
  <2> DEFINE p == Append(<<x>>, y)
             q == <<x, y>>
  <2>1. p \in Seq(Nat) /\ Len(p) = 2 /\ p[1] = x /\ p[2] = y
    OBVIOUS
  <2>2. q \in Seq(Nat) /\ Len(q) = 2 /\ q[1] = x /\ q[2] = y
    OBVIOUS
  <2> HIDE DEF p, q
  <2>3. \A i \in 1 .. 2 : i = 1 \/ i = 2
    OBVIOUS
  <2>4. \A i \in 1 .. Len(p) : p[i] = q[i]
    BY <2>1, <2>2, <2>3
  <2>5. p = q
    BY <2>1, <2>2, <2>4, SeqEqual
  <2>6. QED
    BY <2>5 DEF p, q
<1>3. Append(<<x, y>>, z) = <<x, y, z>>
  <2> DEFINE p == Append(<<x, y>>, z)
             q == <<x, y, z>>
  <2>1. p \in Seq(Nat) /\ Len(p) = 3 /\ p[1] = x /\ p[2] = y /\ p[3] = z
    OBVIOUS
  <2>2. q \in Seq(Nat) /\ Len(q) = 3 /\ q[1] = x /\ q[2] = y /\ q[3] = z
    OBVIOUS
  <2> HIDE DEF p, q
  <2>3. \A i \in 1 .. 3 : i = 1 \/ i = 2 \/ i = 3
    OBVIOUS
  <2>4. \A i \in 1 .. Len(p) : p[i] = q[i]
    BY <2>1, <2>2, <2>3
  <2>5. p = q
    BY <2>1, <2>2, <2>4, SeqEqual
  <2>6. QED
    BY <2>5 DEF p, q
<1>4. QED
  BY <1>1, <1>2, <1>3

\* ip_to_string writes a byte as a number.
LEMMA FragmentIsDecimal ==
  ASSUME NEW b \in Nat, b < 256
  PROVE  IsDecimal(Reverse(FragmentDigits(b)), b)
<1> DEFINE q == b \div 10
           h == q \div 10
           x == (b % 10) + 48
           y == (q % 10) + 48
           z == (h % 10) + 48
           r0 == [left |-> b, digits |-> <<>>]
           r1 == TakeDigit(r0)
           r2 == TakeDigit(r1)
           r3 == TakeDigit(r2)
<1>1. /\ q \in Nat /\ h \in Nat /\ h < 10 /\ h \div 10 = 0
      /\ x \in 48 .. 57 /\ y \in 48 .. 57 /\ z \in 48 .. 57
      /\ b = 10 * q + (x - 48) /\ q = 10 * h + (y - 48) /\ h = z - 48
  OBVIOUS
<1>2. /\ x = (b % 10) + 48 /\ y = (q % 10) + 48 /\ z = (h % 10) + 48
      /\ q = b \div 10 /\ h = q \div 10
  OBVIOUS
<1> HIDE DEF x, y, z, q, h
<1>3. <<>> \in Seq(Nat) /\ <<x>> \in Seq(Nat) /\ <<x, y>> \in Seq(Nat) /\ <<x, y, z>> \in Seq(Nat)
  BY <1>1
<1>4. /\ Append(<<>>, x) = <<x>> /\ Append(<<x>>, y) = <<x, y>> /\ Append(<<x, y>>, z) = <<x, y, z>>
  BY <1>1, DigitsAppended
<1>5. CASE b = 0
  <2>1. FragmentDigits(b) = <<48>>
    BY <1>5 DEF FragmentDigits, ZERO
  <2>2. Reverse(<<48>>) \in Seq(Nat) /\ Len(Reverse(<<48>>)) = 1 /\ Reverse(<<48>>)[1] = 48
    BY DEF Reverse
  <2>3. \A i \in 1 .. 1 : Reverse(<<48>>)[i] \in 48 .. 57
    BY <2>2
  <2> DEFINE d == Reverse(<<48>>)
  <2> HIDE DEF d
  <2>4. 1 \in 1 .. 3 /\ d \in Seq(Nat) /\ Len(d) = 1 /\ (\A i \in 1 .. 1 : d[i] \in 48 .. 57) /\ d[1] - 48 = b /\ ~(1 # 1)
    BY <1>5, <2>2, <2>3 DEF d
  <2>5. IsDecimal(d, b)
    BY <2>4, DecimalOf
  <2>6. QED
    BY <2>1, <2>5 DEF d
<1>6. CASE b # 0 /\ q = 0
  <2>1. r1 = [left |-> q, digits |-> <<x>>]
    BY <1>2, <1>3, <1>4, <1>6, DigitTaken
  <2>2. r2 = r1 /\ r3 = r1
    <3> HIDE DEF r1
    <3>1. TakeDigit(r1) = r1
      BY <1>1, <1>3, <1>6, <2>1, DigitTaken
    <3>2. QED
      BY <3>1, Zenon
  <2>3. FragmentDigits(b) = <<x>>
    BY <1>6, <2>1, <2>2 DEF FragmentDigits
  <2> DEFINE d == Reverse(<<x>>)
  <2>4. d \in Seq(Nat) /\ Len(d) = 1 /\ d[1] = x
    BY <1>1 DEF Reverse
  <2> HIDE DEF d
  <2>5. 1 \in 1 .. 3 /\ (\A i \in 1 .. 1 : d[i] \in 48 .. 57) /\ d[1] - 48 = b /\ ~(1 # 1)
    <3>1. \A i \in 1 .. 1 : i = 1
      OBVIOUS
    <3>2. b = x - 48 /\ 1 \in 1 .. 3
      BY <1>1, <1>6
    <3>3. QED
      BY <1>1, <2>4, <3>1, <3>2, Zenon
  <2>6. IsDecimal(d, b)
    BY <2>4, <2>5, DecimalOf
  <2>7. QED
    BY <2>3, <2>6 DEF d
<1>7. CASE b # 0 /\ q # 0 /\ h = 0
  <2>1. r1 = [left |-> q, digits |-> <<x>>]
    BY <1>2, <1>3, <1>4, <1>7, DigitTaken
  <2>2. r2 = [left |-> h, digits |-> <<x, y>>]
    <3> HIDE DEF r1
    <3>1. TakeDigit(r1) = [left |-> h, digits |-> Append(<<x>>, y)]
      BY <1>1, <1>2, <1>3, <1>7, <2>1, DigitTaken
    <3>2. QED
      BY <1>4, <3>1, Zenon
  <2>3. r3 = r2
    <3> HIDE DEF r2
    <3>1. QED
      BY <1>1, <1>3, <1>7, <2>2, DigitTaken
  <2>4. FragmentDigits(b) = <<x, y>>
    BY <1>7, <2>2, <2>3 DEF FragmentDigits
  <2> DEFINE d == Reverse(<<x, y>>)
  <2>5. d \in Seq(Nat) /\ Len(d) = 2 /\ d[1] = y /\ d[2] = x
    BY <1>1 DEF Reverse
  <2> HIDE DEF d
  <2>6. 2 \in 1 .. 3 /\ (\A i \in 1 .. 2 : d[i] \in 48 .. 57)
    <3>1. 2 \in 1 .. 3 /\ \A i \in 1 .. 2 : i = 1 \/ i = 2
      OBVIOUS
    <3>2. QED
      BY <1>1, <2>5, <3>1, Zenon
  <2>7. (d[1] - 48) * 10 + (d[2] - 48) = b
    BY <1>1, <1>7, <2>5
  <2>8. IsDecimal(d, b)
    <3>1. (2 = 1 => d[1] - 48 = b) /\ (2 = 3 => ((d[1] - 48) * 10 + (d[2] - 48)) * 10 + (d[3] - 48) = b)
      OBVIOUS
    <3>2. d[1] # 48
      BY <1>1, <1>7, <2>5
    <3>3. QED
      BY <2>5, <2>6, <2>7, <3>1, <3>2, DecimalOf
  <2>9. QED
    BY <2>4, <2>8 DEF d
<1>8. CASE b # 0 /\ q # 0 /\ h # 0
  <2>1. r1 = [left |-> q, digits |-> <<x>>]
    BY <1>2, <1>3, <1>4, <1>8, DigitTaken
  <2>2. r2 = [left |-> h, digits |-> <<x, y>>]
    <3> HIDE DEF r1
    <3>1. TakeDigit(r1) = [left |-> h, digits |-> Append(<<x>>, y)]
      BY <1>1, <1>2, <1>3, <1>8, <2>1, DigitTaken
    <3>2. QED
      BY <1>4, <3>1, Zenon
  <2>3. r3 = [left |-> h \div 10, digits |-> <<x, y, z>>]
    <3> HIDE DEF r2
    <3>1. TakeDigit(r2) = [left |-> h \div 10, digits |-> Append(<<x, y>>, z)]
      BY <1>1, <1>2, <1>3, <1>8, <2>2, DigitTaken
    <3>2. QED
      BY <1>4, <3>1, Zenon
  <2>4. FragmentDigits(b) = <<x, y, z>>
    BY <1>8, <2>3 DEF FragmentDigits
  <2> DEFINE d == Reverse(<<x, y, z>>)
  <2>5. d \in Seq(Nat) /\ Len(d) = 3 /\ d[1] = z /\ d[2] = y /\ d[3] = x
    BY <1>1 DEF Reverse
  <2> HIDE DEF d
  <2>6. 3 \in 1 .. 3 /\ (\A i \in 1 .. 3 : d[i] \in 48 .. 57)
    <3>1. 3 \in 1 .. 3 /\ \A i \in 1 .. 3 : i = 1 \/ i = 2 \/ i = 3
      OBVIOUS
    <3>2. QED
      BY <1>1, <2>5, <3>1, Zenon
  <2>7. ((d[1] - 48) * 10 + (d[2] - 48)) * 10 + (d[3] - 48) = b
    BY <1>1, <1>8, <2>5
  <2>8. IsDecimal(d, b)
    <3>1. (3 = 1 => d[1] - 48 = b) /\ (3 = 2 => (d[1] - 48) * 10 + (d[2] - 48) = b)
      OBVIOUS
    <3>2. d[1] # 48
      BY <1>1, <1>8, <2>5
    <3>3. QED
      BY <2>5, <2>6, <2>7, <3>1, <3>2, DecimalOf
  <2>9. QED
    BY <2>4, <2>8 DEF d
<1>9. QED
  BY <1>5, <1>6, <1>7, <1>8

\* Where the digits of a number end.
LEMMA DigitsEnd ==
  ASSUME NEW text \in Seq(Nat), NEW at \in Nat, NEW k \in Nat, at =< k, k =< Len(text) + 1,
         \A j \in at .. k - 1 : IsDigit(text[j]), k =< Len(text) => ~IsDigit(text[k])
  PROVE  AfterDigits(text, at) = k
<1> DEFINE P(c) == /\ \A j \in at .. c - 1 : IsDigit(text[j])
                   /\ c =< Len(text) => ~IsDigit(text[c])
           c == AfterDigits(text, at)
<1>1. Len(text) \in Nat /\ k \in at .. Len(text) + 1 /\ P(k)
  OBVIOUS
<1>2. c \in at .. Len(text) + 1 /\ P(c)
  BY <1>1, Zenon DEF AfterDigits
<1> HIDE DEF c
<1>3. CASE c < k
  <2>1. c \in at .. k - 1 /\ c =< Len(text)
    BY <1>1, <1>2, <1>3
  <2>2. QED
    BY <1>2, <2>1
<1>4. CASE k < c
  <2>1. k \in at .. c - 1 /\ k =< Len(text)
    BY <1>1, <1>2, <1>4
  <2>2. QED
    BY <1>2, <2>1
<1>5. c = k
  BY <1>1, <1>2, <1>3, <1>4
<1>6. QED
  BY <1>5 DEF c

\* One turn of the loop of string_to_ip.
NextNumber(number, digit) == (number * 10 + digit - ZERO) % 256

\* The number that one to three digits are.
LEMMA NumberOfDigits ==
  ASSUME NEW text, NEW at \in Nat, NEW n \in 1 .. 3
  PROVE  LET one   == NextNumber(0, text[at])
             two   == NextNumber(one, text[at + 1])
             three == NextNumber(two, text[at + 2])
         IN  NumberBetween(text, at, at + n) = IF n = 1 THEN one ELSE IF n = 2 THEN two ELSE three
<1> DEFINE one   == NextNumber(0, text[at])
           two   == NextNumber(one, text[at + 1])
           three == NextNumber(two, text[at + 2])
           D == at .. at + n
           Is(v) == v = [k \in D |-> IF k = at THEN 0 ELSE NextNumber(v[k - 1], text[k - 1])]
           w == [k \in D |-> IF k = at THEN 0 ELSE IF k = at + 1 THEN one ELSE IF k = at + 2 THEN two ELSE three]
<1> HIDE DEF one, two, three
<1>1. \A k \in D : /\ k \in Nat /\ (k = at \/ k = at + 1 \/ k = at + 2 \/ k = at + 3)
                   /\ k # at => k - 1 \in D
  OBVIOUS
<1>2. /\ at + 1 # at /\ at + 2 # at /\ at + 2 # at + 1 /\ at + 3 # at /\ at + 3 # at + 1 /\ at + 3 # at + 2
      /\ (at + 1) - 1 = at /\ (at + 2) - 1 = at + 1 /\ (at + 3) - 1 = at + 2
  OBVIOUS
<1>3. ASSUME NEW k \in D PROVE w[k] = IF k = at THEN 0 ELSE NextNumber(w[k - 1], text[k - 1])
  <2>1. \A i \in D : w[i] = IF i = at THEN 0 ELSE IF i = at + 1 THEN one ELSE IF i = at + 2 THEN two ELSE three
    OBVIOUS
  <2> HIDE DEF w, D
  <2>2. CASE k = at
    BY <2>1, <2>2
  <2>3. CASE k = at + 1
    <3>1. k - 1 = at /\ k # at /\ at \in D
      BY <1>1, <1>2, <2>3
    <3>2. w[k] = one /\ w[k - 1] = 0
      BY <1>2, <2>1, <2>3, <3>1
    <3>3. QED
      BY <3>1, <3>2 DEF one
  <2>4. CASE k = at + 2
    <3>1. k - 1 = at + 1 /\ k # at /\ at + 1 \in D
      BY <1>1, <1>2, <2>4
    <3>2. w[k] = two /\ w[k - 1] = one
      BY <1>2, <2>1, <2>4, <3>1
    <3>3. QED
      BY <3>1, <3>2 DEF two
  <2>5. CASE k = at + 3
    <3>1. k - 1 = at + 2 /\ k # at /\ at + 2 \in D
      BY <1>1, <1>2, <2>5
    <3>2. w[k] = three /\ w[k - 1] = two
      BY <1>2, <2>1, <2>5, <3>1
    <3>3. QED
      BY <3>1, <3>2 DEF three
  <2>6. QED
    BY <1>1, <2>2, <2>3, <2>4, <2>5
<1>4. Is(w)
  <2>1. DOMAIN w = D /\ w = [k \in D |-> w[k]]
    OBVIOUS
  <2> HIDE DEF w, D
  <2>2. [k \in D |-> w[k]] = [k \in D |-> IF k = at THEN 0 ELSE NextNumber(w[k - 1], text[k - 1])]
    BY <1>3
  <2>3. QED
    BY <2>1, <2>2, Zenon
<1> DEFINE v == CHOOSE x : Is(x)
<1>5. Is(v)
  <2> HIDE DEF Is, w
  <2>1. QED
    BY <1>4, Zenon
<1>6. NumberBetween(text, at, at + n) = v[at + n]
  BY Zenon DEF NumberBetween, NextNumber
<1> HIDE DEF v, w
<1>7. \A k \in D : v[k] = IF k = at THEN 0 ELSE NextNumber(v[k - 1], text[k - 1])
  <2>1. SUFFICES ASSUME NEW k \in D PROVE v[k] = IF k = at THEN 0 ELSE NextNumber(v[k - 1], text[k - 1])
    OBVIOUS
  <2>2. v = [i \in D |-> IF i = at THEN 0 ELSE NextNumber(v[i - 1], text[i - 1])]
    BY <1>5, Zenon
  <2> HIDE DEF D
  <2>3. [i \in D |-> IF i = at THEN 0 ELSE NextNumber(v[i - 1], text[i - 1])][k]
          = IF k = at THEN 0 ELSE NextNumber(v[k - 1], text[k - 1])
    BY Zenon
  <2>4. QED
    BY <2>2, <2>3, Zenon
<1>8. at \in D /\ at + 1 \in D /\ (n # 1 => at + 2 \in D) /\ (n = 3 => at + 3 \in D)
  OBVIOUS
<1> HIDE DEF D
<1>9. v[at + 1] = one
  BY <1>2, <1>7, <1>8 DEF one
<1>10. n # 1 => v[at + 2] = two
  BY <1>2, <1>7, <1>8, <1>9 DEF two
<1>11. n = 3 => v[at + 3] = three
  BY <1>2, <1>7, <1>8, <1>10 DEF three
<1>12. n = 1 \/ n = 2 \/ n = 3
  OBVIOUS
<1>13. v[at + n] = IF n = 1 THEN one ELSE IF n = 2 THEN two ELSE three
  BY <1>9, <1>10, <1>11, <1>12
<1>14. QED
  BY <1>6, <1>13, Zenon DEF one, two, three

LEMMA SmallNumbers ==
  /\ \A x \in 0 .. 25, y \in 48 .. 57 : x * 10 + y - 48 \in Nat
  /\ \A x \in 0 .. 9, y \in 48 .. 57 : x * 10 + y - 48 < 256
  /\ \A q \in Nat : q < 256 => q % 256 = q
OBVIOUS

StandsAt(text, at, d) == \A j \in 1 .. Len(d) : text[at + j - 1] = d[j]

IsByte(b) == b \in Nat /\ b < 256

\* A byte in decimal digits is read as the byte.
LEMMA DecimalRead ==
  ASSUME NEW text, NEW at \in Nat, NEW b, IsByte(b), NEW d, IsDecimal(d, b), StandsAt(text, at, d)
  PROVE  NumberBetween(text, at, at + Len(d)) = b
<1> DEFINE n == Len(d)
<1>1. n \in 1 .. 3 /\ \A i \in 1 .. n : d[i] \in 48 .. 57
  BY DEF IsDecimal, IsDigit, ZERO
<1>2. /\ n = 1 => d[1] - 48 = b
      /\ n = 2 => (d[1] - 48) * 10 + d[2] - 48 = b
      /\ n = 3 => ((d[1] - 48) * 10 + d[2] - 48) * 10 + d[3] - 48 = b
  BY DEF IsDecimal, ZERO
<1> DEFINE one   == NextNumber(0, text[at])
           two   == NextNumber(one, text[at + 1])
           three == NextNumber(two, text[at + 2])
<1>3. NumberBetween(text, at, at + n) = IF n = 1 THEN one ELSE IF n = 2 THEN two ELSE three
  BY <1>1, NumberOfDigits
<1>4. at + 1 - 1 = at /\ at + 2 - 1 = at + 1 /\ at + 3 - 1 = at + 2
  OBVIOUS
<1>5. (n = 1 \/ n = 2 \/ n = 3) /\ b \in Nat /\ b < 256
  BY <1>1 DEF IsByte
<1>6. \A j \in 1 .. n : text[at + j - 1] = d[j]
  BY DEF StandsAt
<1> HIDE DEF n, one, two, three
<1>7. text[at] = d[1] /\ d[1] \in 48 .. 57
  <2>1. 1 \in 1 .. n
    BY <1>1
  <2>2. QED
    BY <1>1, <1>4, <1>6, <2>1
<1>8. one = d[1] - 48 /\ one \in 0 .. 9
  BY <1>7 DEF one, NextNumber, ZERO
<1>9. CASE n = 1
  BY <1>2, <1>3, <1>8, <1>9 DEF n
<1>10. CASE n = 2
  <2>1. text[at + 1] = d[2] /\ d[2] \in 48 .. 57
    <3>1. 2 \in 1 .. n
      BY <1>10
    <3>2. QED
      BY <1>1, <1>4, <1>6, <3>1
  <2>2. two = (one * 10 + d[2] - 48) % 256
    BY <2>1 DEF two, NextNumber, ZERO
  <2>3. one * 10 + d[2] - 48 = b
    BY <1>2, <1>8, <1>10, Zenon
  <2>4. two = b
    BY <1>5, <2>2, <2>3, SmallNumbers, Zenon
  <2>5. QED
    BY <1>3, <1>10, <2>4 DEF n
<1>11. CASE n = 3
  <2>1. text[at + 1] = d[2] /\ text[at + 2] = d[3] /\ d[2] \in 48 .. 57 /\ d[3] \in 48 .. 57
    <3>1. 2 \in 1 .. n /\ 3 \in 1 .. n
      BY <1>11
    <3>2. QED
      BY <1>1, <1>4, <1>6, <3>1
  <2>2. two = (one * 10 + d[2] - 48) % 256
    BY <2>1 DEF two, NextNumber, ZERO
  <2>3. two = one * 10 + d[2] - 48
    <3> DEFINE q == one * 10 + d[2] - 48
    <3>1. one \in 0 .. 25
      BY <1>8
    <3>2. q \in Nat /\ q < 256
      BY <1>8, <2>1, <3>1, SmallNumbers
    <3> HIDE DEF q
    <3>3. q % 256 = q
      BY <3>2, SmallNumbers
    <3>4. QED
      BY <2>2, <3>3, Zenon DEF q
  <2>4. three = (two * 10 + d[3] - 48) % 256
    BY <2>1 DEF three, NextNumber, ZERO
  <2>5. two * 10 + d[3] - 48 = b
    BY <1>2, <1>8, <1>11, <2>3, Zenon
  <2>6. three = b
    BY <1>5, <2>4, <2>5, SmallNumbers, Zenon
  <2>7. QED
    BY <1>3, <1>11, <2>6 DEF n
<1>12. QED
  BY <1>5, <1>9, <1>10, <1>11

\* string_to_ip reads what ip_to_string writes.
LEMMA IpReadsBack ==
  ASSUME NEW ip, ip = [i \in 1 .. 4 |-> ip[i]], \A i \in 1 .. 4 : ip[i] \in Nat /\ ip[i] < 256
  PROVE  StringToIp(IpToString(ip)) = ip
<1> DEFINE d(i) == Reverse(FragmentDigits(ip[i]))
           dot(i) == IF i # 4 THEN <<DOT>> ELSE <<>>
           s == [i \in 1 .. 4 |-> d(i) \o dot(i)]
           text == FlattenSeq(s)
<1>1. \A i \in 1 .. 4 : ip[i] \in Nat /\ ip[i] < 256
  OBVIOUS
<1>2. \A i \in 1 .. 4 : IsDecimal(d(i), ip[i])
  BY <1>1, FragmentIsDecimal
<1>3. \A i \in 1 .. 4 : /\ dot(i) \in Seq(Nat) /\ Len(dot(i)) = IF i # 4 THEN 1 ELSE 0
                        /\ i # 4 => dot(i)[1] = DOT
  BY DEF DOT
<1> HIDE DEF d, dot
<1>4. \A i \in 1 .. 4 : d(i) \in Seq(Nat) /\ Len(d(i)) \in 1 .. 3 /\ \A j \in 1 .. Len(d(i)) : IsDigit(d(i)[j])
  BY <1>2 DEF IsDecimal
<1>5. ASSUME NEW i \in 1 .. 4
      PROVE  /\ s[i] \in Seq(Nat) /\ Len(s[i]) = Len(d(i)) + (IF i # 4 THEN 1 ELSE 0)
             /\ \A j \in 1 .. Len(d(i)) : s[i][j] = d(i)[j] /\ j \in 1 .. Len(s[i])
             /\ i # 4 => s[i][Len(d(i)) + 1] = DOT /\ Len(d(i)) + 1 \in 1 .. Len(s[i])
  <2> DEFINE a == d(i)
             b == dot(i)
             c == s[i]
  <2>1. c = a \o b /\ a \in Seq(Nat) /\ b \in Seq(Nat) /\ Len(a) \in Nat
        /\ Len(b) = (IF i # 4 THEN 1 ELSE 0) /\ (i # 4 => b[1] = DOT)
    <3>1. s[i] = d(i) \o dot(i)
      OBVIOUS
    <3>2. d(i) \in Seq(Nat) /\ Len(d(i)) \in 1 .. 3
      BY <1>4
    <3>3. Len(d(i)) \in Nat
      BY <3>2
    <3>4. dot(i) \in Seq(Nat) /\ Len(dot(i)) = (IF i # 4 THEN 1 ELSE 0) /\ (i # 4 => dot(i)[1] = DOT)
      BY <1>3, Zenon
    <3>5. QED
      BY <3>1, <3>2, <3>3, <3>4, Zenon
  <2> HIDE DEF a, b, c
  <2>2. /\ c \in Seq(Nat) /\ Len(c) = Len(a) + Len(b)
        /\ \A j \in 1 .. Len(a) : c[j] = a[j]
        /\ \A j \in 1 .. Len(b) : c[Len(a) + j] = b[j]
    <3> DEFINE T == Nat
    <3>0. a \in Seq(T) /\ b \in Seq(T)
      BY <2>1
    <3>1. c = a \o b
      BY <2>1
    <3> HIDE DEF T
    <3>2. /\ a \o b \in Seq(T) /\ Len(a \o b) = Len(a) + Len(b)
          /\ \A j \in 1 .. Len(a) : (a \o b)[j] = a[j]
          /\ \A j \in 1 .. Len(b) : (a \o b)[Len(a) + j] = b[j]
      BY <3>0, JoinedAt
    <3>3. QED
      BY <3>1, <3>2, Zenon DEF T
  <2>3. Len(c) = Len(a) + (IF i # 4 THEN 1 ELSE 0)
    BY <2>1, <2>2, Zenon
  <2>4. Len(a) \in Nat /\ Len(c) \in Nat
    BY <2>1, <2>2
  <2>5. \A j \in 1 .. Len(a) : j \in 1 .. Len(c)
    BY <2>3, <2>4
  <2>6. i # 4 => c[Len(a) + 1] = DOT /\ Len(a) + 1 \in 1 .. Len(c)
    <3>1. SUFFICES ASSUME i # 4 PROVE c[Len(a) + 1] = DOT /\ Len(a) + 1 \in 1 .. Len(c)
      OBVIOUS
    <3>2. Len(b) = 1 /\ b[1] = DOT
      BY <2>1, <3>1
    <3>3. 1 \in 1 .. Len(b)
      BY <3>2
    <3>4. Len(a) + 1 \in 1 .. Len(c)
      BY <2>3, <2>4, <3>1
    <3>5. QED
      BY <2>2, <3>2, <3>3, <3>4
  <2>7. QED
    BY <2>2, <2>3, <2>5, <2>6, Zenon DEF a, b, c
<1>6. s \in Seq(Seq(Nat)) /\ Len(s) = 4 /\ s # <<>>
  <2>1. s \in [1 .. 4 -> Seq(Nat)]
    <3> DEFINE g(i) == s[i]
    <3>1. \A i \in 1 .. 4 : s[i] \in Seq(Nat)
      BY <1>5
    <3>2. DOMAIN s = 1 .. 4 /\ s = [i \in 1 .. 4 |-> s[i]]
      OBVIOUS
    <3> HIDE DEF s
    <3>3. QED
      BY <3>1, <3>2
  <2> HIDE DEF s
  <2> DEFINE T == Seq(Nat)
  <2> HIDE DEF T
  <2>2. s \in [1 .. 4 -> T]
    BY <2>1 DEF T
  <2>3. s \in Seq(T) /\ Len(s) = 4
    BY <2>2, FunctionIsSeq
  <2>4. s # <<>>
    <3>1. Len(<<>>) = 0 /\ 4 # 0
      OBVIOUS
    <3>2. QED
      BY <2>3, <3>1, Zenon
  <2>5. QED
    BY <2>3, <2>4 DEF T
<1> HIDE DEF s
<1>7. PICK e : Pieces(e, s, text)
  BY <1>6, FlattenedPieces
<1> HIDE DEF text
<1>8. /\ text \in Seq(Nat) /\ Len(text) = e[4] /\ e[0] = 0
      /\ \A i \in 0 .. 4 : e[i] \in Nat
      /\ \A i \in 1 .. 4 : /\ e[i] = e[i - 1] + Len(s[i])
                           /\ \A j \in 1 .. Len(s[i]) : e[i - 1] + j \in 1 .. e[4] /\ text[e[i - 1] + j] = s[i][j]
  BY <1>6, <1>7 DEF Pieces
<1> DEFINE from(i) == e[i - 1] + 1
           to(i) == from(i) + Len(d(i))
<1>9. ASSUME NEW i \in 1 .. 4
      PROVE  /\ from(i) \in Nat /\ to(i) \in Nat /\ Len(d(i)) \in Nat
             /\ \A j \in 1 .. Len(d(i)) : text[from(i) + j - 1] = d(i)[j]
             /\ i # 4 => to(i) =< Len(text) /\ text[to(i)] = DOT /\ to(i) + 1 = e[i] + 1
             /\ i = 4 => to(i) = Len(text) + 1
             /\ from(i) =< to(i) /\ to(i) =< Len(text) + 1
  <2> DEFINE a == e[i - 1]
             l == Len(d(i))
  <2>1. i - 1 \in 0 .. 4 /\ i \in 0 .. 4
    OBVIOUS
  <2>2. a \in Nat /\ l \in Nat /\ l >= 1 /\ e[i] \in Nat /\ e[4] \in Nat
    <3>1. a \in Nat /\ e[i] \in Nat /\ e[4] \in Nat
      <4>1. 4 \in 0 .. 4
        OBVIOUS
      <4>2. QED
        BY <1>8, <2>1, <4>1, Zenon
    <3>2. l \in 1 .. 3
      BY <1>4
    <3> HIDE DEF l, a
    <3>3. QED
      BY <3>1, <3>2
  <2>3. e[i] = a + Len(s[i]) /\ Len(s[i]) = l + (IF i # 4 THEN 1 ELSE 0)
    BY <1>5, <1>8
  <2> DEFINE ei == e[i]
             e4 == e[4]
             ls == Len(s[i])
  <2>4. /\ \A j \in 1 .. l : a + j \in 1 .. e4 /\ text[a + j] = d(i)[j]
        /\ i # 4 => a + (l + 1) \in 1 .. e4 /\ text[a + (l + 1)] = DOT
    <3>1. \A j \in 1 .. ls : a + j \in 1 .. e4 /\ text[a + j] = s[i][j]
      BY <1>8, Zenon
    <3>2. /\ \A j \in 1 .. l : s[i][j] = d(i)[j] /\ j \in 1 .. ls
          /\ i # 4 => s[i][l + 1] = DOT /\ l + 1 \in 1 .. ls
      BY <1>5, Zenon
    <3> HIDE DEF a, l, e4, ls
    <3>3. QED
      BY <3>1, <3>2, Zenon
  <2>5. ei = a + ls /\ ls = l + (IF i # 4 THEN 1 ELSE 0) /\ (i = 4 => ei = e4) /\ Len(text) = e4
    BY <1>8, <2>3
  <2>6. a \in Nat /\ l \in Nat /\ ei \in Nat /\ e4 \in Nat /\ l >= 1
    BY <2>2
  <2>7. from(i) = a + 1 /\ to(i) = (a + 1) + l
    OBVIOUS
  <2> HIDE DEF a, l, ei, e4, ls, from, to
  <2>8. from(i) \in Nat /\ to(i) \in Nat /\ from(i) =< to(i) /\ to(i) = a + (l + 1)
    BY <2>6, <2>7
  <2>9. \A j \in 1 .. l : text[from(i) + j - 1] = d(i)[j]
    <3>1. \A j \in 1 .. l : from(i) + j - 1 = a + j
      BY <2>6, <2>7
    <3>2. QED
      BY <2>4, <3>1
  <2>10. i # 4 => to(i) =< e4 /\ text[to(i)] = DOT /\ to(i) + 1 = ei + 1
    <3>1. SUFFICES ASSUME i # 4 PROVE to(i) =< e4 /\ text[to(i)] = DOT /\ to(i) + 1 = ei + 1
      OBVIOUS
    <3>2. ls = l + 1
      BY <2>5, <3>1
    <3>3. a + (l + 1) \in 1 .. e4 /\ text[a + (l + 1)] = DOT
      BY <2>4, <3>1
    <3>4. ei = to(i)
      BY <2>5, <2>8, <3>2
    <3>5. QED
      BY <2>6, <2>8, <3>3, <3>4
  <2>11. i = 4 => to(i) = e4 + 1
    <3>1. SUFFICES ASSUME i = 4 PROVE to(i) = e4 + 1
      OBVIOUS
    <3>2. ls = l + 0 /\ ei = e4 /\ ei = a + ls
      BY <2>5, <3>1
    <3>3. QED
      BY <2>6, <2>8, <3>2
  <2>12. to(i) =< e4 + 1
    BY <2>6, <2>8, <2>10, <2>11
  <2>13. QED
    BY <2>5, <2>6, <2>8, <2>9, <2>10, <2>11, <2>12, Zenon DEF l, ei
<1> HIDE DEF from, to
<1>10. ASSUME NEW i \in 1 .. 4 PROVE AfterDigits(text, from(i)) = to(i)
  <2>1. to(i) = from(i) + Len(d(i)) /\ from(i) \in Nat /\ to(i) \in Nat /\ Len(d(i)) \in Nat
    BY <1>9 DEF to
  <2>2. ASSUME NEW j \in from(i) .. to(i) - 1 PROVE IsDigit(text[j])
    <3> DEFINE k == j - from(i) + 1
    <3>1. k \in 1 .. Len(d(i)) /\ from(i) + k - 1 = j
      BY <2>1
    <3> HIDE DEF k
    <3>2. text[j] = d(i)[k]
      BY <1>9, <3>1
    <3>3. QED
      BY <1>4, <3>1, <3>2
  <2>3. to(i) =< Len(text) => ~IsDigit(text[to(i)])
    <3>1. i = 4 => ~(to(i) =< Len(text))
      <4>1. SUFFICES ASSUME i = 4 PROVE ~(to(i) =< Len(text))
        OBVIOUS
      <4>2. to(i) = Len(text) + 1 /\ Len(text) \in Nat
        <5>1. Len(text) \in Nat
          BY <1>8
        <5>2. QED
          BY <1>9, <4>1, <5>1, Zenon
      <4>3. QED
        BY <4>2
    <3>2. ~IsDigit(DOT)
      BY DEF IsDigit, DOT, ZERO
    <3>3. QED
      BY <1>9, <3>1, <3>2
  <2>4. from(i) =< to(i) /\ to(i) =< Len(text) + 1
    BY <1>9
  <2>5. QED
    BY <1>8, <2>1, <2>2, <2>3, <2>4, DigitsEnd
<1>11. ASSUME NEW i \in 1 .. 4 PROVE NumberBetween(text, from(i), to(i)) = ip[i]
  <2>1. to(i) = from(i) + Len(d(i)) /\ from(i) \in Nat
    BY <1>9 DEF to
  <2>2. \A j \in 1 .. Len(d(i)) : text[from(i) + j - 1] = d(i)[j]
    BY <1>9
  <2>3. NumberBetween(text, from(i), from(i) + Len(d(i))) = ip[i]
    <3>1. ip[i] \in Nat /\ ip[i] < 256 /\ IsDecimal(d(i), ip[i])
      BY <1>1, <1>2
    <3> DEFINE b == ip[i]
               t == d(i)
               at == from(i)
    <3>2. IsByte(b) /\ IsDecimal(t, b) /\ at \in Nat /\ StandsAt(text, at, t)
      BY <2>1, <2>2, <3>1, Zenon DEF IsByte, StandsAt
    <3> HIDE DEF b, t, at
    <3>3. NumberBetween(text, at, at + Len(t)) = b
      BY <3>2, DecimalRead
    <3>4. QED
      BY <3>3, Zenon DEF b, t, at
  <2>4. QED
    BY <2>1, <2>3
<1> DEFINE Next1(x) == LET k == AfterDigits(text, x) IN IF k =< Len(text) /\ text[k] = DOT THEN k + 1 ELSE k
           Is(v) == v = [i \in 1 .. 4 |-> IF i = 1 THEN 1 ELSE Next1(v[i - 1])]
           w == [i \in 1 .. 4 |-> from(i)]
<1>12. ASSUME NEW i \in 1 .. 4 PROVE w[i] = IF i = 1 THEN 1 ELSE Next1(w[i - 1])
  <2>1. CASE i = 1
    <3>1. from(1) = 1
      BY <1>8 DEF from
    <3>2. QED
      BY <2>1, <3>1
  <2>2. CASE i # 1
    <3>1. i - 1 \in 1 .. 4 /\ i - 1 # 4
      BY <2>2
    <3>2. Next1(from(i - 1)) = to(i - 1) + 1
      <4>1. AfterDigits(text, from(i - 1)) = to(i - 1)
        BY <1>10, <3>1
      <4>2. to(i - 1) =< Len(text) /\ text[to(i - 1)] = DOT
        BY <1>9, <3>1
      <4>3. QED
        BY <4>1, <4>2
    <3>3. to(i - 1) + 1 = from(i)
      BY <1>9, <3>1 DEF from
    <3> HIDE DEF Next1
    <3>4. w[i] = from(i) /\ w[i - 1] = from(i - 1)
      BY <3>1
    <3>5. QED
      BY <2>2, <3>2, <3>3, <3>4
  <2>3. QED
    BY <2>1, <2>2
<1>13. Is(w)
  <2>1. w = [i \in 1 .. 4 |-> w[i]]
    OBVIOUS
  <2> HIDE DEF w, Next1
  <2>2. [i \in 1 .. 4 |-> w[i]] = [i \in 1 .. 4 |-> IF i = 1 THEN 1 ELSE Next1(w[i - 1])]
    BY <1>12
  <2>3. QED
    BY <2>1, <2>2, Zenon
<1> DEFINE v == CHOOSE x : Is(x)
<1>14. Is(v)
  <2> HIDE DEF Is, w
  <2>1. QED
    BY <1>13, Zenon
<1>15. StringToIp(text) = [i \in 1 .. 4 |-> NumberBetween(text, v[i], AfterDigits(text, v[i]))]
  BY Zenon DEF StringToIp
<1> HIDE DEF v, w, Next1
<1>16. \A i \in 1 .. 4 : v[i] = IF i = 1 THEN 1 ELSE Next1(v[i - 1])
  <2>1. SUFFICES ASSUME NEW i \in 1 .. 4 PROVE v[i] = IF i = 1 THEN 1 ELSE Next1(v[i - 1])
    OBVIOUS
  <2>2. v = [j \in 1 .. 4 |-> IF j = 1 THEN 1 ELSE Next1(v[j - 1])]
    BY <1>14, Zenon
  <2>3. QED
    BY <2>2
<1>17. \A i \in 1 .. 4 : w[i] = from(i)
  BY DEF w
<1>18. \A i \in 1 .. 4 : v[i] = from(i)
  <2>1. v[1] = w[1]
    BY <1>12, <1>16
  <2>2. v[2] = w[2]
    BY <1>12, <1>16, <2>1
  <2>3. v[3] = w[3]
    BY <1>12, <1>16, <2>2
  <2>4. v[4] = w[4]
    BY <1>12, <1>16, <2>3
  <2>5. QED
    BY <1>17, <2>1, <2>2, <2>3, <2>4
<1>19. \A i \in 1 .. 4 : NumberBetween(text, v[i], AfterDigits(text, v[i])) = ip[i]
  BY <1>10, <1>11, <1>18
<1>20. StringToIp(text) = [i \in 1 .. 4 |-> ip[i]]
  BY <1>15, <1>19
<1>21. IpToString(ip) = text
  BY Zenon DEF IpToString, text, s, d, dot
<1>22. QED
  BY <1>20, <1>21, Zenon

\* char_to_hex is the inverse of the table, in either case.
LEMMA HexReadBack ==
  ASSUME NEW n \in Nat, n < 16, NEW lowercase \in BOOLEAN
  PROVE  /\ CharToHex(HexDigit(n, lowercase)) = n
         /\ HexDigit(n, lowercase) \in Nat /\ HexDigit(n, lowercase) # COLON
<1> DEFINE c == HexDigit(n, lowercase)
<1>1. CASE n < 10
  <2>1. c = 48 + n
    BY <1>1 DEF HexDigit, ZERO
  <2>2. c \in 48 .. 57 /\ c - 48 = n
    BY <1>1, <2>1
  <2> HIDE DEF c
  <2>3. IsDigit(c)
    BY <2>2 DEF IsDigit, ZERO
  <2>4. CharToHex(c) = c - 48
    BY <2>3 DEF CharToHex, ZERO
  <2>5. c \in Nat /\ c # 58
    BY <2>2
  <2>6. QED
    BY <2>2, <2>4, <2>5 DEF c, COLON
<1>2. CASE ~(n < 10)
  <2>1. c = (IF lowercase THEN 97 ELSE 65) + n - 10
    BY <1>2 DEF HexDigit
  <2>2. c \in Nat /\ IF lowercase THEN c \in 97 .. 102 /\ c - 97 = n - 10 ELSE c \in 65 .. 70 /\ c - 65 = n - 10
    <3>1. CASE lowercase
      BY <1>2, <2>1, <3>1
    <3>2. CASE ~lowercase
      BY <1>2, <2>1, <3>2
    <3>3. QED
      BY <3>1, <3>2
  <2> HIDE DEF c
  <2>3. ~IsDigit(c) /\ c # 58
    BY <2>2 DEF IsDigit, ZERO
  <2>4. Lowercase(c) \in 97 .. 102 /\ Lowercase(c) - 97 + 10 = n
    <3>1. CASE lowercase
      <4>1. c \in 97 .. 102 /\ c - 97 = n - 10
        BY <2>2, <3>1
      <4>2. c \div 32 = 3
        BY <4>1
      <4>3. Lowercase(c) = c
        BY <4>2 DEF Lowercase
      <4>4. QED
        BY <4>1, <4>3
    <3>2. CASE ~lowercase
      <4>1. c \in 65 .. 70 /\ c - 65 = n - 10
        BY <2>2, <3>2
      <4>2. c \div 32 = 2
        BY <4>1
      <4>3. Lowercase(c) = c + 32
        BY <4>2 DEF Lowercase
      <4>4. QED
        BY <4>1, <4>3
    <3>3. QED
      BY <3>1, <3>2
  <2>5. CharToHex(c) = Lowercase(c) - 97 + 10
    BY <2>3, <2>4 DEF CharToHex
  <2>6. QED
    BY <2>2, <2>3, <2>4, <2>5 DEF c, COLON
<1>3. QED
  BY <1>1, <1>2

LEMMA SmallPieces ==
  ASSUME NEW x \in Nat, NEW y \in Nat, NEW z \in Nat
  PROVE  /\ <<x, y>> \o <<>> \in Seq(Nat) /\ Len(<<x, y>> \o <<>>) = 2
         /\ (<<x, y>> \o <<>>)[1] = x /\ (<<x, y>> \o <<>>)[2] = y
         /\ <<x, y>> \o <<z>> \in Seq(Nat) /\ Len(<<x, y>> \o <<z>>) = 3
         /\ (<<x, y>> \o <<z>>)[1] = x /\ (<<x, y>> \o <<z>>)[2] = y /\ (<<x, y>> \o <<z>>)[3] = z
OBVIOUS

\* string_to_mac reads what mac_to_string writes.
LEMMA MacReadsBack ==
  ASSUME NEW mac, mac = [i \in 1 .. 6 |-> mac[i]], \A i \in 1 .. 6 : mac[i] \in Nat /\ mac[i] < 256,
         NEW lowercase \in BOOLEAN
  PROVE  StringToMac(MacToString(mac, lowercase)) = mac
<1> DEFINE high(i) == HexDigit(mac[i] \div 16, lowercase)
           low(i) == HexDigit(mac[i] % 16, lowercase)
           s == [i \in 1 .. 6 |-> <<high(i), low(i)>> \o IF i # 6 THEN <<COLON>> ELSE <<>>]
           text == FlattenSeq(s)
<1>1. ASSUME NEW i \in 1 .. 6
      PROVE  /\ high(i) \in Nat /\ low(i) \in Nat
             /\ CharToHex(low(i)) + 16 * CharToHex(high(i)) = mac[i]
  <2> DEFINE b == mac[i]
             h == b \div 16
             l == b % 16
  <2>1. b \in Nat /\ b < 256
    OBVIOUS
  <2> HIDE DEF b
  <2>2. h \in Nat /\ h < 16 /\ l \in Nat /\ l < 16 /\ l + 16 * h = b
    BY <2>1
  <2> HIDE DEF h, l
  <2>3. /\ CharToHex(HexDigit(h, lowercase)) = h /\ CharToHex(HexDigit(l, lowercase)) = l
        /\ HexDigit(h, lowercase) \in Nat /\ HexDigit(l, lowercase) \in Nat
    BY <2>2, HexReadBack
  <2>4. CharToHex(HexDigit(l, lowercase)) + 16 * CharToHex(HexDigit(h, lowercase)) = b
    BY <2>2, <2>3, Zenon
  <2>5. QED
    BY <2>3, <2>4, Zenon DEF h, l, b
<1> HIDE DEF high, low
<1>2. ASSUME NEW i \in 1 .. 6
      PROVE  /\ s[i] \in Seq(Nat) /\ Len(s[i]) = IF i # 6 THEN 3 ELSE 2
             /\ s[i][1] = high(i) /\ s[i][2] = low(i) /\ (i # 6 => s[i][3] = COLON)
  <2>1. high(i) \in Nat /\ low(i) \in Nat /\ COLON \in Nat
    BY <1>1 DEF COLON
  <2>2. s[i] = <<high(i), low(i)>> \o IF i # 6 THEN <<COLON>> ELSE <<>>
    OBVIOUS
  <2> HIDE DEF s
  <2>3. CASE i # 6
    <3>1. s[i] = <<high(i), low(i)>> \o <<COLON>>
      BY <2>2, <2>3
    <3> DEFINE x == high(i)
               y == low(i)
               c == s[i]
    <3>2. x \in Nat /\ y \in Nat /\ COLON \in Nat /\ c = <<x, y>> \o <<COLON>>
      BY <2>1, <3>1, Zenon
    <3> HIDE DEF x, y, c
    <3>3. c \in Seq(Nat) /\ Len(c) = 3 /\ c[1] = x /\ c[2] = y /\ c[3] = COLON
      BY <3>2, SmallPieces
    <3>4. QED
      BY <2>3, <3>3, Zenon DEF x, y, c
  <2>4. CASE i = 6
    <3>1. s[i] = <<high(i), low(i)>> \o <<>>
      BY <2>2, <2>4
    <3> DEFINE x == high(i)
               y == low(i)
               c == s[i]
    <3>2. x \in Nat /\ y \in Nat /\ c = <<x, y>> \o <<>>
      BY <2>1, <3>1, Zenon
    <3> HIDE DEF x, y, c
    <3>3. c \in Seq(Nat) /\ Len(c) = 2 /\ c[1] = x /\ c[2] = y
      BY <3>2, SmallPieces
    <3>4. QED
      BY <2>4, <3>3, Zenon DEF x, y, c
  <2>5. QED
    BY <2>3, <2>4
<1>3. s \in Seq(Seq(Nat)) /\ Len(s) = 6 /\ s # <<>>
  <2>1. DOMAIN s = 1 .. 6 /\ s = [i \in 1 .. 6 |-> s[i]]
    OBVIOUS
  <2> DEFINE T == Seq(Nat)
  <2>2. \A i \in 1 .. 6 : s[i] \in T
    BY <1>2
  <2> HIDE DEF s, T
  <2>3. s \in [1 .. 6 -> T] /\ 6 \in Nat
    BY <2>1, <2>2
  <2>4. s \in Seq(T) /\ Len(s) = 6
    BY <2>3, FunctionIsSeq
  <2>5. s # <<>>
    <3>1. Len(<<>>) = 0 /\ 6 # 0
      OBVIOUS
    <3>2. QED
      BY <2>4, <3>1, Zenon
  <2>6. QED
    BY <2>4, <2>5 DEF T
<1> HIDE DEF s
<1>4. PICK e : Pieces(e, s, text)
  BY <1>3, FlattenedPieces
<1> HIDE DEF text
<1>5. /\ text \in Seq(Nat) /\ Len(text) = e[6] /\ e[0] = 0
      /\ \A i \in 1 .. 6 : /\ e[i] = e[i - 1] + Len(s[i])
                           /\ \A j \in 1 .. Len(s[i]) : text[e[i - 1] + j] = s[i][j]
  BY <1>3, <1>4 DEF Pieces
<1>6. e[0] = 0 /\ e[1] = 3 /\ e[2] = 6 /\ e[3] = 9 /\ e[4] = 12 /\ e[5] = 15 /\ e[6] = 17
  <2>1. \A i \in 1 .. 6 : e[i] = e[i - 1] + IF i # 6 THEN 3 ELSE 2
    BY <1>2, <1>5
  <2>2. e[1] = e[0] + 3 /\ e[2] = e[1] + 3 /\ e[3] = e[2] + 3 /\ e[4] = e[3] + 3 /\ e[5] = e[4] + 3
    BY <2>1
  <2>3. e[6] = e[5] + 2
    BY <2>1
  <2>4. QED
    BY <1>5, <2>2, <2>3
<1>7. ASSUME NEW i \in 1 .. 6
      PROVE  /\ e[i - 1] = 3 * i - 3
             /\ text[3 * i - 2] = high(i) /\ text[3 * i - 1] = low(i)
             /\ i # 6 => text[3 * i] = COLON
  <2>1. i = 1 \/ i = 2 \/ i = 3 \/ i = 4 \/ i = 5 \/ i = 6
    OBVIOUS
  <2>2. e[i - 1] = 3 * i - 3
    BY <1>6, <2>1
  <2>3. /\ 1 \in 1 .. Len(s[i]) /\ 2 \in 1 .. Len(s[i]) /\ (i # 6 => 3 \in 1 .. Len(s[i]))
    <3> DEFINE l == Len(s[i])
    <3>1. l = IF i # 6 THEN 3 ELSE 2
      BY <1>2, Zenon
    <3> HIDE DEF l
    <3>2. QED
      BY <3>1 DEF l
  <2>4. /\ text[e[i - 1] + 1] = high(i) /\ text[e[i - 1] + 2] = low(i)
        /\ i # 6 => text[e[i - 1] + 3] = COLON
    BY <1>2, <1>5, <2>3, Zenon
  <2>5. e[i - 1] + 1 = 3 * i - 2 /\ e[i - 1] + 2 = 3 * i - 1 /\ e[i - 1] + 3 = 3 * i
    BY <2>2
  <2>6. QED
    BY <2>2, <2>4, <2>5, Zenon
<1>8. Len(text) = 17
  BY <1>5, <1>6
<1> DEFINE Next1(x) == LET k == x + 2 IN IF k =< Len(text) /\ text[k] = COLON THEN k + 1 ELSE k
           Is(v) == v = [i \in 1 .. 7 |-> IF i = 1 THEN 1 ELSE Next1(v[i - 1])]
           w == [i \in 1 .. 7 |-> IF i = 7 THEN 18 ELSE 3 * i - 2]
<1>9. ASSUME NEW i \in 1 .. 7 PROVE w[i] = IF i = 1 THEN 1 ELSE Next1(w[i - 1])
  <2>1. \A j \in 1 .. 7 : w[j] = IF j = 7 THEN 18 ELSE 3 * j - 2
    OBVIOUS
  <2>2. CASE i = 1
    BY <2>2
  <2>3. CASE i = 7
    <3>1. w[i] = 18 /\ w[i - 1] = 16
      BY <2>1, <2>3
    <3>2. ~(18 =< Len(text)) /\ 16 + 2 = 18
      BY <1>8
    <3> HIDE DEF w
    <3>3. Next1(16) = 18
      BY <3>2
    <3> HIDE DEF Next1
    <3>4. QED
      BY <2>3, <3>1, <3>3
  <2>4. CASE i # 1 /\ i # 7
    <3>1. i - 1 \in 1 .. 6 /\ i - 1 # 6 /\ i - 1 \in 1 .. 7 /\ i - 1 # 7
      BY <2>4
    <3>2. w[i] = 3 * i - 2 /\ w[i - 1] = 3 * (i - 1) - 2
      BY <2>1, <2>4, <3>1
    <3> HIDE DEF w
    <3>3. text[3 * (i - 1)] = COLON
      BY <1>7, <3>1
    <3> DEFINE x == 3 * (i - 1) - 2
    <3>4. x + 2 = 3 * (i - 1) /\ x + 2 =< 17 /\ (x + 2) + 1 = 3 * i - 2
      BY <3>1
    <3> HIDE DEF x
    <3>5. Next1(x) = 3 * i - 2
      BY <1>8, <3>3, <3>4
    <3> HIDE DEF Next1
    <3>6. QED
      BY <2>4, <3>2, <3>5 DEF x
  <2>5. QED
    BY <2>2, <2>3, <2>4
<1>10. Is(w)
  <2>1. w = [i \in 1 .. 7 |-> w[i]]
    OBVIOUS
  <2> HIDE DEF w, Next1
  <2>2. [i \in 1 .. 7 |-> w[i]] = [i \in 1 .. 7 |-> IF i = 1 THEN 1 ELSE Next1(w[i - 1])]
    BY <1>9
  <2>3. QED
    BY <2>1, <2>2, Zenon
<1> DEFINE v == CHOOSE x : Is(x)
<1>11. Is(v)
  <2> HIDE DEF Is, w
  <2>1. QED
    BY <1>10, Zenon
<1> DEFINE Counts(n) == /\ n < 6 => v[n + 1] + 1 > Len(text)
                        /\ \A i \in 1 .. n : v[i] + 1 =< Len(text)
           count == CHOOSE n \in 0 .. 6 : Counts(n)
<1>12. StringToMac(text) = [i \in 1 .. count |-> CharToHex(text[v[i] + 1]) + 16 * CharToHex(text[v[i]])]
  BY Zenon DEF StringToMac
<1> HIDE DEF v, Next1
<1>13. \A i \in 1 .. 7 : v[i] = IF i = 1 THEN 1 ELSE Next1(v[i - 1])
  <2>1. SUFFICES ASSUME NEW i \in 1 .. 7 PROVE v[i] = IF i = 1 THEN 1 ELSE Next1(v[i - 1])
    OBVIOUS
  <2>2. v = [j \in 1 .. 7 |-> IF j = 1 THEN 1 ELSE Next1(v[j - 1])]
    BY <1>11, Zenon
  <2>3. QED
    BY <2>2
<1>14. \A i \in 1 .. 6 : v[i] = 3 * i - 2
  <2>1. \A i \in 1 .. 6 : w[i] = 3 * i - 2
    OBVIOUS
  <2> HIDE DEF w
  <2>2. v[1] = w[1]
    BY <1>9, <1>13
  <2>3. v[2] = w[2]
    BY <1>9, <1>13, <2>2
  <2>4. v[3] = w[3]
    BY <1>9, <1>13, <2>3
  <2>5. v[4] = w[4]
    BY <1>9, <1>13, <2>4
  <2>6. v[5] = w[5]
    BY <1>9, <1>13, <2>5
  <2>7. v[6] = w[6]
    BY <1>9, <1>13, <2>6
  <2>8. QED
    BY <2>1, <2>2, <2>3, <2>4, <2>5, <2>6, <2>7
<1> HIDE DEF w
<1>15. count = 6
  <2>1. Counts(6)
    BY <1>8, <1>14
  <2>2. \A n \in 0 .. 6 : Counts(n) => n = 6
    <3>1. SUFFICES ASSUME NEW n \in 0 .. 6, Counts(n), n # 6 PROVE FALSE
      OBVIOUS
    <3>2. n < 6 /\ n + 1 \in 1 .. 6
      BY <3>1
    <3>3. v[n + 1] = 3 * (n + 1) - 2
      BY <1>14, <3>2
    <3>4. v[n + 1] + 1 > 17
      BY <1>8, <3>1, <3>2
    <3>5. QED
      BY <3>2, <3>3, <3>4
  <2> HIDE DEF Counts
  <2>3. 6 \in 0 .. 6
    OBVIOUS
  <2>4. QED
    BY <2>1, <2>2, <2>3, Zenon
<1> HIDE DEF count
<1>16. \A i \in 1 .. 6 : CharToHex(text[v[i] + 1]) + 16 * CharToHex(text[v[i]]) = mac[i]
  <2>1. SUFFICES ASSUME NEW i \in 1 .. 6
                 PROVE CharToHex(text[v[i] + 1]) + 16 * CharToHex(text[v[i]]) = mac[i]
    OBVIOUS
  <2>2. v[i] = 3 * i - 2 /\ v[i] + 1 = 3 * i - 1
    BY <1>14
  <2>3. text[v[i]] = high(i) /\ text[v[i] + 1] = low(i)
    BY <1>7, <2>2, Zenon
  <2>4. QED
    BY <1>1, <2>3, Zenon
<1>17. StringToMac(text) = [i \in 1 .. 6 |-> mac[i]]
  BY <1>12, <1>15, <1>16
<1>18. MacToString(mac, lowercase) = text
  BY Zenon DEF MacToString, text, s, high, low
<1>19. QED
  BY <1>17, <1>18, Zenon

\* Inputs are written as text and read back.
LEMMA AddressesAreReadBack ==
  ASSUME TypeOK
  PROVE  AddressesReadBack
<1>1. Len(bytes) \in Nat /\ bytes \in Seq(Bytes) /\ Bytes \subseteq 0 .. 255
  BY MCConversionsAssumption DEF TypeOK
<1>2. bytes = [i \in 1 .. Len(bytes) |-> bytes[i]] /\ \A i \in 1 .. Len(bytes) : bytes[i] \in Bytes
  BY <1>1
<1>3. \A b \in Bytes : b \in Nat /\ b < 256
  BY <1>1
<1>4. \A i \in 1 .. Len(bytes) : bytes[i] \in Nat /\ bytes[i] < 256
  BY <1>2, <1>3, Zenon
<1>5. Len(bytes) = 4 => StringToIp(IpToString(bytes)) = bytes
  BY <1>2, <1>4, IpReadsBack
<1>6. Len(bytes) = 6 => \A lowercase \in BOOLEAN : StringToMac(MacToString(bytes, lowercase)) = bytes
  BY <1>2, <1>4, MacReadsBack
<1>7. QED
  BY <1>5, <1>6 DEF AddressesReadBack

-----------------------------------------------------------------------------
(* The options of a DHCP message. *)

\* What dhcp_read makes use of in an item.
IsItem(x) ==
  /\ x \in Seq(Nat)
  /\ \/ x = Pad0
     \/ /\ Len(x) >= 2 /\ x[1] # 0 /\ x[1] # End /\ x[2] = Len(x) - 2
        /\ x[1] \in DOMAIN Length => x[2] = Length[x[1]]

\* The lengths of the options dhcp_read knows.
LEMMA KnownLengths ==
  /\ DOMAIN Length = {1, 51, 53, 54}
  /\ Length[1] = 4 /\ Length[51] = 4 /\ Length[53] = 1 /\ Length[54] = 4
<1>1. QED
  BY DEF Length, SubnetMask, LeaseTime, MessageType, ServerIdentifier

LEMMA IsOption ==
  ASSUME NEW type \in Nat \ {0, End}, NEW value \in Seq(Nat),
         type \in DOMAIN Length => Len(value) = Length[type]
  PROVE  IsItem(AddOption(type, value))
<1> DEFINE x == AddOption(type, value)
<1>1. /\ x \in Seq(Nat) /\ Len(x) = 2 + Len(value)
      /\ x[1] = type /\ x[2] = Len(value) /\ Len(value) \in Nat
  BY DEF AddOption
<1> HIDE DEF x
<1>2. Len(x) - 2 = Len(value) /\ Len(x) >= 2
  BY <1>1
<1>3. QED
  BY <1>1, <1>2 DEF x, IsItem

LEMMA AreItems == \A x \in Items : IsItem(x)
<1> DEFINE mask1 == <<255, 255, 255, 0>>
           mask2 == <<255, 0, 0, 0>>
           time  == <<0, 0, 14, 16>>
           ip    == <<10, 0, 53, 255>>
<1>1. IsItem(Pad0)
  BY DEF IsItem, Pad0
<1>2. /\ mask1 \in Seq(Nat) /\ mask2 \in Seq(Nat) /\ time \in Seq(Nat) /\ ip \in Seq(Nat)
      /\ Len(mask1) = 4 /\ Len(mask2) = 4 /\ Len(time) = 4 /\ Len(ip) = 4
  OBVIOUS
<1> HIDE DEF mask1, mask2, time, ip
<1>3. \A type \in {SubnetMask, LeaseTime, MessageType, ServerIdentifier, 12, 15} : type \in Nat \ {0, End}
  BY DEF SubnetMask, LeaseTime, MessageType, ServerIdentifier, End
<1>4. /\ Length[SubnetMask] = 4 /\ Length[LeaseTime] = 4
      /\ Length[MessageType] = 1 /\ Length[ServerIdentifier] = 4
      /\ 12 \notin DOMAIN Length /\ 15 \notin DOMAIN Length
  BY KnownLengths DEF SubnetMask, LeaseTime, MessageType, ServerIdentifier
<1>5. IsItem(AddOption(SubnetMask, mask1)) /\ IsItem(AddOption(SubnetMask, mask2))
  BY <1>2, <1>3, <1>4, IsOption
<1>6. IsItem(AddOption(LeaseTime, time)) /\ IsItem(AddOption(ServerIdentifier, ip))
  BY <1>2, <1>3, <1>4, IsOption
<1>7. IsItem(AddOption(MessageType, <<5>>)) /\ IsItem(AddOption(12, <<>>)) /\ IsItem(AddOption(15, <<1, 4>>))
  <2> DEFINE none == <<>>
             five == <<5>>
             two  == <<1, 4>>
  <2>1. none \in Seq(Nat) /\ five \in Seq(Nat) /\ two \in Seq(Nat) /\ Len(five) = 1
    OBVIOUS
  <2> HIDE DEF none, five, two
  <2>2. IsItem(AddOption(MessageType, five)) /\ IsItem(AddOption(12, none)) /\ IsItem(AddOption(15, two))
    BY <1>3, <1>4, <2>1, IsOption
  <2>3. QED
    BY <2>2 DEF none, five, two
<1>8. QED
  BY <1>1, <1>5, <1>6, <1>7, Zenon DEF Items, mask1, mask2, time, ip

\* The field f holds what is in s, item i right behind e[i - 1], and an End.
Layout(e, s, f) ==
  /\ e \in [0 .. Len(s) -> Nat] /\ e[0] = 0
  /\ f \in Seq(Nat) /\ Len(f) = e[Len(s)] + 1 /\ f[Len(f)] = End
  /\ \A i \in 1 .. Len(s) :
       /\ e[i] = e[i - 1] + Len(s[i])
       /\ \A j \in 1 .. Len(s[i]) : e[i - 1] + j \in 1 .. e[Len(s)] /\ f[e[i - 1] + j] = s[i][j]

\* Where the items of a message stand.
LEMMA FieldLayout ==
  ASSUME NEW s \in Seq(Items), s # <<>>
  PROVE  \E e : Layout(e, s, FlattenSeq(s) \o FinalizeOptions)
<1>1. /\ Len(s) \in Nat /\ Len(s) # 0
      /\ \A i \in 1 .. Len(s) : s[i] \in Items /\ IsItem(s[i]) /\ s[i] \in Seq(Nat) /\ Len(s[i]) \in Nat
  <2>1. Len(s) \in Nat /\ Len(s) # 0 /\ \A i \in 1 .. Len(s) : s[i] \in Items
    OBVIOUS
  <2>2. \A i \in 1 .. Len(s) : IsItem(s[i])
    BY <2>1, AreItems
  <2>3. \A i \in 1 .. Len(s) : s[i] \in Seq(Nat)
    BY <2>2 DEF IsItem
  <2>4. QED
    BY <2>1, <2>2, <2>3
<1>2. s \in Seq(Seq(Nat))
  BY <1>1
<1>3. PICK e : Pieces(e, s, FlattenSeq(s))
  BY <1>2, FlattenedPieces
<1> DEFINE p == FlattenSeq(s)
           f == FlattenSeq(s) \o FinalizeOptions
<1>4. p \in Seq(Nat) /\ Len(p) = e[Len(s)] /\ e[Len(s)] \in Nat
  BY <1>1, <1>3 DEF Pieces
<1>5. f = p \o <<End>> /\ End \in Nat
  BY DEF FinalizeOptions, End
<1> HIDE DEF f, p
<1>6. /\ f \in Seq(Nat) /\ Len(f) = e[Len(s)] + 1 /\ f[Len(f)] = End
      /\ \A k \in 1 .. e[Len(s)] : f[k] = p[k]
  BY <1>4, <1>5
<1>7. Layout(e, s, f)
  <2>1. ASSUME NEW i \in 1 .. Len(s), NEW j \in 1 .. Len(s[i])
        PROVE  e[i - 1] + j \in 1 .. e[Len(s)] /\ f[e[i - 1] + j] = s[i][j]
    BY <1>3, <1>6 DEF Pieces, p
  <2>2. QED
    BY <1>3, <1>6, <2>1 DEF Layout, Pieces
<1>8. QED
  BY <1>7 DEF f

\* Every item takes room.
LEMMA LayoutGrows ==
  ASSUME NEW s \in Seq(Items), NEW e, NEW f, Layout(e, s, f)
  PROVE  /\ \A i \in 0 .. Len(s) : e[i] \in Nat /\ e[i] >= i /\ e[i] =< e[Len(s)]
         /\ \A k \in 0 .. Len(s) : \A i \in 0 .. k : e[i] =< e[k]
         /\ \A i \in 1 .. Len(s) : e[i - 1] \in Nat /\ Len(s[i]) \in Nat /\ Len(s[i]) >= 1
<1>1. /\ e \in [0 .. Len(s) -> Nat] /\ e[0] = 0
      /\ \A i \in 1 .. Len(s) : e[i] = e[i - 1] + Len(s[i])
  BY DEF Layout
<1>2. Len(s) \in Nat /\ \A i \in 1 .. Len(s) : Len(s[i]) \in Nat /\ Len(s[i]) >= 1
  <2>1. SUFFICES ASSUME NEW i \in 1 .. Len(s) PROVE Len(s[i]) \in Nat /\ Len(s[i]) >= 1
    OBVIOUS
  <2>2. s[i] \in Items
    OBVIOUS
  <2>3. IsItem(s[i])
    BY <2>2, AreItems
  <2>4. CASE s[i] = Pad0
    BY <2>4 DEF Pad0
  <2>5. CASE s[i] # Pad0
    <3>1. s[i] \in Seq(Nat) /\ Len(s[i]) >= 2
      BY <2>3, <2>5 DEF IsItem
    <3>2. QED
      BY <3>1
  <2>6. QED
    BY <2>4, <2>5
<1>3. \A i \in 0 .. Len(s) : e[i] \in Nat
  BY <1>1
<1>4. ASSUME NEW k \in 0 .. Len(s) - 1 PROVE e[k + 1] >= e[k] + 1 /\ k + 1 \in 0 .. Len(s) /\ k \in 0 .. Len(s)
  <2>1. k + 1 \in 1 .. Len(s) /\ (k + 1) - 1 = k /\ k + 1 \in 0 .. Len(s) /\ k \in 0 .. Len(s)
    BY <1>2
  <2>2. e[k + 1] = e[k] + Len(s[k + 1]) /\ Len(s[k + 1]) >= 1 /\ Len(s[k + 1]) \in Nat
    BY <1>1, <1>2, <2>1
  <2>3. QED
    BY <1>3, <2>1, <2>2
<1> DEFINE S == {k \in 0 .. Len(s) : e[k] >= k /\ \A i \in 0 .. k : e[i] =< e[k]}
<1>5. 0 \in S
  BY <1>1, <1>2
<1>6. ASSUME NEW k \in 0 .. Len(s) - 1, k \in S PROVE k + 1 \in S
  <2>1. e[k + 1] >= e[k] + 1 /\ k + 1 \in 0 .. Len(s) /\ e[k] \in Nat /\ e[k + 1] \in Nat
    BY <1>3, <1>4
  <2>2. e[k] >= k
    BY <1>6
  <2>3. ASSUME NEW i \in 0 .. k + 1 PROVE e[i] =< e[k + 1]
    <3>1. CASE i = k + 1
      BY <2>1, <3>1
    <3>2. CASE i # k + 1
      <4>1. i \in 0 .. k /\ i \in 0 .. Len(s)
        BY <1>2, <3>2
      <4>2. e[i] =< e[k] /\ e[i] \in Nat
        BY <1>3, <1>6, <4>1
      <4>3. QED
        BY <2>1, <4>2
    <3>3. QED
      BY <3>1, <3>2
  <2>4. e[k + 1] >= k + 1
    BY <2>1, <2>2
  <2>5. QED
    BY <2>1, <2>3, <2>4
<1>7. \A k \in 0 .. Len(s) : k \in S
  <2> HIDE DEF S
  <2>1. QED
    BY <1>2, <1>5, <1>6, UpTo
<1>8. Len(s) \in S
  BY <1>2, <1>7
<1>9. QED
  BY <1>2, <1>3, <1>7, <1>8

\* Unpadded passes over zeros and stops at another byte.
LEMMA UnpaddedStops ==
  ASSUME NEW m \in Seq(Nat), NEW at \in Nat, at =< Len(m) + 1
  PROVE  LET next == Unpadded(m, at) IN
         /\ next \in Nat /\ at =< next /\ next =< Len(m) + 1
         /\ \A j \in at .. next - 1 : m[j] = 0
         /\ next =< Len(m) => m[next] # 0
<1> DEFINE S == {k \in at .. Len(m) + 1 : k = Len(m) + 1 \/ m[k] # 0}
<1>1. Len(m) \in Nat /\ S \subseteq Nat /\ Len(m) + 1 \in S
  OBVIOUS
<1>2. PICK n \in S : \A k \in S : n =< k
  <2> HIDE DEF S
  <2>1. S # {} /\ S \subseteq Nat
    BY <1>1
  <2>2. QED
    BY <2>1, MinOfNat
<1>3. n \in at .. Len(m) + 1 /\ (n =< Len(m) => m[n] # 0)
  BY <1>1
<1>4. ASSUME NEW j \in at .. n - 1 PROVE m[j] = 0
  <2>1. j \in at .. Len(m) + 1 /\ ~(n =< j)
    BY <1>1, <1>3
  <2>2. j \notin S
    BY <1>2, <2>1
  <2>3. QED
    BY <2>1, <2>2
<1>5. \E k \in at .. Len(m) + 1 : /\ \A j \in at .. k - 1 : m[j] = 0
                                  /\ k =< Len(m) => m[k] # 0
  BY <1>3, <1>4
<1> DEFINE next == Unpadded(m, at)
<1>6. /\ next \in at .. Len(m) + 1 /\ (\A j \in at .. next - 1 : m[j] = 0)
      /\ next =< Len(m) => m[next] # 0
  BY <1>5, Zenon DEF Unpadded
<1> HIDE DEF next
<1>7. next \in Nat /\ at =< next /\ next =< Len(m) + 1
  BY <1>1, <1>6
<1>8. QED
  BY <1>6, <1>7 DEF next

\* The first bytes of the field, of the first n items.
Cut(f, m) == m \in Seq(Nat) /\ Len(m) =< Len(f) /\ \A p \in 1 .. Len(m) : m[p] = f[p]

\* Behind item i, padding items are skipped up to an item of another kind, or to
\* the end of what there is.
LEMMA PaddingSkipped ==
  ASSUME NEW s \in Seq(Items), NEW e, NEW f, Layout(e, s, f), NEW m, Cut(f, m),
         NEW i \in 0 .. Len(s), e[i] =< Len(m)
  PROVE  LET next == Unpadded(m, e[i] + 1) IN
         /\ next \in Nat
         /\ \E j \in i .. Len(s) :
              /\ next = e[j] + 1 /\ \A r \in i + 1 .. j : s[r] = Pad0
              /\ \/ next = Len(m) + 1 /\ Len(m) < Len(f)
                 \/ next =< Len(m) /\ (j < Len(s) => s[j + 1] # Pad0)
<1> DEFINE n == Len(s)
           l == Len(m)
           next == Unpadded(m, e[i] + 1)
<1>1. /\ n \in Nat /\ l \in Nat /\ m \in Seq(Nat)
      /\ \A k \in 0 .. n : e[k] \in Nat /\ e[k] =< e[n]
      /\ \A k \in 1 .. n : e[k] = e[k - 1] + Len(s[k]) /\ Len(s[k]) \in Nat /\ Len(s[k]) >= 1
  <2>1. /\ \A k \in 0 .. n : e[k] \in Nat /\ e[k] =< e[n]
        /\ \A k \in 1 .. n : Len(s[k]) \in Nat /\ Len(s[k]) >= 1
    BY LayoutGrows
  <2>2. \A k \in 1 .. n : e[k] = e[k - 1] + Len(s[k])
    BY DEF Layout
  <2>3. n \in Nat /\ m \in Seq(Nat)
    BY DEF Cut
  <2>4. QED
    BY <2>1, <2>2, <2>3
<1>2. Len(f) = e[n] + 1 /\ f[e[n] + 1] = 255 /\ l =< e[n] + 1
  BY <1>1 DEF Layout, Cut, End
<1>3. /\ next \in Nat /\ e[i] + 1 =< next /\ next =< l + 1
      /\ \A p \in e[i] + 1 .. next - 1 : m[p] = 0
      /\ next =< l => m[next] # 0
  <2>1. e[i] + 1 \in Nat /\ e[i] + 1 =< l + 1
    BY <1>1
  <2>2. QED
    BY <1>1, <2>1, UnpaddedStops
<1>4. \A k \in 0 .. n - 1 : e[k] + 1 =< l => m[e[k] + 1] = s[k + 1][1]
  <2>1. SUFFICES ASSUME NEW k \in 0 .. n - 1, e[k] + 1 =< l PROVE m[e[k] + 1] = s[k + 1][1]
    OBVIOUS
  <2>2. k + 1 \in 1 .. n /\ (k + 1) - 1 = k /\ k \in 0 .. n
    BY <1>1
  <2>3. 1 \in 1 .. Len(s[k + 1])
    BY <1>1, <2>2
  <2>4. f[e[k] + 1] = s[k + 1][1]
    BY <2>2, <2>3 DEF Layout
  <2>5. e[k] + 1 \in 1 .. l
    BY <1>1, <2>1, <2>2
  <2>6. QED
    BY <2>4, <2>5 DEF Cut
<1>5. \A k \in 1 .. n : IF s[k] = Pad0 THEN s[k][1] = 0 /\ Len(s[k]) = 1 ELSE s[k][1] # 0
  <2>1. SUFFICES ASSUME NEW k \in 1 .. n
                 PROVE  IF s[k] = Pad0 THEN s[k][1] = 0 /\ Len(s[k]) = 1 ELSE s[k][1] # 0
    OBVIOUS
  <2>2. s[k] \in Items
    OBVIOUS
  <2>3. IsItem(s[k])
    BY <2>2, AreItems
  <2>4. CASE s[k] = Pad0
    BY <2>4 DEF Pad0
  <2>5. CASE s[k] # Pad0
    BY <2>3, <2>5 DEF IsItem
  <2>6. QED
    BY <2>4, <2>5
<1> HIDE DEF next, l, n
<1> DEFINE J == {j \in i .. n : e[j] + 1 =< next /\ \A r \in i + 1 .. j : s[r] = Pad0}
<1>6. i \in Nat /\ i =< n /\ i \in 0 .. n
  BY <1>1 DEF n
<1>7. \E j \in J : j = n \/ j + 1 \notin J
  <2>1. SUFFICES ASSUME \A j \in J : j # n /\ j + 1 \in J PROVE FALSE
    OBVIOUS
  <2> DEFINE S == {k \in 0 .. n - i : i + k \in J}
  <2>2. n - i \in Nat
    BY <1>1, <1>6
  <2>3. 0 \in S
    <3>1. i \in J
      BY <1>1, <1>3, <1>6
    <3>2. QED
      BY <1>6, <2>2, <3>1
  <2>4. ASSUME NEW k \in 0 .. (n - i) - 1, k \in S PROVE k + 1 \in S
    <3>1. i + k \in J
      BY <2>4
    <3>2. (i + k) + 1 \in J /\ (i + k) + 1 = i + (k + 1) /\ k + 1 \in 0 .. n - i
      <4> HIDE DEF J
      <4>1. (i + k) + 1 \in J
        BY <2>1, <3>1
      <4>2. QED
        BY <1>6, <2>2, <4>1
    <3>3. QED
      BY <3>2
  <2>5. n - i \in S
    <3> HIDE DEF S
    <3>1. n - i \in 0 .. n - i
      BY <2>2
    <3>2. QED
      BY <2>2, <2>3, <2>4, <3>1, UpTo
  <2>6. i + (n - i) \in J /\ i + (n - i) = n
    BY <1>1, <1>6, <2>5
  <2> HIDE DEF J
  <2>7. QED
    BY <2>1, <2>6
<1>8. PICK j \in J : j = n \/ j + 1 \notin J
  BY <1>7
<1>9. /\ j \in Nat /\ i =< j /\ j =< n /\ j \in i .. n /\ j \in 0 .. n
      /\ e[j] + 1 =< next /\ (\A r \in i + 1 .. j : s[r] = Pad0) /\ e[j] \in Nat
  BY <1>1, <1>6
<1>10. e[i] =< e[j] /\ e[i] \in Nat
  BY <1>1, <1>6, <1>9, LayoutGrows DEF n
<1>11. e[j] + 1 =< l => e[j] + 1 = next \/ m[e[j] + 1] = 0
  BY <1>1, <1>3, <1>9, <1>10
<1>12. CASE j = n
  <2>1. next = e[n] + 1
    <3>1. CASE e[n] + 1 =< l
      <4>1. l = e[n] + 1 /\ m[e[n] + 1] = 255
        <5>1. l = e[n] + 1 /\ l \in 1 .. l
          BY <1>1, <1>2, <1>9, <1>12, <3>1
        <5>2. m[l] = f[l]
          BY <5>1 DEF Cut, l
        <5>3. QED
          BY <1>2, <5>1, <5>2
      <4>2. QED
        BY <1>11, <1>12, <3>1, <4>1
    <3>2. CASE ~(e[n] + 1 =< l)
      BY <1>1, <1>3, <1>9, <1>12, <3>2
    <3>3. QED
      BY <3>1, <3>2
  <2>2. (next = l + 1 /\ l < Len(f)) \/ next =< l
    BY <1>1, <1>2, <1>3, <1>9, <1>12, <2>1
  <2>3. next = e[j] + 1 /\ ~(j < n)
    BY <1>9, <1>12, <2>1
  <2>4. QED
    BY <1>3, <1>9, <2>2, <2>3 DEF next, l, n
<1>13. CASE j # n
  <2>1. /\ j + 1 \notin J /\ j + 1 \in 1 .. n /\ (j + 1) - 1 = j /\ j \in 0 .. n - 1
        /\ j + 1 \in i .. n /\ j + 1 \in 0 .. n
    BY <1>1, <1>6, <1>8, <1>9, <1>13
  <2>2. /\ IF s[j + 1] = Pad0 THEN s[j + 1][1] = 0 /\ Len(s[j + 1]) = 1 ELSE s[j + 1][1] # 0
        /\ e[j] + 1 =< l => m[e[j] + 1] = s[j + 1][1]
    BY <1>4, <1>5, <2>1
  <2>3. e[j + 1] = e[j] + Len(s[j + 1]) /\ e[j + 1] =< e[n] /\ e[j + 1] \in Nat /\ e[n] \in Nat
        /\ Len(s[j + 1]) \in Nat /\ Len(s[j + 1]) >= 1
    <3>1. e[j + 1] = e[(j + 1) - 1] + Len(s[j + 1])
      BY <1>1, <2>1
    <3>2. n \in 0 .. n
      BY <1>1
    <3>3. QED
      BY <1>1, <2>1, <3>1, <3>2
  <2>4. e[j] + 1 =< e[n] /\ e[j] + 1 =< e[j + 1]
    BY <1>9, <2>3
  <2>5. next = e[j] + 1 /\ (next =< l => s[j + 1] # Pad0)
    <3>1. CASE s[j + 1] = Pad0
      <4>1. e[j + 1] = e[j] + 1
        BY <2>2, <2>3, <3>1
      <4>2. \A r \in i + 1 .. j + 1 : s[r] = Pad0
        <5>1. \A r \in i + 1 .. j + 1 : r \in i + 1 .. j \/ r = j + 1
          BY <1>6, <1>9
        <5>2. QED
          BY <1>9, <3>1, <5>1
      <4>3. ~(e[j + 1] + 1 =< next)
        BY <2>1, <4>2
      <4>4. next = e[j] + 1
        BY <1>3, <1>9, <4>1, <4>3
      <4>5. ~(next =< l)
        BY <1>3, <2>2, <3>1, <4>4
      <4>6. QED
        BY <4>4, <4>5
    <3>2. CASE s[j + 1] # Pad0
      <4>1. CASE e[j] + 1 =< l
        BY <1>11, <2>2, <3>2, <4>1
      <4>2. CASE ~(e[j] + 1 =< l)
        BY <1>1, <1>3, <1>9, <3>2, <4>2
      <4>3. QED
        BY <4>1, <4>2
    <3>3. QED
      BY <3>1, <3>2
  <2>6. (next = l + 1 /\ l < Len(f)) \/ next =< l
    BY <1>1, <1>2, <1>3, <1>9, <2>3, <2>4, <2>5
  <2>7. QED
    BY <1>3, <1>9, <2>5, <2>6 DEF next, l, n
<1>14. QED
  BY <1>12, <1>13

\* The options o are those of the first i items, the last of each type.
IsRead(o, s, i) ==
  /\ o = [t \in DOMAIN o |-> o[t]]
  /\ DOMAIN o = {s[q][1] : q \in 1 .. i} \cap DOMAIN Length
  /\ \A q \in 1 .. i :
       s[q][1] \in DOMAIN Length /\ (\A r \in q + 1 .. i : s[r][1] # s[q][1]) =>
         o[s[q][1]] = SubSeq(s[q], 3, Len(s[q]))

\* Reading one more item, and the padding behind it.
LEMMA ReadFurther ==
  ASSUME NEW s \in Seq(Items), NEW i \in Nat, NEW j \in Nat, i + 1 =< j, j =< Len(s),
         \A r \in (i + 1) + 1 .. j : s[r] = Pad0, NEW o, IsRead(o, s, i)
  PROVE  IsRead([t \in DOMAIN o \cup ({s[i + 1][1]} \cap DOMAIN Length) |->
                  IF t = s[i + 1][1] THEN SubSeq(s[i + 1], 3, Len(s[i + 1])) ELSE o[t]], s, j)
<1> DEFINE x == s[i + 1][1]
           v == SubSeq(s[i + 1], 3, Len(s[i + 1]))
           D == DOMAIN o \cup ({x} \cap DOMAIN Length)
           new == [t \in D |-> IF t = x THEN v ELSE o[t]]
           K == DOMAIN Length
<1>1. \A r \in 1 .. j : r \in 1 .. i \/ r = i + 1 \/ (r \in (i + 1) + 1 .. j)
  OBVIOUS
<1>2. 0 \notin K
  BY KnownLengths
<1>3. \A r \in (i + 1) + 1 .. j : s[r][1] = 0
  BY DEF Pad0
<1>4. i + 1 \in 1 .. j /\ \A r \in 1 .. i : r \in 1 .. j
  OBVIOUS
<1>5. DOMAIN o = {s[q][1] : q \in 1 .. i} \cap K
  BY DEF IsRead
<1> HIDE DEF v, K
<1>6. D = {s[q][1] : q \in 1 .. j} \cap K
  <2>1. \A t \in D : t \in {s[q][1] : q \in 1 .. j} \cap K
    BY <1>4, <1>5 DEF K
  <2>2. ASSUME NEW t \in {s[q][1] : q \in 1 .. j} \cap K PROVE t \in D
    <3>1. PICK q \in 1 .. j : t = s[q][1]
      OBVIOUS
    <3>2. CASE q \in 1 .. i
      BY <1>5, <3>1, <3>2
    <3>3. CASE q = i + 1
      BY <3>1, <3>3 DEF K
    <3>4. CASE q \in (i + 1) + 1 .. j
      BY <1>2, <1>3, <3>1, <3>4
    <3>5. QED
      BY <1>1, <3>2, <3>3, <3>4
  <2> HIDE DEF D
  <2>3. QED
    BY <2>1, <2>2
<1>7. DOMAIN new = D /\ new = [t \in DOMAIN new |-> new[t]] /\ \A t \in D : new[t] = IF t = x THEN v ELSE o[t]
  <2> HIDE DEF D
  <2>1. QED
    OBVIOUS
<1>8. ASSUME NEW q \in 1 .. j, s[q][1] \in K, \A r \in q + 1 .. j : s[r][1] # s[q][1]
      PROVE  new[s[q][1]] = SubSeq(s[q], 3, Len(s[q]))
  <2>1. s[q][1] \in D
    BY <1>6, <1>8
  <2> HIDE DEF new, D
  <2>2. CASE q \in 1 .. i
    <3>1. i + 1 \in q + 1 .. j /\ \A r \in q + 1 .. i : r \in q + 1 .. j
      BY <2>2
    <3>2. s[q][1] # x /\ \A r \in q + 1 .. i : s[r][1] # s[q][1]
      BY <1>8, <3>1
    <3>3. new[s[q][1]] = o[s[q][1]]
      BY <1>7, <2>1, <3>2
    <3>4. o[s[q][1]] = SubSeq(s[q], 3, Len(s[q]))
      BY <1>8, <2>2, <3>2 DEF IsRead, K
    <3>5. QED
      BY <3>3, <3>4
  <2>3. CASE q = i + 1
    <3>1. s[q][1] = x
      BY <2>3
    <3>2. new[s[q][1]] = v
      BY <1>7, <2>1, <3>1
    <3>3. QED
      BY <2>3, <3>2 DEF v
  <2>4. CASE q \in (i + 1) + 1 .. j
    BY <1>2, <1>3, <1>8, <2>4
  <2>5. QED
    BY <1>1, <2>2, <2>3, <2>4
<1> HIDE DEF x, D, new
<1>9. IsRead(new, s, j)
  BY <1>6, <1>7, <1>8 DEF IsRead, K
<1>10. QED
  BY <1>9 DEF new, D, v, x

\* The value of an item is what stands behind its type and its length.
LEMMA ValueInField ==
  ASSUME NEW x \in Seq(Nat), Len(x) >= 2, NEW m \in Seq(Nat), NEW a \in Nat, a + Len(x) =< Len(m),
         \A j \in 1 .. Len(x) : m[a + j] = x[j]
  PROVE  SubSeq(m, a + 3, a + Len(x)) = SubSeq(x, 3, Len(x))
<1> DEFINE p == SubSeq(m, a + 3, a + Len(x))
           q == SubSeq(x, 3, Len(x))
           l == Len(x)
<1>1. l \in Nat /\ l >= 2 /\ Len(m) \in Nat /\ a + l =< Len(m)
  OBVIOUS
<1>2. /\ p = [k \in 1 .. (a + l) - (a + 3) + 1 |-> m[k + (a + 3) - 1]]
      /\ q = [k \in 1 .. l - 3 + 1 |-> x[k + 3 - 1]]
  BY <1>1
<1>3. (a + l) - (a + 3) + 1 = l - 2 /\ l - 3 + 1 = l - 2
  BY <1>1
<1>4. ASSUME NEW k \in 1 .. l - 2 PROVE m[k + (a + 3) - 1] = x[k + 3 - 1]
  <2>1. k + (a + 3) - 1 = a + (k + 2) /\ k + 3 - 1 = k + 2 /\ k + 2 \in 1 .. l
    <3> HIDE DEF l
    <3>1. k \in Nat /\ k >= 1 /\ k + 2 =< l
      BY <1>1
    <3>2. QED
      BY <1>1, <3>1
  <2>2. m[a + (k + 2)] = x[k + 2]
    BY <2>1
  <2>3. QED
    BY <2>1, <2>2
<1> HIDE DEF p, q, l
<1>5. p = q
  BY <1>2, <1>3, <1>4
<1>6. QED
  BY <1>5 DEF p, q, l

IsTurn(t) == t = [state |-> t.state, at |-> t.at, options |-> t.options]

\* After k turns over the first bytes m of the field f of the items s: at least k
\* items were read and the next is no padding, or the End was found, or the
\* bytes ran out.
Walked(t, k, e, s, f, m) ==
  /\ IsTurn(t)
  /\ \/ /\ t.state = "READING"
        /\ \E i \in 0 .. Len(s) : /\ k =< i /\ t.at = e[i] + 1 /\ t.at =< Len(m)
                                  /\ i < Len(s) => s[i + 1] # Pad0
                                  /\ IsRead(t.options, s, i)
     \/ t.state = "ACCEPTED" /\ Len(m) = Len(f) /\ IsRead(t.options, s, Len(s))
     \/ t.state = "REFUSED" /\ Len(m) < Len(f)

\* What a turn does in front of an option.
LEMMA OptionTurn ==
  ASSUME NEW s \in Seq(Items), NEW e, NEW f, Layout(e, s, f), NEW m, Cut(f, m), NEW k \in Nat,
         NEW t, IsTurn(t), t.state = "READING", NEW i \in 0 .. Len(s) - 1, k =< i,
         t.at = e[i] + 1, t.at =< Len(m), s[i + 1] # Pad0, IsRead(t.options, s, i)
  PROVE  Walked(ReadOption(m, t), k + 1, e, s, f, m)
<1> DEFINE x == s[i + 1]
           l == Len(m)
           left == l - t.at + 1
           type == m[t.at]
           size == m[t.at + 1]
           next == Unpadded(m, t.at + 2 + size)
<1>1. /\ i \in Nat /\ i + 1 \in 1 .. Len(s) /\ i + 1 \in 0 .. Len(s) /\ i \in 0 .. Len(s)
      /\ (i + 1) - 1 = i /\ Len(s) \in Nat /\ Len(s) \in 0 .. Len(s)
  OBVIOUS
<1>2. /\ x \in Seq(Nat) /\ Len(x) \in Nat /\ Len(x) >= 2 /\ x[1] # 0 /\ x[1] # End
      /\ x[2] = Len(x) - 2 /\ (x[1] \in DOMAIN Length => x[2] = Length[x[1]])
  <2>1. x \in Items
    BY <1>1
  <2>2. IsItem(x)
    BY <2>1, AreItems
  <2> HIDE DEF x
  <2>3. x # Pad0
    BY DEF x
  <2>4. x \in Seq(Nat)
    BY <2>2 DEF IsItem
  <2>5. QED
    BY <2>2, <2>3, <2>4 DEF IsItem
<1>3. e[i] \in Nat /\ e[i + 1] = e[i] + Len(x) /\ e[i + 1] =< e[Len(s)] /\ e[Len(s)] \in Nat
  <2>1. e[i] \in Nat /\ e[i + 1] =< e[Len(s)] /\ e[Len(s)] \in Nat
    BY <1>1, LayoutGrows
  <2>2. e[i + 1] = e[(i + 1) - 1] + Len(x)
    BY <1>1 DEF Layout
  <2>3. QED
    BY <1>1, <2>1, <2>2
<1>4. l \in Nat /\ m \in Seq(Nat) /\ Len(f) = e[Len(s)] + 1
  BY DEF Cut, Layout
<1>5. \A j \in 1 .. Len(x) : e[i] + j =< l => m[e[i] + j] = x[j]
  <2>1. SUFFICES ASSUME NEW j \in 1 .. Len(x), e[i] + j =< l PROVE m[e[i] + j] = x[j]
    OBVIOUS
  <2>2. e[(i + 1) - 1] + j \in 1 .. e[Len(s)] /\ f[e[(i + 1) - 1] + j] = x[j]
    BY <1>1 DEF Layout
  <2>3. f[e[i] + j] = x[j]
    BY <1>1, <2>2
  <2>4. e[i] + j \in 1 .. l
    BY <1>3, <1>4, <2>1
  <2>5. QED
    BY <2>3, <2>4 DEF Cut
<1> HIDE DEF x, l
<1> DEFINE a == e[i]
           b == e[i + 1]
           c == e[Len(s)]
           n == Len(x)
           at == t.at
<1>a. /\ a \in Nat /\ b \in Nat /\ c \in Nat /\ n \in Nat /\ l \in Nat /\ n >= 2
      /\ b = a + n /\ b =< c
  <2>1. a \in Nat /\ c \in Nat /\ n \in Nat /\ l \in Nat /\ n >= 2 /\ b = a + n /\ b =< c
    BY <1>2, <1>3, <1>4, Zenon
  <2> HIDE DEF a, b, c, n
  <2>2. QED
    BY <2>1
<1>b. at = a + 1 /\ at =< l
  BY Zenon DEF l
<1>c. Len(f) = c + 1
  BY <1>4, Zenon
<1>6. type = x[1] /\ left = l - a /\ left \in Nat /\ left # 0
  <2>1. t.at = e[i] + 1 /\ e[i] + 1 =< l
    BY <1>b, Zenon
  <2>2. 1 \in 1 .. Len(x)
    BY <1>2
  <2>3. m[e[i] + 1] = x[1]
    BY <1>5, <2>1, <2>2
  <2>4. type = x[1]
    BY <2>1, <2>3
  <2>5. left = l - at + 1
    BY Zenon
  <2> HIDE DEF left, type, a, n, b, c, at
  <2>6. left = l - a /\ left \in Nat /\ left # 0
    BY <1>a, <1>b, <2>5
  <2>7. QED
    BY <2>4, <2>6
<1>7. left >= 2 => size = x[2]
  <2>1. SUFFICES ASSUME left >= 2 PROVE size = x[2]
    OBVIOUS
  <2>2. a + 2 =< l /\ at + 1 = a + 2
    <3> HIDE DEF left, type, a, n, b, c, at
    <3>1. QED
      BY <1>a, <1>b, <1>6, <2>1
  <2>3. 2 \in 1 .. Len(x)
    BY <1>2
  <2>4. QED
    BY <1>5, <2>2, <2>3
<1> DEFINE bad == left < 2 \/ size > left - 2 \/ (type \in DOMAIN Length /\ size # Length[type])
           new == [t1 \in DOMAIN t.options \cup ({type} \cap DOMAIN Length) |->
                     IF t1 = type THEN SubSeq(m, t.at + 2, t.at + 1 + size) ELSE t.options[t1]]
           after == ReadOption(m, t)
<1>8. after = IF bad THEN [t EXCEPT !.state = "REFUSED"]
              ELSE [state |-> IF next = l + 1 THEN "REFUSED" ELSE "READING",
                    at |-> next, options |-> new]
  BY <1>2, <1>6, Zenon DEF ReadOption, l
<1> HIDE DEF left, type, size, next, new, after, bad
<1> HIDE DEF a, b, c, n, at
<1>9. CASE bad
  <2>1. l < a + n
    <3>1. CASE left < 2
      BY <1>a, <1>6, <3>1
    <3>2. CASE left >= 2
      <4>1. size = n - 2 /\ (type \in DOMAIN Length => size = Length[type])
        BY <1>2, <1>6, <1>7, <3>2, Zenon DEF n
      <4>2. size > left - 2
        BY <1>6, <1>9, <3>2, <4>1 DEF bad
      <4>3. QED
        BY <1>a, <1>6, <4>1, <4>2
    <3>3. QED
      BY <1>6, <3>1, <3>2
  <2>2. l < Len(f)
    BY <1>a, <1>c, <2>1
  <2>3. after = [state |-> "REFUSED", at |-> t.at, options |-> t.options]
    BY <1>8, <1>9 DEF IsTurn
  <2>4. QED
    BY <2>2, <2>3 DEF Walked, IsTurn, after, l
<1>10. CASE ~bad
  <2>1. left >= 2 /\ ~(size > left - 2)
    BY <1>6, <1>10 DEF bad
  <2>2. size = n - 2 /\ b =< l
    <3>1. size = n - 2
      BY <1>2, <1>7, <2>1, Zenon DEF n
    <3>2. QED
      BY <1>a, <1>6, <2>1, <3>1
  <2>3. at + 2 + size = b + 1 /\ at + 2 = a + 3 /\ at + 1 + size = a + n
    BY <1>a, <1>b, <2>2
  <2>4. PICK j \in i + 1 .. Len(s) :
          /\ next = e[j] + 1 /\ \A r \in (i + 1) + 1 .. j : s[r] = Pad0
          /\ \/ next = l + 1 /\ l < Len(f)
             \/ next =< l /\ (j < Len(s) => s[j + 1] # Pad0)
    <3>1. next = Unpadded(m, e[i + 1] + 1)
      BY <2>3, Zenon DEF next, at, b
    <3>2. QED
      BY <1>1, <2>2, <3>1, PaddingSkipped DEF l, b
  <2>5. new = [t1 \in DOMAIN t.options \cup ({x[1]} \cap DOMAIN Length) |->
                 IF t1 = x[1] THEN SubSeq(x, 3, Len(x)) ELSE t.options[t1]]
    <3>1. SubSeq(m, e[i] + 3, e[i] + Len(x)) = SubSeq(x, 3, Len(x))
      <4>1. e[i] + Len(x) =< l
        BY <1>a, <2>2 DEF a, b, n
      <4>2. \A p \in 1 .. Len(x) : m[e[i] + p] = x[p]
        <5>1. \A p \in 1 .. Len(x) : e[i] + p =< l
          BY <1>2, <1>3, <1>4, <4>1
        <5>2. QED
          BY <1>5, <5>1
      <4>3. QED
        BY <1>2, <1>3, <1>4, <4>1, <4>2, ValueInField DEF l
    <3>2. SubSeq(m, t.at + 2, t.at + 1 + size) = SubSeq(x, 3, Len(x))
      BY <2>3, <3>1, Zenon DEF at, a, n
    <3>3. QED
      BY <1>6, <3>2, Zenon DEF new
  <2>6. j \in Nat /\ i + 1 =< j /\ j =< Len(s) /\ j \in 0 .. Len(s)
    BY <1>1
  <2>7. IsRead(new, s, j)
    <3>1. i \in Nat /\ \A r \in (i + 1) + 1 .. j : s[r] = Pad0
      BY <1>1, <2>4
    <3>2. QED
      BY <2>5, <2>6, <3>1, ReadFurther DEF x
  <2>8. CASE next = l + 1
    <3>1. after = [state |-> "REFUSED", at |-> next, options |-> new]
      BY <1>8, <1>10, <2>8
    <3>2. l < Len(f)
      BY <1>a, <2>4, <2>8
    <3>3. QED
      BY <3>1, <3>2 DEF Walked, IsTurn, after, l
  <2>9. CASE next # l + 1
    <3>1. after = [state |-> "READING", at |-> next, options |-> new]
      BY <1>8, <1>10, <2>9
    <3>2. next =< l /\ (j < Len(s) => s[j + 1] # Pad0) /\ k + 1 =< j
      BY <2>4, <2>6, <2>9
    <3>3. /\ IsTurn(after) /\ after.state = "READING" /\ after.at = e[j] + 1 /\ after.at =< l
          /\ IsRead(after.options, s, j)
      BY <2>4, <2>7, <3>1, <3>2 DEF IsTurn
    <3>4. QED
      BY <2>6, <3>2, <3>3 DEF Walked, after, l
  <2>10. QED
    BY <2>8, <2>9
<1>11. QED
  BY <1>9, <1>10

\* What a turn does in front of the End, and once the loop was left.
LEMMA OtherTurn ==
  ASSUME NEW s \in Seq(Items), NEW e, NEW f, Layout(e, s, f), NEW m, Cut(f, m), NEW k \in Nat,
         NEW t, IsTurn(t),
         \/ t.state = "READING" /\ t.at = e[Len(s)] + 1 /\ t.at =< Len(m) /\ IsRead(t.options, s, Len(s))
         \/ t.state = "ACCEPTED" /\ Len(m) = Len(f) /\ IsRead(t.options, s, Len(s))
         \/ t.state = "REFUSED" /\ Len(m) < Len(f)
  PROVE  Walked(ReadOption(m, t), k, e, s, f, m)
<1>1. CASE t.state = "READING"
  <2>1. t.at = e[Len(s)] + 1 /\ t.at =< Len(m) /\ IsRead(t.options, s, Len(s))
    BY <1>1
  <2>2. Len(f) = e[Len(s)] + 1 /\ f[Len(f)] = End /\ Len(m) =< Len(f) /\ Len(m) \in Nat /\ Len(f) \in Nat
    BY DEF Layout, Cut
  <2>3. t.at = Len(f) /\ Len(m) = Len(f) /\ t.at \in 1 .. Len(m) /\ Len(m) - t.at + 1 # 0
    <3>1. e[Len(s)] \in Nat
      BY LayoutGrows
    <3> DEFINE a == e[Len(s)]
               l == Len(m)
               fl == Len(f)
               at == t.at
    <3>2. a \in Nat /\ l \in Nat /\ fl = a + 1 /\ l =< fl /\ at = a + 1 /\ at =< l
      BY <2>1, <2>2, <3>1, Zenon
    <3> HIDE DEF a, l, fl, at
    <3>3. at = fl /\ l = fl /\ at \in 1 .. l /\ l - at + 1 # 0
      BY <3>2
    <3>4. QED
      BY <3>3, Zenon DEF l, fl, at
  <2>4. m[t.at] = End
    BY <2>2, <2>3 DEF Cut
  <2>5. ReadOption(m, t) = [t EXCEPT !.state = "ACCEPTED"]
    BY <1>1, <2>3, <2>4, Zenon DEF ReadOption
  <2>6. ReadOption(m, t) = [state |-> "ACCEPTED", at |-> t.at, options |-> t.options]
    BY <2>5 DEF IsTurn
  <2> DEFINE after == ReadOption(m, t)
  <2>7. IsTurn(after) /\ after.state = "ACCEPTED" /\ IsRead(after.options, s, Len(s))
    BY <2>1, <2>6 DEF IsTurn
  <2> HIDE DEF after
  <2>8. QED
    BY <2>3, <2>7, Zenon DEF Walked, after
<1>2. CASE t.state # "READING"
  <2>1. ReadOption(m, t) = t
    BY <1>2, Zenon DEF ReadOption
  <2>2. QED
    BY <1>2, <2>1 DEF Walked
<1>3. QED
  BY <1>1, <1>2

\* A turn.
LEMMA Turned ==
  ASSUME NEW s \in Seq(Items), NEW e, NEW f, Layout(e, s, f), NEW m, Cut(f, m), NEW k \in Nat,
         NEW t, Walked(t, k, e, s, f, m)
  PROVE  Walked(ReadOption(m, t), k + 1, e, s, f, m)
<1>1. IsTurn(t) /\ k + 1 \in Nat
  BY DEF Walked
<1>2. CASE t.state = "READING"
  <2>1. PICK i \in 0 .. Len(s) : /\ k =< i /\ t.at = e[i] + 1 /\ t.at =< Len(m)
                                 /\ i < Len(s) => s[i + 1] # Pad0
                                 /\ IsRead(t.options, s, i)
    BY <1>2 DEF Walked
  <2>2. i = Len(s) \/ (i \in 0 .. Len(s) - 1 /\ i < Len(s))
    OBVIOUS
  <2>3. CASE i = Len(s)
    <3>1. t.at = e[Len(s)] + 1 /\ t.at =< Len(m) /\ IsRead(t.options, s, Len(s))
      BY <2>1, <2>3
    <3>2. QED
      BY <1>1, <1>2, <3>1, OtherTurn
  <2>4. CASE i \in 0 .. Len(s) - 1 /\ i < Len(s)
    BY <1>1, <1>2, <2>1, <2>4, OptionTurn
  <2>5. QED
    BY <2>2, <2>3, <2>4
<1>3. CASE t.state # "READING"
  <2>1. \/ t.state = "ACCEPTED" /\ Len(m) = Len(f) /\ IsRead(t.options, s, Len(s))
        \/ t.state = "REFUSED" /\ Len(m) < Len(f)
    BY <1>3 DEF Walked
  <2>2. QED
    BY <1>1, <2>1, OtherTurn
<1>4. QED
  BY <1>2, <1>3

\* The turns of dhcp_read.
AreTurns(w, n, m) ==
  w = [k \in 0 .. n |-> IF k = 0 THEN [state |-> "READING", at |-> 1, options |-> <<>>]
                        ELSE ReadOption(m, w[k - 1])]

LEMMA TurnsExist ==
  ASSUME NEW m, NEW N \in Nat
  PROVE  \E w : AreTurns(w, N, m)
<1> DEFINE start == [state |-> "READING", at |-> 1, options |-> <<>>]
           S == {n \in 0 .. N : \E w : AreTurns(w, n, m)}
<1>1. 0 \in S
  <2> DEFINE w == [k \in 0 .. 0 |-> start]
  <2>1. \A k \in 0 .. 0 : w[k] = IF k = 0 THEN start ELSE ReadOption(m, w[k - 1])
    OBVIOUS
  <2>2. DOMAIN w = 0 .. 0 /\ w = [k \in 0 .. 0 |-> w[k]]
    OBVIOUS
  <2> HIDE DEF w, start
  <2>3. w = [k \in 0 .. 0 |-> IF k = 0 THEN start ELSE ReadOption(m, w[k - 1])]
    BY <2>1, <2>2
  <2>4. AreTurns(w, 0, m)
    BY <2>3, Zenon DEF AreTurns, start
  <2>5. 0 \in 0 .. N
    OBVIOUS
  <2>6. QED
    BY <2>4, <2>5
<1>2. ASSUME NEW n \in 0 .. N - 1, n \in S PROVE n + 1 \in S
  <2>1. PICK v : AreTurns(v, n, m)
    BY <1>2
  <2>2. v = [k \in 0 .. n |-> IF k = 0 THEN start ELSE ReadOption(m, v[k - 1])]
    BY <2>1, Zenon DEF AreTurns
  <2> DEFINE w == [k \in 0 .. n + 1 |-> IF k = n + 1 THEN ReadOption(m, v[n]) ELSE v[k]]
  <2> HIDE DEF start
  <2>3. n \in Nat /\ n + 1 \in 0 .. N /\ n + 1 # 0 /\ (n + 1) - 1 = n /\ n # n + 1
    OBVIOUS
  <2>4. \A k \in 0 .. n : v[k] = IF k = 0 THEN start ELSE ReadOption(m, v[k - 1])
    <3>1. SUFFICES ASSUME NEW k \in 0 .. n PROVE v[k] = IF k = 0 THEN start ELSE ReadOption(m, v[k - 1])
      OBVIOUS
    <3>2. [i \in 0 .. n |-> IF i = 0 THEN start ELSE ReadOption(m, v[i - 1])][k]
            = IF k = 0 THEN start ELSE ReadOption(m, v[k - 1])
      BY Zenon
    <3>3. QED
      BY <2>2, <3>2, Zenon
  <2>5. ASSUME NEW k \in 0 .. n + 1 PROVE w[k] = IF k = 0 THEN start ELSE ReadOption(m, w[k - 1])
    <3>1. CASE k = n + 1
      <4>1. k # 0 /\ k - 1 = n /\ n \in 0 .. n + 1
        BY <2>3, <3>1
      <4>2. w[k] = ReadOption(m, v[n]) /\ w[n] = v[n]
        BY <2>3, <3>1, <4>1
      <4> HIDE DEF w
      <4>3. QED
        BY <4>1, <4>2
    <3>2. CASE k # n + 1 /\ k # 0
      <4>1. k \in 0 .. n /\ k - 1 \in 0 .. n + 1 /\ k - 1 # n + 1
        BY <2>3, <3>2
      <4>2. w[k] = v[k] /\ w[k - 1] = v[k - 1]
        BY <3>2, <4>1
      <4> HIDE DEF w
      <4>3. v[k] = ReadOption(m, v[k - 1])
        BY <2>4, <3>2, <4>1
      <4>4. QED
        BY <3>2, <4>2, <4>3
    <3>3. CASE k = 0
      <4>1. k # n + 1 /\ 0 \in 0 .. n
        BY <2>3, <3>3
      <4>2. w[k] = v[0]
        BY <3>3, <4>1
      <4> HIDE DEF w
      <4>3. QED
        BY <2>4, <3>3, <4>1, <4>2
    <3>4. QED
      BY <3>1, <3>2, <3>3
  <2>6. DOMAIN w = 0 .. n + 1 /\ w = [k \in 0 .. n + 1 |-> w[k]]
    OBVIOUS
  <2> HIDE DEF w
  <2>7. [k \in 0 .. n + 1 |-> w[k]]
          = [k \in 0 .. n + 1 |-> IF k = 0 THEN start ELSE ReadOption(m, w[k - 1])]
    BY <2>5
  <2>8. AreTurns(w, n + 1, m)
    BY <2>6, <2>7, Zenon DEF AreTurns, start
  <2>9. QED
    BY <2>3, <2>8
<1>3. N \in S
  <2> HIDE DEF S
  <2>1. N \in 0 .. N
    OBVIOUS
  <2>2. QED
    BY <1>1, <1>2, <2>1, UpTo
<1>4. QED
  BY <1>3

\* The loop of dhcp_read has come to an end by its last turn.
LEMMA LoopEnds ==
  ASSUME NEW s \in Seq(Items), NEW e, NEW f, Layout(e, s, f), NEW m, Cut(f, m), Len(m) >= 1,
         s # <<>>, s[1] # Pad0
  PROVE  LET result == DhcpRead(m) IN
         /\ result = [ok |-> result.ok, options |-> result.options]
         /\ Len(m) < Len(f) => result.ok = FALSE
         /\ Len(m) = Len(f) => result.ok = TRUE /\ IsRead(result.options, s, Len(s))
<1> DEFINE l == Len(m)
           start == [state |-> "READING", at |-> 1, options |-> <<>>]
           v == CHOOSE w : AreTurns(w, l + 1, m)
<1>1. l \in Nat /\ m \in Seq(Nat) /\ Len(s) \in Nat /\ Len(s) # 0
  BY DEF Cut
<1>2. DhcpRead(m) = [ok |-> v[l + 1].state = "ACCEPTED", options |-> v[l + 1].options]
  BY Zenon DEF DhcpRead, AreTurns
<1>3. l + 1 \in Nat /\ l + 1 \in 0 .. l + 1
  BY <1>1
<1> HIDE DEF l
<1>4. AreTurns(v, l + 1, m)
  <2>1. \E w : AreTurns(w, l + 1, m)
    BY <1>3, TurnsExist
  <2>2. QED
    BY <2>1, Zenon
<1> HIDE DEF v
<1>5. \A k \in 0 .. l + 1 : v[k] = IF k = 0 THEN start ELSE ReadOption(m, v[k - 1])
  <2>1. SUFFICES ASSUME NEW k \in 0 .. l + 1 PROVE v[k] = IF k = 0 THEN start ELSE ReadOption(m, v[k - 1])
    OBVIOUS
  <2> HIDE DEF start
  <2>2. v = [i \in 0 .. l + 1 |-> IF i = 0 THEN start ELSE ReadOption(m, v[i - 1])]
    BY <1>4, Zenon DEF AreTurns, start
  <2>3. [i \in 0 .. l + 1 |-> IF i = 0 THEN start ELSE ReadOption(m, v[i - 1])][k]
          = IF k = 0 THEN start ELSE ReadOption(m, v[k - 1])
    BY Zenon
  <2>4. QED
    BY <2>2, <2>3, Zenon
<1> DEFINE S == {k \in 0 .. l + 1 : Walked(v[k], k, e, s, f, m)}
<1>6. 0 \in S
  <2>1. 0 \in 0 .. l + 1
    BY <1>3
  <2>2. v[0] = start
    BY <1>5, <2>1
  <2>3. IsRead(<<>>, s, 0)
    <3>1. <<>> = [t \in DOMAIN <<>> |-> <<>>[t]] /\ DOMAIN <<>> = {}
      OBVIOUS
    <3>2. \A q \in 1 .. 0 : FALSE
      OBVIOUS
    <3>3. {s[q][1] : q \in 1 .. 0} = {}
      BY <3>2
    <3>4. QED
      BY <3>1, <3>2, <3>3 DEF IsRead
  <2>4. IsTurn(start) /\ start.state = "READING" /\ start.at = 1 /\ start.options = <<>>
    BY DEF IsTurn
  <2>5. 0 \in 0 .. Len(s) /\ e[0] + 1 = 1 /\ 0 + 1 = 1 /\ 1 =< l /\ 0 =< 0
    BY <1>1 DEF Layout, l
  <2> HIDE DEF start
  <2>6. Walked(start, 0, e, s, f, m)
    BY <2>3, <2>4, <2>5 DEF Walked, l
  <2>7. QED
    BY <2>1, <2>2, <2>6
<1>7. ASSUME NEW k \in 0 .. (l + 1) - 1, k \in S PROVE k + 1 \in S
  <2>1. k \in Nat /\ k + 1 \in 0 .. l + 1 /\ k + 1 # 0 /\ (k + 1) - 1 = k
    BY <1>1, <1>3
  <2>2. v[k + 1] = ReadOption(m, v[k])
    BY <1>5, <2>1
  <2>3. Walked(v[k], k, e, s, f, m)
    BY <1>7
  <2>4. Walked(ReadOption(m, v[k]), k + 1, e, s, f, m)
    BY <2>1, <2>3, Turned
  <2>5. QED
    BY <2>1, <2>2, <2>4
<1>8. Walked(v[l + 1], l + 1, e, s, f, m)
  <2> HIDE DEF S
  <2>1. l + 1 \in S
    BY <1>3, <1>6, <1>7, UpTo
  <2>2. QED
    BY <2>1 DEF S
<1>9. v[l + 1].state # "READING"
  <2>1. SUFFICES ASSUME v[l + 1].state = "READING" PROVE FALSE
    OBVIOUS
  <2>2. PICK i \in 0 .. Len(s) : l + 1 =< i /\ v[l + 1].at = e[i] + 1 /\ v[l + 1].at =< l
    BY <1>8, <2>1 DEF Walked, l
  <2>3. e[i] \in Nat /\ e[i] >= i /\ i \in Nat
    BY <2>2, LayoutGrows
  <2>4. e[i] + 1 =< l
    BY <2>2, Zenon
  <2>5. QED
    BY <1>1, <2>2, <2>3, <2>4
<1>10. \/ v[l + 1].state = "ACCEPTED" /\ l = Len(f) /\ IsRead(v[l + 1].options, s, Len(s))
       \/ v[l + 1].state = "REFUSED" /\ l < Len(f)
  BY <1>8, <1>9 DEF Walked, l
<1>11. Len(f) \in Nat
  BY DEF Layout
<1> DEFINE last == v[l + 1]
           result == DhcpRead(m)
<1>12. result.ok = (last.state = "ACCEPTED") /\ result.options = last.options
  BY <1>2
<1>13. result = [ok |-> result.ok, options |-> result.options]
  BY <1>2
<1> HIDE DEF last, result
<1>14. l < Len(f) => result.ok = FALSE
  <2>1. SUFFICES ASSUME l < Len(f) PROVE result.ok = FALSE
    OBVIOUS
  <2>2. last.state = "REFUSED"
    BY <1>1, <1>10, <1>11, <2>1 DEF last
  <2>3. QED
    BY <1>12, <2>2
<1>15. l = Len(f) => result.ok = TRUE /\ IsRead(result.options, s, Len(s))
  <2>1. SUFFICES ASSUME l = Len(f) PROVE result.ok = TRUE /\ IsRead(result.options, s, Len(s))
    OBVIOUS
  <2>2. last.state = "ACCEPTED" /\ IsRead(last.options, s, Len(s))
    BY <1>1, <1>10, <1>11, <2>1 DEF last
  <2>3. QED
    BY <1>12, <2>2
<1>16. QED
  BY <1>13, <1>14, <1>15, Zenon DEF result, l

\* The largest element of a bounded set is what it is called.
LEMMA MaxOfBounded ==
  ASSUME NEW n \in Nat, NEW S, S \subseteq 1 .. n, S # {}
  PROVE  Max(S) \in S /\ \A x \in S : Max(S) >= x
<1> DEFINE U == {u \in 0 .. n : \A x \in S : u >= x}
<1>1. U \subseteq Nat /\ n \in U
  OBVIOUS
<1>2. PICK m \in U : \A u \in U : m =< u
  <2> HIDE DEF U
  <2>1. U # {} /\ U \subseteq Nat
    BY <1>1
  <2>2. QED
    BY <2>1, MinOfNat
<1>3. m \in 0 .. n /\ \A x \in S : m >= x
  OBVIOUS
<1>4. m \in S
  <2>1. SUFFICES ASSUME m \notin S PROVE FALSE
    OBVIOUS
  <2>2. \A x \in S : x \in 1 .. n /\ m - 1 >= x
    BY <1>3, <2>1
  <2>3. PICK x \in S : TRUE
    OBVIOUS
  <2>4. m - 1 \in 0 .. n
    BY <1>3, <2>2, <2>3
  <2>5. m - 1 \in U /\ ~(m =< m - 1)
    BY <1>3, <2>2, <2>4
  <2> HIDE DEF U
  <2>6. QED
    BY <1>2, <2>5
<1>5. \E x \in S : \A y \in S : x >= y
  BY <1>3, <1>4
<1>6. QED
  BY <1>5, Zenon DEF Max

\* dhcp_read finds what a server has put into a message, and refuses a part of it.
LEMMA ItemsAreRead ==
  ASSUME TypeOK
  PROVE  OptionsRead
<1>1. SUFFICES ASSUME items # <<>>
      PROVE  /\ DhcpRead(Field) = [ok |-> TRUE,
                  options |-> [type \in {item[1] : item \in Range(items)} \cap DOMAIN Length |-> LastOf(type)]]
             /\ \A k \in 1 .. Len(Field) - 1 : ~DhcpRead(SubSeq(Field, 1, k)).ok
  BY DEF OptionsRead
<1>2. items \in Seq(Items) /\ items[1] # Pad0
  BY <1>1 DEF TypeOK
<1>3. PICK e : Layout(e, items, Field)
  BY <1>1, <1>2, FieldLayout DEF Field
<1>4. Field \in Seq(Nat) /\ Len(Field) \in Nat /\ Len(Field) >= 1
  <2>1. Field \in Seq(Nat) /\ Len(Field) = e[Len(items)] + 1
    BY <1>3 DEF Layout
  <2>2. Len(items) \in 0 .. Len(items)
    BY <1>2
  <2>3. e[Len(items)] \in Nat
    BY <1>2, <1>3, <2>2, LayoutGrows
  <2>4. QED
    BY <2>1, <2>3
<1>5. ASSUME NEW k \in 1 .. Len(Field) - 1 PROVE ~DhcpRead(SubSeq(Field, 1, k)).ok
  <2> DEFINE m == SubSeq(Field, 1, k)
  <2>1. m \in Seq(Nat) /\ Len(m) = k /\ \A p \in 1 .. k : m[p] = Field[p]
    BY <1>4
  <2>2. k >= 1 /\ k < Len(Field) /\ k =< Len(Field)
    BY <1>4
  <2> HIDE DEF m
  <2>3. Cut(Field, m) /\ Len(m) >= 1 /\ Len(m) < Len(Field)
    BY <2>1, <2>2 DEF Cut
  <2>4. DhcpRead(m).ok = FALSE
    BY <1>1, <1>2, <1>3, <2>3, LoopEnds
  <2>5. QED
    BY <2>4 DEF m
<1> DEFINE result == DhcpRead(Field)
           n == Len(items)
           D == {item[1] : item \in Range(items)} \cap DOMAIN Length
<1>6. result = [ok |-> TRUE, options |-> result.options] /\ IsRead(result.options, items, n)
  <2>1. Cut(Field, Field)
    BY <1>4 DEF Cut
  <2>2. /\ result = [ok |-> result.ok, options |-> result.options]
        /\ result.ok = TRUE /\ IsRead(result.options, items, n)
    BY <1>1, <1>2, <1>3, <1>4, <2>1, LoopEnds
  <2> HIDE DEF result
  <2>3. QED
    BY <2>2
<1> HIDE DEF result
<1> DEFINE o == result.options
<1>7. n \in Nat /\ {item[1] : item \in Range(items)} = {items[q][1] : q \in 1 .. n}
  <2>1. n \in Nat /\ DOMAIN items = 1 .. n
    BY <1>2
  <2>2. Range(items) = {items[q] : q \in 1 .. n}
    BY <2>1 DEF Range
  <2> HIDE DEF n
  <2>3. {item[1] : item \in Range(items)} = {items[q][1] : q \in 1 .. n}
    BY <2>2
  <2>4. QED
    BY <2>1, <2>3
<1>8. o = [t \in DOMAIN o |-> o[t]] /\ DOMAIN o = D
  BY <1>6, <1>7 DEF IsRead
<1>9. ASSUME NEW type \in D PROVE o[type] = LastOf(type)
  <2> DEFINE I == {q \in 1 .. n : items[q][1] = type}
             last == Max(I)
  <2>1. I # {} /\ I \subseteq 1 .. n
    BY <1>7
  <2>2. last \in I /\ \A q \in I : last >= q
    <3> HIDE DEF I, n
    <3>1. QED
      BY <1>7, <2>1, MaxOfBounded
  <2>3. SelectLastInSeq(items, LAMBDA item : item[1] = type) = last
    BY <2>1 DEF SelectLastInSeq
  <2>4. LastOf(type) = SubSeq(items[last], 3, Len(items[last]))
    BY <2>3, Zenon DEF LastOf
  <2>5. last \in 1 .. n /\ items[last][1] = type
    BY <2>2
  <2>6. \A r \in last + 1 .. n : items[r][1] # type
    <3>1. SUFFICES ASSUME NEW r \in last + 1 .. n, items[r][1] = type PROVE FALSE
      OBVIOUS
    <3>2. r \in 1 .. n /\ ~(last >= r)
      BY <1>7, <2>5
    <3>3. r \in I
      BY <3>1, <3>2
    <3> HIDE DEF I, last
    <3>4. QED
      BY <2>2, <3>2, <3>3
  <2> HIDE DEF I, last, n
  <2>7. o[type] = SubSeq(items[last], 3, Len(items[last]))
    BY <1>6, <2>5, <2>6 DEF IsRead
  <2>8. QED
    BY <2>4, <2>7
<1> HIDE DEF o, D, n
<1>10. o = [type \in D |-> LastOf(type)]
  <2>1. [t \in D |-> o[t]] = [type \in D |-> LastOf(type)]
    BY <1>9
  <2>2. QED
    BY <1>8, <2>1, Zenon
<1>11. QED
  BY <1>5, <1>6, <1>10, Zenon DEF result, o, D

-----------------------------------------------------------------------------
(* Numbers as text. *)

\* What is left of a number after each turn of the loop of write_number.
IsLeft(left, n, base) ==
  /\ left \in [0 .. n + 1 -> Nat] /\ left[0] = n
  /\ \A k \in 1 .. n + 1 : left[k] = left[k - 1] \div base

\* The bases of the directives.
Bases == {2, 10, 16}

\* What a division leaves, and how much smaller it is.
LEMMA Division ==
  ASSUME NEW base \in Bases, NEW x \in Nat
  PROVE  /\ x \div base \in Nat /\ x % base \in Nat /\ x % base < base /\ base =< 16 /\ base \in Nat
         /\ x = (x \div base) * base + (x % base)
         /\ x # 0 => x \div base < x
         /\ x \div base = 0 => x % base = x
<1>1. CASE base = 2
  BY <1>1
<1>2. CASE base = 10
  BY <1>2
<1>3. CASE base = 16
  BY <1>3
<1>4. QED
  BY <1>1, <1>2, <1>3 DEF Bases

\* There is such a sequence of divisions for every number.
LEMMA LeftExists ==
  ASSUME NEW n \in Nat, NEW base \in Bases
  PROVE  \E left : IsLeft(left, n, base)
<1> DEFINE step == [p \in (1 .. n + 1) \X Nat |-> p[2] \div base]
<1>1. step \in [(1 .. n + 1) \X Nat -> Nat]
  <2>1. SUFFICES ASSUME NEW p \in (1 .. n + 1) \X Nat PROVE p[2] \div base \in Nat
    OBVIOUS
  <2>2. p[2] \in Nat
    OBVIOUS
  <2>3. QED
    BY <2>2, Division
<1>2. \A k \in 1 .. n + 1, x \in Nat : step[<<k, x>>] = x \div base
  OBVIOUS
<1>3. n + 1 \in Nat
  OBVIOUS
<1> HIDE DEF step
<1>4. PICK v : IsLoop(v, Nat, n, step, n + 1)
  BY <1>1, <1>3, LoopsExist
<1>5. v \in [0 .. n + 1 -> Nat] /\ v[0] = n /\ \A k \in 1 .. n + 1 : v[k] = step[<<k, v[k - 1]>>]
  BY <1>4 DEF IsLoop
<1>6. ASSUME NEW k \in 1 .. n + 1 PROVE v[k] = v[k - 1] \div base
  <2>1. k - 1 \in 0 .. n + 1
    OBVIOUS
  <2>2. v[k - 1] \in Nat
    BY <1>5, <2>1
  <2>3. QED
    BY <1>2, <1>5, <2>2
<1>7. QED
  BY <1>5, <1>6 DEF IsLeft

\* Nothing is left in the end.
LEMMA LeftEnds ==
  ASSUME NEW n \in Nat, NEW base \in Bases, NEW left, IsLeft(left, n, base)
  PROVE  \E k \in 1 .. n + 1 : left[k] = 0 /\ \A j \in 1 .. k - 1 : left[j] # 0
<1> DEFINE S == {k \in 0 .. n + 1 : left[k] = 0 \/ left[k] + k =< n}
           T == {k \in 1 .. n + 1 : left[k] = 0}
<1>1. /\ \A k \in 0 .. n + 1 : left[k] \in Nat
      /\ left[0] = n /\ \A k \in 1 .. n + 1 : left[k] = left[k - 1] \div base
  BY DEF IsLeft
<1>2. 0 \in S
  BY <1>1
<1>3. ASSUME NEW k \in 0 .. (n + 1) - 1, k \in S PROVE k + 1 \in S
  <2>1. k + 1 \in 1 .. n + 1 /\ (k + 1) - 1 = k /\ k \in 0 .. n + 1
    OBVIOUS
  <2>2. left[k + 1] = left[k] \div base /\ left[k] \in Nat /\ left[k + 1] \in Nat
    BY <1>1, <2>1
  <2>3. CASE left[k] = 0
    <3>1. left[k + 1] = 0
      <4>1. 0 \div base = 0
        BY Division DEF Bases
      <4>2. QED
        BY <2>2, <2>3, <4>1
    <3>2. QED
      BY <2>1, <3>1
  <2>4. CASE left[k] # 0
    <3>1. left[k + 1] < left[k]
      BY <2>2, <2>4, Division
    <3>2. left[k] + k =< n
      BY <1>3, <2>4
    <3>3. left[k + 1] + (k + 1) =< n
      BY <2>2, <3>1, <3>2
    <3>4. QED
      BY <2>1, <3>3
  <2>5. QED
    BY <2>3, <2>4
<1>4. n + 1 \in Nat /\ n + 1 \in 0 .. n + 1
  OBVIOUS
<1>5. n + 1 \in S
  <2> HIDE DEF S
  <2>1. QED
    BY <1>2, <1>3, <1>4, UpTo
<1>6. left[n + 1] = 0
  BY <1>1, <1>4, <1>5
<1>7. T # {} /\ T \subseteq Nat
  BY <1>6
<1>8. PICK m \in T : \A k \in T : m =< k
  <2> HIDE DEF T
  <2>1. QED
    BY <1>7, MinOfNat
<1>9. ASSUME NEW j \in 1 .. m - 1 PROVE left[j] # 0
  BY <1>8
<1>10. QED
  BY <1>8, <1>9

\* The digits of a number, the last first.
LEMMA DigitsAre ==
  ASSUME NEW n \in Nat, NEW base \in Bases, NEW lowercase
  PROVE  \E left, length :
           /\ IsLeft(left, n, base) /\ length \in 1 .. n + 1 /\ left[length] = 0
           /\ \A j \in 1 .. length - 1 : left[j] # 0
           /\ DigitsOf(n, base, lowercase) = [k \in 1 .. length |-> HexDigit(left[k - 1] % base, lowercase)]
<1> DEFINE D == 0 .. n + 1
           Is(v) == v = [k \in D |-> IF k = 0 THEN n ELSE v[k - 1] \div base]
           left == CHOOSE v : Is(v)
           P(k) == left[k] = 0 /\ \A j \in 1 .. k - 1 : left[j] # 0
           length == CHOOSE k \in 1 .. n + 1 : P(k)
<1>1. PICK w : IsLeft(w, n, base)
  BY LeftExists
<1>2. Is(w)
  <2>1. w \in [D -> Nat] /\ \A k \in D : w[k] = IF k = 0 THEN n ELSE w[k - 1] \div base
    <3>1. \A k \in D : k = 0 \/ k \in 1 .. n + 1
      OBVIOUS
    <3>2. w \in [D -> Nat] /\ w[0] = n /\ \A k \in 1 .. n + 1 : w[k] = w[k - 1] \div base
      BY <1>1 DEF IsLeft
    <3>3. \A k \in 1 .. n + 1 : k # 0
      OBVIOUS
    <3> HIDE DEF D
    <3>4. QED
      BY <3>1, <3>2, <3>3
  <2> HIDE DEF D
  <2>2. w = [k \in D |-> w[k]]
    BY <2>1
  <2>3. [k \in D |-> w[k]] = [k \in D |-> IF k = 0 THEN n ELSE w[k - 1] \div base]
    BY <2>1
  <2>4. QED
    BY <2>2, <2>3, Zenon
<1>3. DigitsOf(n, base, lowercase) = [k \in 1 .. length |-> HexDigit(left[k - 1] % base, lowercase)]
  BY Zenon DEF DigitsOf
<1>4. Is(left)
  <2> HIDE DEF Is
  <2>1. QED
    BY <1>2, Zenon
<1> HIDE DEF left
<1>5. IsLeft(left, n, base)
  <2> DEFINE Q(v) == \A k \in D : v[k] = IF k = 0 THEN n ELSE v[k - 1] \div base
  <2>1. left = [k \in D |-> IF k = 0 THEN n ELSE left[k - 1] \div base]
    BY <1>4, Zenon
  <2>2. Q(left)
    <3>1. SUFFICES ASSUME NEW k \in D PROVE left[k] = IF k = 0 THEN n ELSE left[k - 1] \div base
      OBVIOUS
    <3> HIDE DEF D
    <3>2. [i \in D |-> IF i = 0 THEN n ELSE left[i - 1] \div base][k] = IF k = 0 THEN n ELSE left[k - 1] \div base
      BY Zenon
    <3>3. QED
      BY <2>1, <3>2, Zenon
  <2>3. DOMAIN left = D
    <3> HIDE DEF D
    <3>1. DOMAIN [k \in D |-> IF k = 0 THEN n ELSE left[k - 1] \div base] = D
      OBVIOUS
    <3>2. QED
      BY <2>1, <3>1, Zenon
  <2>4. left[0] = n /\ \A k \in 1 .. n + 1 : left[k] = left[k - 1] \div base
    <3>1. 0 \in D /\ \A k \in 1 .. n + 1 : k \in D /\ k # 0
      OBVIOUS
    <3> HIDE DEF D
    <3>2. QED
      BY <2>2, <3>1
  <2>5. \A k \in D : left[k] \in Nat
    <3> DEFINE S == {k \in D : left[k] \in Nat}
    <3>1. 0 \in S
      BY <2>4
    <3>2. ASSUME NEW k \in 0 .. (n + 1) - 1, k \in S PROVE k + 1 \in S
      <4>1. k + 1 \in 1 .. n + 1 /\ (k + 1) - 1 = k /\ left[k] \in Nat
        BY <3>2
      <4>2. left[k + 1] = left[k] \div base
        BY <2>4, <4>1
      <4>3. left[k + 1] \in Nat
        BY <4>1, <4>2, Division
      <4>4. QED
        BY <4>1, <4>3
    <3>3. n + 1 \in Nat
      OBVIOUS
    <3>4. \A k \in 0 .. n + 1 : k \in S
      <4> HIDE DEF S
      <4>1. QED
        BY <3>1, <3>2, <3>3, UpTo
    <3>5. QED
      BY <3>4
  <2>6. left \in [0 .. n + 1 -> Nat]
    <3>1. left = [k \in D |-> left[k]]
      <4> HIDE DEF D
      <4>1. [k \in D |-> IF k = 0 THEN n ELSE left[k - 1] \div base]
              = [k \in D |-> left[k]]
        BY <2>2
      <4>2. QED
        BY <2>1, <4>1, Zenon
    <3>2. [k \in D |-> left[k]] \in [0 .. n + 1 -> Nat]
      BY <2>5
    <3>3. QED
      BY <3>1, <3>2, Zenon
  <2>7. QED
    BY <2>4, <2>6 DEF IsLeft
<1>6. length \in 1 .. n + 1 /\ P(length)
  <2>1. \E k \in 1 .. n + 1 : P(k)
    BY <1>5, LeftEnds
  <2> HIDE DEF P
  <2>2. QED
    BY <2>1, Zenon
<1> HIDE DEF length
<1>7. QED
  BY <1>3, <1>5, <1>6

\* What ReadNumber skips in front of a number.
Skipped == {32, 43, 45, ZERO}

\* Where the number starts and ends, and what its digits are, fixes what is read.
IsNumber(text, f, b) ==
  /\ f \in 1 .. Len(text) + 1 /\ b \in f .. Len(text) + 1
  /\ \A j \in 1 .. f - 1 : text[j] \in Skipped
  /\ f =< Len(text) => text[f] \notin Skipped
  /\ \A j \in b .. Len(text) : text[j] = 32
  /\ b > f => text[b - 1] # 32

\* w[n] is what the first n digits are worth.
IsReading(w, text, base, f, b) ==
  /\ w \in [0 .. b - f -> Nat] /\ w[0] = 0
  /\ \A n \in 1 .. b - f : w[n] = w[n - 1] * base + CharToHex(text[f + n - 1])

\* The first and the last digit are where ReadNumber finds them.
LEMMA NumberRead ==
  ASSUME NEW text \in Seq(Nat), NEW base, NEW f, NEW b, IsNumber(text, f, b),
         NEW w, IsReading(w, text, base, f, b)
  PROVE  ReadNumber(text, base) = IF \E k \in 1 .. Len(text) : text[k] = 45 THEN -w[b - f] ELSE w[b - f]
<1> DEFINE N == Len(text)
           P(k) == /\ \A j \in 1 .. k - 1 : text[j] \in {32, 43, 45, ZERO}
                   /\ k =< N => text[k] \notin {32, 43, 45, ZERO}
           first == CHOOSE k \in 1 .. N + 1 : P(k)
           Q(k) == /\ \A j \in k .. N : text[j] = 32
                   /\ k > first => text[k - 1] # 32
           behind == CHOOSE k \in first .. N + 1 : Q(k)
           D == 0 .. behind - first
           Is(v) == v = [n \in D |-> IF n = 0 THEN 0 ELSE v[n - 1] * base + CharToHex(text[first + n - 1])]
           number == CHOOSE v : Is(v)
<1>1. ReadNumber(text, base) = IF \E k \in 1 .. N : text[k] = 45
                               THEN -number[behind - first] ELSE number[behind - first]
  BY Zenon DEF ReadNumber
<1>2. N \in Nat
  OBVIOUS
<1>11. /\ f \in 1 .. N + 1 /\ b \in f .. N + 1
       /\ \A j \in 1 .. f - 1 : text[j] \in Skipped
       /\ f =< N => text[f] \notin Skipped
       /\ \A j \in b .. N : text[j] = 32
       /\ b > f => text[b - 1] # 32
  BY DEF IsNumber
<1>12. /\ w \in [0 .. b - f -> Nat] /\ w[0] = 0
       /\ \A n \in 1 .. b - f : w[n] = w[n - 1] * base + CharToHex(text[f + n - 1])
  BY DEF IsReading
<1>3. first = f
  <2>1. f \in 1 .. N + 1 /\ P(f)
    BY <1>11 DEF Skipped
  <2>2. first \in 1 .. N + 1 /\ P(first)
    <3> HIDE DEF P, N
    <3>1. QED
      BY <2>1, Zenon
  <2> HIDE DEF first
  <2>3. ASSUME first < f PROVE FALSE
    <3>1. first \in 1 .. f - 1 /\ first =< N
      BY <1>2, <2>1, <2>2, <2>3
    <3>2. QED
      BY <2>1, <2>2, <3>1
  <2>4. ASSUME f < first PROVE FALSE
    <3>1. f \in 1 .. first - 1 /\ f =< N
      BY <1>2, <2>1, <2>2, <2>4
    <3>2. QED
      BY <2>1, <2>2, <3>1
  <2>5. QED
    BY <1>2, <2>1, <2>2, <2>3, <2>4
<1> HIDE DEF first
<1>4. behind = b
  <2>1. b \in first .. N + 1 /\ Q(b)
    BY <1>3, <1>11
  <2>2. behind \in first .. N + 1 /\ Q(behind)
    <3> HIDE DEF Q, N
    <3>1. QED
      BY <2>1, Zenon
  <2> HIDE DEF behind
  <2>3. ASSUME behind < b PROVE FALSE
    <3>1. b - 1 \in behind .. N /\ b > first
      BY <1>2, <1>3, <1>11, <2>1, <2>2, <2>3
    <3>2. QED
      BY <2>1, <2>2, <3>1
  <2>4. ASSUME b < behind PROVE FALSE
    <3>1. behind - 1 \in b .. N /\ behind > first
      BY <1>2, <1>3, <1>11, <2>1, <2>2, <2>4
    <3>2. QED
      BY <2>1, <2>2, <3>1
  <2>5. QED
    BY <1>2, <1>3, <1>11, <2>1, <2>2, <2>3, <2>4
<1> HIDE DEF behind
<1> DEFINE c == b - f
<1>5. c \in Nat /\ D = 0 .. c
  BY <1>2, <1>3, <1>4, <1>11
<1> HIDE DEF D
<1>6. Is(w)
  <2>1. \A n \in D : w[n] = IF n = 0 THEN 0 ELSE w[n - 1] * base + CharToHex(text[first + n - 1])
    <3>1. \A n \in D : n = 0 \/ n \in 1 .. c
      BY <1>5
    <3>2. \A n \in 1 .. c : n # 0
      OBVIOUS
    <3>3. QED
      BY <1>3, <1>12, <3>1, <3>2
  <2>2. w = [n \in D |-> w[n]]
    BY <1>5, <1>12
  <2>3. [n \in D |-> w[n]] = [n \in D |-> IF n = 0 THEN 0 ELSE w[n - 1] * base + CharToHex(text[first + n - 1])]
    BY <2>1, Zenon
  <2>4. QED
    BY <2>2, <2>3, Zenon
<1>7. Is(number)
  <2> HIDE DEF Is
  <2>1. QED
    BY <1>6, Zenon
<1> HIDE DEF number
<1>8. \A n \in D : number[n] = IF n = 0 THEN 0 ELSE number[n - 1] * base + CharToHex(text[first + n - 1])
  <2>1. SUFFICES ASSUME NEW n \in D
                 PROVE  number[n] = IF n = 0 THEN 0 ELSE number[n - 1] * base + CharToHex(text[first + n - 1])
    OBVIOUS
  <2>2. [i \in D |-> IF i = 0 THEN 0 ELSE number[i - 1] * base + CharToHex(text[first + i - 1])][n]
          = IF n = 0 THEN 0 ELSE number[n - 1] * base + CharToHex(text[first + n - 1])
    BY Zenon
  <2>3. QED
    BY <1>7, <2>2, Zenon
<1>9. number[c] = w[c]
  <2> DEFINE S == {n \in 0 .. c : number[n] = w[n]}
  <2>1. 0 \in S
    <3>1. 0 \in D /\ 0 \in 0 .. c
      BY <1>5
    <3>2. QED
      BY <1>8, <1>12, <3>1
  <2>2. ASSUME NEW n \in 0 .. c - 1, n \in S PROVE n + 1 \in S
    <3>1. n + 1 \in D /\ n + 1 # 0 /\ (n + 1) - 1 = n /\ n + 1 \in 1 .. c /\ n + 1 \in 0 .. c
      BY <1>5
    <3>2. number[n + 1] = number[n] * base + CharToHex(text[first + (n + 1) - 1])
      BY <1>8, <3>1
    <3>3. w[n + 1] = w[n] * base + CharToHex(text[f + (n + 1) - 1])
      BY <1>12, <3>1
    <3>4. number[n] = w[n]
      BY <2>2
    <3>5. QED
      BY <1>3, <3>1, <3>2, <3>3, <3>4
  <2>3. \A n \in 0 .. c : n \in S
    <3> HIDE DEF S, c
    <3>1. QED
      BY <1>5, <2>1, <2>2, UpTo
  <2>4. c \in 0 .. c
    BY <1>5
  <2>5. QED
    BY <2>3, <2>4
<1>10. QED
  BY <1>1, <1>3, <1>4, <1>9, Zenon

\* A digit is read as its value, and only that of zero is skipped.
LEMMA HexIsSignificant ==
  ASSUME NEW n \in Nat, n < 16, NEW lowercase \in BOOLEAN
  PROVE  /\ HexDigit(n, lowercase) \in Nat /\ CharToHex(HexDigit(n, lowercase)) = n
         /\ HexDigit(n, lowercase) \notin {32, 43, 45}
         /\ n # 0 => HexDigit(n, lowercase) # ZERO
         /\ n = 0 => HexDigit(n, lowercase) = ZERO
<1>1. CASE n < 10
  <2>1. HexDigit(n, lowercase) = 48 + n
    BY <1>1 DEF HexDigit, ZERO
  <2>2. QED
    BY <2>1, HexReadBack DEF ZERO
<1>2. CASE ~(n < 10)
  <2>1. HexDigit(n, lowercase) = (IF lowercase THEN 97 ELSE 65) + n - 10
    BY <1>2 DEF HexDigit
  <2>2. n # 0 /\ (HexDigit(n, lowercase) = 97 + n - 10 \/ HexDigit(n, lowercase) = 65 + n - 10)
    BY <1>2, <2>1
  <2>3. QED
    BY <1>2, <2>2, HexReadBack DEF ZERO
<1>3. QED
  BY <1>1, <1>2

\* The digits d stand in the text from s on, with nothing but padding and a sign
\* in front, and blanks behind.
Shows(text, s, d) ==
  /\ text \in Seq(Nat) /\ d \in Seq(Nat) /\ s \in Nat /\ s # 0 /\ s + Len(d) - 1 =< Len(text)
  /\ StandsAt(text, s, d)
  /\ \A j \in 1 .. s - 1 : text[j] \in Skipped
  /\ \A j \in s + Len(d) .. Len(text) : text[j] = 32

\* A number that write_number turns into digits is read as that number.
LEMMA NumberIsRead ==
  ASSUME NEW n \in Nat, NEW base \in Bases, NEW lowercase \in BOOLEAN, NEW text, NEW s,
         Shows(text, s, Reverse(DigitsOf(n, base, lowercase)))
  PROVE  ReadNumber(text, base) = IF \E k \in 1 .. Len(text) : text[k] = 45 THEN -n ELSE n
<1> DEFINE digits == DigitsOf(n, base, lowercase)
           N == Len(text)
<1>1. PICK left, m :
        /\ IsLeft(left, n, base) /\ m \in 1 .. n + 1 /\ left[m] = 0
        /\ \A j \in 1 .. m - 1 : left[j] # 0
        /\ digits = [k \in 1 .. m |-> HexDigit(left[k - 1] % base, lowercase)]
  BY DigitsAre
<1>2. /\ \A k \in 0 .. n + 1 : left[k] \in Nat
      /\ left[0] = n /\ \A k \in 1 .. n + 1 : left[k] = left[k - 1] \div base
  BY <1>1 DEF IsLeft
<1>3. \A k \in 0 .. m : left[k] \in Nat
  BY <1>1, <1>2
<1>4. \A k \in 1 .. m : left[k] = left[k - 1] \div base /\ left[k - 1] \in Nat
  <2>1. \A k \in 1 .. m : k \in 1 .. n + 1 /\ k - 1 \in 0 .. m
    BY <1>1
  <2>2. QED
    BY <1>2, <1>3, <2>1
<1> DEFINE d == Reverse(digits)
<1>5. /\ Len(d) = m /\ m \in Nat /\ m >= 1
      /\ \A j \in 1 .. m : d[j] = HexDigit(left[m - j] % base, lowercase)
  <2>1. m \in Nat /\ m >= 1
    BY <1>1
  <2>2. digits = [k \in 1 .. m |-> HexDigit(left[k - 1] % base, lowercase)]
    BY <1>1
  <2> HIDE DEF digits
  <2>3. DOMAIN digits = 1 .. m /\ Len(digits) = m
    BY <2>1, <2>2
  <2>4. d = [i \in 1 .. m |-> digits[m - i + 1]]
    BY <2>3 DEF Reverse
  <2> HIDE DEF d
  <2>5. Len(d) = m
    BY <2>1, <2>4
  <2>6. ASSUME NEW j \in 1 .. m PROVE d[j] = HexDigit(left[m - j] % base, lowercase)
    <3>1. m - j + 1 \in 1 .. m /\ (m - j + 1) - 1 = m - j
      BY <2>1
    <3>2. d[j] = digits[m - j + 1]
      BY <2>4
    <3>3. digits[m - j + 1] = HexDigit(left[(m - j + 1) - 1] % base, lowercase)
      BY <2>2, <3>1
    <3>4. QED
      BY <3>1, <3>2, <3>3
  <2>7. QED
    BY <2>1, <2>5, <2>6
<1>6. /\ text \in Seq(Nat) /\ s \in Nat /\ s # 0 /\ s + m - 1 =< N
      /\ \A j \in 1 .. m : text[s + j - 1] = d[j]
      /\ \A j \in 1 .. s - 1 : text[j] \in Skipped
      /\ \A j \in s + m .. N : text[j] = 32
  BY <1>5 DEF Shows, StandsAt
<1> HIDE DEF d, digits
<1>7. N \in Nat
  BY <1>6
<1>8. ASSUME NEW j \in 1 .. m
      PROVE  /\ CharToHex(text[s + j - 1]) = left[m - j] % base /\ text[s + j - 1] \notin {32, 43, 45}
             /\ left[m - j] % base # 0 => text[s + j - 1] # ZERO
             /\ left[m - j] % base = 0 => text[s + j - 1] = ZERO
  <2>1. m - j \in 0 .. m
    BY <1>5
  <2>2. left[m - j] % base \in Nat /\ left[m - j] % base < 16
    <3>1. left[m - j] \in Nat
      BY <1>3, <2>1
    <3> DEFINE r == left[m - j] % base
    <3>2. r \in Nat /\ r < base /\ base =< 16 /\ base \in Nat
      BY <3>1, Division
    <3> HIDE DEF r
    <3>3. r \in Nat /\ r < 16
      BY <3>2
    <3>4. QED
      BY <3>3 DEF r
  <2>3. text[s + j - 1] = HexDigit(left[m - j] % base, lowercase)
    BY <1>5, <1>6
  <2>4. QED
    BY <2>2, <2>3, HexIsSignificant
<1>9. CASE n = 0
  <2>1. m = 1
    BY <1>1, <1>9
  <2>2. text[s] = ZERO
    <3>1. 1 \in 1 .. m /\ m - 1 = 0 /\ s + 1 - 1 = s
      BY <1>6, <2>1
    <3>2. left[0] % base = 0
      <4>1. 0 % base = 0
        BY Division DEF Bases
      <4>2. QED
        BY <1>2, <1>9, <4>1
    <3>3. QED
      BY <1>8, <3>1, <3>2
  <2> DEFINE f == N + 1
             w == [i \in 0 .. f - f |-> 0]
  <2>3. \A j \in 1 .. f - 1 : text[j] \in Skipped
    <3>1. \A j \in 1 .. f - 1 : j \in 1 .. s - 1 \/ j = s \/ j \in s + m .. N
      BY <1>6, <1>7, <2>1
    <3>2. QED
      BY <1>6, <2>2, <3>1 DEF Skipped
  <2>4. f \in 1 .. N + 1 /\ f \in f .. N + 1 /\ ~(f =< N) /\ ~(f > f) /\ f - f = 0
        /\ (\A j \in f .. N : FALSE)
    BY <1>7
  <2>5. w \in [0 .. f - f -> Nat] /\ w[0] = 0 /\ w[f - f] = 0 /\ \A i \in 1 .. f - f : FALSE
    BY <2>4
  <2> HIDE DEF w, f
  <2>6. ReadNumber(text, base) = IF \E k \in 1 .. Len(text) : text[k] = 45 THEN -w[f - f] ELSE w[f - f]
    <3>1. /\ \A i \in 1 .. f - f : w[i] = w[i - 1] * base + CharToHex(text[f + i - 1])
          /\ \A j \in f .. N : text[j] = 32
          /\ f =< N => text[f] \notin Skipped
          /\ f > f => text[f - 1] # 32
      BY <2>4, <2>5
    <3>2. IsNumber(text, f, f)
      BY <2>3, <2>4, <3>1 DEF IsNumber
    <3>3. IsReading(w, text, base, f, f)
      BY <2>5, <3>1 DEF IsReading
    <3>4. QED
      BY <1>6, <3>2, <3>3, NumberRead
  <2>7. QED
    BY <1>9, <2>5, <2>6
<1>10. CASE n # 0
  <2> DEFINE b == s + m
             w == [i \in 0 .. b - s |-> left[m - i]]
  <2>1. s \in 1 .. N + 1 /\ b \in s .. N + 1 /\ b - s = m /\ b > s /\ b - 1 = s + m - 1
    BY <1>5, <1>6, <1>7
  <2>2. text[s] \notin Skipped
    <3>1. 1 \in 1 .. m /\ s + 1 - 1 = s
      BY <1>5, <1>6
    <3>2. left[m - 1] # 0
      <4>1. CASE m = 1
        <5>1. m - 1 = 0
          BY <4>1
        <5>2. QED
          BY <1>2, <1>10, <5>1
      <4>2. CASE m # 1
        <5>1. m - 1 \in 1 .. m - 1
          BY <1>5, <4>2
        <5>2. QED
          BY <1>1, <5>1
      <4>3. QED
        BY <4>1, <4>2
    <3>3. left[m - 1] \in Nat /\ left[m - 1] \div base = 0
      <4>1. m \in 1 .. m
        BY <1>5
      <4>2. QED
        BY <1>1, <1>4, <4>1
    <3>4. left[m - 1] % base = left[m - 1]
      BY <3>3, Division
    <3>5. QED
      BY <1>8, <3>1, <3>2, <3>4 DEF Skipped
  <2>3. text[b - 1] # 32
    <3>1. m \in 1 .. m
      BY <1>5
    <3>2. QED
      BY <1>8, <2>1, <3>1
  <2>4. w \in [0 .. b - s -> Nat]
    <3>1. \A i \in 0 .. b - s : m - i \in 0 .. m
      BY <1>5, <2>1
    <3>2. QED
      BY <1>3, <3>1
  <2>5. w[0] = 0 /\ w[b - s] = n
    <3>1. 0 \in 0 .. b - s /\ b - s \in 0 .. b - s /\ m - 0 = m /\ m - (b - s) = 0
      BY <1>5, <2>1
    <3>2. w[0] = left[m - 0] /\ w[b - s] = left[m - (b - s)]
      BY <3>1
    <3>3. QED
      BY <1>1, <1>2, <3>1, <3>2
  <2>6. ASSUME NEW i \in 1 .. b - s PROVE w[i] = w[i - 1] * base + CharToHex(text[s + i - 1])
    <3>1. /\ i \in 0 .. b - s /\ i - 1 \in 0 .. b - s /\ i \in 1 .. m
          /\ m - i \in Nat /\ m - (i - 1) = (m - i) + 1 /\ (m - i) + 1 \in 1 .. m
          /\ ((m - i) + 1) - 1 = m - i
      BY <1>5, <2>1
    <3>2. w[i] = left[m - i] /\ w[i - 1] = left[(m - i) + 1]
      BY <3>1
    <3>3. left[(m - i) + 1] = left[m - i] \div base /\ left[m - i] \in Nat
      BY <1>4, <3>1
    <3>4. left[m - i] = (left[m - i] \div base) * base + (left[m - i] % base)
      BY <3>3, Division
    <3>5. CharToHex(text[s + i - 1]) = left[m - i] % base
      BY <1>8, <3>1
    <3> HIDE DEF w
    <3>6. QED
      BY <3>2, <3>3, <3>4, <3>5, Zenon
  <2> HIDE DEF w, b
  <2>7. \A j \in b .. N : text[j] = 32
    BY <1>6 DEF b
  <2>8. ReadNumber(text, base) = IF \E k \in 1 .. Len(text) : text[k] = 45 THEN -w[b - s] ELSE w[b - s]
    <3>1. IsNumber(text, s, b)
      BY <1>6, <2>1, <2>2, <2>3, <2>7 DEF IsNumber
    <3>2. IsReading(w, text, base, s, b)
      BY <2>4, <2>5, <2>6 DEF IsReading
    <3>3. QED
      BY <1>6, <3>1, <3>2, NumberRead
  <2>9. QED
    BY <2>5, <2>8
<1>11. QED
  BY <1>9, <1>10

\* Digits, sign and padding in the order in which write_number writes them.
Arranged(sign, digits, length, char, left) ==
  LET padding == [i \in 1 .. length |-> char]
  IN  IF left THEN sign \o Reverse(digits) \o padding ELSE padding \o sign \o Reverse(digits)

\* The text t is a, b and c behind each other.
Joins3(t, a, b, c) ==
  /\ t \in Seq(Nat) /\ Len(t) = Len(a) + Len(b) + Len(c)
  /\ \A j \in 1 .. Len(a) : t[j] = a[j]
  /\ \A j \in 1 .. Len(b) : t[Len(a) + j] = b[j]
  /\ \A j \in 1 .. Len(c) : t[Len(a) + Len(b) + j] = c[j]

\* Where the characters of three texts are in the whole.
LEMMA ThreeJoined ==
  ASSUME NEW a \in Seq(Nat), NEW b \in Seq(Nat), NEW c \in Seq(Nat)
  PROVE  Joins3(a \o b \o c, a, b, c)
<1> DEFINE p == a \o b
<1>1. /\ p \in Seq(Nat) /\ Len(p) = Len(a) + Len(b)
      /\ \A j \in 1 .. Len(a) : p[j] = a[j] /\ j \in 1 .. Len(p)
      /\ \A j \in 1 .. Len(b) : p[Len(a) + j] = b[j] /\ Len(a) + j \in 1 .. Len(p)
  OBVIOUS
<1> HIDE DEF p
<1>2. /\ p \o c \in Seq(Nat) /\ Len(p \o c) = Len(p) + Len(c)
      /\ \A j \in 1 .. Len(p) : (p \o c)[j] = p[j]
      /\ \A j \in 1 .. Len(c) : (p \o c)[Len(p) + j] = c[j]
  <2>1. p \in Seq(Nat)
    BY <1>1
  <2>2. QED
    BY <2>1, JoinedAt
<1>3. QED
  BY <1>1, <1>2 DEF p, Joins3

\* The sign is a plus, a minus, or nothing.
IsSign(sign) == sign \in Seq(Nat) /\ Len(sign) =< 1 /\ \A j \in 1 .. Len(sign) : sign[j] \in {43, 45}

\* What write_number has to arrange: zeros never follow the digits.
CanArrange(sign, digits, length, char, left) ==
  /\ IsSign(sign) /\ digits \in Seq(Nat) /\ Len(digits) >= 1
  /\ \A j \in 1 .. Len(digits) : digits[j] # 45
  /\ length \in Nat /\ char \in {32, ZERO} /\ left \in BOOLEAN
  /\ left => (char = 32 \/ length = 0)

\* The digits can be read from the text, and a minus in it is the sign.
IsArranged(text, sign, digits, length) ==
  /\ text \in Seq(Nat) /\ Len(text) = Len(sign) + Len(digits) + length
  /\ \E s : Shows(text, s, Reverse(digits))
  /\ (\E k \in 1 .. Len(text) : text[k] = 45) <=> (\E k \in 1 .. Len(sign) : sign[k] = 45)

\* Whatever the padding, the digits can be read, with their sign.
LEMMA ArrangedShows ==
  ASSUME NEW sign, NEW digits, NEW length, NEW char, NEW left, CanArrange(sign, digits, length, char, left)
  PROVE  IsArranged(Arranged(sign, digits, length, char, left), sign, digits, length)
<1> DEFINE padding == [i \in 1 .. length |-> char]
           d == Reverse(digits)
           text == Arranged(sign, digits, length, char, left)
           n == Len(digits)
           l == Len(sign)
<1>8. /\ IsSign(sign) /\ digits \in Seq(Nat) /\ Len(digits) >= 1
      /\ \A j \in 1 .. Len(digits) : digits[j] # 45
      /\ length \in Nat /\ char \in {32, ZERO} /\ left \in BOOLEAN
      /\ left => (char = 32 \/ length = 0)
  BY DEF CanArrange
<1>1. /\ n \in Nat /\ n >= 1 /\ l \in Nat
      /\ d \in Seq(Nat) /\ Len(d) = n /\ \A j \in 1 .. n : d[j] # 45
  <2>1. n \in Nat /\ n >= 1 /\ l \in Nat
    BY <1>8 DEF IsSign
  <2>2. d = [i \in 1 .. n |-> digits[n - i + 1]]
    BY <2>1 DEF Reverse
  <2> HIDE DEF d
  <2>3. \A i \in 1 .. n : n - i + 1 \in 1 .. n
    BY <2>1
  <2>4. \A i \in 1 .. n : d[i] \in Nat /\ d[i] # 45
    BY <1>8, <2>2, <2>3
  <2>5. d \in [1 .. n -> Nat]
    BY <2>2, <2>4
  <2>6. d \in Seq(Nat) /\ Len(d) = n
    BY <2>1, <2>5, FunctionIsSeq
  <2>7. QED
    BY <2>1, <2>4, <2>6
<1>2. /\ padding \in Seq(Nat) /\ Len(padding) = length /\ \A j \in 1 .. length : padding[j] = char
  <2>1. padding \in [1 .. length -> Nat] /\ \A j \in 1 .. length : padding[j] = char
    BY <1>8 DEF ZERO
  <2> HIDE DEF padding
  <2>2. QED
    BY <1>8, <2>1, FunctionIsSeq
<1>3. text = IF left THEN sign \o d \o padding ELSE padding \o sign \o d
  BY Zenon DEF Arranged
<1>4. sign \in Seq(Nat) /\ l =< 1 /\ \A j \in 1 .. l : sign[j] \in {43, 45}
  BY <1>8 DEF IsSign
<1> HIDE DEF padding, d, text, n
<1>5. CASE left
  <2>1. text = sign \o d \o padding
    BY <1>3, <1>5
  <2>2. /\ text \in Seq(Nat) /\ Len(text) = l + n + length
        /\ \A j \in 1 .. l : text[j] = sign[j]
        /\ \A j \in 1 .. n : text[l + j] = d[j]
        /\ \A j \in 1 .. length : text[l + n + j] = padding[j]
    <3>1. /\ text \in Seq(Nat) /\ Len(text) = Len(sign) + Len(d) + Len(padding)
          /\ \A j \in 1 .. Len(sign) : text[j] = sign[j]
          /\ \A j \in 1 .. Len(d) : text[Len(sign) + j] = d[j]
          /\ \A j \in 1 .. Len(padding) : text[Len(sign) + Len(d) + j] = padding[j]
      <4>1. sign \in Seq(Nat) /\ d \in Seq(Nat) /\ padding \in Seq(Nat)
        BY <1>1, <1>2, <1>4
      <4>2. Joins3(sign \o d \o padding, sign, d, padding)
        BY <4>1, ThreeJoined
      <4>3. QED
        BY <2>1, <4>2, Zenon DEF Joins3
    <3>2. QED
      BY <1>1, <1>2, <3>1
  <2>7. \A j \in 1 .. l : sign[j] \in {43, 45}
    BY <1>4
  <2> HIDE DEF l
  <2>3. ASSUME NEW j \in l + 1 + n .. Len(text) PROVE text[j] = 32
    <3>1. j - (l + n) \in 1 .. length /\ l + n + (j - (l + n)) = j /\ length # 0
      BY <1>1, <1>8, <2>2
    <3>2. QED
      BY <1>2, <1>5, <1>8, <2>2, <3>1
  <2>4. Shows(text, l + 1, d)
    <3>1. \A j \in 1 .. n : text[(l + 1) + j - 1] = d[j]
      <4>1. \A j \in 1 .. n : (l + 1) + j - 1 = l + j
        BY <1>1, <1>8
      <4>2. QED
        BY <2>2, <4>1
    <3>2. \A j \in 1 .. (l + 1) - 1 : text[j] \in Skipped
      <4>1. \A j \in 1 .. (l + 1) - 1 : j \in 1 .. l
        BY <1>1, <1>8
      <4>2. QED
        BY <2>2, <2>7, <4>1 DEF Skipped
    <3>3. l + 1 \in Nat /\ l + 1 # 0 /\ (l + 1) + n - 1 =< Len(text)
      BY <1>1, <1>8, <2>2
    <3>4. QED
      BY <1>1, <2>2, <2>3, <3>1, <3>2, <3>3 DEF Shows, StandsAt
  <2>5. (\E k \in 1 .. Len(text) : text[k] = 45) <=> (\E k \in 1 .. l : sign[k] = 45)
    <3>1. ASSUME NEW k \in 1 .. l, sign[k] = 45 PROVE \E i \in 1 .. Len(text) : text[i] = 45
      <4>1. k \in 1 .. Len(text)
        BY <1>1, <1>8, <2>2
      <4>2. QED
        BY <2>2, <3>1, <4>1
    <3>2. ASSUME NEW k \in 1 .. Len(text), text[k] = 45 PROVE \E i \in 1 .. l : sign[i] = 45
      <4>1. k \in 1 .. l \/ (k - l \in 1 .. n /\ l + (k - l) = k) \/ k \in l + 1 + n .. Len(text)
        BY <1>1, <1>8, <2>2
      <4>2. ASSUME k - l \in 1 .. n, l + (k - l) = k PROVE FALSE
        <5>1. text[k] = d[k - l] /\ d[k - l] # 45
          BY <1>1, <2>2, <4>2
        <5>2. QED
          BY <3>2, <5>1
      <4>3. k \notin l + 1 + n .. Len(text)
        BY <2>3, <3>2
      <4>4. k \in 1 .. l /\ sign[k] = 45
        BY <2>2, <3>2, <4>1, <4>2, <4>3
      <4>5. QED
        BY <4>4
    <3>3. QED
      BY <3>1, <3>2
  <2>6. QED
    BY <1>1, <2>2, <2>4, <2>5 DEF d, n, l, text, IsArranged
<1>6. CASE ~left
  <2>1. text = padding \o sign \o d
    BY <1>3, <1>6
  <2>2. /\ text \in Seq(Nat) /\ Len(text) = length + l + n
        /\ \A j \in 1 .. length : text[j] = padding[j]
        /\ \A j \in 1 .. l : text[length + j] = sign[j]
        /\ \A j \in 1 .. n : text[length + l + j] = d[j]
    <3>1. /\ text \in Seq(Nat) /\ Len(text) = Len(padding) + Len(sign) + Len(d)
          /\ \A j \in 1 .. Len(padding) : text[j] = padding[j]
          /\ \A j \in 1 .. Len(sign) : text[Len(padding) + j] = sign[j]
          /\ \A j \in 1 .. Len(d) : text[Len(padding) + Len(sign) + j] = d[j]
      <4>1. sign \in Seq(Nat) /\ d \in Seq(Nat) /\ padding \in Seq(Nat)
        BY <1>1, <1>2, <1>4
      <4>2. Joins3(padding \o sign \o d, padding, sign, d)
        BY <4>1, ThreeJoined
      <4>3. QED
        BY <2>1, <4>2, Zenon DEF Joins3
    <3>2. QED
      BY <1>1, <1>2, <3>1
  <2>3. \A j \in 1 .. l : sign[j] \in {43, 45}
    BY <1>4
  <2> HIDE DEF l
  <2> DEFINE s == length + l + 1
  <2>4. Shows(text, s, d)
    <3>1. \A j \in 1 .. n : text[s + j - 1] = d[j]
      <4>1. \A j \in 1 .. n : s + j - 1 = length + l + j
        BY <1>1, <1>8
      <4>2. QED
        BY <2>2, <4>1
    <3>2. ASSUME NEW j \in 1 .. s - 1 PROVE text[j] \in Skipped
      <4>1. j \in 1 .. length \/ (j - length \in 1 .. l /\ length + (j - length) = j)
        BY <1>1, <1>8
      <4>2. CASE j \in 1 .. length
        <5>1. text[j] = char
          BY <1>2, <1>8, <2>2, <4>2
        <5>2. QED
          BY <1>8, <5>1 DEF Skipped
      <4>3. CASE j - length \in 1 .. l /\ length + (j - length) = j
        <5>1. text[length + (j - length)] = sign[j - length] /\ sign[j - length] \in {43, 45}
          BY <2>2, <2>3, <4>3
        <5>2. text[j] \in {43, 45}
          BY <4>3, <5>1
        <5>3. QED
          BY <5>2 DEF Skipped
      <4>4. QED
        BY <4>1, <4>2, <4>3
    <3>3. s \in Nat /\ s # 0 /\ s + n - 1 =< Len(text) /\ \A j \in s + n .. Len(text) : FALSE
      BY <1>1, <1>8, <2>2
    <3> HIDE DEF s
    <3>4. QED
      BY <1>1, <2>2, <3>1, <3>2, <3>3 DEF Shows, StandsAt
  <2>5. (\E k \in 1 .. Len(text) : text[k] = 45) <=> (\E k \in 1 .. l : sign[k] = 45)
    <3>1. ASSUME NEW k \in 1 .. l, sign[k] = 45 PROVE \E i \in 1 .. Len(text) : text[i] = 45
      <4>1. length + k \in 1 .. Len(text)
        BY <1>1, <1>8, <2>2
      <4>2. QED
        BY <2>2, <3>1, <4>1
    <3>2. ASSUME NEW k \in 1 .. Len(text), text[k] = 45 PROVE \E i \in 1 .. l : sign[i] = 45
      <4>1. \/ k \in 1 .. length
            \/ k - length \in 1 .. l /\ length + (k - length) = k
            \/ k - (length + l) \in 1 .. n /\ length + l + (k - (length + l)) = k
        BY <1>1, <1>8, <2>2
      <4>2. ASSUME k - (length + l) \in 1 .. n, length + l + (k - (length + l)) = k PROVE FALSE
        <5>1. text[k] = d[k - (length + l)] /\ d[k - (length + l)] # 45
          BY <1>1, <2>2, <4>2
        <5>2. QED
          BY <3>2, <5>1
      <4>3. k \notin 1 .. length
        BY <1>2, <1>8, <2>2, <3>2 DEF ZERO
      <4>4. k - length \in 1 .. l /\ length + (k - length) = k
        BY <4>1, <4>2, <4>3
      <4>5. sign[k - length] = 45
        BY <2>2, <3>2, <4>4
      <4>6. QED
        BY <4>4, <4>5
    <3>3. QED
      BY <3>1, <3>2
  <2>6. Len(text) = l + n + length /\ text \in Seq(Nat) /\ (\E i : Shows(text, i, d))
    BY <1>1, <1>8, <2>2, <2>4
  <2>7. QED
    BY <2>5, <2>6 DEF d, n, l, text, IsArranged
<1>7. QED
  BY <1>5, <1>6

\* The number whose digits are written, and whether they are upper case.
Magnitude(value, flags) ==
  (IF Minus(value, flags) THEN -value ELSE value)
    % (IF "BIG_NUMBER" \in flags THEN WordModulus * WordModulus ELSE WordModulus)

\* The digits of a number, the last one first.
DigitsFor(value, flags) == DigitsOf(Magnitude(value, flags), Base(flags), "UPPERCASE" \notin flags)

\* The text of a number is its digits, arranged.
LEMMA NumberTextIs ==
  ASSUME NEW value, NEW width, NEW flags
  PROVE  NumberText(value, width, flags) =
           Arranged(SignOf(value, flags), DigitsFor(value, flags),
                    Pad(width, SignOf(value, flags), DigitsFor(value, flags)),
                    IF "ZERO_PAD" \in flags THEN ZERO ELSE 32, "LEFT_JUSTIFY" \in flags)
BY Zenon DEF NumberText, Arranged, DigitsFor, Magnitude

\* What is left of a number without its sign can be divided.
LEMMA MagnitudeIsNat ==
  ASSUME NEW value \in Int, NEW flags
  PROVE  Magnitude(value, flags) \in Nat
<1> DEFINE modulus == IF "BIG_NUMBER" \in flags THEN WordModulus * WordModulus ELSE WordModulus
<1>1. modulus \in Nat /\ modulus > 0
  <2>1. WordModulus \in Nat /\ WordModulus > 0
    BY ConversionsAssumption
  <2>2. WordModulus * WordModulus \in Nat /\ WordModulus * WordModulus > 0
    BY <2>1
  <2>3. QED
    BY <2>1, <2>2
<1> HIDE DEF modulus
<1>2. \A x \in Int : x % modulus \in Nat
  BY <1>1
<1>3. -value \in Int
  OBVIOUS
<1>4. QED
  BY <1>2, <1>3 DEF Magnitude, modulus

\* What write_number writes, whatever the number, the width and the flags.
LEMMA TextOfNumber ==
  ASSUME NEW value \in Int, NEW width \in Nat, NEW flags,
         "LEFT_JUSTIFY" \in flags /\ "ZERO_PAD" \in flags => width = 0
  PROVE  LET text   == NumberText(value, width, flags)
             length == Len(SignOf(value, flags)) + Len(DigitsFor(value, flags))
         IN  /\ text \in Seq(Nat) /\ length \in Nat /\ length =< Magnitude(value, flags) + 2
             /\ Len(text) = IF width > length THEN width ELSE length
             /\ ReadNumber(text, Base(flags)) =
                  IF Minus(value, flags) THEN -Magnitude(value, flags) ELSE Magnitude(value, flags)
<1> DEFINE n      == Magnitude(value, flags)
           base   == Base(flags)
           upper  == "UPPERCASE" \notin flags
           digits == DigitsFor(value, flags)
           sign   == SignOf(value, flags)
           pad    == Pad(width, sign, digits)
           char   == IF "ZERO_PAD" \in flags THEN ZERO ELSE 32
           left   == "LEFT_JUSTIFY" \in flags
           text   == NumberText(value, width, flags)
<1>1. n \in Nat /\ base \in Bases /\ upper \in BOOLEAN /\ char \in {32, ZERO}
  BY MagnitudeIsNat DEF Base, Bases
<1>2. digits = DigitsOf(n, base, upper)
  BY DEF DigitsFor
<1>3. IsSign(sign) /\ ((\E k \in 1 .. Len(sign) : sign[k] = 45) <=> Minus(value, flags))
  <2>1. CASE "SIGNED" \notin flags /\ "ALWAYS_SIGN" \in flags
    <3>1. sign = <<43>> /\ ~Minus(value, flags)
      BY <2>1 DEF SignOf, Minus
    <3>2. <<43>> \in Seq(Nat) /\ Len(<<43>>) = 1 /\ <<43>>[1] = 43
      OBVIOUS
    <3>3. QED
      BY <3>1, <3>2 DEF IsSign
  <2>2. CASE ~("SIGNED" \notin flags /\ "ALWAYS_SIGN" \in flags) /\ Minus(value, flags)
    <3>1. sign = <<45>>
      BY <2>2 DEF SignOf
    <3>2. <<45>> \in Seq(Nat) /\ Len(<<45>>) = 1 /\ <<45>>[1] = 45
      OBVIOUS
    <3>3. QED
      BY <2>2, <3>1, <3>2 DEF IsSign
  <2>3. CASE ~("SIGNED" \notin flags /\ "ALWAYS_SIGN" \in flags) /\ ~Minus(value, flags)
    <3>1. sign = <<>>
      BY <2>3 DEF SignOf
    <3>2. QED
      BY <2>3, <3>1 DEF IsSign
  <2>4. QED
    BY <2>1, <2>2, <2>3
<1>4. /\ digits \in Seq(Nat) /\ Len(digits) \in 1 .. n + 1
      /\ \A j \in 1 .. Len(digits) : digits[j] # 45
  <2> HIDE DEF n, base, upper, digits
  <2>1. PICK rest, m :
          /\ IsLeft(rest, n, base) /\ m \in 1 .. n + 1
          /\ digits = [k \in 1 .. m |-> HexDigit(rest[k - 1] % base, upper)]
    BY <1>1, <1>2, DigitsAre
  <2>2. ASSUME NEW k \in 1 .. m PROVE HexDigit(rest[k - 1] % base, upper) \in Nat \ {45}
    <3> DEFINE r == rest[k - 1] % base
    <3>1. k - 1 \in 0 .. n + 1
      BY <1>1, <2>1
    <3>2. rest[k - 1] \in Nat
      BY <2>1, <3>1 DEF IsLeft
    <3>3. r \in Nat /\ r < base /\ base =< 16 /\ base \in Nat
      BY <1>1, <3>2, Division
    <3> HIDE DEF r
    <3>4. r \in Nat /\ r < 16
      BY <3>3
    <3>5. HexDigit(r, upper) \in Nat \ {45}
      BY <1>1, <3>4, HexIsSignificant
    <3>6. QED
      BY <3>5 DEF r
  <2>3. digits \in [1 .. m -> Nat \ {45}] /\ m \in Nat
    BY <1>1, <2>1, <2>2
  <2>4. digits \in Seq(Nat \ {45}) /\ Len(digits) = m
    BY <2>3, FunctionIsSeq
  <2>5. QED
    BY <2>1, <2>4
<1>5. /\ pad \in Nat /\ Len(sign) \in Nat /\ Len(sign) =< 1 /\ (width = 0 => pad = 0)
      /\ Len(sign) + Len(digits) + pad =
           IF width > Len(sign) + Len(digits) THEN width ELSE Len(sign) + Len(digits)
  <2>1. Len(sign) \in Nat /\ Len(digits) \in Nat /\ Len(sign) =< 1
    BY <1>3, <1>4 DEF IsSign
  <2>2. pad = IF width > Len(sign) + Len(digits) THEN width - (Len(sign) + Len(digits)) ELSE 0
    BY DEF Pad
  <2> HIDE DEF pad, sign, digits
  <2> DEFINE a == Len(sign)
             b == Len(digits)
  <2>3. a \in Nat /\ b \in Nat /\ a =< 1 /\ pad = IF width > a + b THEN width - (a + b) ELSE 0
    BY <2>1, <2>2
  <2>4. pad \in Nat /\ (width = 0 => pad = 0) /\ a + b + pad = IF width > a + b THEN width ELSE a + b
    <3> HIDE DEF a, b
    <3>1. CASE width > a + b
      BY <2>3, <3>1
    <3>2. CASE ~(width > a + b)
      BY <2>3, <3>2
    <3>3. QED
      BY <3>1, <3>2
  <2>5. QED
    BY <2>3, <2>4
<1>6. left => (char = 32 \/ pad = 0)
  BY <1>5
<1>7. text = Arranged(sign, digits, pad, char, left)
  BY NumberTextIs
<1> HIDE DEF n, base, upper, digits, sign, pad, char, left, text
<1>8. /\ text \in Seq(Nat) /\ Len(text) = Len(sign) + Len(digits) + pad
      /\ \E s : Shows(text, s, Reverse(digits))
      /\ (\E k \in 1 .. Len(text) : text[k] = 45) <=> (\E k \in 1 .. Len(sign) : sign[k] = 45)
  <2>1. Len(digits) >= 1
    BY <1>1, <1>4
  <2>2. left \in BOOLEAN
    BY DEF left
  <2>3. CanArrange(sign, digits, pad, char, left)
    BY <1>1, <1>3, <1>4, <1>5, <1>6, <2>1, <2>2 DEF CanArrange
  <2>4. IsArranged(text, sign, digits, pad)
    BY <1>7, <2>3, ArrangedShows
  <2>5. QED
    BY <2>4 DEF IsArranged
<1>9. ReadNumber(text, base) = IF \E k \in 1 .. Len(text) : text[k] = 45 THEN -n ELSE n
  BY <1>1, <1>2, <1>8, NumberIsRead
<1>10. Len(sign) + Len(digits) \in Nat /\ Len(sign) + Len(digits) =< n + 2
  BY <1>1, <1>4, <1>5
<1>11. QED
  BY <1>3, <1>5, <1>8, <1>9, <1>10 DEF n, base, digits, sign, text

\* The characters that set a flag or ask for a width from the arguments.
Marks == {48, 60, 43, 32, UNDERSCORE}

\* A directive starts at p: marks up to e, digits of a width up to g, where the
\* conversion is.
HasDirective(string, p, e, g, big) ==
  /\ string \in Seq(Nat) /\ p \in Nat /\ p >= 1 /\ e \in Nat /\ p + 1 =< e /\ g \in Nat /\ e =< g
  /\ string[p] = OPEN
  /\ \A k \in p + 1 .. e - 1 : string[k] \in Marks
  /\ string[e] \notin Marks
  /\ \A k \in e .. g - 1 : IsDigit(string[k])
  /\ ~IsDigit(string[g])
  /\ big \in BOOLEAN
  /\ IF big THEN string[g + 1] = LONG /\ string[g + 2] = CLOSE /\ g + 2 =< Len(string)
            ELSE string[g + 1] = CLOSE /\ g + 1 =< Len(string)

\* The marks end where the first other character is.
LEMMA MarksEnd ==
  ASSUME NEW text \in Seq(Nat), NEW at \in Nat, NEW k \in Nat, at =< k, k =< Len(text),
         \A j \in at .. k - 1 : text[j] \in Marks, text[k] \notin Marks
  PROVE  AfterMarks(text, at) = k
<1> DEFINE P(c) == /\ \A j \in at .. c - 1 : text[j] \in DOMAIN FlagOf \cup {UNDERSCORE}
                   /\ c =< Len(text) => text[c] \notin DOMAIN FlagOf \cup {UNDERSCORE}
           c == AfterMarks(text, at)
<1>1. DOMAIN FlagOf \cup {UNDERSCORE} = Marks
  BY DEF FlagOf, Marks
<1>2. Len(text) \in Nat /\ k \in at .. Len(text) + 1 /\ P(k)
  BY <1>1
<1>3. c \in at .. Len(text) + 1 /\ P(c)
  <2> HIDE DEF P
  <2>1. \E i \in at .. Len(text) + 1 : P(i)
    BY <1>2
  <2>2. c = CHOOSE i \in at .. Len(text) + 1 : P(i)
    BY Zenon DEF AfterMarks, P
  <2> HIDE DEF c
  <2>3. QED
    BY <2>1, <2>2, Zenon
<1> HIDE DEF c
<1>4. CASE c < k
  <2>1. c \in at .. k - 1 /\ c =< Len(text)
    BY <1>2, <1>3, <1>4
  <2>2. QED
    BY <1>2, <1>3, <2>1
<1>5. CASE k < c
  <2>1. k \in at .. c - 1 /\ k =< Len(text)
    BY <1>2, <1>3, <1>5
  <2>2. QED
    BY <1>2, <1>3, <2>1
<1>6. c = k
  BY <1>2, <1>3, <1>4, <1>5
<1>7. QED
  BY <1>6 DEF c

\* What Directive makes of it.
Underscores(string, p, e) == {k \in p + 1 .. e - 1 : string[k] = UNDERSCORE}

\* The width the arguments give, zero when no underscore asks for one.
Given(string, p, e, arguments, used) ==
  LET taken == used + Cardinality(Underscores(string, p, e))
  IN  IF taken = used THEN 0
      ELSE IF arguments[taken] < 0 THEN -arguments[taken] ELSE arguments[taken]

\* The flags that the marks, the width and the letter before the conversion set.
FlagsGiven(string, p, e, g, big, arguments, used) ==
  LET taken == used + Cardinality(Underscores(string, p, e))
  IN  {FlagOf[m] : m \in {string[k] : k \in p + 1 .. e - 1} \ {UNDERSCORE}}
        \cup (IF \E i \in used + 1 .. taken : arguments[i] < 0
              THEN {"SIZE_GIVEN", "LEFT_JUSTIFY"} ELSE {})
        \cup (IF g > e THEN {"SIZE_GIVEN"} ELSE {})
        \cup (IF big THEN {"BIG_NUMBER"} ELSE {})

\* The place behind the closing brace.
BehindDirective(g, big) == IF big THEN g + 3 ELSE g + 2

\* What parse_format_specifier makes of such a directive.
LEMMA DirectiveIs ==
  ASSUME NEW string, NEW p, NEW e, NEW g, NEW big, HasDirective(string, p, e, g, big),
         NEW arguments, NEW used
  PROVE  Directive(string, p + 1, arguments, used) =
           [conversion |-> string[g],
            used       |-> used + Cardinality(Underscores(string, p, e)),
            width      |-> WidthBetween(string, e, g, Given(string, p, e, arguments, used)),
            flags      |-> FlagsGiven(string, p, e, g, big, arguments, used),
            next       |-> BehindDirective(g, big)]
<1>1. /\ string \in Seq(Nat) /\ p \in Nat /\ p >= 1 /\ e \in Nat /\ p + 1 =< e /\ g \in Nat /\ e =< g
      /\ \A k \in p + 1 .. e - 1 : string[k] \in Marks
      /\ string[e] \notin Marks
      /\ \A k \in e .. g - 1 : IsDigit(string[k])
      /\ ~IsDigit(string[g])
      /\ big \in BOOLEAN
      /\ IF big THEN string[g + 1] = LONG /\ string[g + 2] = CLOSE /\ g + 2 =< Len(string)
                ELSE string[g + 1] = CLOSE /\ g + 1 =< Len(string)
  BY DEF HasDirective
<1>2. p + 1 \in Nat /\ e =< Len(string) /\ g =< Len(string) + 1 /\ g < Len(string) /\ Len(string) \in Nat
  BY <1>1
<1>3. AfterMarks(string, p + 1) = e
  BY <1>1, <1>2, MarksEnd
<1>4. AfterDigits(string, e) = g
  BY <1>1, <1>2, DigitsEnd
<1>5. (g < Len(string) /\ string[g + 1] = LONG) = big
  BY <1>1, <1>2 DEF LONG, CLOSE
<1> DEFINE close == IF big THEN g + 2 ELSE g + 1
<1>6. (IF close =< Len(string) /\ string[close] = CLOSE THEN close + 1 ELSE close) = BehindDirective(g, big)
  <2>1. CASE big
    <3>1. close = g + 2 /\ close + 1 = g + 3
      BY <1>1, <2>1
    <3>2. QED
      BY <1>1, <2>1, <3>1 DEF BehindDirective
  <2>2. CASE ~big
    <3>1. close = g + 1 /\ close + 1 = g + 2
      BY <1>1, <2>2
    <3>2. QED
      BY <1>1, <2>2, <3>1 DEF BehindDirective
  <2>3. QED
    BY <2>1, <2>2
<1>7. QED
  BY <1>3, <1>4, <1>5, <1>6, Zenon DEF Directive, Given, FlagsGiven, Underscores

\* A turn of the loop that reads the digits of a width.
NextWidth(width, digit) == 10 * width + digit - ZERO

\* The widths that one, two and three digits make.
LEMMA WidthOfDigits ==
  ASSUME NEW text, NEW at \in Nat, NEW n \in 1 .. 3, NEW given
  PROVE  LET one   == NextWidth(given, text[at])
             two   == NextWidth(one, text[at + 1])
             three == NextWidth(two, text[at + 2])
         IN  WidthBetween(text, at, at + n, given) = IF n = 1 THEN one ELSE IF n = 2 THEN two ELSE three
<1> DEFINE one   == NextWidth(given, text[at])
           two   == NextWidth(one, text[at + 1])
           three == NextWidth(two, text[at + 2])
           D == at .. at + n
           Is(v) == v = [k \in D |-> IF k = at THEN given ELSE NextWidth(v[k - 1], text[k - 1])]
           w == [k \in D |-> IF k = at THEN given ELSE IF k = at + 1 THEN one ELSE IF k = at + 2 THEN two ELSE three]
<1> HIDE DEF one, two, three
<1>1. \A k \in D : /\ k \in Nat /\ (k = at \/ k = at + 1 \/ k = at + 2 \/ k = at + 3)
                   /\ k # at => k - 1 \in D
  OBVIOUS
<1>2. /\ at + 1 # at /\ at + 2 # at /\ at + 2 # at + 1 /\ at + 3 # at /\ at + 3 # at + 1 /\ at + 3 # at + 2
      /\ (at + 1) - 1 = at /\ (at + 2) - 1 = at + 1 /\ (at + 3) - 1 = at + 2
  OBVIOUS
<1>3. ASSUME NEW k \in D PROVE w[k] = IF k = at THEN given ELSE NextWidth(w[k - 1], text[k - 1])
  <2>1. \A i \in D : w[i] = IF i = at THEN given ELSE IF i = at + 1 THEN one ELSE IF i = at + 2 THEN two ELSE three
    OBVIOUS
  <2> HIDE DEF w, D
  <2>2. CASE k = at
    BY <2>1, <2>2
  <2>3. CASE k = at + 1
    <3>1. k - 1 = at /\ k # at /\ at \in D
      BY <1>1, <1>2, <2>3
    <3>2. w[k] = one /\ w[k - 1] = given
      BY <1>2, <2>1, <2>3, <3>1
    <3>3. QED
      BY <3>1, <3>2 DEF one
  <2>4. CASE k = at + 2
    <3>1. k - 1 = at + 1 /\ k # at /\ at + 1 \in D
      BY <1>1, <1>2, <2>4
    <3>2. w[k] = two /\ w[k - 1] = one
      BY <1>2, <2>1, <2>4, <3>1
    <3>3. QED
      BY <3>1, <3>2 DEF two
  <2>5. CASE k = at + 3
    <3>1. k - 1 = at + 2 /\ k # at /\ at + 2 \in D
      BY <1>1, <1>2, <2>5
    <3>2. w[k] = three /\ w[k - 1] = two
      BY <1>2, <2>1, <2>5, <3>1
    <3>3. QED
      BY <3>1, <3>2 DEF three
  <2>6. QED
    BY <1>1, <2>2, <2>3, <2>4, <2>5
<1>4. Is(w)
  <2>1. DOMAIN w = D /\ w = [k \in D |-> w[k]]
    OBVIOUS
  <2> HIDE DEF w, D
  <2>2. [k \in D |-> w[k]] = [k \in D |-> IF k = at THEN given ELSE NextWidth(w[k - 1], text[k - 1])]
    BY <1>3
  <2>3. QED
    BY <2>1, <2>2, Zenon
<1> DEFINE v == CHOOSE x : Is(x)
<1>5. Is(v)
  <2> HIDE DEF Is, w
  <2>1. QED
    BY <1>4, Zenon
<1>6. WidthBetween(text, at, at + n, given) = v[at + n]
  BY Zenon DEF WidthBetween, NextWidth
<1> HIDE DEF v, w
<1>7. \A k \in D : v[k] = IF k = at THEN given ELSE NextWidth(v[k - 1], text[k - 1])
  <2>1. SUFFICES ASSUME NEW k \in D PROVE v[k] = IF k = at THEN given ELSE NextWidth(v[k - 1], text[k - 1])
    OBVIOUS
  <2>2. v = [i \in D |-> IF i = at THEN given ELSE NextWidth(v[i - 1], text[i - 1])]
    BY <1>5, Zenon
  <2> HIDE DEF D
  <2>3. [i \in D |-> IF i = at THEN given ELSE NextWidth(v[i - 1], text[i - 1])][k]
          = IF k = at THEN given ELSE NextWidth(v[k - 1], text[k - 1])
    BY Zenon
  <2>4. QED
    BY <2>2, <2>3, Zenon
<1>8. at \in D /\ at + 1 \in D /\ (n # 1 => at + 2 \in D) /\ (n = 3 => at + 3 \in D)
  OBVIOUS
<1> HIDE DEF D
<1>9. v[at + 1] = one
  BY <1>2, <1>7, <1>8 DEF one
<1>10. n # 1 => v[at + 2] = two
  BY <1>2, <1>7, <1>8, <1>9 DEF two
<1>11. n = 3 => v[at + 3] = three
  BY <1>2, <1>7, <1>8, <1>10 DEF three
<1>12. n = 1 \/ n = 2 \/ n = 3
  OBVIOUS
<1>13. v[at + n] = IF n = 1 THEN one ELSE IF n = 2 THEN two ELSE three
  BY <1>9, <1>10, <1>11, <1>12
<1>14. QED
  BY <1>6, <1>13, Zenon DEF one, two, three
\* Without digits a width stays as it was given.
LEMMA WidthGiven ==
  ASSUME NEW text, NEW at \in Nat, NEW given
  PROVE  WidthBetween(text, at, at, given) = given
<1> DEFINE v == CHOOSE x : x = [k \in at .. at |-> IF k = at THEN given ELSE NextWidth(x[k - 1], text[k - 1])]
           u == [k \in at .. at |-> given]
<1>1. u = [k \in at .. at |-> IF k = at THEN given ELSE NextWidth(u[k - 1], text[k - 1])]
  <2>1. \A k \in at .. at : k = at
    OBVIOUS
  <2> HIDE DEF u
  <2>2. [k \in at .. at |-> IF k = at THEN given ELSE NextWidth(u[k - 1], text[k - 1])] = [k \in at .. at |-> given]
    BY <2>1
  <2>3. QED
    BY <2>2 DEF u
<1>2. v = [k \in at .. at |-> IF k = at THEN given ELSE NextWidth(v[k - 1], text[k - 1])]
  <2> HIDE DEF u
  <2>1. QED
    BY <1>1, Zenon
<1>3. WidthBetween(text, at, at, given) = v[at]
  BY Zenon DEF WidthBetween, NextWidth
<1> HIDE DEF v
<1>4. [k \in at .. at |-> IF k = at THEN given ELSE NextWidth(v[k - 1], text[k - 1])][at] = given
  OBVIOUS
<1>5. v[at] = given
  BY <1>2, <1>4, Zenon
<1>6. QED
  BY <1>3, <1>5

\* The digits of a width, if there are any, are read as the width; without them
\* it stays as it was given.
LEMMA WidthRead ==
  ASSUME NEW text, NEW at \in Nat, NEW w, IsByte(w), NEW d,
         d = <<>> \/ (IsDecimal(d, w) /\ StandsAt(text, at, d)), NEW given, d # <<>> => given = 0
  PROVE  WidthBetween(text, at, at + Len(d), given) = IF d = <<>> THEN given ELSE w
<1>1. CASE d = <<>>
  <2>1. at + Len(d) = at
    BY <1>1
  <2>2. QED
    BY <1>1, <2>1, WidthGiven
<1>2. CASE d # <<>>
  <2> DEFINE n     == Len(d)
             one   == NextWidth(given, text[at])
             two   == NextWidth(one, text[at + 1])
             three == NextWidth(two, text[at + 2])
  <2>1. /\ n \in 1 .. 3 /\ \A i \in 1 .. n : d[i] \in 48 .. 57
        /\ n = 1 => d[1] - 48 = w
        /\ n = 2 => (d[1] - 48) * 10 + d[2] - 48 = w
        /\ n = 3 => ((d[1] - 48) * 10 + d[2] - 48) * 10 + d[3] - 48 = w
    BY <1>2 DEF IsDecimal, IsDigit, ZERO
  <2>2. WidthBetween(text, at, at + n, given) = IF n = 1 THEN one ELSE IF n = 2 THEN two ELSE three
    BY <2>1, WidthOfDigits
  <2>3. at + 1 - 1 = at /\ at + 2 - 1 = at + 1 /\ at + 3 - 1 = at + 2
    OBVIOUS
  <2>4. \A j \in 1 .. n : text[at + j - 1] = d[j]
    BY <1>2 DEF StandsAt
  <2> HIDE DEF n, one, two, three
  <2>5. n = 1 \/ n = 2 \/ n = 3
    BY <2>1
  <2>6. /\ d[1] \in 48 .. 57 /\ text[at] = d[1]
        /\ n # 1 => d[2] \in 48 .. 57 /\ text[at + 1] = d[2]
        /\ n = 3 => d[3] \in 48 .. 57 /\ text[at + 2] = d[3]
    <3>1. 1 \in 1 .. n /\ (n # 1 => 2 \in 1 .. n) /\ (n = 3 => 3 \in 1 .. n)
      BY <2>5
    <3>2. QED
      BY <2>1, <2>3, <2>4, <3>1
  <2>7. one = d[1] - 48
    BY <1>2, <2>6 DEF one, NextWidth, ZERO
  <2>8. n # 1 => two = (d[1] - 48) * 10 + d[2] - 48
    BY <2>6, <2>7 DEF two, NextWidth, ZERO
  <2>9. n = 3 => three = ((d[1] - 48) * 10 + d[2] - 48) * 10 + d[3] - 48
    <3>1. SUFFICES ASSUME n = 3 PROVE three = ((d[1] - 48) * 10 + d[2] - 48) * 10 + d[3] - 48
      OBVIOUS
    <3>2. two = (d[1] - 48) * 10 + d[2] - 48 /\ two \in Int
      <4>1. n # 1
        BY <3>1
      <4>2. d[1] \in 48 .. 57 /\ d[2] \in 48 .. 57
        BY <2>6, <4>1, Zenon
      <4>3. (d[1] - 48) * 10 + d[2] - 48 \in Int
        <5> DEFINE x == d[1]
                   y == d[2]
        <5>1. x \in 48 .. 57 /\ y \in 48 .. 57
          BY <4>2
        <5> HIDE DEF x, y
        <5>2. (x - 48) * 10 + y - 48 \in Int
          BY <5>1
        <5>3. QED
          BY <5>2 DEF x, y
      <4>4. two = (d[1] - 48) * 10 + d[2] - 48
        BY <2>8, <4>1, Zenon
      <4>5. QED
        BY <4>3, <4>4, Zenon
    <3>3. three = 10 * two + d[3] - 48 /\ d[3] \in Int
      BY <2>6, <3>1 DEF three, NextWidth, ZERO
    <3>4. 10 * two = two * 10
      BY <3>2
    <3>5. QED
      BY <3>2, <3>3, <3>4, Zenon
  <2>10. QED
    BY <1>2, <2>1, <2>2, <2>5, <2>7, <2>8, <2>9 DEF n
<1>3. QED
  BY <1>1, <1>2

\* A width that is not zero starts with a digit that is no mark.
LEMMA WidthDigits ==
  ASSUME NEW w, IsByte(w), NEW d, d = Reverse(FragmentDigits(w))
  PROVE  \/ w = 0 /\ d = <<48>>
         \/ w # 0 /\ IsDecimal(d, w) /\ d[1] # 48
<1>1. IsDecimal(d, w)
  BY FragmentIsDecimal DEF IsByte
<1>2. /\ d \in Seq(Nat) /\ Len(d) \in Nat /\ d[1] \in 48 .. 57
      /\ Len(d) = 1 => d[1] - 48 = w
      /\ Len(d) # 1 => d[1] # 48
  <2>1. 1 \in 1 .. Len(d)
    BY <1>1 DEF IsDecimal
  <2>2. QED
    BY <1>1, <2>1 DEF IsDecimal, IsDigit, ZERO
<1>3. CASE w = 0
  <2>1. FragmentDigits(w) = <<48>>
    BY <1>3 DEF FragmentDigits, ZERO
  <2>2. Reverse(<<48>>) \in Seq(Nat) /\ Len(Reverse(<<48>>)) = 1 /\ Reverse(<<48>>)[1] = 48
    BY DEF Reverse
  <2>3. <<48>> \in Seq(Nat) /\ Len(<<48>>) = 1 /\ <<48>>[1] = 48
    OBVIOUS
  <2> DEFINE a == Reverse(<<48>>)
             b == <<48>>
  <2>4. d = a
    BY <2>1
  <2> HIDE DEF a, b
  <2>5. a \in Seq(Nat) /\ b \in Seq(Nat) /\ Len(a) = Len(b) /\ \A i \in 1 .. Len(a) : a[i] = b[i]
    BY <2>2, <2>3 DEF a, b
  <2>6. a = b
    BY <2>5, SeqEqual
  <2>7. QED
    BY <1>3, <2>4, <2>6 DEF b
<1>4. CASE w # 0
  <2>1. SUFFICES ASSUME d[1] = 48 PROVE FALSE
    BY <1>1, <1>4
  <2>2. d[1] - 48 = w
    BY <1>2, <2>1
  <2>3. QED
    BY <1>4, <2>1, <2>2
<1>5. QED
  BY <1>3, <1>4

\* A text stands in another one from p on.
Holds(S, p, text) ==
  /\ S \in Seq(Nat) /\ text \in Seq(Nat) /\ p \in Nat /\ p >= 1
  /\ p + Len(text) =< Len(S) + 1
  /\ StandsAt(S, p, text)

\* A directive is made of marks M, the digits D of a width and a conversion C.
IsForm(M, D, C, big) ==
  /\ M \in Seq(Nat) /\ \A j \in 1 .. Len(M) : M[j] \in Marks
  /\ D \in Seq(Nat) /\ \A j \in 1 .. Len(D) : IsDigit(D[j])
  /\ D # <<>> => D[1] # 48
  /\ C \in Seq(Nat) /\ C[1] \notin Marks /\ ~IsDigit(C[1])
  /\ big \in BOOLEAN
  /\ IF big THEN Len(C) = 2 /\ C[2] = LONG ELSE Len(C) = 1

\* The text t is a and b behind each other.
Joins2(t, a, b) ==
  /\ t \in Seq(Nat) /\ Len(t) = Len(a) + Len(b)
  /\ \A j \in 1 .. Len(a) : t[j] = a[j]
  /\ \A j \in 1 .. Len(b) : t[Len(a) + j] = b[j]

\* Where the characters of two texts are in the whole.
LEMMA TwoJoined ==
  ASSUME NEW a \in Seq(Nat), NEW b \in Seq(Nat)
  PROVE  Joins2(a \o b, a, b)
BY DEF Joins2

\* Where its parts are.
AreBraces(text, M, D, C) ==
  LET m == Len(M)
      n == Len(D)
      c == Len(C)
  IN  /\ text \in Seq(Nat) /\ Len(text) = m + n + c + 2
      /\ text[1] = OPEN
      /\ \A j \in 1 .. m : text[1 + j] = M[j]
      /\ \A j \in 1 .. n : text[1 + m + j] = D[j]
      /\ \A j \in 1 .. c : text[1 + m + n + j] = C[j]
      /\ text[m + n + c + 2] = CLOSE

\* Where the parts of a directive are in it.
LEMMA BracesAt ==
  ASSUME NEW M \in Seq(Nat), NEW D \in Seq(Nat), NEW C \in Seq(Nat)
  PROVE  AreBraces(InBraces(M, D, C), M, D, C)
<1> DEFINE m == Len(M)
           n == Len(D)
           c == Len(C)
           o == <<OPEN>>
           z == <<CLOSE>>
           p1 == o \o M
           p2 == p1 \o D
           p3 == p2 \o C
           text == p3 \o z
<1>1. text = InBraces(M, D, C)
  BY Zenon DEF InBraces
<1>2. /\ m \in Nat /\ n \in Nat /\ c \in Nat
      /\ o \in Seq(Nat) /\ Len(o) = 1 /\ o[1] = OPEN
      /\ z \in Seq(Nat) /\ Len(z) = 1 /\ z[1] = CLOSE
  BY DEF OPEN, CLOSE
<1> HIDE DEF o, z, text, p3, p2, p1
<1>3. /\ p1 \in Seq(Nat) /\ Len(p1) = 1 + m /\ p1[1] = OPEN
      /\ \A j \in 1 .. m : p1[1 + j] = M[j]
  <2>1. /\ p1 \in Seq(Nat) /\ Len(p1) = Len(o) + m
        /\ \A j \in 1 .. Len(o) : p1[j] = o[j]
        /\ \A j \in 1 .. m : p1[Len(o) + j] = M[j]
    BY <1>2, TwoJoined DEF p1, m, Joins2
  <2>2. QED
    BY <1>2, <2>1
<1> HIDE DEF m, n, c
<1>4. /\ p2 \in Seq(Nat) /\ Len(p2) = 1 + m + n
      /\ \A j \in 1 .. 1 + m : p2[j] = p1[j]
      /\ \A j \in 1 .. n : p2[1 + m + j] = D[j]
  <2>1. /\ p2 \in Seq(Nat) /\ Len(p2) = Len(p1) + n
        /\ \A j \in 1 .. Len(p1) : p2[j] = p1[j]
        /\ \A j \in 1 .. n : p2[Len(p1) + j] = D[j]
    BY <1>3, TwoJoined DEF p2, n, Joins2
  <2>2. QED
    BY <1>3, <2>1, Zenon
<1>5. /\ p3 \in Seq(Nat) /\ Len(p3) = 1 + m + n + c
      /\ \A j \in 1 .. 1 + m + n : p3[j] = p2[j]
      /\ \A j \in 1 .. c : p3[1 + m + n + j] = C[j]
  <2>1. /\ p3 \in Seq(Nat) /\ Len(p3) = Len(p2) + c
        /\ \A j \in 1 .. Len(p2) : p3[j] = p2[j]
        /\ \A j \in 1 .. c : p3[Len(p2) + j] = C[j]
    BY <1>4, TwoJoined DEF p3, c, Joins2
  <2>2. QED
    BY <1>4, <2>1, Zenon
<1>6. /\ text \in Seq(Nat) /\ Len(text) = 1 + m + n + c + 1
      /\ \A j \in 1 .. 1 + m + n + c : text[j] = p3[j]
      /\ text[1 + m + n + c + 1] = CLOSE
  <2>1. /\ text \in Seq(Nat) /\ Len(text) = Len(p3) + Len(z)
        /\ \A j \in 1 .. Len(p3) : text[j] = p3[j]
        /\ \A j \in 1 .. Len(z) : text[Len(p3) + j] = z[j]
    BY <1>2, <1>5, TwoJoined DEF text, Joins2
  <2>2. 1 \in 1 .. Len(z)
    BY <1>2
  <2>3. QED
    BY <1>2, <1>5, <2>1, <2>2, Zenon
<1>7. 1 + m + n + c + 1 = m + n + c + 2
  BY <1>2
<1>8. \A j \in 1 .. 1 + m : text[j] = p1[j]
  <2>1. \A j \in 1 .. 1 + m : j \in 1 .. 1 + m + n /\ j \in 1 .. 1 + m + n + c
    BY <1>2
  <2>2. QED
    BY <1>4, <1>5, <1>6, <2>1
<1>9. 1 \in 1 .. 1 + m /\ \A j \in 1 .. m : 1 + j \in 1 .. 1 + m
  BY <1>2
<1>10. text[1] = OPEN /\ \A j \in 1 .. m : text[1 + j] = M[j]
  BY <1>3, <1>8, <1>9
<1>11. \A j \in 1 .. n : text[1 + m + j] = D[j]
  <2>1. \A j \in 1 .. n : 1 + m + j \in 1 .. 1 + m + n /\ 1 + m + j \in 1 .. 1 + m + n + c
    BY <1>2
  <2>2. QED
    BY <1>4, <1>5, <1>6, <2>1, Zenon
<1>12. \A j \in 1 .. c : text[1 + m + n + j] = C[j]
  <2>1. \A j \in 1 .. c : 1 + m + n + j \in 1 .. 1 + m + n + c
    BY <1>2
  <2>2. QED
    BY <1>5, <1>6, <2>1, Zenon
<1>13. QED
  BY <1>1, <1>6, <1>7, <1>10, <1>11, <1>12 DEF m, n, c, AreBraces

\* A directive that stands in a format.
Stands(S, p, e, g, M, D, C, big) ==
  /\ HasDirective(S, p, e, g, big)
  /\ e = p + 1 + Len(M) /\ g = e + Len(D)
  /\ \A j \in 1 .. Len(M) : S[p + j] = M[j]
  /\ StandsAt(S, e, D)
  /\ S[g] = C[1]
  /\ BehindDirective(g, big) = p + Len(InBraces(M, D, C))

\* A directive in a format can be found there part by part.
LEMMA FormStands ==
  ASSUME NEW M, NEW D, NEW C, NEW big, IsForm(M, D, C, big),
         NEW S, NEW p, Holds(S, p, InBraces(M, D, C))
  PROVE  Stands(S, p, p + 1 + Len(M), p + 1 + Len(M) + Len(D), M, D, C, big)
<1> DEFINE text == InBraces(M, D, C)
           m == Len(M)
           n == Len(D)
           c == Len(C)
           e == p + 1 + m
           g == p + 1 + m + n
<1>1. /\ M \in Seq(Nat) /\ \A j \in 1 .. m : M[j] \in Marks
      /\ D \in Seq(Nat) /\ \A j \in 1 .. n : IsDigit(D[j])
      /\ D # <<>> => D[1] # 48
      /\ C \in Seq(Nat) /\ C[1] \notin Marks /\ ~IsDigit(C[1])
      /\ big \in BOOLEAN
      /\ IF big THEN c = 2 /\ C[2] = LONG ELSE c = 1
  BY DEF IsForm
<1>2. /\ m \in Nat /\ n \in Nat /\ c \in Nat /\ p \in Nat /\ p >= 1
      /\ S \in Seq(Nat) /\ Len(S) \in Nat
  BY <1>1 DEF Holds
<1>3. /\ text \in Seq(Nat) /\ Len(text) = m + n + c + 2
      /\ text[1] = OPEN
      /\ \A j \in 1 .. m : text[1 + j] = M[j]
      /\ \A j \in 1 .. n : text[1 + m + j] = D[j]
      /\ \A j \in 1 .. c : text[1 + m + n + j] = C[j]
      /\ text[m + n + c + 2] = CLOSE
  <2>1. AreBraces(text, M, D, C)
    BY <1>1, BracesAt
  <2>2. QED
    BY <2>1, Zenon DEF AreBraces
<1>4. p + Len(text) =< Len(S) + 1 /\ \A j \in 1 .. Len(text) : S[p + j - 1] = text[j]
  BY DEF Holds, StandsAt
<1> HIDE DEF text, m, n, c
<1>5. S[p] = OPEN
  <2>1. 1 \in 1 .. Len(text) /\ p + 1 - 1 = p
    BY <1>2, <1>3
  <2>2. QED
    BY <1>3, <1>4, <2>1
<1>6. \A j \in 1 .. m : S[p + j] = M[j]
  <2>1. SUFFICES ASSUME NEW j \in 1 .. m PROVE S[p + j] = M[j]
    OBVIOUS
  <2>2. 1 + j \in 1 .. Len(text) /\ p + (1 + j) - 1 = p + j
    BY <1>2, <1>3
  <2>3. QED
    BY <1>3, <1>4, <2>2
<1>7. \A j \in 1 .. n : S[e + j - 1] = D[j]
  <2>1. SUFFICES ASSUME NEW j \in 1 .. n PROVE S[e + j - 1] = D[j]
    OBVIOUS
  <2>2. 1 + m + j \in 1 .. Len(text) /\ p + (1 + m + j) - 1 = e + j - 1
    BY <1>2, <1>3
  <2>3. QED
    BY <1>3, <1>4, <2>2
<1>8. \A j \in 1 .. c : S[g + j - 1] = C[j]
  <2>1. SUFFICES ASSUME NEW j \in 1 .. c PROVE S[g + j - 1] = C[j]
    OBVIOUS
  <2>2. 1 + m + n + j \in 1 .. Len(text) /\ p + (1 + m + n + j) - 1 = g + j - 1
    BY <1>2, <1>3
  <2>3. QED
    BY <1>3, <1>4, <2>2
<1>9. S[g + c] = CLOSE /\ g + c =< Len(S)
  <2>1. m + n + c + 2 \in 1 .. Len(text) /\ p + (m + n + c + 2) - 1 = g + c
    BY <1>2, <1>3
  <2>2. QED
    BY <1>2, <1>3, <1>4, <2>1
<1>10. e \in Nat /\ g \in Nat /\ p + 1 =< e /\ e =< g /\ e = p + 1 + m /\ g = e + n
  BY <1>2
<1>11. BehindDirective(g, big) = p + Len(text)
  <2>1. CASE big
    BY <1>1, <1>2, <1>3, <2>1 DEF BehindDirective
  <2>2. CASE ~big
    BY <1>1, <1>2, <1>3, <2>2 DEF BehindDirective
  <2>3. QED
    BY <2>1, <2>2
<1>12. S[g] = C[1]
  <2>1. 1 \in 1 .. c /\ g + 1 - 1 = g
    BY <1>1, <1>10
  <2>2. QED
    BY <1>8, <2>1
<1>13. \A k \in p + 1 .. e - 1 : S[k] \in Marks
  <2>1. SUFFICES ASSUME NEW k \in p + 1 .. e - 1 PROVE S[k] \in Marks
    OBVIOUS
  <2>2. k - p \in 1 .. m /\ p + (k - p) = k
    BY <1>2
  <2>3. QED
    BY <1>1, <1>6, <2>2
<1>14. \A k \in e .. g - 1 : IsDigit(S[k])
  <2>1. SUFFICES ASSUME NEW k \in e .. g - 1 PROVE IsDigit(S[k])
    OBVIOUS
  <2>2. k - e + 1 \in 1 .. n /\ e + (k - e + 1) - 1 = k
    BY <1>2
  <2>3. QED
    BY <1>1, <1>7, <2>2
<1>15. S[e] \notin Marks
  <2>1. CASE n = 0
    <3>1. e = g
      BY <1>2, <2>1
    <3>2. QED
      BY <1>1, <1>12, <3>1
  <2>2. CASE n # 0
    <3>1. 1 \in 1 .. n /\ e + 1 - 1 = e
      BY <1>2, <2>2
    <3>2. S[e] = D[1] /\ IsDigit(D[1]) /\ D # <<>>
      BY <1>1, <1>7, <2>2, <3>1 DEF n
    <3>3. D[1] # 48
      BY <1>1, <3>2
    <3>4. \A x : IsDigit(x) /\ x # 48 => x \notin Marks
      BY DEF IsDigit, ZERO, Marks, UNDERSCORE
    <3>5. QED
      BY <3>2, <3>3, <3>4
  <2>3. QED
    BY <2>1, <2>2
<1>16. IF big THEN S[g + 1] = LONG /\ S[g + 2] = CLOSE /\ g + 2 =< Len(S)
              ELSE S[g + 1] = CLOSE /\ g + 1 =< Len(S)
  <2>1. CASE big
    <3>1. c = 2 /\ C[2] = LONG /\ 2 \in 1 .. c /\ g + 2 - 1 = g + 1
      BY <1>1, <1>10, <2>1
    <3>2. QED
      BY <1>8, <1>9, <2>1, <3>1
  <2>2. CASE ~big
    BY <1>1, <1>9, <2>2
  <2>3. QED
    BY <2>1, <2>2
<1>17. HasDirective(S, p, e, g, big)
  <2> HIDE DEF e, g
  <2>1. QED
    BY <1>1, <1>2, <1>5, <1>10, <1>12, <1>13, <1>14, <1>15, <1>16 DEF HasDirective
<1>18. QED
  BY <1>6, <1>7, <1>10, <1>11, <1>12, <1>17 DEF Stands, StandsAt, m, n, c, text

\* The flags that marks stand for.
MarkFlags(M) == {FlagOf[m] : m \in {M[j] : j \in 1 .. Len(M)} \ {UNDERSCORE}}

\* The flag of the letter for long numbers.
BigFlags(big) == IF big THEN {"BIG_NUMBER"} ELSE {}

\* The marks of a directive in the format.
MarksAre(S, p, e, M) ==
  /\ {S[k] : k \in p + 1 .. e - 1} = {M[j] : j \in 1 .. Len(M)}
  /\ Underscores(S, p, e) = {k \in p + 1 .. e - 1 : M[k - p] = UNDERSCORE}
  /\ e - 1 = p + Len(M)

\* The marks of a directive in a format are its marks.
LEMMA MarksStand ==
  ASSUME NEW S, NEW p, NEW e, NEW g, NEW M, NEW D, NEW C, NEW big, Stands(S, p, e, g, M, D, C, big),
         p \in Nat, Len(M) \in Nat
  PROVE  MarksAre(S, p, e, M)
<1> DEFINE m == Len(M)
<1>1. e = p + 1 + m /\ \A j \in 1 .. m : S[p + j] = M[j]
  BY DEF Stands
<1>2. \A k \in p + 1 .. e - 1 : k - p \in 1 .. m /\ p + (k - p) = k
  BY <1>1
<1>3. \A j \in 1 .. m : p + j \in p + 1 .. e - 1
  BY <1>1
<1>4. \A k \in p + 1 .. e - 1 : S[k] = M[k - p]
  BY <1>1, <1>2
<1>5. {S[k] : k \in p + 1 .. e - 1} = {M[j] : j \in 1 .. m}
  <2>1. ASSUME NEW x \in {S[k] : k \in p + 1 .. e - 1} PROVE x \in {M[j] : j \in 1 .. m}
    BY <1>2, <1>4
  <2>2. ASSUME NEW x \in {M[j] : j \in 1 .. m} PROVE x \in {S[k] : k \in p + 1 .. e - 1}
    BY <1>1, <1>3
  <2>3. QED
    BY <2>1, <2>2
<1>6. Underscores(S, p, e) = {k \in p + 1 .. e - 1 : M[k - p] = UNDERSCORE}
  BY <1>4 DEF Underscores
<1>7. e - 1 = p + m
  BY <1>1
<1>8. QED
  BY <1>5, <1>6, <1>7 DEF MarksAre

\* A directive without an underscore.
LEMMA PlainDirective ==
  ASSUME NEW M, NEW D, NEW C, NEW big, IsForm(M, D, C, big), \A j \in 1 .. Len(M) : M[j] # UNDERSCORE,
         NEW S, NEW p, Holds(S, p, InBraces(M, D, C)), NEW arguments, NEW used \in Nat,
         NEW w, IsByte(w), D = <<>> \/ IsDecimal(D, w)
  PROVE  Directive(S, p + 1, arguments, used) =
           [conversion |-> C[1], used |-> used, width |-> IF D = <<>> THEN 0 ELSE w,
            flags |-> MarkFlags(M) \cup (IF D = <<>> THEN {} ELSE {"SIZE_GIVEN"}) \cup BigFlags(big),
            next |-> p + Len(InBraces(M, D, C))]
<1> DEFINE m == Len(M)
           e == p + 1 + m
           g == p + 1 + m + Len(D)
<1>1. /\ Stands(S, p, e, g, M, D, C, big)
  BY FormStands
<1>2. /\ m \in Nat /\ p \in Nat /\ e \in Nat /\ Len(D) \in Nat /\ D \in Seq(Nat)
  BY DEF IsForm, Holds
<1>3. g = e + Len(D) /\ (g > e <=> D # <<>>)
  BY <1>2
<1> HIDE DEF m, e, g
<1>4. /\ {S[k] : k \in p + 1 .. e - 1} = {M[j] : j \in 1 .. m}
      /\ Underscores(S, p, e) = {k \in p + 1 .. e - 1 : M[k - p] = UNDERSCORE}
      /\ e - 1 = p + m
  <2>1. MarksAre(S, p, e, M)
    BY <1>1, <1>2, MarksStand DEF m
  <2>2. QED
    BY <2>1 DEF MarksAre, m
<1>5. Underscores(S, p, e) = {}
  <2>1. \A k \in p + 1 .. e - 1 : k - p \in 1 .. m
    BY <1>2, <1>4
  <2>2. QED
    BY <1>4, <2>1 DEF m
<1>6. Cardinality(Underscores(S, p, e)) = 0 /\ used + 0 = used
  BY <1>5, FS_EmptySet
<1>7. Given(S, p, e, arguments, used) = 0
  BY <1>6 DEF Given
<1>8. FlagsGiven(S, p, e, g, big, arguments, used)
        = MarkFlags(M) \cup (IF D = <<>> THEN {} ELSE {"SIZE_GIVEN"}) \cup BigFlags(big)
  <2>1. used + Cardinality(Underscores(S, p, e)) = used /\ used + 1 .. used = {}
    BY <1>6
  <2>2. FlagsGiven(S, p, e, g, big, arguments, used)
          = {FlagOf[x] : x \in {S[k] : k \in p + 1 .. e - 1} \ {UNDERSCORE}}
              \cup (IF \E i \in used + 1 .. used : arguments[i] < 0
                    THEN {"SIZE_GIVEN", "LEFT_JUSTIFY"} ELSE {})
              \cup (IF g > e THEN {"SIZE_GIVEN"} ELSE {})
              \cup (IF big THEN {"BIG_NUMBER"} ELSE {})
    BY <2>1, Zenon DEF FlagsGiven
  <2>3. {FlagOf[x] : x \in {S[k] : k \in p + 1 .. e - 1} \ {UNDERSCORE}} = MarkFlags(M)
    BY <1>4, Zenon DEF MarkFlags, m
  <2>4. ~\E i \in used + 1 .. used : arguments[i] < 0
    BY <2>1
  <2>5. QED
    BY <1>3, <2>2, <2>3, <2>4, Zenon DEF BigFlags
<1>9. WidthBetween(S, e, g, 0) = IF D = <<>> THEN 0 ELSE w
  <2>1. StandsAt(S, e, D) /\ e \in Nat
    BY <1>1, <1>2 DEF Stands
  <2>2. WidthBetween(S, e, e + Len(D), 0) = IF D = <<>> THEN 0 ELSE w
    BY <2>1, WidthRead
  <2>3. QED
    BY <1>3, <2>2
<1>10. HasDirective(S, p, e, g, big) /\ S[g] = C[1] /\ BehindDirective(g, big) = p + Len(InBraces(M, D, C))
  BY <1>1 DEF Stands
<1>11. Directive(S, p + 1, arguments, used) =
         [conversion |-> S[g], used |-> used + Cardinality(Underscores(S, p, e)),
          width |-> WidthBetween(S, e, g, Given(S, p, e, arguments, used)),
          flags |-> FlagsGiven(S, p, e, g, big, arguments, used), next |-> BehindDirective(g, big)]
  BY <1>10, DirectiveIs
<1>12. QED
  BY <1>6, <1>7, <1>8, <1>9, <1>10, <1>11

\* An underscore in front of the other marks takes the width from the arguments.
LEMMA TakenDirective ==
  ASSUME NEW M, NEW C, NEW big, IsForm(M, <<>>, C, big), Len(M) >= 1, M[1] = UNDERSCORE,
         \A j \in 2 .. Len(M) : M[j] # UNDERSCORE,
         NEW S, NEW p, Holds(S, p, InBraces(M, <<>>, C)), NEW arguments, NEW used \in Nat,
         arguments[used + 1] \in Nat
  PROVE  Directive(S, p + 1, arguments, used) =
           [conversion |-> C[1], used |-> used + 1, width |-> arguments[used + 1],
            flags |-> MarkFlags(M) \cup {} \cup BigFlags(big),
            next |-> p + Len(InBraces(M, <<>>, C))]
<1> DEFINE m == Len(M)
           D == <<>>
           e == p + 1 + m
           g == p + 1 + m + Len(D)
           w == arguments[used + 1]
<1>1. Stands(S, p, e, g, M, D, C, big)
  BY FormStands
<1>2. m \in Nat /\ p \in Nat /\ e \in Nat /\ Len(D) = 0
  BY DEF IsForm, Holds
<1>3. g = e + Len(D) /\ g = e
  BY <1>2
<1> HIDE DEF m, e, g
<1>4. /\ {S[k] : k \in p + 1 .. e - 1} = {M[j] : j \in 1 .. m}
      /\ Underscores(S, p, e) = {k \in p + 1 .. e - 1 : M[k - p] = UNDERSCORE}
      /\ e - 1 = p + m
  <2>1. MarksAre(S, p, e, M)
    BY <1>1, <1>2, MarksStand DEF m
  <2>2. QED
    BY <2>1 DEF MarksAre, m
<1>5. Underscores(S, p, e) = {p + 1}
  <2>1. p + 1 \in p + 1 .. e - 1 /\ (p + 1) - p = 1
    BY <1>2, <1>4 DEF m
  <2>2. \A k \in p + 1 .. e - 1 : k = p + 1 \/ k - p \in 2 .. m
    BY <1>2, <1>4
  <2>3. QED
    BY <1>4, <2>1, <2>2 DEF m
<1>6. Cardinality(Underscores(S, p, e)) = 1
  BY <1>5, FS_Singleton
<1>7. used + 1 # used /\ used + 1 .. used + 1 = {used + 1} /\ w \in Nat /\ ~(w < 0)
  OBVIOUS
<1> HIDE DEF w
<1>8. Given(S, p, e, arguments, used) = w
  BY <1>6, <1>7 DEF Given, w
<1>9. FlagsGiven(S, p, e, g, big, arguments, used) = MarkFlags(M) \cup {} \cup BigFlags(big)
  <2>1. FlagsGiven(S, p, e, g, big, arguments, used)
          = {FlagOf[x] : x \in {S[k] : k \in p + 1 .. e - 1} \ {UNDERSCORE}}
              \cup (IF \E i \in used + 1 .. used + 1 : arguments[i] < 0
                    THEN {"SIZE_GIVEN", "LEFT_JUSTIFY"} ELSE {})
              \cup (IF g > e THEN {"SIZE_GIVEN"} ELSE {})
              \cup (IF big THEN {"BIG_NUMBER"} ELSE {})
    BY <1>6, Zenon DEF FlagsGiven
  <2>2. {FlagOf[x] : x \in {S[k] : k \in p + 1 .. e - 1} \ {UNDERSCORE}} = MarkFlags(M)
    BY <1>4, Zenon DEF MarkFlags, m
  <2>3. ~\E i \in used + 1 .. used + 1 : arguments[i] < 0
    BY <1>7 DEF w
  <2>4. ~(g > e)
    BY <1>2, <1>3
  <2>5. QED
    BY <2>1, <2>2, <2>3, <2>4 DEF BigFlags
<1>10. WidthBetween(S, e, g, w) = w
  <2>1. WidthBetween(S, e, e, w) = w
    BY <1>2, WidthGiven
  <2>2. QED
    BY <1>3, <2>1
<1>11. HasDirective(S, p, e, g, big) /\ S[g] = C[1] /\ BehindDirective(g, big) = p + Len(InBraces(M, D, C))
  BY <1>1 DEF Stands
<1>12. Directive(S, p + 1, arguments, used) =
         [conversion |-> S[g], used |-> used + Cardinality(Underscores(S, p, e)),
          width |-> WidthBetween(S, e, g, Given(S, p, e, arguments, used)),
          flags |-> FlagsGiven(S, p, e, g, big, arguments, used), next |-> BehindDirective(g, big)]
  BY <1>11, DirectiveIs
<1>13. QED
  BY <1>6, <1>8, <1>9, <1>10, <1>11, <1>12 DEF w

\* The flags of the conversions that write numbers.
LEMMA KnownFlags ==
  /\ FlagOf[48] = "ZERO_PAD" /\ FlagOf[60] = "LEFT_JUSTIFY" /\ FlagOf[43] = "ALWAYS_SIGN"
  /\ DOMAIN NumberFlags = {115, 104, 72, 98, 117}
  /\ NumberFlags[115] = {"SIGNED"} /\ NumberFlags[104] = {"HEX"} /\ NumberFlags[72] = {"HEX", "UPPERCASE"}
  /\ NumberFlags[98] = {"BINARY"} /\ NumberFlags[117] = {}
<1>1. FlagOf[48] = "ZERO_PAD" /\ FlagOf[60] = "LEFT_JUSTIFY" /\ FlagOf[43] = "ALWAYS_SIGN"
  BY DEF FlagOf
<1>2. DOMAIN NumberFlags = {115, 104, 72, 98, 117}
  BY DEF NumberFlags
<1>3. /\ NumberFlags[115] = {"SIGNED"} /\ NumberFlags[104] = {"HEX"} /\ NumberFlags[72] = {"HEX", "UPPERCASE"}
      /\ NumberFlags[98] = {"BINARY"} /\ NumberFlags[117] = {}
  BY DEF NumberFlags
<1>4. QED
  BY <1>1, <1>2, <1>3

\* The flags of no mark, or of one.
LEMMA FewMarks ==
  ASSUME NEW x \in Nat
  PROVE  /\ MarkFlags(<<>>) = {}
         /\ x # UNDERSCORE => MarkFlags(<<x>>) = {FlagOf[x]}
<1>1. MarkFlags(<<>>) = {}
  <2>1. Len(<<>>) = 0 /\ 1 .. 0 = {}
    OBVIOUS
  <2>2. QED
    BY <2>1 DEF MarkFlags
<1>2. ASSUME x # UNDERSCORE PROVE MarkFlags(<<x>>) = {FlagOf[x]}
  <2>1. Len(<<x>>) = 1 /\ 1 .. 1 = {1} /\ <<x>>[1] = x
    OBVIOUS
  <2> DEFINE s == <<x>>
  <2> HIDE DEF s
  <2>2. {s[j] : j \in 1 .. Len(s)} = {x}
    BY <2>1 DEF s
  <2>3. MarkFlags(s) = {FlagOf[x]}
    BY <1>2, <2>2 DEF MarkFlags
  <2>4. QED
    BY <2>3 DEF s
<1>3. QED
  BY <1>1, <1>2

\* The flags of a directive, whatever its width.
Flags(d) == MarkFlags(d.marks) \cup BigFlags(Len(d.conversion) = 2) \cup NumberFlags[d.conversion[1]]

\* What there is to know about the directives.
Known(d) ==
  /\ IsForm(d.marks, <<>>, d.conversion, Len(d.conversion) = 2)
  /\ \A j \in 1 .. Len(d.marks) : d.marks[j] # UNDERSCORE
  /\ d.conversion[1] \in DOMAIN NumberFlags /\ d.conversion[1] \notin {116, 99, OPEN}
  /\ "NO_SIGN" \notin Flags(d) /\ ("SIGNED" \in Flags(d) <=> d.signed)
  /\ Base(Flags(d)) = d.base
  /\ ~("LEFT_JUSTIFY" \in Flags(d) /\ "ZERO_PAD" \in Flags(d))
  /\ d.conversion[1] = 117 => ~d.signed
  /\ "BIG_NUMBER" \in Flags(d) <=> "BIG_NUMBER" \in MarkFlags(d.marks) \cup BigFlags(Len(d.conversion) = 2)
  /\ d.modulus = IF "BIG_NUMBER" \in Flags(d) THEN WordModulus * WordModulus ELSE WordModulus

\* With one mark at most, and a letter or two, a directive has the form.
LEMMA FewMarksForm ==
  ASSUME NEW M, M = <<>> \/ (\E x \in {48, 60, 43} : M = <<x>>),
         NEW c \in {115, 104, 72, 98, 117}, NEW C, C = <<c>> \/ C = <<c, LONG>>
  PROVE  /\ IsForm(M, <<>>, C, Len(C) = 2) /\ \A j \in 1 .. Len(M) : M[j] # UNDERSCORE
         /\ C[1] = c /\ (Len(C) = 2 <=> C # <<c>>)
<1>1. M \in Seq(Nat) /\ \A j \in 1 .. Len(M) : M[j] \in {48, 60, 43}
  <2>1. CASE M = <<>>
    BY <2>1
  <2>2. CASE \E x \in {48, 60, 43} : M = <<x>>
    <3>1. PICK x \in {48, 60, 43} : M = <<x>>
      BY <2>2
    <3>2. <<x>> \in Seq(Nat) /\ Len(<<x>>) = 1 /\ <<x>>[1] = x
      BY x \in Nat
    <3>3. \A j \in 1 .. 1 : j = 1
      OBVIOUS
    <3>4. QED
      BY <3>1, <3>2, <3>3
  <2>3. QED
    BY <2>1, <2>2
<1>2. \A j \in 1 .. Len(M) : M[j] \in Marks /\ M[j] # UNDERSCORE
  BY <1>1 DEF Marks, UNDERSCORE
<1>3. c \in Nat /\ c \notin Marks /\ ~IsDigit(c)
  BY DEF Marks, IsDigit, ZERO, UNDERSCORE
<1>4. C \in Seq(Nat) /\ C[1] = c /\ (Len(C) = 2 <=> C # <<c>>) /\ IF Len(C) = 2 THEN C[2] = LONG ELSE Len(C) = 1
  <2>1. /\ <<c>> \in Seq(Nat) /\ Len(<<c>>) = 1 /\ <<c>>[1] = c
        /\ <<c, LONG>> \in Seq(Nat) /\ Len(<<c, LONG>>) = 2 /\ <<c, LONG>>[1] = c /\ <<c, LONG>>[2] = LONG
    BY <1>3 DEF LONG
  <2>2. CASE C = <<c>>
    BY <2>1, <2>2
  <2>3. CASE C = <<c, LONG>>
    BY <2>1, <2>3
  <2>4. QED
    BY <2>2, <2>3
<1>5. <<>> \in Seq(Nat) /\ \A j \in 1 .. Len(<<>>) : FALSE
  OBVIOUS
<1>6. QED
  BY <1>1, <1>2, <1>3, <1>4, <1>5 DEF IsForm

\* The flags of a letter are what its conversion says.
FlagsFit(c) ==
  /\ c.letter \in {115, 104, 72, 98, 117} /\ c.base \in {2, 10, 16}
  /\ "SIGNED" \in NumberFlags[c.letter] <=> c.signed
  /\ "HEX" \in NumberFlags[c.letter] <=> c.base = 16
  /\ "BINARY" \in NumberFlags[c.letter] <=> c.base = 2
  /\ NumberFlags[c.letter] \subseteq {"SIGNED", "HEX", "UPPERCASE", "BINARY"}
  /\ c.letter = 117 => ~c.signed

LEMMA ConversionsFit == \A c \in NumberConversions : FlagsFit(c)
<1>1. SUFFICES ASSUME NEW c \in NumberConversions PROVE FlagsFit(c)
  OBVIOUS
<1>2. ASSUME c = Conversion(115, 10, TRUE) PROVE FlagsFit(c)
  <2>1. c.letter = 115 /\ c.base = 10 /\ c.signed = TRUE
    BY <1>2 DEF Conversion
  <2>2. QED
    BY <2>1, KnownFlags DEF FlagsFit
<1>3. ASSUME c = Conversion(104, 16, FALSE) PROVE FlagsFit(c)
  <2>1. c.letter = 104 /\ c.base = 16 /\ c.signed = FALSE
    BY <1>3 DEF Conversion
  <2>2. QED
    BY <2>1, KnownFlags DEF FlagsFit
<1>4. ASSUME c = Conversion(72, 16, FALSE) PROVE FlagsFit(c)
  <2>1. c.letter = 72 /\ c.base = 16 /\ c.signed = FALSE
    BY <1>4 DEF Conversion
  <2>2. QED
    BY <2>1, KnownFlags DEF FlagsFit
<1>5. ASSUME c = Conversion(98, 2, FALSE) PROVE FlagsFit(c)
  <2>1. c.letter = 98 /\ c.base = 2 /\ c.signed = FALSE
    BY <1>5 DEF Conversion
  <2>2. QED
    BY <2>1, KnownFlags DEF FlagsFit
<1>6. ASSUME c = Conversion(117, 10, FALSE) PROVE FlagsFit(c)
  <2>1. c.letter = 117 /\ c.base = 10 /\ c.signed = FALSE
    BY <1>6 DEF Conversion
  <2>2. QED
    BY <2>1, KnownFlags DEF FlagsFit
<1>7. QED
  BY <1>2, <1>3, <1>4, <1>5, <1>6, Zenon DEF NumberConversions

\* A directive is a mark or none, a conversion, and 'l' or not.
IsMade(d, M, c, big) ==
  d = [marks |-> M, conversion |-> IF big THEN <<c.letter, LONG>> ELSE <<c.letter>>,
       base |-> c.base, signed |-> c.signed,
       modulus |-> IF big THEN WordModulus * WordModulus ELSE WordModulus]

\* A directive made of these parts is known.
LEMMA DirectiveKnown ==
  ASSUME NEW d, NEW M \in {<<>>, << 60 >>, << 48 >>, << 43 >>}, NEW c \in NumberConversions, NEW big \in BOOLEAN,
         IsMade(d, M, c, big)
  PROVE  Known(d)
<1> DEFINE C == IF big THEN <<c.letter, LONG>> ELSE <<c.letter>>
           m == IF big THEN WordModulus * WordModulus ELSE WordModulus
           L == NumberFlags[c.letter]
           X == MarkFlags(M)
           B == IF big THEN {"BIG_NUMBER"} ELSE {}
<1>1. d.marks = M /\ d.conversion = C /\ d.base = c.base /\ d.signed = c.signed /\ d.modulus = m
  BY Zenon DEF IsMade
<1>2. FlagsFit(c)
  BY ConversionsFit
<1>3. X \in {{}, {"LEFT_JUSTIFY"}, {"ZERO_PAD"}, {"ALWAYS_SIGN"}}
  <2>1. 60 \in Nat /\ 48 \in Nat /\ 43 \in Nat /\ 60 # UNDERSCORE /\ 48 # UNDERSCORE /\ 43 # UNDERSCORE
    BY DEF UNDERSCORE
  <2>2. /\ MarkFlags(<<>>) = {} /\ MarkFlags(<<60>>) = {"LEFT_JUSTIFY"}
        /\ MarkFlags(<<48>>) = {"ZERO_PAD"} /\ MarkFlags(<<43>>) = {"ALWAYS_SIGN"}
    BY <2>1, FewMarks, KnownFlags
  <2>3. QED
    BY <2>2, Zenon
<1>4. M = <<>> \/ (\E x \in {48, 60, 43} : M = <<x>>)
  OBVIOUS
<1>5. C = <<c.letter>> \/ C = <<c.letter, LONG>>
  OBVIOUS
<1>6. big <=> C # <<c.letter>>
  BY Len(<<c.letter, LONG>>) = 2, Len(<<c.letter>>) = 1
<1> HIDE DEF C, m, X
<1>7. /\ IsForm(M, <<>>, C, Len(C) = 2) /\ \A j \in 1 .. Len(M) : M[j] # UNDERSCORE
      /\ C[1] = c.letter /\ (Len(C) = 2 <=> C # <<c.letter>>)
  <2>1. c.letter \in {115, 104, 72, 98, 117}
    BY <1>2 DEF FlagsFit
  <2>2. QED
    BY <1>4, <1>5, <2>1, FewMarksForm
<1>8. BigFlags(Len(C) = 2) = B
  BY <1>6, <1>7 DEF BigFlags
<1>9. Flags(d) = X \cup B \cup L
  BY <1>1, <1>7, <1>8, Zenon DEF Flags, X
<1>10. MarkFlags(d.marks) \cup BigFlags(Len(d.conversion) = 2) = X \cup B
  BY <1>1, <1>8, Zenon DEF X
<1>11. d.conversion[1] = c.letter
  BY <1>1, <1>7, Zenon
<1>12. c.letter \in DOMAIN NumberFlags /\ c.letter \notin {116, 99, OPEN}
  BY <1>2, KnownFlags DEF OPEN, FlagsFit
<1>13. /\ "SIGNED" \in L <=> c.signed
       /\ "HEX" \in L <=> c.base = 16
       /\ "BINARY" \in L <=> c.base = 2
       /\ L \subseteq {"SIGNED", "HEX", "UPPERCASE", "BINARY"} /\ c.base \in {2, 10, 16}
       /\ c.letter = 117 => ~c.signed
  BY <1>2, Zenon DEF FlagsFit
<1> DEFINE F == X \cup B \cup L
<1> HIDE DEF L
<1>14. /\ "SIGNED" \in F <=> "SIGNED" \in L
       /\ "HEX" \in F <=> "HEX" \in L
       /\ "BINARY" \in F <=> "BINARY" \in L
       /\ "NO_SIGN" \notin F /\ ~("LEFT_JUSTIFY" \in F /\ "ZERO_PAD" \in F)
       /\ "BIG_NUMBER" \in F <=> big
       /\ "BIG_NUMBER" \in X \cup B <=> big
  BY <1>3, <1>13
<1> HIDE DEF F, B
<1>15. Base(F) = c.base
  BY <1>13, <1>14 DEF Base
<1>16. m = IF "BIG_NUMBER" \in F THEN WordModulus * WordModulus ELSE WordModulus
  BY <1>14 DEF m
<1>17. Flags(d) = F
  BY <1>9 DEF F
<1>18. IsForm(d.marks, <<>>, d.conversion, Len(d.conversion) = 2) /\ \A j \in 1 .. Len(d.marks) : d.marks[j] # UNDERSCORE
  BY <1>1, <1>7, Zenon
<1>19. /\ d.conversion[1] \in DOMAIN NumberFlags /\ d.conversion[1] \notin {116, 99, OPEN}
       /\ d.conversion[1] = 117 => ~d.signed
  BY <1>1, <1>11, <1>12, <1>13, Zenon
<1>20. /\ "NO_SIGN" \notin Flags(d) /\ ("SIGNED" \in Flags(d) <=> d.signed)
       /\ ~("LEFT_JUSTIFY" \in Flags(d) /\ "ZERO_PAD" \in Flags(d))
       /\ "BIG_NUMBER" \in Flags(d) <=> "BIG_NUMBER" \in MarkFlags(d.marks) \cup BigFlags(Len(d.conversion) = 2)
  <2>1. "SIGNED" \in F <=> d.signed
    BY <1>1, <1>13, <1>14
  <2>2. "BIG_NUMBER" \in F <=> "BIG_NUMBER" \in MarkFlags(d.marks) \cup BigFlags(Len(d.conversion) = 2)
    BY <1>10, <1>14
  <2>3. QED
    BY <1>14, <1>17, <2>1, <2>2, Zenon
<1>21. Base(Flags(d)) = d.base /\ d.modulus = IF "BIG_NUMBER" \in Flags(d) THEN WordModulus * WordModulus ELSE WordModulus
  BY <1>1, <1>15, <1>16, <1>17, Zenon
<1>22. QED
  BY <1>18, <1>19, <1>20, <1>21, Zenon DEF Known

\* So every directive of the check is.
LEMMA DirectivesKnown == \A d \in Directives : Known(d)
<1>1. SUFFICES ASSUME NEW d \in Directives PROVE Known(d)
  OBVIOUS
<1>2. PICK M \in {<<>>, <<60>>, <<48>>, <<43>>}, c \in NumberConversions, big \in BOOLEAN : IsMade(d, M, c, big)
  BY DEF Directives, IsMade
<1>3. QED
  BY <1>2, DirectiveKnown, Zenon

\* What a width adds to the flags; only a width of zero is taken for a mark.
IsExtra(X, w) == X \subseteq {"ZERO_PAD", "SIZE_GIVEN"} /\ ("ZERO_PAD" \in X => w = 0)

\* It changes nothing in the text of a number.
LEMMA SameText ==
  ASSUME NEW value \in Int, NEW w \in Nat, NEW R, NEW X, IsExtra(X, w)
  PROVE  NumberText(value, w, R \cup X) = NumberText(value, w, R)
<1> DEFINE F == R \cup X
           sign == SignOf(value, R)
           digits == DigitsFor(value, R)
           pad == Pad(w, sign, digits)
           left == "LEFT_JUSTIFY" \in R
           char(f) == IF "ZERO_PAD" \in f THEN ZERO ELSE 32
<1>1. /\ "SIGNED" \in F <=> "SIGNED" \in R
      /\ "NO_SIGN" \in F <=> "NO_SIGN" \in R
      /\ "ALWAYS_SIGN" \in F <=> "ALWAYS_SIGN" \in R
      /\ "HEX" \in F <=> "HEX" \in R
      /\ "BINARY" \in F <=> "BINARY" \in R
      /\ "UPPERCASE" \in F <=> "UPPERCASE" \in R
      /\ "BIG_NUMBER" \in F <=> "BIG_NUMBER" \in R
      /\ "LEFT_JUSTIFY" \in F <=> "LEFT_JUSTIFY" \in R
  BY DEF IsExtra
<1>2. w # 0 => ("ZERO_PAD" \in F <=> "ZERO_PAD" \in R)
  BY DEF IsExtra
<1> HIDE DEF F
<1>3. Minus(value, F) = Minus(value, R) /\ Base(F) = Base(R)
  BY <1>1, Zenon DEF Minus, Base
<1>4. SignOf(value, F) = sign
  BY <1>1, <1>3, Zenon DEF SignOf
<1>5. DigitsFor(value, F) = digits
  <2>1. Magnitude(value, F) = Magnitude(value, R)
    BY <1>1, <1>3, Zenon DEF Magnitude
  <2>2. ("UPPERCASE" \notin F) = ("UPPERCASE" \notin R)
    BY <1>1, Zenon
  <2>3. QED
    BY <1>3, <2>1, <2>2, Zenon DEF DigitsFor
<1>6. ("LEFT_JUSTIFY" \in F) = left
  BY <1>1
<1>7. NumberText(value, w, F) = Arranged(sign, digits, pad, char(F), left)
  <2>1. NumberText(value, w, F) = Arranged(SignOf(value, F), DigitsFor(value, F),
                                          Pad(w, SignOf(value, F), DigitsFor(value, F)),
                                          char(F), "LEFT_JUSTIFY" \in F)
    BY NumberTextIs
  <2>2. QED
    BY <1>4, <1>5, <1>6, <2>1
<1>8. NumberText(value, w, R) = Arranged(sign, digits, pad, char(R), left)
  BY NumberTextIs
<1>9. w = 0 => pad = 0
  <2>1. SUFFICES ASSUME w = 0 PROVE pad = 0
    OBVIOUS
  <2>2. 0 \in Nat
    OBVIOUS
  <2>3. Len(sign) + Len(digits) \in Nat
    BY <2>2, TextOfNumber
  <2>4. QED
    BY <2>1, <2>3 DEF Pad
<1>10. w # 0 => char(F) = char(R)
  BY <1>2
<1> DEFINE a == char(F)
           b == char(R)
<1> HIDE DEF a, b, sign, digits, pad, left
<1>11. Arranged(sign, digits, pad, a, left) = Arranged(sign, digits, pad, b, left)
  <2>1. CASE w # 0
    BY <1>10, <2>1 DEF a, b
  <2>2. CASE w = 0
    <3>1. [i \in 1 .. 0 |-> a] = [i \in 1 .. 0 |-> b]
      OBVIOUS
    <3>2. pad = 0
      BY <1>9, <2>2
    <3>3. QED
      BY <3>1, <3>2 DEF Arranged
  <2>3. QED
    BY <2>1, <2>2
<1>12. NumberText(value, w, F) = NumberText(value, w, R)
  BY <1>7, <1>8, <1>11 DEF a, b
<1>13. QED
  BY <1>12 DEF F

\* An unsigned number that is not big is cut to a u32 before it is written.
Value(d, v) == IF d.conversion[1] = 117 /\ "BIG_NUMBER" \notin Flags(d) THEN v % WordModulus ELSE v

\* The text of the number v, at least w characters wide.
Shown(d, v, w) == NumberText(Value(d, v), w, Flags(d))

\* A remainder of a word is a word.
LEMMA RemainderIsNat == \A x \in Int : x % WordModulus \in Nat /\ x % WordModulus < WordModulus
<1>1. WordModulus \in Nat /\ WordModulus > 0
  BY ConversionsAssumption
<1>2. QED
  BY <1>1

\* Numbers within the word, or the two, of a directive, with a sign or without.
IsWithin(d, v) == v \in Int /\ v < d.modulus /\ -v < d.modulus

\* The size of that word.
LEMMA ModulusIsWord ==
  ASSUME NEW d \in Directives
  PROVE  d.modulus \in Nat /\ d.modulus > 0 /\ d.modulus =< WordModulus * WordModulus
<1>1. WordModulus \in Nat /\ WordModulus > 0
  BY ConversionsAssumption
<1>2. \A m \in Nat : m > 0 => m * m \in Nat /\ m =< m * m
  OBVIOUS
<1>3. d.modulus = WordModulus \/ d.modulus = WordModulus * WordModulus
  BY DirectivesKnown, Zenon DEF Known
<1> DEFINE s == WordModulus * WordModulus
<1>4. s \in Nat /\ WordModulus =< s
  BY <1>1, <1>2
<1> HIDE DEF s
<1>5. QED
  BY <1>1, <1>3, <1>4 DEF s

\* A number less than the modulus is its own remainder.
LEMMA RemainderIsSame ==
  ASSUME NEW m \in Nat, NEW x \in Nat, x < m
  PROVE  x % m = x
OBVIOUS

\* Sign and magnitude are those of the number, or of the word it is in.
LEMMA MagnitudeOfWord ==
  ASSUME NEW d \in Directives, NEW v, IsWithin(d, v)
  PROVE  (IF Minus(Value(d, v), Flags(d)) THEN -Magnitude(Value(d, v), Flags(d)) ELSE Magnitude(Value(d, v), Flags(d)))
           = (IF d.signed THEN v ELSE v % d.modulus)
         /\ Magnitude(Value(d, v), Flags(d)) =< d.modulus
<1> DEFINE R == Flags(d)
           x == Value(d, v)
           m == d.modulus
           r == v % m
<1>1. /\ "NO_SIGN" \notin R /\ ("SIGNED" \in R <=> d.signed)
      /\ d.conversion[1] = 117 => ~d.signed
      /\ m = IF "BIG_NUMBER" \in R THEN WordModulus * WordModulus ELSE WordModulus
  BY DirectivesKnown, Zenon DEF Known
<1>2. m \in Nat /\ m > 0 /\ v \in Int /\ v < m /\ -v < m
  BY ModulusIsWord DEF IsWithin
<1> HIDE DEF m
<1>3. r \in Nat /\ r < m
  BY <1>2
<1>4. r % m = r
  BY <1>2, <1>3, RemainderIsSame
<1>5. x = v \/ ("BIG_NUMBER" \notin R /\ ~d.signed /\ x = v % WordModulus)
  BY <1>1, Zenon DEF Value
<1>6. Magnitude(x, R) = (IF Minus(x, R) THEN -x ELSE x) % m
  BY <1>1, Zenon DEF Magnitude
<1> HIDE DEF R, r, x
<1>7. CASE d.signed
  <2>1. x = v
    BY <1>5, <1>7
  <2>2. Minus(x, R) <=> v < 0
    BY <1>1, <1>7, <2>1 DEF Minus
  <2>3. CASE v < 0
    <3>1. -v \in Nat
      BY <1>2, <2>3
    <3>2. (-v) % m = -v
      BY <1>2, <3>1, RemainderIsSame
    <3>3. Magnitude(x, R) = -v
      BY <1>6, <2>1, <2>2, <2>3, <3>2, Zenon
    <3>4. -(-v) = v /\ -v =< m
      BY <1>2
    <3>5. QED
      BY <1>7, <2>2, <2>3, <3>3, <3>4 DEF x, R, m
  <2>4. CASE ~(v < 0)
    <3>1. v \in Nat
      BY <1>2, <2>4
    <3>2. v % m = v
      BY <1>2, <3>1, RemainderIsSame
    <3>3. Magnitude(x, R) = v
      BY <1>6, <2>1, <2>2, <2>4, <3>2, Zenon
    <3>4. v =< m
      BY <1>2
    <3>5. QED
      BY <1>7, <2>2, <2>4, <3>3, <3>4 DEF x, R, m
  <2>5. QED
    BY <2>3, <2>4
<1>8. CASE ~d.signed
  <2>1. ~Minus(x, R)
    BY <1>1, <1>8 DEF Minus
  <2>2. Magnitude(x, R) = x % m
    BY <1>6, <2>1, Zenon
  <2>3. x = r \/ x = v
    BY <1>1, <1>5 DEF r
  <2>4. x % m = r
    BY <1>4, <2>3 DEF r
  <2>5. r =< m
    BY <1>2, <1>3
  <2>6. QED
    BY <1>8, <2>1, <2>2, <2>4, <2>5 DEF x, R, r, m
<1>9. QED
  BY <1>7, <1>8

\* What a directive makes of a number.
IsShown(text, natural, d, v, w) ==
  /\ text \in Seq(Nat) /\ natural \in Seq(Nat)
  /\ Len(natural) =< d.modulus + 2
  /\ Len(text) = IF w > Len(natural) THEN w ELSE Len(natural)
  /\ ReadNumber(text, d.base) = IF d.signed THEN v ELSE v % d.modulus

\* The text of a number is as wide as it should be and reads as the number.
LEMMA NumberShown ==
  ASSUME NEW d \in Directives, NEW v, IsWithin(d, v), NEW w \in Nat
  PROVE  IsShown(Shown(d, v, w), Shown(d, v, 0), d, v, w)
<1> DEFINE R == Flags(d)
           x == Value(d, v)
           length == Len(SignOf(x, R)) + Len(DigitsFor(x, R))
           text == Shown(d, v, w)
           natural == Shown(d, v, 0)
<1>1. Base(R) = d.base /\ ~("LEFT_JUSTIFY" \in R /\ "ZERO_PAD" \in R)
  BY DirectivesKnown DEF Known
<1>2. x \in Int
  BY RemainderIsNat DEF Value, IsWithin
<1>3. text = NumberText(x, w, R) /\ natural = NumberText(x, 0, R)
  BY DEF Shown
<1>4. /\ (IF Minus(x, R) THEN -Magnitude(x, R) ELSE Magnitude(x, R)) = (IF d.signed THEN v ELSE v % d.modulus)
      /\ Magnitude(x, R) =< d.modulus
  BY MagnitudeOfWord
<1> HIDE DEF R, x, text, natural
<1>5. /\ text \in Seq(Nat) /\ length \in Nat /\ length =< Magnitude(x, R) + 2
      /\ Len(text) = IF w > length THEN w ELSE length
      /\ ReadNumber(text, Base(R)) = IF Minus(x, R) THEN -Magnitude(x, R) ELSE Magnitude(x, R)
  BY <1>1, <1>2, <1>3, TextOfNumber
<1>6. natural \in Seq(Nat) /\ Len(natural) = IF 0 > length THEN 0 ELSE length
  <2>1. 0 \in Nat
    OBVIOUS
  <2>2. QED
    BY <1>1, <1>2, <1>3, <2>1, TextOfNumber
<1> DEFINE l == length
<1> HIDE DEF length
<1>7. Len(natural) = length
  BY <1>5, <1>6
<1>8. Len(natural) =< d.modulus + 2
  <2>1. d.modulus \in Nat
    BY ModulusIsWord
  <2>2. Magnitude(x, R) \in Nat
    BY <1>2, MagnitudeIsNat
  <2>3. QED
    BY <1>4, <1>5, <1>7, <2>1, <2>2
<1>9. ReadNumber(text, d.base) = IF d.signed THEN v ELSE v % d.modulus
  BY <1>1, <1>4, <1>5
<1>10. QED
  BY <1>5, <1>6, <1>7, <1>8, <1>9 DEF IsShown, text, natural

\* What Directive returns for a directive with the width w.
Parsed(d, u, w, X, n) ==
  [conversion |-> d.conversion[1], used |-> u, width |-> w,
   flags |-> MarkFlags(d.marks) \cup X \cup BigFlags(Len(d.conversion) = 2), next |-> n]

\* A parsed directive writes the number.
LEMMA Converted ==
  ASSUME NEW d \in Directives, NEW u, NEW w \in Nat, NEW X, IsExtra(X, w), NEW n,
         NEW arguments, arguments[u + 1] \in Int, NEW buffer, NEW size
  PROVE  AfterDirective(Parsed(d, u, w, X, n), arguments, buffer, size) =
           [at |-> n, used |-> u + 1,
            buffer |-> WriteText(buffer, Shown(d, arguments[u + 1], w), size)]
<1> DEFINE t == Parsed(d, u, w, X, n)
           c == d.conversion[1]
           v == arguments[u + 1]
           F == MarkFlags(d.marks) \cup X \cup BigFlags(Len(d.conversion) = 2)
<1>1. t.conversion = c /\ t.used = u /\ t.width = w /\ t.flags = F /\ t.next = n
  BY DEF Parsed
<1>2. /\ c \in DOMAIN NumberFlags /\ c \notin {116, 99, OPEN}
      /\ "BIG_NUMBER" \in Flags(d) <=> "BIG_NUMBER" \in MarkFlags(d.marks) \cup BigFlags(Len(d.conversion) = 2)
  BY DirectivesKnown, Zenon DEF Known
<1>3. F \cup NumberFlags[c] = Flags(d) \cup X
  BY DEF Flags
<1>4. "BIG_NUMBER" \in F <=> "BIG_NUMBER" \in Flags(d)
  BY <1>2 DEF IsExtra
<1>5. (IF c = 117 /\ "BIG_NUMBER" \notin F THEN v % WordModulus ELSE v) = Value(d, v)
  BY <1>4 DEF Value
<1>6. Value(d, v) \in Int
  BY RemainderIsNat DEF Value
<1> HIDE DEF t, c, v, F
<1>7. Takes(t)
  BY <1>1, <1>2 DEF Takes
<1>8. Convert(t, v, buffer, size)
        = WriteNumber(IF c = 117 /\ "BIG_NUMBER" \notin F THEN v % WordModulus ELSE v, w,
                      F \cup NumberFlags[c], buffer, size)
  <2>1. c # 116 /\ c # 99 /\ c # OPEN
    BY <1>2
  <2>2. QED
    BY <1>1, <1>2, <2>1 DEF Convert
<1>9. Convert(t, v, buffer, size) = WriteNumber(Value(d, v), w, Flags(d) \cup X, buffer, size)
  BY <1>3, <1>5, <1>8, Zenon
<1>10. NumberText(Value(d, v), w, Flags(d) \cup X) = Shown(d, v, w)
  BY <1>6, SameText DEF Shown
<1>11. Convert(t, v, buffer, size) = WriteText(buffer, Shown(d, v, w), size)
  BY <1>9, <1>10, Zenon DEF WriteNumber
<1>12. AfterDirective(t, arguments, buffer, size)
         = [at |-> n, used |-> u + 1, buffer |-> WriteText(buffer, Shown(d, v, w), size)]
  <2>1. AfterDirective(t, arguments, buffer, size)
          = [at |-> t.next, used |-> IF Takes(t) THEN t.used + 1 ELSE t.used,
             buffer |-> Convert(t, arguments[t.used + 1], buffer, size)]
    BY Zenon DEF AfterDirective
  <2>2. arguments[t.used + 1] = v
    BY <1>1 DEF v
  <2>3. QED
    BY <1>1, <1>7, <1>11, <2>1, <2>2
<1>13. QED
  BY <1>12 DEF t, v

\* The directive L in a format, at p, writes the number v with the width w; u
\* arguments are taken then.
Writes(S, p, L, arguments, used, d, v, w, u) ==
  \A buffer, size :
    AfterDirective(Directive(S, p + 1, arguments, used), arguments, buffer, size) =
      [at |-> p + Len(L), used |-> u, buffer |-> WriteText(buffer, Shown(d, v, w), size)]

\* So a directive that is parsed writes it, wherever it stands.
LEMMA ParsedWrites ==
  ASSUME NEW d \in Directives, NEW S, NEW p, NEW L, NEW arguments, NEW used, NEW w \in Nat,
         NEW u, NEW X, IsExtra(X, w), NEW v \in Int, arguments[u + 1] = v,
         Directive(S, p + 1, arguments, used) = Parsed(d, u, w, X, p + Len(L))
  PROVE  Writes(S, p, L, arguments, used, d, v, w, u + 1)
<1> DEFINE n == p + Len(L)
           t == Parsed(d, u, w, X, n)
<1>1. SUFFICES ASSUME NEW buffer, NEW size
               PROVE  AfterDirective(Directive(S, p + 1, arguments, used), arguments, buffer, size) =
                        [at |-> n, used |-> u + 1, buffer |-> WriteText(buffer, Shown(d, v, w), size)]
  BY Zenon DEF Writes
<1> HIDE DEF n
<1>2. Directive(S, p + 1, arguments, used) = t
  BY DEF n
<1>3. arguments[u + 1] \in Int
  OBVIOUS
<1>4. AfterDirective(t, arguments, buffer, size) =
        [at |-> n, used |-> u + 1, buffer |-> WriteText(buffer, Shown(d, arguments[u + 1], w), size)]
  BY <1>3, Converted
<1> HIDE DEF t
<1>5. QED
  BY <1>2, <1>4

\* Without a width.
LEMMA NaturalWrites ==
  ASSUME NEW d \in Directives, NEW S, NEW p, Holds(S, p, InBraces(d.marks, <<>>, d.conversion)),
         NEW arguments, NEW used \in Nat, NEW v \in Int, arguments[used + 1] = v
  PROVE  Writes(S, p, InBraces(d.marks, <<>>, d.conversion), arguments, used, d, v, 0, used + 1)
<1> DEFINE D == <<>>
           L == InBraces(d.marks, D, d.conversion)
           big == Len(d.conversion) = 2
<1>1. /\ IsForm(d.marks, D, d.conversion, big)
      /\ \A j \in 1 .. Len(d.marks) : d.marks[j] # UNDERSCORE
  BY DirectivesKnown DEF Known
<1>2. IsByte(0) /\ D = <<>> /\ Holds(S, p, L)
  BY DEF IsByte
<1> HIDE DEF big, D
<1>3. Directive(S, p + 1, arguments, used) =
        [conversion |-> d.conversion[1], used |-> used, width |-> IF D = <<>> THEN 0 ELSE 0,
         flags |-> MarkFlags(d.marks) \cup (IF D = <<>> THEN {} ELSE {"SIZE_GIVEN"}) \cup BigFlags(big),
         next |-> p + Len(L)]
  BY <1>1, <1>2, PlainDirective
<1>4. Directive(S, p + 1, arguments, used) = Parsed(d, used, 0, {}, p + Len(L))
  BY <1>2, <1>3 DEF Parsed, big
<1>5. IsExtra({}, 0)
  BY DEF IsExtra
<1>6. 0 \in Nat
  OBVIOUS
<1>7. Writes(S, p, L, arguments, used, d, v, 0, used + 1)
  BY <1>4, <1>5, <1>6, ParsedWrites
<1>8. QED
  BY <1>7 DEF D

\* Three texts can be joined in either order.
LEMMA TextsAssociate ==
  ASSUME NEW a \in Seq(Nat), NEW b \in Seq(Nat), NEW c \in Seq(Nat)
  PROVE  (a \o b) \o c = a \o (b \o c)
BY ConcatAssociative

\* The flags of two rows of marks.
LEMMA MarksJoined ==
  ASSUME NEW a \in Seq(Nat), NEW b \in Seq(Nat)
  PROVE  /\ MarkFlags(a \o b) = MarkFlags(a) \cup MarkFlags(b)
         /\ {(a \o b)[j] : j \in 1 .. Len(a \o b)} = {a[j] : j \in 1 .. Len(a)} \cup {b[j] : j \in 1 .. Len(b)}
<1> DEFINE t == a \o b
           m == Len(a)
           n == Len(b)
           A == {a[j] : j \in 1 .. m}
           B == {b[j] : j \in 1 .. n}
           T == {t[j] : j \in 1 .. Len(t)}
<1>1. Joins2(t, a, b)
  BY TwoJoined
<1>2. /\ m \in Nat /\ n \in Nat /\ Len(t) = m + n
      /\ \A j \in 1 .. m : t[j] = a[j]
      /\ \A j \in 1 .. n : t[m + j] = b[j]
  BY <1>1 DEF Joins2
<1> HIDE DEF t, m, n
<1>3. ASSUME NEW x \in T PROVE x \in A \cup B
  <2>1. PICK j \in 1 .. m + n : x = t[j]
    BY <1>2
  <2>2. j \in 1 .. m \/ (j - m \in 1 .. n /\ m + (j - m) = j)
    BY <1>2
  <2>3. QED
    BY <1>2, <2>1, <2>2
<1>4. ASSUME NEW x \in A PROVE x \in T
  <2>1. PICK j \in 1 .. m : x = a[j]
    OBVIOUS
  <2>2. j \in 1 .. Len(t)
    BY <1>2
  <2>3. QED
    BY <1>2, <2>1, <2>2
<1>5. ASSUME NEW x \in B PROVE x \in T
  <2>1. PICK j \in 1 .. n : x = b[j]
    OBVIOUS
  <2>2. m + j \in 1 .. Len(t)
    BY <1>2
  <2>3. QED
    BY <1>2, <2>1, <2>2
<1>6. T = A \cup B
  <2> HIDE DEF T, A, B
  <2>1. QED
    BY <1>3, <1>4, <1>5
<1>7. MarkFlags(t) = {FlagOf[x] : x \in T \ {UNDERSCORE}}
  BY DEF MarkFlags
<1>8. MarkFlags(a) = {FlagOf[x] : x \in A \ {UNDERSCORE}} /\ MarkFlags(b) = {FlagOf[x] : x \in B \ {UNDERSCORE}}
  BY DEF MarkFlags, m, n
<1>9. MarkFlags(t) = MarkFlags(a) \cup MarkFlags(b)
  <2> HIDE DEF T, A, B
  <2>1. QED
    BY <1>6, <1>7, <1>8
<1>10. QED
  BY <1>6, <1>9 DEF t, m, n

\* A directive with the width in the format.
LEMMA WidthWrites ==
  ASSUME NEW d \in Directives, NEW w, IsByte(w), NEW D, D = Reverse(FragmentDigits(w)),
         NEW S, NEW p, Holds(S, p, InBraces(d.marks, D, d.conversion)),
         NEW arguments, NEW used \in Nat, NEW v \in Int, arguments[used + 1] = v
  PROVE  Writes(S, p, InBraces(d.marks, D, d.conversion), arguments, used, d, v, w, used + 1)
<1> DEFINE L == InBraces(d.marks, D, d.conversion)
           big == Len(d.conversion) = 2
           M == d.marks
           C == d.conversion
<1>1. IsForm(M, <<>>, C, big) /\ \A j \in 1 .. Len(M) : M[j] # UNDERSCORE
  BY DirectivesKnown DEF Known
<1>2. w \in Nat
  BY DEF IsByte
<1>3. \/ w = 0 /\ D = <<48>>
      \/ w # 0 /\ IsDecimal(D, w) /\ D[1] # 48
  BY WidthDigits
<1>4. CASE w # 0
  <2>1. IsDecimal(D, w) /\ D[1] # 48
    BY <1>3, <1>4
  <2>2. D # <<>> /\ D \in Seq(Nat) /\ \A j \in 1 .. Len(D) : IsDigit(D[j])
    BY <2>1 DEF IsDecimal
  <2> HIDE DEF big
  <2>3. IsForm(M, D, C, big)
    BY <1>1, <2>1, <2>2 DEF IsForm
  <2>4. Directive(S, p + 1, arguments, used) =
          [conversion |-> C[1], used |-> used, width |-> IF D = <<>> THEN 0 ELSE w,
           flags |-> MarkFlags(M) \cup (IF D = <<>> THEN {} ELSE {"SIZE_GIVEN"}) \cup BigFlags(big),
           next |-> p + Len(L)]
    BY <1>1, <2>1, <2>3, PlainDirective
  <2>5. Directive(S, p + 1, arguments, used) = Parsed(d, used, w, {"SIZE_GIVEN"}, p + Len(L))
    BY <2>2, <2>4 DEF Parsed, big
  <2>6. IsExtra({"SIZE_GIVEN"}, w)
    BY DEF IsExtra
  <2>7. QED
    BY <1>2, <2>5, <2>6, ParsedWrites
<1>5. CASE w = 0
  <2> DEFINE E == <<48>>
             N == M \o E
             Z == <<>>
             K == InBraces(N, Z, C)
  <2>1. D = E /\ E \in Seq(Nat) /\ Len(E) = 1 /\ E[1] = 48
    BY <1>3, <1>5
  <2>2. M \in Seq(Nat) /\ C \in Seq(Nat) /\ \A j \in 1 .. Len(M) : M[j] \in Marks
    BY <1>1 DEF IsForm
  <2>3. L = K
    <3> DEFINE o == <<OPEN>>
               z == <<CLOSE>>
    <3>1. o \in Seq(Nat)
      BY DEF OPEN
    <3>2. (o \o M) \o E = o \o (M \o E)
      <4> HIDE DEF o, E
      <4>1. o \in Seq(Nat) /\ M \in Seq(Nat) /\ E \in Seq(Nat)
        BY <2>1, <2>2, <3>1
      <4>2. QED
        BY <4>1, TextsAssociate
    <3>3. o \o (M \o E) \in Seq(Nat)
      BY <2>1, <2>2, <3>1
    <3>4. (o \o (M \o E)) \o Z = o \o (M \o E)
      BY <3>3, ConcatEmptySeq
    <3>5. L = (((o \o M) \o E) \o C) \o z
      BY <2>1, Zenon DEF InBraces
    <3>6. K = (((o \o (M \o E)) \o Z) \o C) \o z
      BY Zenon DEF InBraces
    <3>7. QED
      BY <3>2, <3>4, <3>5, <3>6, Zenon
  <2> HIDE DEF E, K
  <2>4. Joins2(N, M, E)
    BY <2>1, <2>2, TwoJoined
  <2> HIDE DEF N
  <2>5. \A j \in 1 .. Len(N) : N[j] \in Marks /\ N[j] # UNDERSCORE
    <3>1. SUFFICES ASSUME NEW j \in 1 .. Len(N) PROVE N[j] \in Marks /\ N[j] # UNDERSCORE
      OBVIOUS
    <3>2. /\ Len(N) = Len(M) + 1 /\ Len(M) \in Nat
          /\ \A i \in 1 .. Len(M) : N[i] = M[i]
          /\ \A i \in 1 .. Len(E) : N[Len(M) + i] = E[i]
      BY <2>1, <2>2, <2>4 DEF Joins2
    <3>3. N[Len(M) + 1] = 48
      BY <2>1, <3>2
    <3>4. j \in 1 .. Len(M) \/ j = Len(M) + 1
      BY <3>2
    <3>5. 48 \in Marks /\ 48 # UNDERSCORE
      BY DEF Marks, UNDERSCORE
    <3>6. QED
      BY <1>1, <2>2, <3>2, <3>3, <3>4, <3>5
  <2>6. N \in Seq(Nat)
    BY <2>4 DEF Joins2
  <2> HIDE DEF big
  <2>7. IsForm(N, Z, C, big)
    BY <1>1, <2>5, <2>6 DEF IsForm
  <2> HIDE DEF Z
  <2>8. Z = <<>> /\ IsByte(0) /\ Holds(S, p, K)
    BY <2>3 DEF Z, IsByte
  <2>9. Directive(S, p + 1, arguments, used) =
          [conversion |-> C[1], used |-> used, width |-> IF Z = <<>> THEN 0 ELSE 0,
           flags |-> MarkFlags(N) \cup (IF Z = <<>> THEN {} ELSE {"SIZE_GIVEN"}) \cup BigFlags(big),
           next |-> p + Len(K)]
    BY <2>5, <2>7, <2>8, PlainDirective DEF K
  <2>10. MarkFlags(N) = MarkFlags(M) \cup {"ZERO_PAD"}
    <3>1. MarkFlags(N) = MarkFlags(M) \cup MarkFlags(E)
      BY <2>1, <2>2, MarksJoined DEF N
    <3>2. MarkFlags(E) = {"ZERO_PAD"}
      <4>1. 48 \in Nat /\ 48 # UNDERSCORE
        BY DEF UNDERSCORE
      <4>2. QED
        BY <4>1, FewMarks, KnownFlags DEF E
    <3>3. QED
      BY <3>1, <3>2
  <2>11. Directive(S, p + 1, arguments, used) = Parsed(d, used, w, {"ZERO_PAD"}, p + Len(L))
    BY <1>5, <2>3, <2>8, <2>9, <2>10 DEF Parsed, big
  <2>12. IsExtra({"ZERO_PAD"}, w)
    BY <1>5 DEF IsExtra
  <2>13. QED
    BY <1>2, <2>11, <2>12, ParsedWrites
<1>6. QED
  BY <1>4, <1>5

\* A directive that takes its width from the arguments.
LEMMA TakenWrites ==
  ASSUME NEW d \in Directives, NEW w \in Nat,
         NEW S, NEW p, Holds(S, p, InBraces(<<UNDERSCORE>> \o d.marks, <<>>, d.conversion)),
         NEW arguments, NEW used \in Nat, arguments[used + 1] = w,
         NEW v \in Int, arguments[(used + 1) + 1] = v
  PROVE  Writes(S, p, InBraces(<<UNDERSCORE>> \o d.marks, <<>>, d.conversion), arguments, used,
                d, v, w, (used + 1) + 1)
<1> DEFINE big == Len(d.conversion) = 2
           M == d.marks
           C == d.conversion
           U == <<UNDERSCORE>>
           N == U \o M
           L == InBraces(N, <<>>, C)
<1>1. IsForm(M, <<>>, C, big) /\ \A j \in 1 .. Len(M) : M[j] # UNDERSCORE
  BY DirectivesKnown DEF Known
<1>2. U \in Seq(Nat) /\ Len(U) = 1 /\ U[1] = UNDERSCORE
  BY DEF UNDERSCORE
<1>3. M \in Seq(Nat) /\ Len(M) \in Nat /\ \A j \in 1 .. Len(M) : M[j] \in Marks
  BY <1>1 DEF IsForm
<1> HIDE DEF U, big
<1>4. Joins2(N, U, M)
  BY <1>2, <1>3, TwoJoined
<1>5. MarkFlags(N) = MarkFlags(M)
  <2>1. MarkFlags(N) = MarkFlags(U) \cup MarkFlags(M)
    BY <1>2, <1>3, MarksJoined
  <2>2. MarkFlags(U) = {}
    <3>1. {U[j] : j \in 1 .. Len(U)} = {UNDERSCORE}
      <4>1. 1 .. 1 = {1}
        OBVIOUS
      <4>2. QED
        BY <1>2, <4>1
    <3>2. QED
      BY <3>1 DEF MarkFlags
  <2>3. QED
    BY <2>1, <2>2
<1>6. Holds(S, p, L)
  BY DEF U
<1> DEFINE K == L
<1> HIDE DEF N
<1>7. /\ N \in Seq(Nat) /\ Len(N) = 1 + Len(M)
      /\ \A i \in 1 .. Len(U) : N[i] = U[i]
      /\ \A i \in 1 .. Len(M) : N[Len(U) + i] = M[i]
  BY <1>2, <1>4 DEF Joins2
<1>8. Len(N) >= 1 /\ N[1] = UNDERSCORE
  BY <1>2, <1>3, <1>7
<1>9. \A j \in 2 .. Len(N) : N[j] \in Marks /\ N[j] # UNDERSCORE
  <2>1. SUFFICES ASSUME NEW j \in 2 .. Len(N) PROVE N[j] \in Marks /\ N[j] # UNDERSCORE
    OBVIOUS
  <2>2. j - 1 \in 1 .. Len(M) /\ 1 + (j - 1) = j
    <3>1. Len(M) \in Nat /\ Len(N) = 1 + Len(M)
      BY <1>3, <1>7
    <3>2. QED
      BY <3>1
  <2>3. N[j] = M[j - 1]
    BY <1>2, <1>7, <2>2
  <2>4. QED
    BY <1>1, <1>3, <2>2, <2>3
<1>10. IsForm(N, <<>>, C, big)
  <2>1. \A j \in 1 .. Len(N) : j = 1 \/ j \in 2 .. Len(N)
    BY <1>3, <1>7
  <2>2. UNDERSCORE \in Marks
    BY DEF Marks
  <2>3. \A j \in 1 .. Len(N) : N[j] \in Marks
    BY <1>8, <1>9, <2>1, <2>2
  <2>4. QED
    BY <1>1, <1>7, <2>3 DEF IsForm
<1>11. Directive(S, p + 1, arguments, used) =
         [conversion |-> C[1], used |-> used + 1, width |-> arguments[used + 1],
          flags |-> MarkFlags(N) \cup {} \cup BigFlags(big), next |-> p + Len(L)]
  <2>1. arguments[used + 1] \in Nat
    OBVIOUS
  <2>2. QED
    BY <1>6, <1>8, <1>9, <1>10, <2>1, TakenDirective
<1>12. Directive(S, p + 1, arguments, used) = Parsed(d, used + 1, w, {}, p + Len(L))
  BY <1>5, <1>11 DEF Parsed, big
<1>13. IsExtra({}, w)
  BY DEF IsExtra
<1>14. Writes(S, p, L, arguments, used, d, v, w, (used + 1) + 1)
  BY <1>12, <1>13, ParsedWrites
<1>15. QED
  BY <1>14 DEF N, U

\* The turns of format_string.
AreSteps(w, n, string, arguments, size) ==
  w = [k \in 0 .. n |-> IF k = 0 THEN [at |-> 1, used |-> 0, buffer |-> <<>>]
                        ELSE Turn(string, arguments, w[k - 1], size)]

\* There is such a sequence of turns for every length.
LEMMA StepsExist ==
  ASSUME NEW string, NEW arguments, NEW size, NEW N \in Nat
  PROVE  \E w : AreSteps(w, N, string, arguments, size)
<1> DEFINE start == [at |-> 1, used |-> 0, buffer |-> <<>>]
           S == {n \in 0 .. N : \E w : AreSteps(w, n, string, arguments, size)}
<1>1. 0 \in S
  <2> DEFINE w == [k \in 0 .. 0 |-> start]
  <2>1. \A k \in 0 .. 0 : w[k] = IF k = 0 THEN start ELSE Turn(string, arguments, w[k - 1], size)
    OBVIOUS
  <2>2. DOMAIN w = 0 .. 0 /\ w = [k \in 0 .. 0 |-> w[k]]
    OBVIOUS
  <2> HIDE DEF w, start
  <2>3. w = [k \in 0 .. 0 |-> IF k = 0 THEN start ELSE Turn(string, arguments, w[k - 1], size)]
    BY <2>1, <2>2
  <2>4. AreSteps(w, 0, string, arguments, size)
    BY <2>3, Zenon DEF AreSteps, start
  <2>5. 0 \in 0 .. N
    OBVIOUS
  <2>6. QED
    BY <2>4, <2>5
<1>2. ASSUME NEW n \in 0 .. N - 1, n \in S PROVE n + 1 \in S
  <2>1. PICK v : AreSteps(v, n, string, arguments, size)
    BY <1>2
  <2>2. v = [k \in 0 .. n |-> IF k = 0 THEN start ELSE Turn(string, arguments, v[k - 1], size)]
    BY <2>1, Zenon DEF AreSteps
  <2> DEFINE w == [k \in 0 .. n + 1 |-> IF k = n + 1 THEN Turn(string, arguments, v[n], size) ELSE v[k]]
  <2> HIDE DEF start
  <2>3. n \in Nat /\ n + 1 \in 0 .. N /\ n + 1 # 0 /\ (n + 1) - 1 = n /\ n # n + 1
    OBVIOUS
  <2>4. \A k \in 0 .. n : v[k] = IF k = 0 THEN start ELSE Turn(string, arguments, v[k - 1], size)
    <3>1. SUFFICES ASSUME NEW k \in 0 .. n PROVE v[k] = IF k = 0 THEN start ELSE Turn(string, arguments, v[k - 1], size)
      OBVIOUS
    <3>2. [i \in 0 .. n |-> IF i = 0 THEN start ELSE Turn(string, arguments, v[i - 1], size)][k]
            = IF k = 0 THEN start ELSE Turn(string, arguments, v[k - 1], size)
      BY Zenon
    <3>3. QED
      BY <2>2, <3>2, Zenon
  <2>5. ASSUME NEW k \in 0 .. n + 1 PROVE w[k] = IF k = 0 THEN start ELSE Turn(string, arguments, w[k - 1], size)
    <3>1. CASE k = n + 1
      <4>1. k # 0 /\ k - 1 = n /\ n \in 0 .. n + 1
        BY <2>3, <3>1
      <4>2. w[k] = Turn(string, arguments, v[n], size) /\ w[n] = v[n]
        BY <2>3, <3>1, <4>1
      <4> HIDE DEF w
      <4>3. QED
        BY <4>1, <4>2
    <3>2. CASE k # n + 1 /\ k # 0
      <4>1. k \in 0 .. n /\ k - 1 \in 0 .. n + 1 /\ k - 1 # n + 1
        BY <2>3, <3>2
      <4>2. w[k] = v[k] /\ w[k - 1] = v[k - 1]
        BY <3>2, <4>1
      <4> HIDE DEF w
      <4>3. v[k] = Turn(string, arguments, v[k - 1], size)
        BY <2>4, <3>2, <4>1
      <4>4. QED
        BY <3>2, <4>2, <4>3
    <3>3. CASE k = 0
      <4>1. k # n + 1 /\ 0 \in 0 .. n
        BY <2>3, <3>3
      <4>2. w[k] = v[0]
        BY <3>3, <4>1
      <4> HIDE DEF w
      <4>3. QED
        BY <2>4, <3>3, <4>1, <4>2
    <3>4. QED
      BY <3>1, <3>2, <3>3
  <2>6. DOMAIN w = 0 .. n + 1 /\ w = [k \in 0 .. n + 1 |-> w[k]]
    OBVIOUS
  <2> HIDE DEF w
  <2>7. [k \in 0 .. n + 1 |-> w[k]]
          = [k \in 0 .. n + 1 |-> IF k = 0 THEN start ELSE Turn(string, arguments, w[k - 1], size)]
    BY <2>5
  <2>8. AreSteps(w, n + 1, string, arguments, size)
    BY <2>6, <2>7, Zenon DEF AreSteps, start
  <2>9. QED
    BY <2>3, <2>8
<1>3. N \in S
  <2> HIDE DEF S
  <2>1. N \in 0 .. N
    OBVIOUS
  <2>2. QED
    BY <1>1, <1>2, <2>1, UpTo
<1>4. QED
  BY <1>3

\* The state of format_string after k turns.
Reaches(string, arguments, size, k, t) ==
  \A w : AreSteps(w, Len(string), string, arguments, size) => w[k] = t

\* format_string starts at the first character, with nothing written.
LEMMA FormatStarts ==
  ASSUME NEW string \in Seq(Nat), NEW arguments, NEW size
  PROVE  Reaches(string, arguments, size, 0, [at |-> 1, used |-> 0, buffer |-> <<>>])
<1> DEFINE start == [at |-> 1, used |-> 0, buffer |-> <<>>]
           n == Len(string)
<1>1. SUFFICES ASSUME NEW w, AreSteps(w, n, string, arguments, size) PROVE w[0] = start
  BY DEF Reaches
<1> HIDE DEF start
<1>2. w = [k \in 0 .. n |-> IF k = 0 THEN start ELSE Turn(string, arguments, w[k - 1], size)]
  BY <1>1, Zenon DEF AreSteps, start
<1>3. 0 \in 0 .. n
  OBVIOUS
<1> HIDE DEF n
<1>4. [k \in 0 .. n |-> IF k = 0 THEN start ELSE Turn(string, arguments, w[k - 1], size)][0] = start
  BY <1>3
<1>5. QED
  BY <1>2, <1>4, Zenon

\* After one turn comes the next.
LEMMA FormatGoesOn ==
  ASSUME NEW string \in Seq(Nat), NEW arguments, NEW size, NEW k \in Nat, k < Len(string),
         NEW t, Reaches(string, arguments, size, k, t),
         NEW u, u = Turn(string, arguments, t, size)
  PROVE  Reaches(string, arguments, size, k + 1, u)
<1> DEFINE start == [at |-> 1, used |-> 0, buffer |-> <<>>]
           n == Len(string)
<1>1. SUFFICES ASSUME NEW w, AreSteps(w, n, string, arguments, size) PROVE w[k + 1] = u
  BY DEF Reaches
<1>2. w[k] = t
  BY <1>1 DEF Reaches
<1> HIDE DEF start
<1>3. w = [i \in 0 .. n |-> IF i = 0 THEN start ELSE Turn(string, arguments, w[i - 1], size)]
  BY <1>1, Zenon DEF AreSteps, start
<1>4. k + 1 \in 0 .. n /\ k + 1 # 0 /\ (k + 1) - 1 = k
  OBVIOUS
<1> HIDE DEF n
<1>5. [i \in 0 .. n |-> IF i = 0 THEN start ELSE Turn(string, arguments, w[i - 1], size)][k + 1]
        = Turn(string, arguments, w[k], size)
  BY <1>4
<1>6. QED
  BY <1>2, <1>3, <1>5, Zenon

\* When the end of the format is reached, nothing more is written.
LEMMA FormatEnds ==
  ASSUME NEW string \in Seq(Nat), NEW arguments, NEW size, NEW k \in Nat, k =< Len(string),
         NEW t, Reaches(string, arguments, size, k, t), t.at > Len(string)
  PROVE  FormatString(string, arguments, size) = t.buffer
<1> DEFINE n == Len(string)
           S == {j \in 0 .. n : j >= k => Reaches(string, arguments, size, j, t)}
           v == CHOOSE w : AreSteps(w, n, string, arguments, size)
<1>1. n \in Nat
  OBVIOUS
<1>2. AreSteps(v, n, string, arguments, size)
  <2>1. \E w : AreSteps(w, n, string, arguments, size)
    BY <1>1, StepsExist
  <2>2. QED
    BY <2>1, Zenon
<1>3. FormatString(string, arguments, size) = v[n].buffer
  BY Zenon DEF FormatString, AreSteps
<1> HIDE DEF v
<1>4. 0 \in S
  <2>1. SUFFICES ASSUME 0 >= k PROVE Reaches(string, arguments, size, 0, t)
    BY <1>1
  <2>2. k = 0
    BY <2>1
  <2>3. QED
    BY <2>2
<1>5. ASSUME NEW j \in 0 .. n - 1, j \in S PROVE j + 1 \in S
  <2>1. j + 1 \in 0 .. n /\ j \in Nat /\ j < n
    BY <1>1
  <2>2. SUFFICES ASSUME j + 1 >= k PROVE Reaches(string, arguments, size, j + 1, t)
    BY <2>1
  <2>3. CASE j + 1 = k
    BY <2>3
  <2>4. CASE j >= k
    <3>1. Reaches(string, arguments, size, j, t)
      BY <1>5, <2>4
    <3>2. t = Turn(string, arguments, t, size)
      BY DEF Turn
    <3>3. QED
      BY <2>1, <3>1, <3>2, FormatGoesOn
  <2>5. QED
    BY <2>1, <2>2, <2>3, <2>4
<1>6. n \in S
  <2> HIDE DEF S
  <2>1. \A j \in 0 .. n : j \in S
    BY <1>1, <1>4, <1>5, UpTo
  <2>2. QED
    BY <1>1, <2>1
<1>7. Reaches(string, arguments, size, n, t)
  BY <1>1, <1>6
<1>8. v[n] = t
  BY <1>2, <1>7 DEF Reaches
<1>9. QED
  BY <1>3, <1>8

\* Where texts stand in texts that are made of them.
LEMMA HoldsWhole ==
  ASSUME NEW a \in Seq(Nat)
  PROVE  Holds(a, 1, a)
<1>1. 1 + Len(a) =< Len(a) + 1 /\ 1 \in Nat /\ 1 >= 1
  OBVIOUS
<1>2. \A j \in 1 .. Len(a) : a[1 + j - 1] = a[j]
  <2>1. \A j \in 1 .. Len(a) : 1 + j - 1 = j
    OBVIOUS
  <2>2. QED
    BY <2>1
<1>3. QED
  BY <1>1, <1>2 DEF Holds, StandsAt

\* What stands in a text stands there when something follows.
LEMMA HoldsBefore ==
  ASSUME NEW a \in Seq(Nat), NEW p, NEW x, Holds(a, p, x), NEW b \in Seq(Nat)
  PROVE  Holds(a \o b, p, x)
<1> DEFINE t == a \o b
<1>1. Joins2(t, a, b)
  BY TwoJoined
<1> HIDE DEF t
<1>2. /\ t \in Seq(Nat) /\ Len(t) = Len(a) + Len(b) /\ Len(a) \in Nat /\ Len(b) \in Nat
      /\ \A j \in 1 .. Len(a) : t[j] = a[j]
  BY <1>1 DEF Joins2
<1>3. /\ x \in Seq(Nat) /\ Len(x) \in Nat /\ p \in Nat /\ p >= 1 /\ p + Len(x) =< Len(a) + 1
      /\ \A j \in 1 .. Len(x) : a[p + j - 1] = x[j]
  <2>1. /\ x \in Seq(Nat) /\ p \in Nat /\ p >= 1 /\ p + Len(x) =< Len(a) + 1
        /\ StandsAt(a, p, x)
    BY DEF Holds
  <2>2. Len(x) \in Nat
    BY <2>1
  <2>3. QED
    BY <2>1, <2>2 DEF StandsAt
<1>4. p + Len(x) =< Len(t) + 1
  BY <1>2, <1>3
<1>5. \A j \in 1 .. Len(x) : p + j - 1 \in 1 .. Len(a)
  BY <1>2, <1>3
<1>6. \A j \in 1 .. Len(x) : t[p + j - 1] = x[j]
  BY <1>2, <1>3, <1>5
<1>7. QED
  BY <1>2, <1>3, <1>4, <1>6 DEF Holds, StandsAt, t

\* What is put behind a text stands there.
LEMMA HoldsBehind ==
  ASSUME NEW a \in Seq(Nat), NEW b \in Seq(Nat), NEW p, p = Len(a) + 1
  PROVE  Holds(a \o b, p, b)
<1> DEFINE t == a \o b
<1>1. Joins2(t, a, b)
  BY TwoJoined
<1> HIDE DEF t
<1>2. /\ t \in Seq(Nat) /\ Len(t) = Len(a) + Len(b) /\ Len(a) \in Nat /\ Len(b) \in Nat
      /\ \A j \in 1 .. Len(b) : t[Len(a) + j] = b[j]
  BY <1>1 DEF Joins2
<1>3. p \in Nat /\ p >= 1 /\ p + Len(b) =< Len(t) + 1 /\ \A j \in 1 .. Len(b) : p + j - 1 = Len(a) + j
  BY <1>2
<1>4. \A j \in 1 .. Len(b) : t[p + j - 1] = b[j]
  BY <1>2, <1>3
<1>5. QED
  BY <1>2, <1>3, <1>4 DEF Holds, StandsAt, t

\* A text that is within the buffer, and one that is not.
LEMMA TextWritten ==
  ASSUME NEW buffer \in Seq(Nat), NEW text \in Seq(Nat), NEW size \in Nat
  PROVE  /\ Len(buffer) + Len(text) =< size => WriteText(buffer, text, size) = buffer \o text
         /\ WriteText(<<>>, text, size) = SubSeq(text, 1, IF Len(text) < size THEN Len(text) ELSE size)
<1>1. Len(buffer \o text) = Len(buffer) + Len(text) /\ Len(buffer) \in Nat /\ Len(text) \in Nat
  OBVIOUS
<1>2. ASSUME Len(buffer) + Len(text) =< size PROVE WriteText(buffer, text, size) = buffer \o text
  <2> DEFINE t == buffer \o text
  <2> HIDE DEF t
  <2>1. ~(Len(t) > size)
    BY <1>1, <1>2 DEF t
  <2>2. WriteText(buffer, text, size) = IF Len(t) > size THEN SubSeq(t, 1, size) ELSE t
    BY DEF WriteText, t
  <2>3. QED
    BY <2>1, <2>2 DEF t
<1>3. <<>> \o text = text
  BY ConcatEmptySeq
<1>4. WriteText(<<>>, text, size) = IF Len(text) > size THEN SubSeq(text, 1, size) ELSE text
  BY <1>3 DEF WriteText
<1>5. SubSeq(text, 1, Len(text)) = text
  OBVIOUS
<1>6. CASE Len(text) < size
  <2>1. ~(Len(text) > size)
    BY <1>1, <1>6
  <2>2. QED
    BY <1>2, <1>4, <1>5, <1>6, <2>1
<1>7. CASE Len(text) > size
  <2>1. ~(Len(text) < size)
    BY <1>1, <1>7
  <2>2. QED
    BY <1>2, <1>4, <1>7, <2>1
<1>8. CASE Len(text) = size
  <2>1. ~(Len(text) < size) /\ ~(Len(text) > size)
    BY <1>1, <1>8
  <2>2. QED
    BY <1>2, <1>4, <1>5, <1>8, <2>1
<1>9. QED
  BY <1>1, <1>6, <1>7, <1>8

\* A directive starts with a brace, and a format of one directive is what it
\* writes.
LEMMA BraceOpens ==
  ASSUME NEW S, NEW p, NEW M \in Seq(Nat), NEW D \in Seq(Nat), NEW C \in Seq(Nat),
         Holds(S, p, InBraces(M, D, C))
  PROVE  /\ S[p] = OPEN /\ p =< Len(S)
         /\ InBraces(M, D, C) \in Seq(Nat) /\ Len(InBraces(M, D, C)) = Len(M) + Len(D) + Len(C) + 2
<1> DEFINE x == InBraces(M, D, C)
<1>1. x \in Seq(Nat) /\ Len(x) = Len(M) + Len(D) + Len(C) + 2 /\ x[1] = OPEN
  BY BracesAt DEF AreBraces
<1>2. Len(M) \in Nat /\ Len(D) \in Nat /\ Len(C) \in Nat
  OBVIOUS
<1> HIDE DEF x
<1>3. /\ S \in Seq(Nat) /\ p \in Nat /\ p + Len(x) =< Len(S) + 1
      /\ \A j \in 1 .. Len(x) : S[p + j - 1] = x[j]
  BY DEF Holds, StandsAt, x
<1>4. 1 \in 1 .. Len(x) /\ p + 1 - 1 = p /\ p =< Len(S)
  BY <1>1, <1>2, <1>3
<1>5. S[p] = OPEN
  BY <1>1, <1>3, <1>4
<1>6. QED
  BY <1>1, <1>4, <1>5 DEF x

\* A format that is one directive writes its number.
LEMMA OneDirective ==
  ASSUME NEW M \in Seq(Nat), NEW D \in Seq(Nat), NEW C \in Seq(Nat), NEW L, L = InBraces(M, D, C),
         NEW arguments, NEW d, NEW v, NEW w, NEW u, Writes(L, 1, L, arguments, 0, d, v, w, u),
         NEW size
  PROVE  FormatString(L, arguments, size) = WriteText(<<>>, Shown(d, v, w), size)
<1>1. L \in Seq(Nat)
  BY BracesAt DEF AreBraces
<1>2. Holds(L, 1, L)
  BY <1>1, HoldsWhole
<1>3. L[1] = OPEN /\ 1 =< Len(L) /\ Len(L) \in Nat
  <2>1. Holds(L, 1, InBraces(M, D, C))
    BY <1>2
  <2>2. L[1] = OPEN /\ 1 =< Len(L)
    BY <2>1, BraceOpens
  <2>3. QED
    BY <1>1, <2>2
<1> DEFINE start == [at |-> 1, used |-> 0, buffer |-> <<>>]
           t == Turn(L, arguments, start, size)
           text == WriteText(<<>>, Shown(d, v, w), size)
<1>4. start.at = 1 /\ start.used = 0 /\ start.buffer = <<>> /\ ~(1 > Len(L))
  BY <1>3
<1>5. t = [at |-> 1 + Len(L), used |-> u, buffer |-> text]
  <2>1. AfterDirective(Directive(L, 1 + 1, arguments, 0), arguments, <<>>, size) =
          [at |-> 1 + Len(L), used |-> u, buffer |-> text]
    BY DEF Writes
  <2> HIDE DEF start, text
  <2>2. t = AfterDirective(Directive(L, 1 + 1, arguments, 0), arguments, <<>>, size)
    BY <1>3, <1>4 DEF Turn
  <2>3. QED
    BY <2>1, <2>2
<1>6. Reaches(L, arguments, size, 0, start)
  BY <1>1, FormatStarts
<1> HIDE DEF start, t, text
<1>7. Reaches(L, arguments, size, 0 + 1, t)
  <2>1. 0 \in Nat /\ 0 < Len(L)
    BY <1>3
  <2>2. QED
    BY <1>1, <1>6, <2>1, FormatGoesOn DEF t
<1>8. 0 + 1 \in Nat /\ 0 + 1 =< Len(L) /\ t.at > Len(L) /\ t.buffer = text
  BY <1>3, <1>5
<1>9. FormatString(L, arguments, size) = t.buffer
  BY <1>1, <1>7, <1>8, FormatEnds
<1>10. QED
  BY <1>8, <1>9 DEF text

\* '{t}' and '{c}'.
LEMMA SimpleDirective ==
  ASSUME NEW c \in {116, 99}, NEW S, NEW p, Holds(S, p, InBraces(<<>>, <<>>, <<c>>)),
         NEW arguments, NEW used \in Nat
  PROVE  Directive(S, p + 1, arguments, used) =
           [conversion |-> c, used |-> used, width |-> 0, flags |-> {}, next |-> p + 3]
<1> DEFINE D == <<>>
           C == <<c>>
           L == InBraces(D, D, C)
           big == FALSE
<1>1. D \in Seq(Nat) /\ Len(D) = 0 /\ D = <<>> /\ \A j \in 1 .. Len(D) : FALSE
  OBVIOUS
<1>2. C \in Seq(Nat) /\ Len(C) = 1 /\ C[1] = c
  BY c \in Nat
<1>3. c \notin Marks /\ ~IsDigit(c)
  BY DEF Marks, IsDigit, ZERO, UNDERSCORE
<1>4. Holds(S, p, L)
  OBVIOUS
<1>5. MarkFlags(D) = {}
  BY 0 \in Nat, FewMarks
<1> HIDE DEF D, C, big
<1>6. IsForm(D, D, C, big)
  BY <1>1, <1>2, <1>3 DEF IsForm, big
<1>7. IsByte(0)
  BY DEF IsByte
<1>8. Directive(S, p + 1, arguments, used) =
        [conversion |-> C[1], used |-> used, width |-> IF D = <<>> THEN 0 ELSE 0,
         flags |-> MarkFlags(D) \cup (IF D = <<>> THEN {} ELSE {"SIZE_GIVEN"}) \cup BigFlags(big),
         next |-> p + Len(L)]
  <2>1. \A j \in 1 .. Len(D) : D[j] # UNDERSCORE
    BY <1>1
  <2>2. QED
    BY <1>1, <1>4, <1>6, <1>7, <2>1, PlainDirective
<1>9. Len(L) = 3
  <2>1. Len(L) = Len(D) + Len(D) + Len(C) + 2
    <3>1. AreBraces(L, D, D, C)
      BY <1>1, <1>2, BracesAt
    <3>2. QED
      BY <3>1, Zenon DEF AreBraces
  <2>2. QED
    BY <1>1, <1>2, <2>1
<1>10. MarkFlags(D) \cup (IF D = <<>> THEN {} ELSE {"SIZE_GIVEN"}) \cup BigFlags(big) = {}
  BY <1>1, <1>5 DEF BigFlags, big
<1>11. QED
  BY <1>1, <1>2, <1>8, <1>9, <1>10

\* A null pointer is written in words.
LEMMA NullWritten == TextOf(Null, 0, {}) = Nullptr
<1> DEFINE padding == [i \in 1 .. 0 |-> 32]
<1>1. Nullptr \in Seq(Nat) /\ Len(Nullptr) = 7
  BY DEF Nullptr
<1>2. SubSeq(Nullptr, 1, 7) = Nullptr
  BY <1>1
<1>3. padding = <<>>
  OBVIOUS
<1>4. padding \o Nullptr = Nullptr
  BY <1>1, <1>3, ConcatEmptySeq
<1> HIDE DEF padding
<1>5. TextOf(Null, 0, {}) = padding \o SubSeq(Nullptr, 1, 7)
  <2>1. "SIZE_GIVEN" \notin {} /\ "ZERO_PAD" \notin {} /\ "LEFT_JUSTIFY" \notin {}
    OBVIOUS
  <2>2. QED
    BY <1>1, <2>1 DEF TextOf, padding
<1>6. QED
  BY <1>2, <1>4, <1>5

\* {t} writes the text, or that it is null.
LEMMA TextDirective ==
  ASSUME NEW S, NEW p, Holds(S, p, InBraces(<<>>, <<>>, << 116 >>)),
         NEW arguments, NEW used \in Nat, arguments[used + 1] = Null, NEW buffer, NEW size
  PROVE  AfterDirective(Directive(S, p + 1, arguments, used), arguments, buffer, size) =
           [at |-> p + 3, used |-> used + 1, buffer |-> WriteText(buffer, Nullptr, size)]
<1> DEFINE t == Directive(S, p + 1, arguments, used)
<1>1. t = [conversion |-> 116, used |-> used, width |-> 0, flags |-> {}, next |-> p + 3]
  <2>1. 116 \in {116, 99}
    OBVIOUS
  <2>2. QED
    BY <2>1, SimpleDirective
<1> HIDE DEF t
<1>2. t.conversion = 116 /\ t.used = used /\ t.width = 0 /\ t.flags = {} /\ t.next = p + 3
  BY <1>1
<1>3. Takes(t)
  BY <1>2 DEF Takes
<1>4. Convert(t, Null, buffer, size) = WriteText(buffer, TextOf(Null, 0, {}), size)
  <2>1. 116 # 99 /\ 116 \notin DOMAIN NumberFlags /\ 116 # OPEN
    BY KnownFlags DEF OPEN
  <2>2. QED
    BY <1>2, <2>1 DEF Convert
<1>5. AfterDirective(t, arguments, buffer, size)
        = [at |-> t.next, used |-> IF Takes(t) THEN t.used + 1 ELSE t.used,
           buffer |-> Convert(t, arguments[t.used + 1], buffer, size)]
  BY Zenon DEF AfterDirective
<1>6. arguments[t.used + 1] = Null
  BY <1>2
<1>7. QED
  BY <1>2, <1>3, <1>4, <1>5, <1>6, NullWritten DEF t

\* {c} writes the character.
LEMMA CharDirective ==
  ASSUME NEW S, NEW p, Holds(S, p, InBraces(<<>>, <<>>, << 99 >>)),
         NEW arguments, NEW used \in Nat, NEW x, arguments[used + 1] = x, NEW buffer, NEW size
  PROVE  AfterDirective(Directive(S, p + 1, arguments, used), arguments, buffer, size) =
           [at |-> p + 3, used |-> used + 1, buffer |-> WriteText(buffer, <<x>>, size)]
<1> DEFINE t == Directive(S, p + 1, arguments, used)
<1>1. t = [conversion |-> 99, used |-> used, width |-> 0, flags |-> {}, next |-> p + 3]
  <2>1. 99 \in {116, 99}
    OBVIOUS
  <2>2. QED
    BY <2>1, SimpleDirective
<1> HIDE DEF t
<1>2. t.conversion = 99 /\ t.used = used /\ t.width = 0 /\ t.flags = {} /\ t.next = p + 3
  BY <1>1
<1>3. Takes(t)
  BY <1>2 DEF Takes
<1>4. Convert(t, x, buffer, size) = WriteText(buffer, <<x>>, size)
  <2>1. 99 # 116 /\ 99 \notin DOMAIN NumberFlags /\ 99 # OPEN
    BY KnownFlags DEF OPEN
  <2>2. QED
    BY <1>2, <2>1 DEF Convert
<1>5. AfterDirective(t, arguments, buffer, size)
        = [at |-> t.next, used |-> IF Takes(t) THEN t.used + 1 ELSE t.used,
           buffer |-> Convert(t, arguments[t.used + 1], buffer, size)]
  BY Zenon DEF AfterDirective
<1>6. arguments[t.used + 1] = x
  BY <1>2
<1>7. QED
  BY <1>2, <1>3, <1>4, <1>5, <1>6 DEF t

\* The last format: {t}, a directive, a dot, {c}.
Compound(L) == InBraces(<<>>, <<>>, <<116>>) \o L \o <<DOT>> \o InBraces(<<>>, <<>>, <<99>>)

\* Where its parts are.
IsCompound(B, L) ==
  /\ B \in Seq(Nat) /\ Len(B) = 7 + Len(L)
  /\ Holds(B, 1, InBraces(<<>>, <<>>, <<116>>))
  /\ Holds(B, 4, L)
  /\ B[4 + Len(L)] = DOT
  /\ Holds(B, 5 + Len(L), InBraces(<<>>, <<>>, <<99>>))

\* Its parts are where they should be.
LEMMA CompoundHolds ==
  ASSUME NEW L \in Seq(Nat)
  PROVE  IsCompound(Compound(L), L)
<1> DEFINE P == InBraces(<<>>, <<>>, <<116>>)
           Q == InBraces(<<>>, <<>>, <<99>>)
           D == <<DOT>>
           l == Len(L)
           p2 == P \o L
           p3 == p2 \o D
           B == p3 \o Q
<1>1. ASSUME NEW c \in Nat
      PROVE  InBraces(<<>>, <<>>, <<c>>) \in Seq(Nat) /\ Len(InBraces(<<>>, <<>>, <<c>>)) = 3
  <2> DEFINE z == <<>>
             s == <<c>>
             x == InBraces(z, z, s)
  <2>1. z \in Seq(Nat) /\ Len(z) = 0 /\ s \in Seq(Nat) /\ Len(s) = 1
    OBVIOUS
  <2> HIDE DEF z, s
  <2>2. AreBraces(x, z, z, s)
    BY <2>1, BracesAt
  <2>3. x \in Seq(Nat) /\ Len(x) = Len(z) + Len(z) + Len(s) + 2
    BY <2>2, Zenon DEF AreBraces
  <2>4. x \in Seq(Nat) /\ Len(x) = 3
    BY <2>1, <2>3
  <2>5. QED
    BY <2>4 DEF z, s
<1>2. P \in Seq(Nat) /\ Len(P) = 3 /\ Q \in Seq(Nat) /\ Len(Q) = 3
  BY <1>1
<1>3. D \in Seq(Nat) /\ Len(D) = 1 /\ D[1] = DOT /\ l \in Nat
  BY DEF DOT
<1> HIDE DEF P, Q, D
<1>4. p2 \in Seq(Nat) /\ Len(p2) = 3 + l
  <2>1. Joins2(p2, P, L)
    BY <1>2, TwoJoined
  <2>2. QED
    BY <1>2, <2>1 DEF Joins2
<1>5. Holds(p2, 1, P) /\ Holds(p2, 4, L)
  <2>1. Holds(P, 1, P) /\ 4 = Len(P) + 1
    BY <1>2, HoldsWhole
  <2>2. QED
    BY <1>2, <2>1, HoldsBefore, HoldsBehind
<1> HIDE DEF p2
<1>6. p3 \in Seq(Nat) /\ Len(p3) = 4 + l
  <2>1. Joins2(p3, p2, D)
    BY <1>3, <1>4, TwoJoined
  <2>2. Len(p3) = Len(p2) + Len(D) /\ p3 \in Seq(Nat)
    BY <2>1 DEF Joins2
  <2>3. QED
    BY <1>3, <1>4, <2>2
<1>7. Holds(p3, 1, P) /\ Holds(p3, 4, L) /\ Holds(p3, 4 + l, D)
  <2>1. 4 + l = Len(p2) + 1
    BY <1>3, <1>4
  <2>2. Holds(p3, 4 + l, D)
    BY <1>3, <1>4, <2>1, HoldsBehind
  <2>3. QED
    BY <1>3, <1>4, <1>5, <2>2, HoldsBefore
<1> HIDE DEF p3
<1>8. B \in Seq(Nat) /\ Len(B) = 7 + l
  <2>1. Joins2(B, p3, Q)
    BY <1>2, <1>6, TwoJoined
  <2>2. Len(B) = Len(p3) + Len(Q) /\ B \in Seq(Nat)
    BY <2>1 DEF Joins2
  <2>3. QED
    BY <1>2, <1>3, <1>6, <2>2
<1>9. Holds(B, 1, P) /\ Holds(B, 4, L) /\ Holds(B, 4 + l, D) /\ Holds(B, 5 + l, Q)
  <2>1. 5 + l = Len(p3) + 1
    BY <1>3, <1>6
  <2>2. Holds(B, 5 + l, Q)
    BY <1>2, <1>6, <2>1, HoldsBehind
  <2>3. QED
    BY <1>2, <1>6, <1>7, <2>2, HoldsBefore
<1> HIDE DEF B
<1>10. B[4 + l] = DOT
  <2>1. \A j \in 1 .. Len(D) : B[(4 + l) + j - 1] = D[j]
    BY <1>9, Zenon DEF Holds, StandsAt
  <2>2. 1 \in 1 .. Len(D) /\ (4 + l) + 1 - 1 = 4 + l
    BY <1>3
  <2>3. QED
    BY <1>3, <2>1, <2>2
<1>11. B = Compound(L)
  BY Zenon DEF B, p3, p2, P, D, Q, Compound
<1>12. IsCompound(B, L)
  BY <1>8, <1>9, <1>10 DEF IsCompound, P, Q
<1>13. QED
  BY <1>11, <1>12

\* One turn of format_string: '{t}' with a null text, '{c}', a number and a
\* character of the format.
IsTurned(S, arguments, size, t, at, used, buffer) ==
  Turn(S, arguments, t, size) = [at |-> at, used |-> used, buffer |-> buffer]

\* A directive starts with a brace.
LEMMA SimpleOpens ==
  ASSUME NEW c \in Nat, NEW S, NEW p, Holds(S, p, InBraces(<<>>, <<>>, <<c>>))
  PROVE  S[p] = OPEN /\ p =< Len(S) /\ p \in Nat /\ Len(S) \in Nat
<1> DEFINE e == <<>>
           C == <<c>>
<1>1. e \in Seq(Nat) /\ C \in Seq(Nat) /\ Holds(S, p, InBraces(e, e, C))
  OBVIOUS
<1>2. S \in Seq(Nat) /\ p \in Nat
  BY DEF Holds
<1> HIDE DEF e, C
<1>3. S[p] = OPEN /\ p =< Len(S)
  BY <1>1, BraceOpens
<1>4. QED
  BY <1>2, <1>3

\* At a brace, the turn is that of the directive.
LEMMA TurnOfDirective ==
  ASSUME NEW S, NEW p \in Nat, S[p] = OPEN, p =< Len(S), Len(S) \in Nat, NEW arguments, NEW size,
         NEW u, NEW b, NEW t, t = [at |-> p, used |-> u, buffer |-> b]
  PROVE  Turn(S, arguments, t, size) = AfterDirective(Directive(S, p + 1, arguments, u), arguments, b, size)
<1>1. t.at = p /\ t.used = u /\ t.buffer = b /\ ~(p > Len(S))
  OBVIOUS
<1>2. QED
  BY <1>1 DEF Turn

\* The turn of {t} with a null pointer.
LEMMA NullTurn ==
  ASSUME NEW S, NEW p, Holds(S, p, InBraces(<<>>, <<>>, << 116 >>)), NEW arguments, NEW size,
         NEW u \in Nat, arguments[u + 1] = Null, NEW b, NEW t, t = [at |-> p, used |-> u, buffer |-> b]
  PROVE  IsTurned(S, arguments, size, t, p + 3, u + 1, WriteText(b, Nullptr, size))
<1>1. S[p] = OPEN /\ p =< Len(S) /\ p \in Nat /\ Len(S) \in Nat
  BY 116 \in Nat, SimpleOpens
<1>2. Turn(S, arguments, t, size) = AfterDirective(Directive(S, p + 1, arguments, u), arguments, b, size)
  BY <1>1, TurnOfDirective
<1>3. AfterDirective(Directive(S, p + 1, arguments, u), arguments, b, size) =
        [at |-> p + 3, used |-> u + 1, buffer |-> WriteText(b, Nullptr, size)]
  BY TextDirective
<1>4. QED
  BY <1>2, <1>3 DEF IsTurned

\* The turn of {c}.
LEMMA CharTurn ==
  ASSUME NEW S, NEW p, Holds(S, p, InBraces(<<>>, <<>>, << 99 >>)), NEW arguments, NEW size,
         NEW u \in Nat, NEW x, arguments[u + 1] = x, NEW b, NEW t, t = [at |-> p, used |-> u, buffer |-> b]
  PROVE  IsTurned(S, arguments, size, t, p + 3, u + 1, WriteText(b, <<x>>, size))
<1>1. S[p] = OPEN /\ p =< Len(S) /\ p \in Nat /\ Len(S) \in Nat
  BY 99 \in Nat, SimpleOpens
<1>2. Turn(S, arguments, t, size) = AfterDirective(Directive(S, p + 1, arguments, u), arguments, b, size)
  BY <1>1, TurnOfDirective
<1>3. AfterDirective(Directive(S, p + 1, arguments, u), arguments, b, size) =
        [at |-> p + 3, used |-> u + 1, buffer |-> WriteText(b, <<x>>, size)]
  BY CharDirective
<1>4. QED
  BY <1>2, <1>3 DEF IsTurned

\* The turn of a number.
LEMMA NumberTurn ==
  ASSUME NEW M \in Seq(Nat), NEW D \in Seq(Nat), NEW C \in Seq(Nat), NEW L, L = InBraces(M, D, C),
         NEW S, NEW p, Holds(S, p, L), NEW arguments, NEW used, NEW d, NEW v, NEW w, NEW u,
         Writes(S, p, L, arguments, used, d, v, w, u), NEW size,
         NEW b, NEW t, t = [at |-> p, used |-> used, buffer |-> b]
  PROVE  IsTurned(S, arguments, size, t, p + Len(L), u, WriteText(b, Shown(d, v, w), size))
<1>1. S[p] = OPEN /\ p =< Len(S)
  <2>1. Holds(S, p, InBraces(M, D, C))
    OBVIOUS
  <2>2. QED
    BY <2>1, BraceOpens
<1>2. p \in Nat /\ Len(S) \in Nat
  BY DEF Holds
<1>3. Turn(S, arguments, t, size) = AfterDirective(Directive(S, p + 1, arguments, used), arguments, b, size)
  BY <1>1, <1>2, TurnOfDirective
<1>4. AfterDirective(Directive(S, p + 1, arguments, used), arguments, b, size) =
        [at |-> p + Len(L), used |-> u, buffer |-> WriteText(b, Shown(d, v, w), size)]
  BY DEF Writes
<1>5. QED
  BY <1>3, <1>4 DEF IsTurned

\* The turn of any other character.
LEMMA PlainTurn ==
  ASSUME NEW S, NEW p \in Nat, Len(S) \in Nat, p =< Len(S), NEW c, S[p] = c, c # OPEN, NEW arguments, NEW size,
         NEW u, NEW b, NEW t, t = [at |-> p, used |-> u, buffer |-> b]
  PROVE  IsTurned(S, arguments, size, t, p + 1, u, WriteText(b, <<c>>, size))
<1>1. t.at = p /\ t.used = u /\ t.buffer = b /\ ~(p > Len(S))
  OBVIOUS
<1>2. Turn(S, arguments, t, size) = [t EXCEPT !.at = @ + 1, !.buffer = WriteText(@, <<S[p]>>, size)]
  BY <1>1 DEF Turn
<1> DEFINE x == WriteText(b, <<S[p]>>, size)
           q == p + 1
<1>3. Turn(S, arguments, t, size) = [t EXCEPT !.at = q, !.buffer = x]
  BY <1>1, <1>2
<1> HIDE DEF x, q
<1>4. [t EXCEPT !.at = q, !.buffer = x] = [at |-> q, used |-> u, buffer |-> x]
  <2>1. t = [at |-> p, used |-> u, buffer |-> b]
    OBVIOUS
  <2>2. [t EXCEPT !.at = q, !.buffer = x] = [[t EXCEPT !.at = q] EXCEPT !.buffer = x]
    BY <2>1
  <2>3. [t EXCEPT !.at = q] = [at |-> q, used |-> u, buffer |-> b]
    BY <2>1
  <2>4. [[at |-> q, used |-> u, buffer |-> b] EXCEPT !.buffer = x] = [at |-> q, used |-> u, buffer |-> x]
    OBVIOUS
  <2>5. QED
    BY <2>2, <2>3, <2>4, Zenon
<1>5. QED
  BY <1>3, <1>4 DEF IsTurned, x, q

\* A turn after k others.
LEMMA TurnTaken ==
  ASSUME NEW S \in Seq(Nat), NEW arguments, NEW size, NEW k \in Nat, k < Len(S),
         NEW t, Reaches(S, arguments, size, k, t), NEW at, NEW used, NEW buffer,
         IsTurned(S, arguments, size, t, at, used, buffer)
  PROVE  Reaches(S, arguments, size, k + 1, [at |-> at, used |-> used, buffer |-> buffer])
BY FormatGoesOn DEF IsTurned

\* A pointer, a number, a dot and a colon.
IsCompoundText(B, arguments, size, text) ==
  FormatString(B, arguments, size) = Nullptr \o text \o <<DOT, COLON>>

\* Two characters, one after the other.
LEMMA TwoCharacters ==
  ASSUME NEW b \in Seq(Nat)
  PROVE  (b \o <<DOT>>) \o <<COLON>> = b \o <<DOT, COLON>>
<1> DEFINE x == <<DOT>>
           y == <<COLON>>
           z == <<DOT, COLON>>
           xy == x \o y
<1>1. x \in Seq(Nat) /\ y \in Seq(Nat) /\ Len(x) = 1 /\ x[1] = DOT /\ Len(y) = 1 /\ y[1] = COLON
  BY DEF DOT, COLON
<1>2. z \in Seq(Nat) /\ Len(z) = 2 /\ z[1] = DOT /\ z[2] = COLON
  BY DEF DOT, COLON
<1> HIDE DEF x, y, z
<1>3. (b \o x) \o y = b \o xy
  BY <1>1, TextsAssociate
<1>4. Joins2(xy, x, y)
  BY <1>1, TwoJoined
<1> HIDE DEF xy
<1>5. xy = z
  <2>1. xy \in Seq(Nat) /\ Len(xy) = 2 /\ xy[1] = DOT /\ xy[2] = COLON
    BY <1>1, <1>4 DEF Joins2
  <2>2. \A i \in 1 .. 2 : i = 1 \/ i = 2
    OBVIOUS
  <2>3. \A i \in 1 .. Len(xy) : xy[i] = z[i]
    BY <1>2, <2>1, <2>2
  <2>4. QED
    BY <1>2, <2>1, <2>3, SeqEqual
<1>6. QED
  BY <1>3, <1>5 DEF x, y, z

\* The four turns of the compound, one after the other.
LEMMA CompoundWritten ==
  ASSUME NEW M \in Seq(Nat), NEW D \in Seq(Nat), NEW C \in Seq(Nat), NEW L, L = InBraces(M, D, C),
         NEW d, NEW v, NEW w, NEW text, text = Shown(d, v, w), text \in Seq(Nat),
         NEW arguments, arguments[1] = Null, arguments[3] = COLON,
         Writes(Compound(L), 4, L, arguments, 1, d, v, w, 2),
         NEW size \in Nat, Len(text) + 9 =< size
  PROVE  IsCompoundText(Compound(L), arguments, size, text)
<1> DEFINE B == Compound(L)
           l == Len(L)
           b1 == Nullptr
           b2 == b1 \o text
           b3 == b2 \o <<DOT>>
           b4 == b3 \o <<COLON>>
           t0 == [at |-> 1, used |-> 0, buffer |-> <<>>]
           t1 == [at |-> 4, used |-> 1, buffer |-> b1]
           t2 == [at |-> 4 + l, used |-> 2, buffer |-> b2]
           t3 == [at |-> 5 + l, used |-> 2, buffer |-> b3]
           t4 == [at |-> 8 + l, used |-> 3, buffer |-> b4]
<1>1. L \in Seq(Nat) /\ l \in Nat /\ IsCompound(B, L)
  <2>1. AreBraces(L, M, D, C)
    BY BracesAt
  <2>2. L \in Seq(Nat)
    BY <2>1, Zenon DEF AreBraces
  <2>3. QED
    BY <2>2, CompoundHolds
<1>2. /\ B \in Seq(Nat) /\ Len(B) = 7 + l
      /\ Holds(B, 1, InBraces(<<>>, <<>>, <<116>>))
      /\ Holds(B, 4, L)
      /\ B[4 + l] = DOT
      /\ Holds(B, 5 + l, InBraces(<<>>, <<>>, <<99>>))
  BY <1>1, Zenon DEF IsCompound
<1> HIDE DEF B
<1>3. /\ <<>> \in Seq(Nat) /\ <<116>> \in Seq(Nat) /\ <<99>> \in Seq(Nat)
      /\ <<DOT>> \in Seq(Nat) /\ <<COLON>> \in Seq(Nat) /\ Len(<<DOT>>) = 1 /\ Len(<<COLON>>) = 1
      /\ b1 \in Seq(Nat) /\ Len(b1) = 7
  BY DEF DOT, COLON, Nullptr
<1> HIDE DEF b1
<1>4. b2 \in Seq(Nat) /\ Len(b2) = 7 + Len(text) /\ Len(text) \in Nat
  <2>1. Joins2(b2, b1, text)
    BY <1>3, TwoJoined
  <2>2. QED
    BY <1>3, <2>1 DEF Joins2
<1> HIDE DEF b2
<1>5. b3 \in Seq(Nat) /\ Len(b3) = 8 + Len(text)
  <2>1. Joins2(b3, b2, <<DOT>>)
    BY <1>3, <1>4, TwoJoined
  <2>2. Len(b3) = Len(b2) + Len(<<DOT>>) /\ b3 \in Seq(Nat)
    BY <2>1 DEF Joins2
  <2>3. QED
    BY <1>3, <1>4, <2>2
<1> HIDE DEF b3
<1>6. WriteText(<<>>, b1, size) = b1
  <2> DEFINE z == <<>>
  <2>1. z \in Seq(Nat) /\ Len(z) = 0 /\ z \o b1 = b1
    BY <1>3, ConcatEmptySeq
  <2> HIDE DEF z
  <2>2. Len(z) + Len(b1) =< size
    BY <1>3, <1>4, <2>1
  <2>3. WriteText(z, b1, size) = z \o b1
    BY <1>3, <2>1, <2>2, TextWritten
  <2>4. QED
    BY <2>1, <2>3 DEF z
<1>7. WriteText(b1, text, size) = b2
  <2>1. Len(b1) + Len(text) =< size
    BY <1>3, <1>4
  <2>2. QED
    BY <1>3, <2>1, TextWritten DEF b2
<1>8. WriteText(b2, <<DOT>>, size) = b3
  <2>1. Len(b2) + Len(<<DOT>>) =< size
    BY <1>3, <1>4
  <2>2. QED
    BY <1>3, <1>4, <2>1, TextWritten DEF b3
<1>9. WriteText(b3, <<COLON>>, size) = b4
  <2>1. Len(b3) + Len(<<COLON>>) =< size
    BY <1>3, <1>4, <1>5
  <2>2. QED
    BY <1>3, <1>5, <2>1, TextWritten
<1> HIDE DEF b4
<1>10. IsTurned(B, arguments, size, t0, 4, 1, b1)
  <2> DEFINE p == 1
             u == 0
  <2>1. p + 3 = 4 /\ u + 1 = 1 /\ u \in Nat /\ arguments[u + 1] = Null
    OBVIOUS
  <2>2. t0 = [at |-> p, used |-> u, buffer |-> <<>>] /\ Holds(B, p, InBraces(<<>>, <<>>, <<116>>))
    BY <1>2
  <2> HIDE DEF p, u, t0
  <2>3. IsTurned(B, arguments, size, t0, p + 3, u + 1, WriteText(<<>>, Nullptr, size))
    BY <2>1, <2>2, NullTurn
  <2>4. WriteText(<<>>, Nullptr, size) = b1
    BY <1>6 DEF b1
  <2>5. QED
    BY <2>1, <2>3, <2>4
<1>11. IsTurned(B, arguments, size, t1, 4 + l, 2, b2)
  <2>1. Writes(B, 4, L, arguments, 1, d, v, w, 2)
    BY DEF B
  <2>2. Holds(B, 4, L)
    BY <1>2
  <2>3. IsTurned(B, arguments, size, t1, 4 + Len(L), 2, WriteText(b1, Shown(d, v, w), size))
    BY <2>1, <2>2, NumberTurn
  <2>4. QED
    BY <1>7, <2>3
<1>12. IsTurned(B, arguments, size, t2, 5 + l, 2, b3)
  <2> DEFINE p == 4 + l
  <2>1. p \in Nat /\ Len(B) \in Nat /\ p =< Len(B) /\ p + 1 = 5 + l /\ B[p] = DOT
    BY <1>1, <1>2
  <2>2. DOT # OPEN
    BY DEF DOT, OPEN
  <2>3. t2 = [at |-> p, used |-> 2, buffer |-> b2]
    OBVIOUS
  <2> HIDE DEF p, t2
  <2>4. IsTurned(B, arguments, size, t2, p + 1, 2, WriteText(b2, <<DOT>>, size))
    BY <2>1, <2>2, <2>3, PlainTurn
  <2>5. QED
    BY <1>8, <2>1, <2>4
<1>13. IsTurned(B, arguments, size, t3, 8 + l, 3, b4)
  <2> DEFINE p == 5 + l
             u == 2
  <2>1. p + 3 = 8 + l /\ u + 1 = 3 /\ u \in Nat /\ arguments[u + 1] = COLON
    BY <1>1
  <2>2. t3 = [at |-> p, used |-> u, buffer |-> b3] /\ Holds(B, p, InBraces(<<>>, <<>>, <<99>>))
    BY <1>2
  <2> HIDE DEF p, u, t3
  <2>3. IsTurned(B, arguments, size, t3, p + 3, u + 1, WriteText(b3, <<COLON>>, size))
    BY <2>1, <2>2, CharTurn
  <2>4. QED
    BY <1>9, <2>1, <2>3
<1>14. t4.at = 8 + l /\ t4.buffer = b4
  OBVIOUS
<1>15. Reaches(B, arguments, size, 0, t0)
  BY <1>2, FormatStarts
<1>16. 7 + l = Len(B) /\ l \in Nat /\ Len(B) \in Nat
  BY <1>1, <1>2
<1> DEFINE n == Len(B)
<1>17. /\ 0 \in Nat /\ 1 \in Nat /\ 2 \in Nat /\ 3 \in Nat /\ 4 \in Nat
       /\ 0 + 1 = 1 /\ 1 + 1 = 2 /\ 2 + 1 = 3 /\ 3 + 1 = 4
       /\ 0 < n /\ 1 < n /\ 2 < n /\ 3 < n /\ 4 =< n /\ 8 + l > n
  <2> HIDE DEF n, l
  <2>1. n = 7 + l /\ l \in Nat
    BY <1>16 DEF n
  <2>2. QED
    BY <2>1
<1>18. Reaches(B, arguments, size, 1, t1)
  <2> HIDE DEF t0
  <2>1. Reaches(B, arguments, size, 0 + 1, t1)
    BY <1>2, <1>10, <1>15, <1>17, TurnTaken
  <2>2. QED
    BY <1>17, <2>1
<1>19. Reaches(B, arguments, size, 2, t2)
  <2> HIDE DEF t1
  <2>1. Reaches(B, arguments, size, 1 + 1, t2)
    BY <1>2, <1>11, <1>17, <1>18, TurnTaken
  <2>2. QED
    BY <1>17, <2>1
<1>20. Reaches(B, arguments, size, 3, t3)
  <2> HIDE DEF t2
  <2>1. Reaches(B, arguments, size, 2 + 1, t3)
    BY <1>2, <1>12, <1>17, <1>19, TurnTaken
  <2>2. QED
    BY <1>17, <2>1
<1>21. Reaches(B, arguments, size, 4, t4)
  <2> HIDE DEF t3
  <2>1. Reaches(B, arguments, size, 3 + 1, t4)
    BY <1>2, <1>13, <1>17, <1>20, TurnTaken
  <2>2. QED
    BY <1>17, <2>1
<1>22. FormatString(B, arguments, size) = b4
  <2>1. t4.at > Len(B)
    BY <1>14, <1>17
  <2> HIDE DEF t4, n
  <2>2. 4 \in Nat /\ 4 =< Len(B)
    BY <1>17 DEF n
  <2>3. FormatString(B, arguments, size) = t4.buffer
    BY <1>2, <1>21, <2>1, <2>2, FormatEnds
  <2>4. QED
    BY <1>14, <2>3
<1>23. b4 = b2 \o <<DOT, COLON>>
  BY <1>4, TwoCharacters DEF b4, b3
<1>24. QED
  BY <1>22, <1>23 DEF b2, b1, B, IsCompoundText

\* The parts of a directive are texts, and so is the whole.
LEMMA DirectiveTexts ==
  ASSUME NEW d \in Directives, NEW w, IsByte(w)
  PROVE  /\ d.marks \in Seq(Nat) /\ d.conversion \in Seq(Nat)
         /\ Reverse(FragmentDigits(w)) \in Seq(Nat)
<1>1. IsForm(d.marks, <<>>, d.conversion, Len(d.conversion) = 2)
  BY DirectivesKnown DEF Known
<1> DEFINE D == Reverse(FragmentDigits(w))
<1>2. D = <<48>> \/ IsDecimal(D, w)
  BY WidthDigits
<1> HIDE DEF D
<1>3. D \in Seq(Nat)
  <2>1. CASE D = <<48>>
    BY <2>1
  <2>2. CASE IsDecimal(D, w)
    BY <2>2 DEF IsDecimal
  <2>3. QED
    BY <1>2, <2>1, <2>2
<1>4. QED
  BY <1>1, <1>3 DEF IsForm, D

\* A directive is a text.
LEMMA BracesAreText ==
  ASSUME NEW M \in Seq(Nat), NEW D \in Seq(Nat), NEW C \in Seq(Nat)
  PROVE  InBraces(M, D, C) \in Seq(Nat)
<1>1. AreBraces(InBraces(M, D, C), M, D, C)
  BY BracesAt
<1>2. QED
  BY <1>1, Zenon DEF AreBraces

\* A format that is one directive writes the number and nothing else.
LEMMA WithWidth ==
  ASSUME NEW d \in Directives, NEW w, IsByte(w), NEW v \in Int, NEW size
  PROVE  FormatString(InBraces(d.marks, Reverse(FragmentDigits(w)), d.conversion), <<v>>, size) =
           WriteText(<<>>, Shown(d, v, w), size)
<1> DEFINE M == d.marks
           C == d.conversion
           D == Reverse(FragmentDigits(w))
           L == InBraces(M, D, C)
           a == <<v>>
           u == 0
<1>1. M \in Seq(Nat) /\ C \in Seq(Nat) /\ D \in Seq(Nat)
  BY DirectiveTexts
<1> HIDE DEF D
<1>2. L \in Seq(Nat)
  BY <1>1, BracesAreText
<1>3. Holds(L, 1, L)
  BY <1>2, HoldsWhole
<1>4. u \in Nat /\ a[u + 1] = v
  OBVIOUS
<1> HIDE DEF a, u
<1>5. Writes(L, 1, L, a, u, d, v, w, u + 1)
  BY <1>3, <1>4, WidthWrites DEF D
<1>6. FormatString(L, a, size) = WriteText(<<>>, Shown(d, v, w), size)
  <2> HIDE DEF M, C
  <2>1. Writes(L, 1, L, a, 0, d, v, w, u + 1)
    BY <1>5, Zenon DEF u
  <2>2. QED
    BY <1>1, <2>1, OneDirective
<1>7. QED
  BY <1>6 DEF D, a

\* The same without a width.
LEMMA WithoutWidth ==
  ASSUME NEW d \in Directives, NEW v \in Int, NEW size
  PROVE  FormatString(InBraces(d.marks, <<>>, d.conversion), <<v>>, size) =
           WriteText(<<>>, Shown(d, v, 0), size)
<1> DEFINE M == d.marks
           C == d.conversion
           D == <<>>
           L == InBraces(M, D, C)
           a == <<v>>
           u == 0
<1>1. M \in Seq(Nat) /\ C \in Seq(Nat) /\ D \in Seq(Nat)
  BY DirectivesKnown DEF Known, IsForm
<1>2. L \in Seq(Nat)
  BY <1>1, BracesAreText
<1>3. Holds(L, 1, L)
  BY <1>2, HoldsWhole
<1>4. u \in Nat /\ a[u + 1] = v
  OBVIOUS
<1> HIDE DEF a, u
<1>5. Writes(L, 1, L, a, u, d, v, 0, u + 1)
  BY <1>3, <1>4, NaturalWrites
<1>6. FormatString(L, a, size) = WriteText(<<>>, Shown(d, v, 0), size)
  <2> HIDE DEF M, C, D
  <2>1. Writes(L, 1, L, a, 0, d, v, 0, u + 1)
    BY <1>5, Zenon DEF u
  <2> DEFINE w == 0
  <2> HIDE DEF w
  <2>2. Writes(L, 1, L, a, 0, d, v, w, u + 1)
    BY <2>1 DEF w
  <2>3. FormatString(L, a, size) = WriteText(<<>>, Shown(d, v, w), size)
    BY <1>1, <2>2, OneDirective
  <2>4. QED
    BY <2>3 DEF w
<1>7. QED
  BY <1>6 DEF a

\* The same with a width from the arguments.
LEMMA WithTakenWidth ==
  ASSUME NEW d \in Directives, NEW w \in Nat, NEW v \in Int, NEW size
  PROVE  FormatString(InBraces(<<UNDERSCORE>> \o d.marks, <<>>, d.conversion), <<w, v>>, size) =
           WriteText(<<>>, Shown(d, v, w), size)
<1> DEFINE U == <<UNDERSCORE>>
           M == d.marks
           N == U \o M
           C == d.conversion
           D == <<>>
           L == InBraces(N, D, C)
           a == <<w, v>>
           u == 0
<1>1. M \in Seq(Nat) /\ C \in Seq(Nat) /\ D \in Seq(Nat)
  BY DirectivesKnown DEF Known, IsForm
<1>2. U \in Seq(Nat)
  BY DEF UNDERSCORE
<1>3. N \in Seq(Nat)
  <2> HIDE DEF U, M
  <2>1. QED
    BY <1>1, <1>2, TwoJoined DEF Joins2
<1>4. L \in Seq(Nat)
  <2> HIDE DEF N
  <2>1. QED
    BY <1>1, <1>3, BracesAreText
<1>5. Holds(L, 1, L)
  BY <1>4, HoldsWhole
<1>6. u \in Nat /\ a[u + 1] = w /\ a[(u + 1) + 1] = v
  OBVIOUS
<1> HIDE DEF a, u
<1>7. Writes(L, 1, L, a, u, d, v, w, (u + 1) + 1)
  BY <1>5, <1>6, TakenWrites
<1>8. FormatString(L, a, size) = WriteText(<<>>, Shown(d, v, w), size)
  <2> HIDE DEF N, C, D
  <2>1. Writes(L, 1, L, a, 0, d, v, w, (u + 1) + 1)
    BY <1>7, Zenon DEF u
  <2>2. QED
    BY <1>1, <1>3, <2>1, OneDirective
<1>9. QED
  BY <1>8 DEF a

\* Between other directives and characters, the number is what it is alone.
LEMMA Surrounded ==
  ASSUME NEW d \in Directives, NEW w, IsByte(w), NEW v \in Int,
         NEW L, L = InBraces(d.marks, Reverse(FragmentDigits(w)), d.conversion),
         NEW text, text = Shown(d, v, w), text \in Seq(Nat),
         NEW size \in Nat, Len(text) + 9 =< size
  PROVE  IsCompoundText(Compound(L), <<Null, v, COLON>>, size, text)
<1> DEFINE M == d.marks
           C == d.conversion
           D == Reverse(FragmentDigits(w))
           a == <<Null, v, COLON>>
           u == 1
           B == Compound(L)
           p == 4
<1>1. M \in Seq(Nat) /\ C \in Seq(Nat) /\ D \in Seq(Nat)
  BY DirectiveTexts
<1> HIDE DEF D
<1>2. L = InBraces(M, D, C) /\ L \in Seq(Nat)
  BY <1>1, BracesAreText DEF D
<1>3. Holds(B, p, L)
  BY <1>2, CompoundHolds DEF IsCompound
<1>4. /\ u \in Nat /\ a[u + 1] = v /\ u + 1 = 2
      /\ a[1] = Null /\ a[3] = COLON
  OBVIOUS
<1> HIDE DEF a, u, B, p
<1>5. Writes(B, p, L, a, u, d, v, w, u + 1)
  <2>1. Holds(B, p, InBraces(d.marks, D, d.conversion))
    BY <1>2, <1>3, Zenon
  <2>2. Writes(B, p, InBraces(d.marks, D, d.conversion), a, u, d, v, w, u + 1)
    BY <1>4, <2>1, WidthWrites DEF D
  <2>3. QED
    BY <1>2, <2>2, Zenon
<1>6. Writes(Compound(L), 4, L, a, 1, d, v, w, 2)
  BY <1>4, <1>5 DEF B, p, u
<1>7. IsCompoundText(Compound(L), a, size, text)
  <2> HIDE DEF M, C
  <2>1. M \in Seq(Nat) /\ D \in Seq(Nat) /\ C \in Seq(Nat) /\ L = InBraces(M, D, C)
    BY <1>1, <1>2
  <2>2. a[1] = Null /\ a[3] = COLON
    BY <1>4
  <2>3. QED
    BY <1>6, <2>1, <2>2, CompoundWritten
<1>8. QED
  BY <1>7 DEF a

\* Room has room for every number, and for what stands around it.
LEMMA RoomSuffices ==
  ASSUME NEW text, NEW natural, NEW d \in Directives, NEW v, NEW w, IsByte(w), IsShown(text, natural, d, v, w)
  PROVE  /\ Room \in Nat /\ text \in Seq(Nat) /\ natural \in Seq(Nat)
         /\ Len(text) + 9 =< Room /\ Len(natural) =< Room
<1> DEFINE s == WordModulus * WordModulus
<1>1. d.modulus \in Nat /\ d.modulus =< s /\ w \in Nat /\ w < 256
  BY ModulusIsWord DEF IsByte
<1>2. s \in Nat /\ Room = s + 300
  BY ConversionsAssumption DEF Room
<1>3. /\ text \in Seq(Nat) /\ natural \in Seq(Nat) /\ Len(natural) =< d.modulus + 2
      /\ Len(text) = IF w > Len(natural) THEN w ELSE Len(natural)
  BY DEF IsShown
<1>4. Len(text) \in Nat /\ Len(natural) \in Nat
  BY <1>3
<1> HIDE DEF s
<1>5. QED
  BY <1>1, <1>2, <1>3, <1>4

\* What fits is written whole, what does not is cut off.
LEMMA TextFits ==
  ASSUME NEW text \in Seq(Nat), NEW size \in Nat
  PROVE  /\ Len(text) =< size => WriteText(<<>>, text, size) = text
         /\ WriteText(<<>>, text, size) = SubSeq(text, 1, IF Len(text) < size THEN Len(text) ELSE size)
<1> DEFINE z == <<>>
<1>1. z \in Seq(Nat) /\ Len(z) = 0 /\ z \o text = text
  BY ConcatEmptySeq
<1> HIDE DEF z
<1>2. Len(text) \in Nat
  OBVIOUS
<1>3. /\ Len(z) + Len(text) =< size => WriteText(z, text, size) = z \o text
      /\ WriteText(<<>>, text, size) = SubSeq(text, 1, IF Len(text) < size THEN Len(text) ELSE size)
  BY <1>1, TextWritten
<1>4. Len(text) =< size => WriteText(z, text, size) = text
  BY <1>1, <1>2, <1>3
<1>5. QED
  BY <1>3, <1>4 DEF z

\* What NumbersReadBack says of one directive, width and number.
ReadsBack(d, v, w) ==
  LET directive == InBraces(d.marks, Reverse(FragmentDigits(w)), d.conversion)
      text      == FormatString(directive, <<v>>, Room)
      short     == FormatString(directive, <<v>>, 4)
      natural   == FormatString(InBraces(d.marks, <<>>, d.conversion), <<v>>, Room)
  IN  /\ ReadNumber(text, d.base) = IF d.signed THEN v ELSE v % d.modulus
      /\ Len(text) = IF w > Len(natural) THEN w ELSE Len(natural)
      /\ short = SubSeq(text, 1, IF Len(text) < 4 THEN Len(text) ELSE 4)
      /\ FormatString(InBraces(<<UNDERSCORE>> \o d.marks, <<>>, d.conversion), <<w, v>>, Room) = text
      /\ FormatString(Compound(directive), <<Null, v, COLON>>, Room) = Nullptr \o text \o <<DOT, COLON>>

\* And it is so for each of them.
LEMMA DirectiveReadsBack ==
  ASSUME NEW d \in Directives, NEW w, IsByte(w), NEW v, IsWithin(d, v)
  PROVE  ReadsBack(d, v, w)
<1> DEFINE directive == InBraces(d.marks, Reverse(FragmentDigits(w)), d.conversion)
           text      == Shown(d, v, w)
           natural   == Shown(d, v, 0)
<1>1. w \in Nat /\ v \in Int
  BY DEF IsByte, IsWithin
<1>2. IsShown(text, natural, d, v, w)
  BY <1>1, NumberShown
<1>3. /\ FormatString(directive, <<v>>, Room) = WriteText(<<>>, text, Room)
      /\ FormatString(directive, <<v>>, 4) = WriteText(<<>>, text, 4)
  BY <1>1, WithWidth
<1>4. FormatString(InBraces(d.marks, <<>>, d.conversion), <<v>>, Room) = WriteText(<<>>, natural, Room)
  BY <1>1, WithoutWidth
<1>5. FormatString(InBraces(<<UNDERSCORE>> \o d.marks, <<>>, d.conversion), <<w, v>>, Room) = WriteText(<<>>, text, Room)
  BY <1>1, WithTakenWidth
<1>6. ASSUME NEW t, t = text, NEW L, L = directive, t \in Seq(Nat), Room \in Nat, Len(t) + 9 =< Room
      PROVE  IsCompoundText(Compound(L), <<Null, v, COLON>>, Room, t)
  <2>1. t = Shown(d, v, w) /\ L = InBraces(d.marks, Reverse(FragmentDigits(w)), d.conversion)
    BY <1>6
  <2> HIDE DEF directive, text
  <2>2. QED
    BY <1>1, <1>6, <2>1, Surrounded
<1> HIDE DEF directive, text, natural
<1>7. /\ Room \in Nat /\ text \in Seq(Nat) /\ natural \in Seq(Nat)
      /\ Len(text) + 9 =< Room /\ Len(natural) =< Room
  BY <1>2, RoomSuffices
<1>8. /\ WriteText(<<>>, text, Room) = text /\ WriteText(<<>>, natural, Room) = natural
      /\ WriteText(<<>>, text, 4) = SubSeq(text, 1, IF Len(text) < 4 THEN Len(text) ELSE 4)
  <2>1. Len(text) \in Nat /\ Len(text) =< Room
    BY <1>7
  <2>2. QED
    BY <1>7, <2>1, TextFits
<1>9. FormatString(Compound(directive), <<Null, v, COLON>>, Room) = Nullptr \o text \o <<DOT, COLON>>
  BY <1>6, <1>7, Zenon DEF IsCompoundText
<1>10. /\ ReadNumber(text, d.base) = IF d.signed THEN v ELSE v % d.modulus
       /\ Len(text) = IF w > Len(natural) THEN w ELSE Len(natural)
  BY <1>2, Zenon DEF IsShown
<1>11. /\ FormatString(directive, <<v>>, Room) = text
       /\ FormatString(directive, <<v>>, 4) = SubSeq(text, 1, IF Len(text) < 4 THEN Len(text) ELSE 4)
       /\ FormatString(InBraces(d.marks, <<>>, d.conversion), <<v>>, Room) = natural
       /\ FormatString(InBraces(<<UNDERSCORE>> \o d.marks, <<>>, d.conversion), <<w, v>>, Room) = text
  BY <1>3, <1>4, <1>5, <1>8, Zenon
<1>12. QED
  BY <1>9, <1>10, <1>11, Zenon DEF ReadsBack, directive

\* So it is for every directive, width and number of the check.
LEMMA NumbersAreReadBack ==
  ASSUME TypeOK
  PROVE  NumbersReadBack
<1>1. SUFFICES ASSUME Len(bytes) = 1, NEW d \in Directives, NEW number \in Numbers, Fits(number, d)
               PROVE  ReadsBack(d, number, bytes[1])
  BY <1>1, Zenon DEF NumbersReadBack, ReadsBack, Compound
<1>2. bytes \in Seq(Bytes) /\ Bytes \subseteq 0 .. 255 /\ Numbers \subseteq Int
  BY MCConversionsAssumption DEF TypeOK
<1>3. bytes[1] \in Bytes
  BY <1>1, <1>2
<1>4. IsByte(bytes[1])
  <2>1. \A b \in Bytes : b \in Nat /\ b < 256
    BY <1>2
  <2>2. QED
    BY <1>3, <2>1, Zenon DEF IsByte
<1>5. IsWithin(d, number)
  <2>1. number \in Int /\ d.modulus \in Nat /\ -d.modulus < number /\ number < d.modulus
    BY <1>1, <1>2, ModulusIsWord DEF Fits
  <2>2. QED
    BY <2>1 DEF IsWithin
<1>6. QED
  BY <1>4, <1>5, DirectiveReadsBack

-----------------------------------------------------------------------------
(* What holds of all inputs. *)

\* The inputs have the types they are given.
THEOREM TypeCorrect == Spec => []TypeOK
<1>1. Init => TypeOK
  BY MCConversionsAssumption DEF Init, TypeOK
<1>2. TypeOK /\ [Next]_vars => TypeOK'
  <2>1. SUFFICES ASSUME TypeOK, [Next]_vars PROVE TypeOK'
    OBVIOUS
  <2>2. CASE AddByte
    <3>1. PICK b \in Bytes : bytes' = Append(bytes, b)
      BY <2>2 DEF AddByte
    <3>2. bytes' \in Seq(Bytes) /\ Len(bytes') = Len(bytes) + 1
      BY <2>1, <3>1 DEF TypeOK
    <3>3. Len(bytes) \in Nat /\ MaxBytes \in Nat /\ Len(bytes) < MaxBytes /\ items' = items
      BY <2>1, <2>2, MCConversionsAssumption DEF TypeOK, AddByte
    <3>4. QED
      BY <2>1, <3>2, <3>3 DEF TypeOK
  <2>3. CASE AddItem
    <3>1. PICK item \in IF items = <<>> THEN Items \ {Pad0} ELSE Items : items' = Append(items, item)
      BY <2>3 DEF AddItem
    <3>2. item \in Items /\ (items = <<>> => item # Pad0)
      BY <3>1
    <3>3. /\ items \in Seq(Items) /\ Len(items) \in Nat /\ MaxOptions \in Nat /\ Len(items) < MaxOptions
          /\ bytes' = bytes
      BY <2>1, <2>3, MCConversionsAssumption DEF TypeOK, AddItem
    <3>4. items' \in Seq(Items) /\ Len(items') = Len(items) + 1
      BY <3>1, <3>2, <3>3
    <3>5. items'[1] # Pad0
      <4>1. CASE items = <<>>
        <5>1. items'[1] = item
          BY <3>1, <4>1
        <5>2. QED
          BY <3>2, <4>1, <5>1
      <4>2. CASE items # <<>>
        <5>1. items'[1] = items[1]
          BY <3>1, <3>2, <3>3, <4>2
        <5>2. QED
          BY <2>1, <4>2, <5>1 DEF TypeOK
      <4>3. QED
        BY <4>1, <4>2
    <3>6. QED
      BY <2>1, <3>3, <3>4, <3>5 DEF TypeOK
  <2>4. CASE UNCHANGED vars
    BY <2>1, <2>4 DEF TypeOK, vars
  <2>5. QED
    BY <2>1, <2>2, <2>3, <2>4 DEF Next
<1>3. QED
  BY <1>1, <1>2, PTL DEF Spec

\* A receiver that follows RFC 1071 accepts every checksum the stack sends,
\* whatever the bytes it covers and however many.
THEOREM AllChecksumsVerify == Spec => []ChecksumsVerify
<1>1. TypeOK => ChecksumsVerify
  <2>1. SUFFICES ASSUME TypeOK PROVE ChecksumsVerify
    OBVIOUS
  <2>2. bytes \in Seq(Nat) /\ Len(bytes) \in Nat
    <3>1. bytes \in Seq(Bytes) /\ Bytes \subseteq Nat
      BY <2>1, MCConversionsAssumption DEF TypeOK
    <3>2. bytes \in Seq(Nat)
      BY <3>1, SeqMonotonic
    <3>3. QED
      BY <3>2
  <2> DEFINE everyone == <<255, 255, 255, 255>>
             ping     == <<8, 0, 1, 2, 255, 254>>
  <2>3. Us \in Seq(Nat) /\ Len(Us) % 2 = 0 /\ everyone \in Seq(Nat) /\ Len(everyone) % 2 = 0
    <3>1. Us \in Seq(Nat) /\ Len(Us) = 4 /\ everyone \in Seq(Nat) /\ Len(everyone) = 4
      BY DEF Us
    <3> HIDE DEF everyone
    <3>2. QED
      BY <3>1
  <2>4. ping \in Seq(Nat)
    OBVIOUS
  <2> HIDE DEF everyone, ping
  <2>5. Verifies(IpHeaderFor(1024, 17, Us, bytes))
    BY <2>2, <2>3, IpHeaderVerifies
  <2>6. ping \o bytes \in Seq(Nat)
    BY <2>2, <2>4, JoinedAt
  <2>7. Verifies(PingReply(ping \o bytes))
    BY <2>6, PingReplyVerifies
  <2>8. 65535 \in Nat /\ 67 \in Nat
    OBVIOUS
  <2>9. Verifies(PseudoHeader(Us, everyone, Len(bytes) + 8) \o UdpDatagram(65535, 67, bytes, Us, everyone))
    BY <2>2, <2>3, <2>8, UdpDatagramVerifies
  <2>10. QED
    BY <2>5, <2>7, <2>9 DEF ChecksumsVerify, everyone, ping
<1>2. QED
  BY <1>1, TypeCorrect, PTL

\* Every address survives the way through text: string_to_ip reads what
\* ip_to_string writes, and string_to_mac what mac_to_string does in either case.
THEOREM AllAddressesReadBack == Spec => []AddressesReadBack
<1>1. TypeOK => AddressesReadBack
  BY AddressesAreReadBack
<1>2. QED
  BY <1>1, TypeCorrect, PTL

\* Whatever options a server puts into a message, in whatever order and with
\* whatever padding between them, dhcp_read finds the last of each type it knows;
\* and it refuses every message that was cut off.
THEOREM AllOptionsRead == Spec => []OptionsRead
<1>1. TypeOK => OptionsRead
  BY ItemsAreRead
<1>2. QED
  BY <1>1, TypeCorrect, PTL

\* Every number that fits into the word, or the two words, of a directive, zero,
\* positive or negative, written in base 10, 16 or 2 with one mark or none and with
\* any width, from the format or from the arguments, alone or between other
\* directives, is as wide as it should be, reads back as the number, and is cut off
\* at the end of the buffer.
THEOREM AllNumbersReadBack == Spec => []NumbersReadBack
<1>1. TypeOK => NumbersReadBack
  BY NumbersAreReadBack
<1>2. QED
  BY <1>1, TypeCorrect, PTL
=============================================================================
