---------------------------- MODULE BackoffProofs ----------------------------
(***************************************************************************)
(* Theorems about Backoff.tla, for every choice of the timeouts, of the    *)
(* jitter, of the width of the clock and of the gap between two polls.     *)
(*                                                                         *)
(* NeverLate and NeverEarly compare real time with what the structure      *)
(* says, so the inductive invariant relates the two: the difference the    *)
(* code computes modulo the clock is the time that went by.  It holds      *)
(* because no wait is as long as one turn of the clock, and that in turn   *)
(* needs the bound on the wait that NeverLate is about.                    *)
(***************************************************************************)
EXTENDS Backoff, TLAPS

\* The timeout has doubled once per transmission, and the wait lies between it
\* and what the jitter adds.
TimeoutDoubled ==
  /\ timeout = Least(count)
  /\ count # 0 => timeout_with_jitter \in timeout .. timeout + timeout \div JitterFraction

\* get_elapsed() measures the time since the last transmission, which exceeds
\* the wait by what passed since the last poll, at the most.
ClockAgrees ==
  count # 0 => /\ Elapsed(time, now) = waited
               /\ waited =< timeout_with_jitter + unpolled

IInv == TypeOK /\ TimeoutDoubled /\ ClockAgrees

-----------------------------------------------------------------------------
(* Arithmetic. *)

\* LIMIT and MIN of the C code are the smaller of two numbers.
LEMMA MinOfTwo ==
  ASSUME NEW a \in Int, NEW b \in Int
  PROVE  Min({a, b}) = IF a =< b THEN a ELSE b
<1>1. \E x \in {a, b} : \A y \in {a, b} : x =< y
  OBVIOUS
<1>2. Min({a, b}) \in {a, b} /\ \A y \in {a, b} : Min({a, b}) =< y
  BY <1>1 DEF Min
<1>3. QED
  BY <1>2

\* Doubling the timeout of the n-th transmission gives that of the next one,
\* whether or not the limit has been reached.
LEMMA LeastDoubles ==
  ASSUME NEW n \in 0 .. MaxCount
  PROVE  /\ Least(0) = StartTimeout
         /\ Least(n) \in StartTimeout .. MaxTimeout
         /\ Doubled(Least(n)) \in StartTimeout .. MaxTimeout
         /\ Least(n + 1) = Doubled(Least(n))
<1>1. /\ StartTimeout \in Nat /\ MaxTimeout \in Nat
      /\ 0 < StartTimeout /\ StartTimeout =< MaxTimeout
  BY BackoffAssumption
<1>2. 2 ^ 0 = 1 /\ 2 ^ n \in Nat \ {0} /\ 2 ^ (n + 1) = 2 * 2 ^ n
  BY PowersOfTwo
<1> DEFINE a == StartTimeout * 2 ^ n
<1>3. a \in Nat /\ StartTimeout =< a
  <2>1. \A p \in Nat \ {0} : StartTimeout * p \in Nat /\ StartTimeout =< StartTimeout * p
    BY <1>1
  <2>2. QED
    BY <1>2, <2>1
<1>4. StartTimeout * 2 ^ (n + 1) = a * 2
  <2>1. \A p \in Nat : StartTimeout * (2 * p) = (StartTimeout * p) * 2
    BY <1>1
  <2>2. QED
    BY <1>2, <2>1
<1> HIDE DEF a
<1>5. Least(n) = IF a =< MaxTimeout THEN a ELSE MaxTimeout
  BY <1>1, <1>3, MinOfTwo DEF Least, a
<1>6. Least(n + 1) = IF a * 2 =< MaxTimeout THEN a * 2 ELSE MaxTimeout
  BY <1>1, <1>3, <1>4, MinOfTwo DEF Least
<1>7. Least(0) = StartTimeout
  <2>1. StartTimeout * 2 ^ 0 = StartTimeout
    BY <1>1, <1>2
  <2>2. QED
    BY <1>1, <2>1, MinOfTwo DEF Least
<1>8. Least(n) \in StartTimeout .. MaxTimeout
  BY <1>1, <1>3, <1>5
<1>9. Doubled(Least(n)) = IF Least(n) * 2 =< MaxTimeout THEN Least(n) * 2 ELSE MaxTimeout
  BY <1>1, <1>8, MinOfTwo DEF Doubled
<1>10. QED
  BY <1>1, <1>3, <1>5, <1>6, <1>7, <1>8, <1>9

\* A difference of two times, and what one tick makes of it.
LEMMA ElapsedTicks ==
  ASSUME NEW from \in 0 .. TimeModulus - 1, NEW to \in 0 .. TimeModulus - 1
  PROVE  /\ (to + 1) % TimeModulus \in 0 .. TimeModulus - 1
         /\ Elapsed(from, from) = 0
         /\ Elapsed(from, to) + 1 < TimeModulus =>
              Elapsed(from, (to + 1) % TimeModulus) = Elapsed(from, to) + 1
<1>1. TimeModulus \in Nat \ {0}
  BY BackoffAssumption
<1>2. ASSUME NEW a \in 0 .. TimeModulus - 1, NEW b \in 0 .. TimeModulus - 1
      PROVE  Elapsed(a, b) = IF b >= a THEN b - a ELSE b - a + TimeModulus
  BY <1>1 DEF Elapsed
<1>3. (to + 1) % TimeModulus = IF to + 1 = TimeModulus THEN 0 ELSE to + 1
  BY <1>1
<1>4. (to + 1) % TimeModulus \in 0 .. TimeModulus - 1
  BY <1>1, <1>3
<1>5. Elapsed(from, from) = 0
  BY <1>1, <1>2
<1>6. ASSUME Elapsed(from, to) + 1 < TimeModulus
      PROVE  Elapsed(from, (to + 1) % TimeModulus) = Elapsed(from, to) + 1
  <2>1. Elapsed(from, to) = IF to >= from THEN to - from ELSE to - from + TimeModulus
    BY <1>2
  <2> DEFINE later == (to + 1) % TimeModulus
  <2>2. Elapsed(from, later) =
          IF later >= from THEN later - from ELSE later - from + TimeModulus
    BY <1>2, <1>4
  <2>3. QED
    BY <1>1, <1>3, <1>6, <2>1, <2>2
<1>7. QED
  BY <1>4, <1>5, <1>6

\* The jitter adds less than the timeout itself.
LEMMA JitterBounds ==
  ASSUME NEW t \in StartTimeout .. MaxTimeout
  PROVE  /\ t \div JitterFraction \in Nat
         /\ t \div JitterFraction =< t
         /\ \A jitter \in Jitters(t) : t + jitter \in t .. t + t \div JitterFraction
BY BackoffAssumption DEF Jitters

-----------------------------------------------------------------------------

\* backoff_init starts it all.
LEMMA InitIInv == Init => IInv
<1> SUFFICES ASSUME Init PROVE IInv
  OBVIOUS
<1>1. MaxCount \in Nat /\ 0 \in 0 .. MaxCount
  BY BackoffAssumption
<1>2. Least(0) = StartTimeout
  BY <1>1, LeastDoubles
<1>3. QED
  BY <1>1, <1>2, BackoffAssumption DEF Init, IInv, TypeOK, TimeoutDoubled, ClockAgrees

\* A transmission starts a new wait.
LEMMA NextBackoffPreserves ==
  ASSUME IInv, NextBackoff
  PROVE  IInv'
<1>1. /\ count \in 0 .. MaxCount /\ count' \in 0 .. MaxCount /\ count' = count + 1
      /\ now \in 0 .. TimeModulus - 1 /\ time' = now /\ now' = now
      /\ waited' = 0 /\ unpolled' = 0
  BY BackoffAssumption DEF IInv, TypeOK, NextBackoff
<1>2. timeout' = Least(count') /\ timeout' \in StartTimeout .. MaxTimeout
  BY <1>1, LeastDoubles DEF IInv, TimeoutDoubled, NextBackoff
<1>3. PICK jitter \in Jitters(timeout') : timeout_with_jitter' = timeout' + jitter
  BY DEF NextBackoff
<1>4. /\ timeout_with_jitter' \in timeout' .. timeout' + timeout' \div JitterFraction
      /\ timeout' \div JitterFraction \in Nat
      /\ timeout' \div JitterFraction =< timeout'
  BY <1>2, <1>3, JitterBounds
<1>5. timeout_with_jitter' \in 0 .. 2 * MaxTimeout
  BY <1>2, <1>4, BackoffAssumption
<1>6. Elapsed(time', now') = 0
  <2>1. Elapsed(now, now) = 0
    BY <1>1, ElapsedTicks
  <2>2. QED
    BY <1>1, <2>1 DEF Elapsed
<1>7. TypeOK'
  BY <1>1, <1>2, <1>5, BackoffAssumption DEF TypeOK
<1>8. TimeoutDoubled'
  BY <1>2, <1>4 DEF TimeoutDoubled, Least
<1>9. ClockAgrees'
  <2>1. timeout_with_jitter' \in Nat
    BY <1>5, BackoffAssumption
  <2>2. waited' =< timeout_with_jitter' + unpolled'
    <3>1. waited' = unpolled' /\ unpolled' \in Nat
      BY <1>1
    <3>2. \A a \in Nat, b \in Nat : b =< a + b
      OBVIOUS
    <3>3. QED
      BY <2>1, <3>1, <3>2
  <2>3. (Elapsed(time, now) = waited)'
    BY <1>1, <1>6 DEF Elapsed
  <2>4. QED
    BY <2>2, <2>3 DEF ClockAgrees
<1>10. QED
  BY <1>7, <1>8, <1>9 DEF IInv

\* A poll before the time finds that no more than the wait has passed.
LEMMA PollsInVainPreserves ==
  ASSUME IInv, PollsInVain
  PROVE  IInv'
<1>1. TypeOK'
  BY BackoffAssumption DEF IInv, TypeOK, PollsInVain
<1>2. TimeoutDoubled'
  BY DEF IInv, TimeoutDoubled, PollsInVain, Least
<1>3. ClockAgrees'
  <2>1. count # 0 /\ ~(Elapsed(time, now) > timeout_with_jitter)
    BY DEF PollsInVain, Timeout
  <2>2. Elapsed(time, now) = waited /\ waited \in Nat /\ timeout_with_jitter \in Nat
    BY <2>1, BackoffAssumption DEF IInv, TypeOK, ClockAgrees
  <2>3. Elapsed(time, now)' = Elapsed(time, now)
    BY DEF PollsInVain, Elapsed
  <2>4. QED
    BY <2>1, <2>2, <2>3 DEF ClockAgrees, PollsInVain
<1>4. QED
  BY <1>1, <1>2, <1>3 DEF IInv

\* No step of the clock takes it past one turn since the last transmission.
LEMMA TickPreserves ==
  ASSUME IInv, Tick
  PROVE  IInv'
<1>1. /\ time \in 0 .. TimeModulus - 1 /\ now \in 0 .. TimeModulus - 1
      /\ now' = (now + 1) % TimeModulus
      /\ unpolled \in 0 .. MaxPollGap /\ unpolled < MaxPollGap /\ waited \in Nat
      /\ timeout_with_jitter \in 0 .. 2 * MaxTimeout
      /\ UNCHANGED <<timeout, timeout_with_jitter, time, count>>
  BY DEF IInv, TypeOK, Tick
<1>2. now' \in 0 .. TimeModulus - 1
  BY <1>1, ElapsedTicks
<1>3. TypeOK'
  BY <1>1, <1>2, BackoffAssumption DEF IInv, TypeOK, Tick
<1>4. TimeoutDoubled'
  BY <1>1 DEF IInv, TimeoutDoubled, Least
<1>5. ASSUME count # 0
      PROVE  /\ Elapsed(time, now') = waited + 1
             /\ waited + 1 =< timeout_with_jitter + unpolled'
  <2>1. Elapsed(time, now) = waited /\ waited =< timeout_with_jitter + unpolled
    BY <1>5 DEF IInv, ClockAgrees
  <2>2. waited + 1 < TimeModulus
    BY <1>1, <2>1, BackoffAssumption
  <2>3. Elapsed(time, now') = waited + 1
    BY <1>1, <2>1, <2>2, ElapsedTicks
  <2>4. QED
    BY <1>1, <2>1, <2>3 DEF Tick
<1>6. ClockAgrees'
  BY <1>1, <1>5 DEF ClockAgrees, Tick
<1>7. QED
  BY <1>3, <1>4, <1>6 DEF IInv

\* Every step of the timer and of its clock keeps the invariant.
LEMMA NextIInv == IInv /\ [Next]_vars => IInv'
<1> SUFFICES ASSUME IInv, [Next]_vars PROVE IInv'
  OBVIOUS
<1>1. CASE BackoffReset
  <2>1. MaxCount \in Nat /\ 0 \in 0 .. MaxCount
    BY BackoffAssumption
  <2>2. Least(0) = StartTimeout
    BY <2>1, LeastDoubles
  <2>3. QED
    BY <1>1, <2>1, <2>2, BackoffAssumption
       DEF BackoffReset, IInv, TypeOK, TimeoutDoubled, ClockAgrees
<1>2. CASE UNCHANGED vars
  BY <1>2 DEF vars, IInv, TypeOK, TimeoutDoubled, ClockAgrees, Least, Elapsed
<1>3. QED
  BY <1>1, <1>2, NextBackoffPreserves, PollsInVainPreserves, TickPreserves DEF Next

\* The invariant, of every behaviour.
LEMMA Invariance == Spec => []IInv
BY InitIInv, NextIInv, PTL DEF Spec

-----------------------------------------------------------------------------

\* The fields of the Backoff structure stay within the limits of backoff_init.
THEOREM TypeCorrect == Spec => []TypeOK
<1>1. IInv => TypeOK
  BY DEF IInv
<1>2. QED
  BY <1>1, Invariance, PTL

\* backoff_timeout says yes at the first poll after the timeout and its jitter
\* at the latest, whenever the clock wraps.
THEOREM NotLate == Spec => []NeverLate
<1>1. IInv => NeverLate
  <2> SUFFICES ASSUME IInv, count \in 1 .. MaxCount - 1
               PROVE  waited =< Least(count) + Least(count) \div JitterFraction + MaxPollGap
    BY DEF NeverLate
  <2>1. /\ count # 0 /\ timeout = Least(count)
        /\ timeout_with_jitter \in timeout .. timeout + timeout \div JitterFraction
        /\ waited =< timeout_with_jitter + unpolled
    BY BackoffAssumption DEF IInv, TimeoutDoubled, ClockAgrees
  <2>2. /\ timeout \in StartTimeout .. MaxTimeout /\ unpolled \in 0 .. MaxPollGap
        /\ waited \in Nat
    BY DEF IInv, TypeOK
  <2>3. timeout \div JitterFraction \in Nat
    BY <2>2, JitterBounds
  <2>4. QED
    BY <2>1, <2>2, <2>3, BackoffAssumption
<1>2. QED
  BY <1>1, Invariance, PTL

\* It never says yes, after a transmission, before the wait drawn for it is over,
\* and that wait is within the jitter's share of the doubled and limited timeout.
THEOREM NotEarly == Spec => NeverEarly
<1>1. IInv /\ [Next]_vars =>
        [NextBackoff /\ count > 0 =>
           /\ waited > timeout_with_jitter
           /\ timeout_with_jitter >= Least(count) - Least(count) \div JitterFraction]_vars
  <2> SUFFICES ASSUME IInv, NextBackoff, count > 0
               PROVE  /\ waited > timeout_with_jitter
                      /\ timeout_with_jitter >= Least(count) - Least(count) \div JitterFraction
    OBVIOUS
  <2>1. count # 0 /\ Elapsed(time, now) > timeout_with_jitter
    BY DEF IInv, TypeOK, NextBackoff, Timeout
  <2>2. /\ Elapsed(time, now) = waited /\ timeout = Least(count)
        /\ timeout_with_jitter \in timeout .. timeout + timeout \div JitterFraction
        /\ timeout \in StartTimeout .. MaxTimeout /\ waited \in Nat
    BY <2>1 DEF IInv, TypeOK, TimeoutDoubled, ClockAgrees
  <2>3. timeout \div JitterFraction \in Nat
    BY <2>2, BackoffAssumption
  <2>4. timeout_with_jitter >= timeout - timeout \div JitterFraction
    BY <2>2, <2>3, BackoffAssumption
  <2>5. QED
    BY <2>1, <2>2, <2>4
<1>2. QED
  BY <1>1, Invariance, PTL DEF Spec, NeverEarly
==============================================================================
