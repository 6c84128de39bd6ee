------------------------------- MODULE Backoff -------------------------------
(***************************************************************************)
(* src/backoff.c: the retransmission timer of DHCP and TFTP, with a clock  *)
(* that wraps around.  Its owner polls it: when backoff_timeout says so,   *)
(* it sends and calls next_backoff; on progress it calls backoff_reset.    *)
(* get_time() and get_elapsed() are those of time.h, which the repository  *)
(* does not contain: a u32 of milliseconds and a difference modulo 2^32.   *)
(***************************************************************************)
EXTENDS Integers, FiniteSetsExt

CONSTANTS
  StartTimeout, MaxTimeout, JitterFraction,   \* the arguments of backoff_init
  TimeModulus,    \* 2^32
  MaxPollGap,     \* bound: clock ticks between two polls
  MaxCount        \* bound: retransmissions in a row

ASSUME BackoffAssumption ==
  /\ StartTimeout \in Nat /\ MaxTimeout \in Nat /\ JitterFraction \in Nat
  /\ 0 < JitterFraction /\ JitterFraction =< StartTimeout
  /\ StartTimeout =< MaxTimeout
  /\ TimeModulus \in Nat /\ 2 * MaxTimeout + MaxPollGap < TimeModulus
  /\ MaxPollGap \in Nat \ {0} /\ MaxCount \in Nat

\* What ^ means, for as many retransmissions as there are: the provers know
\* addition and multiplication only.
ASSUME PowersOfTwo ==
  2 ^ 0 = 1 /\ \A n \in 0 .. MaxCount : 2 ^ n \in Nat \ {0} /\ 2 ^ (n + 1) = 2 * 2 ^ n

VARIABLES
  timeout, timeout_with_jitter, time, count,   \* the Backoff structure
  now,       \* get_time()
  waited,    \* ticks since the last transmission, 0 if there was none
  unpolled   \* ticks since the last poll

vars == <<timeout, timeout_with_jitter, time, count, now, waited, unpolled>>

Elapsed(from, to) == (to - from) % TimeModulus

\* The structure is static, and get_time() may start anywhere.
Init ==
  /\ timeout = StartTimeout
  /\ timeout_with_jitter = 0
  /\ time = 0
  /\ count = 0
  /\ now \in 0 .. TimeModulus - 1
  /\ waited = 0
  /\ unpolled = 0

TimeoutEarly ==   \* mutant: the jitter is forgotten
  count = 0 \/ Elapsed(time, now) > StartTimeout

TimeoutWrapped ==   \* mutant: a plain subtraction
  count = 0 \/ now - time > timeout_with_jitter

\* backoff_timeout
Timeout == count = 0 \/ Elapsed(time, now) > timeout_with_jitter

DoubledUnlimited(t) == t * 2   \* mutant: the limit is forgotten

Doubled(t) == Min({t * 2, MaxTimeout})

\* The remainder is taken of an unsigned number: the jitter is never negative.
Jitters(t) == 0 .. t \div JitterFraction - 1

\* A poll that transmits, followed by next_backoff.
NextBackoff ==
  /\ Timeout
  /\ count < MaxCount
  /\ time' = now
  /\ count' = count + 1
  /\ timeout' = Doubled(timeout)
  /\ \E jitter \in Jitters(Doubled(timeout)) :
       timeout_with_jitter' = Doubled(timeout) + jitter
  /\ waited' = 0
  /\ unpolled' = 0
  /\ UNCHANGED now

PollsInVain ==
  /\ ~Timeout
  /\ unpolled' = 0
  /\ UNCHANGED <<timeout, timeout_with_jitter, time, count, now, waited>>

BackoffReset ==
  /\ count' = 0
  /\ timeout' = StartTimeout
  /\ waited' = 0
  /\ UNCHANGED <<timeout_with_jitter, time, now, unpolled>>

Tick ==
  /\ unpolled < MaxPollGap
  /\ now' = (now + 1) % TimeModulus
  /\ waited' = IF count = 0 THEN 0 ELSE waited + 1
  /\ unpolled' = unpolled + 1
  /\ UNCHANGED <<timeout, timeout_with_jitter, time, count>>

Next == NextBackoff \/ PollsInVain \/ BackoffReset \/ Tick

Spec == Init /\ [][Next]_vars

-----------------------------------------------------------------------------

\* The fields stay in their types, the timeouts between their limits.
TypeOK ==
  /\ timeout \in StartTimeout .. MaxTimeout
  /\ timeout_with_jitter \in 0 .. 2 * MaxTimeout
  /\ time \in 0 .. TimeModulus - 1
  /\ count \in 0 .. MaxCount
  /\ now \in 0 .. TimeModulus - 1
  /\ waited \in Nat
  /\ unpolled \in 0 .. MaxPollGap

\* The timeout after the n-th transmission in a row.
Least(n) == Min({StartTimeout * 2 ^ n, MaxTimeout})

\* No transmission follows another before the wait that was drawn for it is over,
\* in real time, whatever the clock wraps; and that wait is the doubled and
\* limited timeout, less at most the share of it that jitter may subtract.
NeverEarly ==
  [][NextBackoff /\ count > 0 =>
       /\ waited > timeout_with_jitter
       /\ timeout_with_jitter >= Least(count) - Least(count) \div JitterFraction]_vars

\* The wait is over, at the latest, one poll after the timeout and its jitter:
\* as long as it is polled, a wrap of the clock never makes the timer sleep on.
NeverLate ==
  count \in 1 .. MaxCount - 1 =>
    waited =< Least(count) + Least(count) \div JitterFraction + MaxPollGap

-----------------------------------------------------------------------------
(* An expectation the code does not meet. *)

\* A random value is added to the timeout or subtracted from it (backoff.h:20-21):
\* some draws make the wait shorter.
JitterShortens ==
  timeout \div JitterFraction > 1 => \E jitter \in Jitters(timeout) : timeout + jitter < timeout
==============================================================================
