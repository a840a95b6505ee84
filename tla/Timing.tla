------------------------------- MODULE Timing -------------------------------
(***************************************************************************)
(* The arithmetic of the waits: the deadline that LDi_cond_wait hands to   *)
(* pthread_cond_timedwait, and the delay before the streamer connects      *)
(* again.                                                                  *)
(***************************************************************************)
EXTENDS Integers

CONSTANTS
    RandMax,     \* LD_RAND_MAX
    Clocks,      \* values of the clock, see Times
    Timeouts,    \* timeouts of waits, in milliseconds
    MaxRetries   \* bound: failed connections in a row

VARIABLES
    wait,           \* the last timed wait of a thread: the clock and the timeout
    streamRetries,  \* retries of LDi_bgfeaturestreamer
    delay,          \* how long it waited before its last connection
    longest         \* history: the longest such delay since a connection that did not fail

waitVars == <<wait, streamRetries, delay, longest>>

ASSUME RandMaxIsPositive == RandMax \in Nat \ {0}

-----------------------------------------------------------------------------
(* LDi_cond_wait_imp *)

Milli == 1000000
Second == 1000 * Milli

Times == [sec: Nat, nsec: 0 .. Second - 1]

ASSUME WaitsAreTimed == Clocks \subseteq Times /\ Timeouts \subseteq Nat

\* The carry is taken above a full second only, as in the code.
Deadline(now, ms) ==
    LET nsec == now.nsec + (ms % 1000) * Milli
        sec == now.sec + ms \div 1000
    IN  IF nsec > Second THEN [sec |-> sec + 1, nsec |-> nsec - Second]
        ELSE [sec |-> sec, nsec |-> nsec]

\* external: pthread_cond_timedwait refuses a deadline with a full second of nanoseconds.
Accepted(deadline) == deadline.nsec \in 0 .. Second - 1

\* The deadline is exactly the given time after now, and it is refused in one case only:
\* the nanoseconds of the clock and of the timeout make one full second.
DeadlineExact(now, ms) ==
    LET d == Deadline(now, ms)
    IN  /\ (d.sec - now.sec) * Second + (d.nsec - now.nsec) = ms * Milli
        /\ Accepted(d) <=> now.nsec + (ms % 1000) * Milli # Second

-----------------------------------------------------------------------------
(* LDi_calculateStreamDelay *)

Cap == 30 * 1000

\* LDi_normalize(n, 0, nmax, 0, omax), cut to an integer by the call of LDi_cond_wait.
LDi_normalize(n, nmax, omax) == (n * omax) \div nmax

\* Mutated: all of the delay is fixed.
Jitter_Full(backoff, rng) == backoff + LDi_normalize(rng, RandMax, backoff)

\* Half of the delay is fixed, the other half is random.
Jitter(backoff, rng) == backoff \div 2 + LDi_normalize(rng, RandMax, backoff \div 2)

\* pow(2, n)
Pow2[n \in Nat] == IF n = 0 THEN 1 ELSE 2 * Pow2[n - 1]

LDi_calculateStreamDelay(retries, rng) ==
    CASE retries = 0 -> 0
      [] retries = 1 -> 1000
      [] retries > 1 -> LET full == 1000 * Pow2[retries]
                        IN  Jitter(IF full > Cap THEN Cap ELSE full, rng)

\* A delay stays between half and all of what it is drawn from.
JitterBounded(backoff, rng) == Jitter(backoff, rng) \in backoff \div 2 .. backoff

\* The delay of every retry is at least a second and at most the cap, and a later retry never
\* waits less than half as long as an earlier one, whatever random numbers they drew.
DelayBounded(retries, rng) ==
    LET ms == LDi_calculateStreamDelay(retries, rng)
    IN  /\ ms \in 1000 .. Cap
        /\ \A r \in 1 .. retries, x \in 0 .. RandMax : 2 * ms >= LDi_calculateStreamDelay(r, x)

-----------------------------------------------------------------------------
(* The threads that wait *)

WaitInit ==
    /\ wait \in [now: Clocks, ms: {0}]
    /\ streamRetries = 0 /\ delay = 0 /\ longest = 0

\* A thread waits with a timeout.
LDi_cond_wait(now, ms) ==
    /\ wait' = [now |-> now, ms |-> ms]
    /\ UNCHANGED <<streamRetries, delay, longest>>

\* A round of LDi_bgfeaturestreamer: a delay if the last connection failed, and a connection
\* that fails too, or lasts or is closed on purpose.
StreamerRound(rng, fails) ==
    /\ delay' = LDi_calculateStreamDelay(streamRetries, rng)
    /\ longest' = IF streamRetries > 0 /\ longest > delay' THEN longest ELSE delay'
    /\ IF fails THEN streamRetries < MaxRetries /\ streamRetries' = streamRetries + 1
       ELSE streamRetries' = 0
    /\ UNCHANGED wait

WaitNext ==
    \/ \E now \in Clocks, ms \in Timeouts : LDi_cond_wait(now, ms)
    \/ \E rng \in 0 .. RandMax, fails \in BOOLEAN : StreamerRound(rng, fails)

WaitSpec == WaitInit /\ [][WaitNext]_waitVars

\* Every timed wait has its deadline exactly its timeout away.  The streamer waits between a
\* second and the cap before it connects after a failure, and never less than half as long as
\* earlier in the same row of failures: it does not return to short waits by chance.
WaitsAreBounded ==
    /\ DeadlineExact(wait.now, wait.ms)
    /\ delay # 0 => delay \in 1000 .. Cap /\ 2 * delay >= longest
=============================================================================
