---------------------------- MODULE StreamProofs ----------------------------
(***************************************************************************)
(* Proofs about what comes from the stream, for all inputs: the waits of   *)
(* Timing, the UTF-8 of Utf8, and the parser of SSEParser, which makes the *)
(* same of a text however it is cut into chunks.                           *)
(*                                                                         *)
(* The loops of the code are recursive functions; what they compute is     *)
(* shown by induction over the steps of the loop, with sets of numbers in  *)
(* the place of predicates (SetInduction).                                 *)
(***************************************************************************)
EXTENDS SSEParser, Timing, Utf8, WellFoundedInduction, TLAPS

\* Induction, for sets.
LEMMA SetInduction ==
    ASSUME NEW S, 0 \in S, \A n \in Nat : n \in S => n + 1 \in S
    PROVE  Nat \subseteq S
<1> DEFINE T == Nat \ S
           R == OpToRel(<, Nat)
<1>1. SUFFICES ASSUME T # {} PROVE FALSE
      OBVIOUS
<1>2. IsWellFoundedOn(R, Nat) /\ T \subseteq Nat
      BY NatLessThanWellFounded, Zenon
<1>3. PICK x \in T : \A y \in T : ~(<<y, x>> \in R)
  <2> HIDE DEF T, R
  <2> QED BY <1>1, <1>2, WFMin, Zenon
<1>4. x - 1 \in T
      OBVIOUS
<1>5. <<x - 1, x>> \in R
      BY <1>4 DEF OpToRel
<1> QED BY <1>3, <1>4, <1>5, Zenon

\* A beginning of the values that x0 and the steps of G give.
Run(f, n, X, x0, G) == f \in [0 .. n -> X] /\ f[0] = x0 /\ \A i \in 0 .. n - 1 : f[i + 1] = G[i][f[i]]

\* All of these values.
Steps(f, X, x0, G) == f \in [Nat -> X] /\ f[0] = x0 /\ \A n \in Nat : f[n + 1] = G[n][f[n]]

\* Definition by recursion: every step function has its values.
LEMMA Recursion ==
    ASSUME NEW X, NEW x0 \in X, NEW G \in [Nat -> [X -> X]]
    PROVE  \E f : Steps(f, X, x0, G)
<1> DEFINE Is(f, n) == Run(f, n, X, x0, G)
           S == {n \in Nat : \E f : Is(f, n)}
<1>1. 0 \in S
  <2>1. Is([i \in 0 .. 0 |-> x0], 0)
        BY DEF Run
  <2> QED BY <2>1
<1>2. ASSUME NEW n \in Nat, n \in S PROVE n + 1 \in S
  <2>1. PICK f : Is(f, n)
        BY <1>2
  <2>2. f \in [0 .. n -> X] /\ f[0] = x0 /\ \A i \in 0 .. n - 1 : f[i + 1] = G[i][f[i]]
        BY <2>1 DEF Run
  <2>3. G[n][f[n]] \in X
        BY <2>2
  <2> DEFINE h == [i \in 0 .. n + 1 |-> IF i = n + 1 THEN G[n][f[n]] ELSE f[i]]
  <2>4. /\ h \in [0 .. n + 1 -> X] /\ h[0] = x0 /\ h[n + 1] = G[n][f[n]]
        /\ \A i \in 0 .. n : h[i] = f[i]
        BY <2>2, <2>3
  <2> HIDE DEF h
  <2>5. ASSUME NEW i \in 0 .. (n + 1) - 1 PROVE h[i + 1] = G[i][h[i]]
    <3>1. CASE i = n
          BY <2>4, <3>1
    <3>2. CASE i # n
      <4>1. i \in 0 .. n - 1 /\ i \in 0 .. n /\ i + 1 \in 0 .. n
            BY <3>2
      <4> QED BY <2>2, <2>4, <4>1
    <3> QED BY <3>1, <3>2
  <2>6. Is(h, n + 1)
        BY <2>4, <2>5, Zenon DEF Run
  <2> QED BY <2>6
<1>3. Nat \subseteq S
  <2> HIDE DEF S
  <2> QED BY <1>1, <1>2, SetInduction, Zenon
<1>4. ASSUME NEW n \in Nat, NEW f, Is(f, n), NEW m \in Nat, NEW h, Is(h, m), n <= m
      PROVE  f[n] = h[n]
  <2> DEFINE A == {i \in Nat : i <= n => f[i] = h[i]}
  <2>1. 0 \in A
        BY <1>4 DEF Run
  <2>2. ASSUME NEW i \in Nat, i \in A PROVE i + 1 \in A
    <3> SUFFICES ASSUME i + 1 <= n PROVE f[i + 1] = h[i + 1]
        OBVIOUS
    <3>1. f[i] = h[i] /\ i \in 0 .. n - 1 /\ i \in 0 .. m - 1
          BY <1>4, <2>2
    <3> QED BY <1>4, <3>1, Zenon DEF Run
  <2>3. Nat \subseteq A
    <3> HIDE DEF A
    <3> QED BY <2>1, <2>2, SetInduction, Zenon
  <2> QED BY <2>3
<1> DEFINE g(n) == CHOOSE h : Is(h, n)
           f == [n \in Nat |-> g(n)[n]]
<1>5. ASSUME NEW n \in Nat PROVE Is(g(n), n)
  <2>1. \E h : Is(h, n)
        BY <1>3
  <2> QED BY <2>1, Zenon
<1> HIDE DEF g
<1>6. ASSUME NEW n \in Nat PROVE g(n)[n] \in X
      BY <1>5 DEF Run
<1>7. f \in [Nat -> X] /\ f[0] = x0
      BY <1>5, <1>6 DEF Run
<1>8. ASSUME NEW n \in Nat PROVE f[n + 1] = G[n][f[n]]
  <2>1. Is(g(n), n) /\ Is(g(n + 1), n + 1)
        BY <1>5
  <2>2. g(n)[n] = g(n + 1)[n]
    <3> HIDE DEF Is
    <3> QED BY <2>1, <1>4
  <2>3. g(n + 1)[n + 1] = G[n][g(n + 1)[n]]
        BY <2>1 DEF Run
  <2> QED BY <2>2, <2>3
<1> HIDE DEF f
<1> QED BY <1>7, <1>8, Zenon DEF Steps

-----------------------------------------------------------------------------
(* Waits *)

\* LDi_cond_wait computes a deadline that is exactly the timeout away from the clock, for
\* every clock value and timeout; only a sum of exactly one second is refused.
THEOREM DeadlineCorrect == \A now \in Times, ms \in Nat : DeadlineExact(now, ms)
<1>1. SUFFICES ASSUME NEW now \in Times, NEW ms \in Nat
               PROVE  DeadlineExact(now, ms)
      BY SMTT(20)
<1>2. PICK q \in Nat, r \in 0 .. 999 : q = ms \div 1000 /\ r = ms % 1000
      OBVIOUS
<1>3. ms = 1000 * q + r
      BY <1>2
<1>4. PICK s \in Nat, m \in Nat \ {0} : s = Second /\ m = Milli /\ s = 1000 * m
      BY SMT DEF Milli, Second
<1>5. PICK a \in Int, n \in 0 .. s - 1 : a = now.sec /\ n = now.nsec
      BY <1>4 DEF Times
<1>6. PICK f \in Nat, g \in Nat : f = r * m /\ g = q * s
      OBVIOUS
<1>7. f <= s - m /\ ms * m = g + f
      BY <1>3, <1>4, <1>6, SMT
<1>8. Deadline(now, ms) = IF n + f > s THEN [sec |-> (a + q) + 1, nsec |-> (n + f) - s]
                          ELSE [sec |-> a + q, nsec |-> n + f]
  <2>1. now.nsec + (ms % 1000) * Milli = n + f /\ now.sec + ms \div 1000 = a + q
        BY <1>2, <1>4, <1>5, <1>6
  <2> QED BY <2>1, <1>4, SMT DEF Deadline
<1>9. CASE n + f > s
  <2>1. ((a + q) + 1 - a) * s + (((n + f) - s) - n) = ms * m
    <3>1. (a + q) + 1 - a = q + 1 /\ (q + 1) * s = g + s
          BY <1>6
    <3> QED BY <3>1, <1>7
  <2>2. (n + f) - s \in 0 .. s - 1
        BY <1>4, <1>7, <1>9
  <2> QED BY <2>1, <2>2, <1>2, <1>4, <1>5, <1>6, <1>8, <1>9 DEF DeadlineExact, Accepted
<1>10. CASE ~(n + f > s)
  <2>1. ((a + q) - a) * s + ((n + f) - n) = ms * m
    <3>1. (a + q) - a = q
          OBVIOUS
    <3> QED BY <3>1, <1>6, <1>7
  <2>2. n + f \in 0 .. s - 1 <=> n + f # s
        BY <1>10
  <2> QED BY <2>1, <2>2, <1>2, <1>4, <1>5, <1>6, <1>8, <1>10 DEF DeadlineExact, Accepted
<1> QED BY <1>9, <1>10

\* What LDi_normalize adds to the fixed half of a delay is at most the other half.
LEMMA NormalizeBounded ==
    ASSUME NEW n \in Nat, NEW nmax \in Nat \ {0}, NEW omax \in Nat, n <= nmax
    PROVE  LDi_normalize(n, nmax, omax) \in 0 .. omax
<1>1. n * omax \in Nat /\ n * omax <= nmax * omax
      OBVIOUS
<1>2. PICK d \in Int : d = (n * omax) \div nmax
      OBVIOUS
<1>3. nmax * d <= n * omax /\ n * omax < nmax * (d + 1)
      BY <1>1, <1>2
<1>4. d <= omax
      BY <1>1, <1>3
<1>5. d >= 0
      BY <1>1, <1>3
<1> QED BY <1>2, <1>4, <1>5 DEF LDi_normalize

\* LDi_calculateStreamDelay never waits less than half, nor more than all of the backoff it
\* is given, whatever random number it draws.
LEMMA JitterCorrect ==
    \A half \in Nat, rng \in 0 .. RandMax : JitterBounded(2 * half, rng)
<1>1. SUFFICES ASSUME NEW half \in Nat, NEW rng \in 0 .. RandMax
               PROVE  JitterBounded(2 * half, rng)
      OBVIOUS
<1>2. LDi_normalize(rng, RandMax, half) \in 0 .. half
      BY NormalizeBounded, RandMaxIsPositive
<1>3. (2 * half) \div 2 = half
      OBVIOUS
<1> QED BY <1>2, <1>3 DEF JitterBounded, Jitter

\* The powers of two.
LEMMA Powers ==
    /\ Pow2 \in [Nat -> Nat] /\ Pow2[0] = 1 /\ \A n \in Nat : Pow2[n + 1] = 2 * Pow2[n]
<1> DEFINE P(f) == f = [n \in Nat |-> IF n = 0 THEN 1 ELSE 2 * f[n - 1]]
           G == [n \in Nat |-> [x \in Nat |-> 2 * x]]
<1>0. G \in [Nat -> [Nat -> Nat]] /\ 1 \in Nat
      OBVIOUS
<1>1. PICK f : Steps(f, Nat, 1, G)
  <2> HIDE DEF G
  <2> QED BY <1>0, Recursion, Zenon
<1>2. f \in [Nat -> Nat] /\ f[0] = 1 /\ \A n \in Nat : f[n + 1] = 2 * f[n]
      BY <1>1, Zenon DEF Steps
<1>3. P(f)
  <2>1. ASSUME NEW n \in Nat PROVE f[n] = IF n = 0 THEN 1 ELSE 2 * f[n - 1]
    <3>1. CASE n # 0
      <4>1. n - 1 \in Nat /\ (n - 1) + 1 = n
            BY <3>1
      <4> QED BY <4>1, <1>2, <3>1
    <3> QED BY <3>1, <1>2
  <2> QED BY <2>1, <1>2
<1>4. PICK p : p = Pow2 /\ p = [n \in Nat |-> IF n = 0 THEN 1 ELSE 2 * p[n - 1]]
      BY <1>3, Zenon DEF Pow2
<1>5. DOMAIN p = Nat /\ \A n \in Nat : p[n] = IF n = 0 THEN 1 ELSE 2 * p[n - 1]
      BY <1>4, SMTT(20)
<1>6. p[0] = 1 /\ \A n \in Nat : p[n + 1] = 2 * p[n]
      BY <1>5
<1> DEFINE S == {n \in Nat : p[n] \in Nat}
<1>7. 0 \in S /\ \A n \in Nat : n \in S => n + 1 \in S
      BY <1>6
<1>8. Nat \subseteq S
  <2> HIDE DEF S
  <2> QED BY <1>7, SetInduction, Zenon
<1>9. p = [n \in Nat |-> p[n]]
      BY <1>4
<1>10. p \in [Nat -> Nat]
      BY <1>8, <1>9
<1> QED BY <1>4, <1>6, <1>10, Zenon

\* A later power of two is not smaller.
LEMMA PowersGrow ==
    ASSUME NEW m \in Nat, NEW n \in Nat, m <= n
    PROVE  Pow2[m] <= Pow2[n]
<1> DEFINE S == {i \in Nat : m <= i => Pow2[m] <= Pow2[i]}
<1>1. 0 \in S
      BY Powers
<1>2. ASSUME NEW i \in Nat, i \in S PROVE i + 1 \in S
  <2>1. Pow2[i + 1] = 2 * Pow2[i] /\ Pow2[i] \in Nat /\ Pow2[m] \in Nat
        BY Powers
  <2>2. CASE m <= i
        BY <2>1, <2>2, <1>2
  <2>3. CASE ~(m <= i)
        BY <2>1, <2>3
  <2> QED BY <2>2, <2>3
<1>3. Nat \subseteq S
  <2> HIDE DEF S
  <2> QED BY <1>1, <1>2, SetInduction
<1> QED BY <1>3

\* What the delay of a retry after the first is drawn from.
Backoff(retries) == IF 1000 * Pow2[retries] > Cap THEN Cap ELSE 1000 * Pow2[retries]

\* It is even, at least four seconds, at most the cap, and never less than that of an
\* earlier retry.
LEMMA Backoffs ==
    ASSUME NEW n \in Nat, n > 1
    PROVE  /\ \E half \in Nat : Backoff(n) = 2 * half
           /\ Backoff(n) \in 4000 .. Cap
           /\ \A m \in 2 .. n : Backoff(m) <= Backoff(n)
<1>1. PICK p \in Nat : p = Pow2[n]
      BY Powers
<1>2. Pow2[2] = 4
  <2>1. Pow2[0 + 1] = 2 /\ Pow2[1 + 1] = 2 * Pow2[1]
        BY Powers
  <2> QED BY <2>1
<1>3. p >= 4
      BY <1>1, <1>2, PowersGrow
<1>4. PICK c \in Nat, h \in Nat : c = Cap /\ c = 2 * h /\ h >= 2000
      BY SMT DEF Cap
<1>5. Backoff(n) = IF 1000 * p > c THEN c ELSE 1000 * p
      BY <1>1, <1>4, SMT DEF Backoff
<1>6. \E half \in Nat : Backoff(n) = 2 * half
  <2>1. 1000 * p = 2 * (500 * p) /\ 500 * p \in Nat
        BY SMT
  <2> QED BY <2>1, <1>4, <1>5, SMT
<1>7. Backoff(n) \in 4000 .. Cap
      BY <1>3, <1>4, <1>5, SMT
<1>8. ASSUME NEW m \in 2 .. n PROVE Backoff(m) <= Backoff(n)
  <2>1. PICK q \in Nat : q = Pow2[m]
        BY Powers
  <2>2. q <= p
        BY <2>1, <1>1, PowersGrow
  <2>3. Backoff(m) = IF 1000 * q > c THEN c ELSE 1000 * q
        BY <2>1, <1>4, SMT DEF Backoff
  <2> QED BY <2>2, <2>3, <1>5, SMT
<1> QED BY <1>6, <1>7, <1>8, SMT

\* LDi_calculateStreamDelay waits at least a second and at most the cap, and never less than
\* half as long as before an earlier retry, for every number of retries and whatever random
\* numbers it draws.
THEOREM DelayCorrect == \A retries \in Nat \ {0}, rng \in 0 .. RandMax : DelayBounded(retries, rng)
<1>1. SUFFICES ASSUME NEW retries \in Nat \ {0}, NEW rng \in 0 .. RandMax
               PROVE  DelayBounded(retries, rng)
      OBVIOUS
<1>c. Cap \in Int /\ Cap >= 1000
      BY SMT DEF Cap
<1>2. ASSUME NEW r \in Nat, r > 1, NEW x \in 0 .. RandMax
      PROVE  /\ LDi_calculateStreamDelay(r, x) \in Nat
             /\ LDi_calculateStreamDelay(r, x) <= Backoff(r)
             /\ 2 * LDi_calculateStreamDelay(r, x) >= Backoff(r)
  <2>1. PICK half \in Nat : Backoff(r) = 2 * half
        BY <1>2, Backoffs
  <2>2. LDi_calculateStreamDelay(r, x) = Jitter(2 * half, x)
        BY <1>2, <2>1 DEF LDi_calculateStreamDelay, Backoff
  <2>3. (2 * half) \div 2 = half
        OBVIOUS
  <2>4. Jitter(2 * half, x) \in half .. 2 * half
        BY <2>3, JitterCorrect, Zenon DEF JitterBounded
  <2> QED BY <2>1, <2>2, <2>4
<1>3. \A x : LDi_calculateStreamDelay(1, x) = 1000
      BY DEF LDi_calculateStreamDelay
<1>4. CASE retries = 1
  <2>1. \A r \in 1 .. retries : r = 1
        BY <1>4
  <2> QED BY <2>1, <1>3, <1>4, <1>c, SMT DEF DelayBounded
<1>5. CASE retries > 1
  <2>1. PICK b \in Int : b = Backoff(retries) /\ b >= 4000 /\ b <= Cap
        BY <1>5, Backoffs, SMT
  <2>2. PICK d \in Nat : d = LDi_calculateStreamDelay(retries, rng) /\ d <= b /\ 2 * d >= b
        BY <2>1, <1>2, <1>5, SMT
  <2>3. d \in 1000 .. Cap
        BY <2>1, <2>2, <1>c, SMT
  <2>4. ASSUME NEW r \in 1 .. retries, NEW x \in 0 .. RandMax
        PROVE  2 * d >= LDi_calculateStreamDelay(r, x)
    <3>1. CASE r = 1
          BY <3>1, <2>3, <1>3, SMT
    <3>2. CASE r # 1
      <4>1. r \in Nat /\ r > 1 /\ r \in 2 .. retries
            BY <3>2
      <4>2. PICK e \in Nat : e = LDi_calculateStreamDelay(r, x) /\ e <= Backoff(r)
            BY <4>1, <1>2, SMT
      <4>3. PICK a \in Int : a = Backoff(r) /\ a <= b
            BY <4>1, <2>1, <1>5, Backoffs, SMT
      <4> QED BY <4>2, <4>3, <2>2, SMT
    <3> QED BY <3>1, <3>2
  <2> QED BY <2>2, <2>3, <2>4, SMT DEF DelayBounded
<1> QED BY <1>4, <1>5

\* What a delay is, and how it compares with the longest one.
IsDelay(d, c) == d \in 1000 .. c
InBounds(d, l) == IsDelay(d, Cap) /\ 2 * d >= l

\* The inductive invariant: the longest delay so far is that of an earlier failure of this row.
WaitInv ==
    /\ wait.now \in Times /\ wait.ms \in Nat
    /\ streamRetries \in Nat /\ longest \in Nat
    /\ \/ streamRetries = 0 \/ longest = 0
       \/ \E r \in 1 .. streamRetries, x \in 0 .. RandMax : longest = LDi_calculateStreamDelay(r, x)
    /\ delay = 0 \/ InBounds(delay, longest)

\* The cap is a number.
LEMMA CapIs == Cap \in Nat
BY DEF Cap

\* What a delay in bounds is.
LEMMA BoundedDelay ==
    ASSUME NEW c \in Nat, NEW d, IsDelay(d, c)
    PROVE  d \in Nat /\ 2 * d >= d /\ 2 * d >= 0
BY DEF IsDelay

\* DelayBounded, for a given delay.
LEMMA DelayIs ==
    ASSUME NEW k, NEW rng, DelayBounded(k, rng), NEW d, d = LDi_calculateStreamDelay(k, rng)
    PROVE  /\ IsDelay(d, Cap)
           /\ \A r \in 1 .. k, x \in 0 .. RandMax : 2 * d >= LDi_calculateStreamDelay(r, x)
BY DEF DelayBounded, IsDelay

\* A round of the streamer keeps it.
LEMMA RoundWaits ==
    ASSUME WaitInv, NEW rng \in 0 .. RandMax, NEW fails, StreamerRound(rng, fails)
    PROVE  WaitInv'
<1>1. wait' = wait /\ (streamRetries' = 0 \/ streamRetries' = streamRetries + 1)
      BY Zenon DEF StreamerRound
<1>2. PICK d, l : /\ d = delay' /\ l = longest' /\ d = LDi_calculateStreamDelay(streamRetries, rng)
                  /\ l = IF streamRetries > 0 /\ longest > d THEN longest ELSE d
      BY Zenon DEF StreamerRound
<1>3. PICK k \in Nat : k = streamRetries
      BY Zenon DEF WaitInv
<1>4. streamRetries' \in Nat
      BY <1>1, <1>3
<1>5. CASE k = 0
  <2>1. d = 0 /\ ~(k > 0)
        BY <1>2, <1>3, <1>5 DEF LDi_calculateStreamDelay
  <2>2. l = 0
        BY <2>1, <1>2, <1>3, Zenon
  <2>3. 0 \in Nat
        OBVIOUS
  <2> QED BY <2>1, <2>2, <2>3, <1>1, <1>2, <1>4, Zenon DEF WaitInv
<1>6. CASE k # 0
  <2>0. longest = 0 \/ \E r \in 1 .. k, x \in 0 .. RandMax : longest = LDi_calculateStreamDelay(r, x)
        BY <1>3, <1>6, Zenon DEF WaitInv
  <2>1. longest \in Nat
        BY Zenon DEF WaitInv
  <2>2. DelayBounded(k, rng)
    <3>1. k \in Nat \ {0}
          BY <1>6
    <3> QED BY <3>1, DelayCorrect, Zenon
  <2>3. /\ IsDelay(d, Cap)
        /\ \A r \in 1 .. k, x \in 0 .. RandMax : 2 * d >= LDi_calculateStreamDelay(r, x)
        BY <2>2, <1>2, <1>3, DelayIs
  <2>4. d \in Nat /\ 2 * d >= d /\ 2 * d >= 0
        BY <2>3, CapIs, BoundedDelay, Zenon
  <2>6. 2 * d >= longest
    <3>1. CASE longest = 0
          BY <3>1, <2>4
    <3>2. CASE longest # 0
      <4>1. PICK r \in 1 .. k, x \in 0 .. RandMax : longest = LDi_calculateStreamDelay(r, x)
            BY <3>2, <2>0
      <4>2. 2 * d >= LDi_calculateStreamDelay(r, x)
            BY <2>3
      <4> QED BY <4>1, <4>2
    <3> QED BY <3>1, <3>2
  <2>7. l \in Nat /\ 2 * d >= l
        BY <1>2, <2>1, <2>4, <2>6
  <2>8. InBounds(d, l)
        BY <2>3, <2>7 DEF InBounds
  <2>5. \/ streamRetries' = 0 \/ l = 0
        \/ \E r \in 1 .. streamRetries', x \in 0 .. RandMax : l = LDi_calculateStreamDelay(r, x)
    <3>1. CASE streamRetries' = k + 1
      <4>1. \A r \in 1 .. k : r \in 1 .. streamRetries'
            BY <3>1
      <4>2. k \in 1 .. streamRetries'
            BY <3>1, <1>6
      <4>3. CASE l = d
            BY <4>2, <4>3, <1>2, <1>3, Zenon
      <4>4. CASE l = longest
            BY <2>0, <4>1, <4>4, Zenon
      <4> QED BY <4>3, <4>4, <1>2, Zenon
    <3> QED BY <3>1, <1>1, <1>3, Zenon
  <2> QED BY <2>5, <2>7, <2>8, <1>1, <1>2, <1>4, Zenon DEF WaitInv
<1> QED BY <1>5, <1>6

\* The waits of LDi_cond_wait and of the streamer, for every clock, timeout and row of failures.
THEOREM WaitsAreBoundedAlways == WaitSpec => []WaitsAreBounded
<1>1. WaitInit => WaitInv
  <2> SUFFICES ASSUME WaitInit PROVE WaitInv
      OBVIOUS
  <2>1. wait.now \in Times /\ wait.ms \in Nat
        BY WaitsAreTimed DEF WaitInit
  <2>2. 0 \in Nat
        OBVIOUS
  <2> QED BY <2>1, <2>2, Zenon DEF WaitInit, WaitInv
<1>2. WaitInv /\ [WaitNext]_waitVars => WaitInv'
  <2> SUFFICES ASSUME WaitInv, [WaitNext]_waitVars PROVE WaitInv'
      OBVIOUS
  <2>1. ASSUME NEW now \in Clocks, NEW ms \in Timeouts, LDi_cond_wait(now, ms)
        PROVE  WaitInv'
    <3>1. /\ wait' = [now |-> now, ms |-> ms] /\ streamRetries' = streamRetries
          /\ delay' = delay /\ longest' = longest
          BY <2>1, Zenon DEF LDi_cond_wait
    <3>2. wait'.now \in Times /\ wait'.ms \in Nat
          BY <3>1, WaitsAreTimed
    <3> QED BY <3>1, <3>2, Zenon DEF WaitInv
  <2>2. ASSUME NEW rng \in 0 .. RandMax, NEW fails \in BOOLEAN, StreamerRound(rng, fails)
        PROVE  WaitInv'
        BY <2>2, RoundWaits
  <2>3. CASE UNCHANGED waitVars
        BY <2>3, Zenon DEF waitVars, WaitInv
  <2> QED BY <2>1, <2>2, <2>3, Zenon DEF WaitNext
<1>3. WaitInv => WaitsAreBounded
  <2>1. WaitInv => DeadlineExact(wait.now, wait.ms)
        BY DeadlineCorrect, Zenon DEF WaitInv
  <2>2. WaitInv => (delay = 0 \/ InBounds(delay, longest))
        BY Zenon DEF WaitInv
  <2> QED BY <2>1, <2>2 DEF InBounds, IsDelay, WaitsAreBounded
<1> QED BY <1>1, <1>2, <1>3, PTL DEF WaitSpec

-----------------------------------------------------------------------------
(* UTF-8 *)

\* Quotients and remainders by 64, the six bits of a continuation byte.
LEMMA SixBits ==
    ASSUME NEW c \in Nat
    PROVE  /\ c \div 64 \in Nat /\ c % 64 \in 0 .. 63 /\ c = 64 * (c \div 64) + (c % 64)
           /\ (c \div 64) \div 64 = c \div 4096
           /\ (c \div 4096) \div 64 = c \div 262144
  BY SMT

\* utf16_literal_to_utf8 writes well-formed UTF-8 from which the code point can be read back,
\* for every code point that it accepts.
THEOREM Utf8Correct == \A c \in CodePoints : WellFormed(Utf8(c)) /\ Decoded(Utf8(c)) = c
<1>1. SUFFICES ASSUME NEW c \in Nat, c < 1114112
               PROVE  WellFormed(Utf8(c)) /\ Decoded(Utf8(c)) = c
      BY SMT DEF CodePoints
<1>2. PICK p \in Nat : p = c \div 64
      BY SixBits
<1>3. PICK q \in Nat : q = c \div 4096 /\ q = p \div 64
      BY <1>2, SixBits
<1>4. PICK r \in Nat : r = c \div 262144 /\ r = q \div 64
      BY <1>3, SixBits
<1>x. PICK x \in 0 .. 63 : Continuation(c) = 128 + x /\ c = 64 * p + x
      BY <1>2, SixBits, SMTT(20) DEF Continuation
<1>y. PICK y \in 0 .. 63 : Continuation(c \div 64) = 128 + y /\ p = 64 * q + y
      BY <1>2, <1>3, SixBits, SMTT(20) DEF Continuation
<1>z. PICK z \in 0 .. 63 : Continuation(c \div 4096) = 128 + z /\ q = 64 * r + z
      BY <1>3, <1>4, SixBits DEF Continuation
<1>5. CASE c < 128
  <2>1. Utf8(c) = <<c>>
        BY <1>1, <1>5, SMT DEF Utf8
  <2> QED BY <2>1, <1>5, SMT DEF WellFormed, Decoded
<1>6. CASE c >= 128 /\ c < 2048
  <2>1. Utf8(c) = <<192 + p, 128 + x>>
        BY <1>2, <1>x, <1>6, SMT DEF Utf8
  <2>2. p \in 2 .. 31
        BY <1>x, <1>6, SMTT(20)
  <2>3. WellFormed(Utf8(c))
        BY <2>1, <2>2, SMT DEF WellFormed
  <2>4. Decoded(Utf8(c)) = c
        BY <2>1, <2>2, <1>x, SMTT(20) DEF Decoded
  <2> QED BY <2>3, <2>4, SMTT(20)
<1>7. CASE c >= 2048 /\ c < 65536
  <2>1. Utf8(c) = <<224 + q, 128 + y, 128 + x>>
        BY <1>3, <1>x, <1>y, <1>7, SMTT(20) DEF Utf8
  <2>2. q \in 0 .. 15 /\ (q = 0 => y >= 32)
        BY <1>x, <1>y, <1>7, SMTT(20)
  <2>3. WellFormed(Utf8(c))
        BY <2>1, <2>2, SMT DEF WellFormed
  <2>4. Decoded(Utf8(c)) = c
        BY <2>1, <2>2, <1>x, <1>y, SMTT(20) DEF Decoded
  <2> QED BY <2>3, <2>4
<1>8. CASE c >= 65536
  <2>1. Utf8(c) = <<240 + r, 128 + z, 128 + y, 128 + x>>
        BY <1>4, <1>x, <1>y, <1>z, <1>8, SMTT(20) DEF Utf8
  <2>2. r \in 0 .. 4 /\ (r = 0 => z >= 16)
        BY <1>1, <1>x, <1>y, <1>z, <1>8, SMTT(20)
  <2>3. WellFormed(Utf8(c))
        BY <2>1, <2>2, SMT DEF WellFormed
  <2>4. Decoded(Utf8(c)) = c
    <3>1. c = r * 262144 + z * 4096 + y * 64 + x
          BY <1>x, <1>y, <1>z, SMT
    <3>2. Decoded(Utf8(c)) = ((240 + r) - 240) * 262144 + ((128 + z) - 128) * 4096
                             + ((128 + y) - 128) * 64 + ((128 + x) - 128)
          BY <2>1, SMT DEF Decoded
    <3> QED BY <3>1, <3>2, SMT
  <2> QED BY <2>3, <2>4
<1> QED BY <1>5, <1>6, <1>7, <1>8, SMT

\* The two halves of a surrogate pair give a supplementary code point, and different pairs
\* give different ones: parsing loses nothing of the text.
THEOREM PairCorrect ==
    \A h1, h2 \in HighSurrogates, l1, l2 \in LowSurrogates :
        /\ Pair(h1, l1) >= 65536 /\ Pair(h1, l1) \in CodePoints
        /\ Pair(h1, l1) = Pair(h2, l2) => h1 = h2 /\ l1 = l2
<1>1. \A h \in HighSurrogates : h % 1024 = h - 55296
      BY SMT DEF HighSurrogates
<1>2. \A l \in LowSurrogates : l % 1024 = l - 56320
      BY SMT DEF LowSurrogates
<1> QED BY <1>1, <1>2, SMT DEF Pair, HighSurrogates, LowSurrogates, CodePoints

-----------------------------------------------------------------------------
(* The parser of server-sent events *)

\* What the parser works on.
Streams == Seq(Symbols)
Optional == {NULL} \union {<<t>> : t \in Streams}
Calls == Seq([name: Streams, body: Streams])
Results == [eventName: Optional, eventBody: Optional, calls: Calls]
Places == [consumed: Nat, parsed: Results]

\* A piece of a text, element by element.
IsPiece(p, text, a, b) ==
    p \in Streams /\ Len(p) = b + 1 - a /\ \A i \in 1 .. b + 1 - a : p[i] = text[a + i - 1]

\* A text is a function.
LEMMA TextIs ==
    ASSUME NEW u \in Streams
    PROVE  Len(u) \in Nat /\ u \in [1 .. Len(u) -> Symbols]
BY DEF Streams

\* Streams are equal when their symbols are.
LEMMA SameText ==
    ASSUME NEW u \in Streams, NEW v \in Streams, NEW l \in Nat, Len(u) = l, Len(v) = l,
           \A i \in 1 .. l : u[i] = v[i]
    PROVE  u = v
<1>1. u \in [1 .. l -> Symbols] /\ v \in [1 .. l -> Symbols]
      BY TextIs, Zenon
<1>2. u = [i \in 1 .. l |-> u[i]] /\ v = [i \in 1 .. l |-> v[i]]
      BY <1>1, Zenon
<1> QED BY <1>1, <1>2, Zenon

\* A part of a stream is a stream, with these symbols.
LEMMA Piece ==
    ASSUME NEW text \in Streams, NEW a \in Nat \ {0}, NEW b \in Nat, a <= b + 1, b <= Len(text)
    PROVE  IsPiece(SubSeq(text, a, b), text, a, b)
<1>1. PICK n \in Nat : n = b + 1 - a
      OBVIOUS
<1>2. PICK p : p = SubSeq(text, a, b) /\ p = [i \in 1 .. n |-> text[i + a - 1]]
  <2>1. SubSeq(text, a, b) = [i \in 1 .. 1 + b - a |-> text[i + a - 1]]
        BY DEF SubSeq
  <2>2. 1 + b - a = n
        BY <1>1
  <2> QED BY <2>1, <2>2, Zenon
<1>3. \A i \in 1 .. n : i + a - 1 \in 1 .. Len(text) /\ i + a - 1 = a + i - 1
      BY <1>1 DEF Streams
<1>4. \A i \in 1 .. n : text[i + a - 1] \in Symbols /\ p[i] = text[a + i - 1]
      BY <1>2, <1>3 DEF Streams
<1>5. p \in [1 .. n -> Symbols] /\ DOMAIN p = 1 .. n
      BY <1>2, <1>4, Zenon
<1>6. p \in Streams /\ Len(p) = n
      BY <1>5 DEF Streams
<1> QED BY <1>1, <1>2, <1>4, <1>6, Zenon DEF IsPiece

\* The value of a field is a text.
LEMMA ValueTyped ==
    ASSUME NEW line \in Streams, Len(line) >= 2
    PROVE  ValueOf(line) \in Streams
<1>1. PICK n \in Nat : n = Len(line) /\ n >= 2
      BY DEF Streams
<1>2. PICK k \in {0, 1} : ValueOf(line) = SubSeq(line, 3 + k, n) /\ (k = 1 => n > 2)
  <2>1. CASE n > 2 /\ line[3] = " "
        BY <2>1, <1>1, Zenon DEF ValueOf
  <2>2. CASE ~(n > 2 /\ line[3] = " ")
    <3>1. 0 # 1
          OBVIOUS
    <3> QED BY <3>1, <2>2, <1>1, Zenon DEF ValueOf
  <2> QED BY <2>1, <2>2, Zenon
<1>3. 3 + k \in Nat \ {0} /\ 3 + k <= n + 1
      BY <1>1, <1>2
<1>4. IsPiece(SubSeq(line, 3 + k, n), line, 3 + k, n)
      BY <1>1, <1>3, Piece
<1> QED BY <1>2, <1>4, Zenon DEF IsPiece

\* A line makes a result of a result.
LEMMA LineTyped ==
    ASSUME NEW line \in Streams, NEW s \in Results
    PROVE  LDi_processLine(line, s) \in Results
<1>1. s.eventName \in Optional /\ s.eventBody \in Optional /\ s.calls \in Calls
      BY DEF Results
<1>2. /\ NULL \in Optional /\ \A t \in Streams : String(t) \in Optional
      /\ \A o \in Optional : o # NULL => o[1] \in Streams
  <2>1. \A o \in Optional : o # NULL => o[1] \in Streams
        BY DEF Optional, NULL
  <2> QED BY <2>1, Zenon DEF Optional, String
<1>3. CASE line = <<>>
  <2>1. CASE s.eventName = NULL \/ s.eventBody = NULL
    <3>1. LDi_processLine(line, s) = [s EXCEPT !.calls = s.calls, !.eventName = NULL, !.eventBody = NULL]
          BY <1>3, <2>1, Zenon DEF LDi_processLine
    <3> QED BY <3>1, <1>1, <1>2, Zenon DEF Results
  <2>2. CASE ~(s.eventName = NULL \/ s.eventBody = NULL)
    <3> DEFINE e == [name |-> s.eventName[1], body |-> s.eventBody[1]]
    <3>1. LDi_processLine(line, s) = [s EXCEPT !.calls = Append(s.calls, e),
                                               !.eventName = NULL, !.eventBody = NULL]
          BY <1>3, <2>2, Zenon DEF LDi_processLine
    <3>2. e \in [name: Streams, body: Streams]
          BY <1>1, <1>2, <2>2
    <3> HIDE DEF e
    <3>3. Append(s.calls, e) \in Calls
          BY <3>2, <1>1 DEF Calls
    <3> QED BY <3>1, <3>3, <1>2, Zenon DEF Results
  <2> QED BY <2>1, <2>2
<1>4. CASE line # <<>> /\ IsField(line, "data")
  <2>1. ValueOf(line) \in Streams
        BY <1>4, ValueTyped DEF IsField
  <2>2. PICK o : /\ o = IF s.eventBody = NULL THEN String(ValueOf(line))
                        ELSE String(s.eventBody[1] \o <<LF>> \o ValueOf(line))
                 /\ LDi_processLine(line, s) = [s EXCEPT !.eventBody = o]
        BY <1>4, Zenon DEF LDi_processLine
  <2>3. o \in Optional
    <3>1. CASE s.eventBody = NULL
          BY <3>1, <2>1, <2>2, <1>2
    <3>2. CASE s.eventBody # NULL
      <4>1. s.eventBody[1] \in Streams /\ <<LF>> \in Streams
            BY <3>2, <1>1, <1>2, ChunksAreTexts DEF Streams
      <4>2. s.eventBody[1] \o <<LF>> \o ValueOf(line) \in Streams
            BY <4>1, <2>1 DEF Streams
      <4> QED BY <4>2, <3>2, <2>2, <1>2, Zenon
    <3> QED BY <3>1, <3>2
  <2> QED BY <2>2, <2>3 DEF Results
<1>5. CASE line # <<>> /\ ~IsField(line, "data") /\ IsField(line, "event")
  <2>1. ValueOf(line) \in Streams
        BY <1>5, ValueTyped DEF IsField
  <2>2. LDi_processLine(line, s) = [s EXCEPT !.eventName = String(ValueOf(line))]
        BY <1>5, Zenon DEF LDi_processLine
  <2> QED BY <2>1, <2>2, <1>2 DEF Results
<1>6. CASE line # <<>> /\ ~IsField(line, "data") /\ ~IsField(line, "event")
      BY <1>6, Zenon DEF LDi_processLine
<1> QED BY <1>3, <1>4, <1>5, <1>6, Zenon

\* memchr finds the first line feed.
LEMMA FirstEnd ==
    ASSUME NEW text \in Streams, NEW c \in Nat, LineEnds(text, c) # {}
    PROVE  /\ memchr(text, c) \in LineEnds(text, c)
           /\ \A i \in LineEnds(text, c) : memchr(text, c) <= i
<1> DEFINE R == OpToRel(<, Nat)
           W == LineEnds(text, c)
<1>1. IsWellFoundedOn(R, Nat)
      BY NatLessThanWellFounded, Zenon
<1>0. W \subseteq Nat
      BY DEF LineEnds, Streams
<1>2. PICK x \in W : \A y \in W : ~(<<y, x>> \in R)
  <2> HIDE DEF R
  <2> QED BY <1>0, <1>1, WFMin, Zenon
<1>3. \A y \in W : x <= y
  <2> SUFFICES ASSUME NEW y \in W, y < x PROVE FALSE
      BY <1>0
  <2>1. <<y, x>> \in R
        BY <1>0 DEF OpToRel
  <2> QED BY <2>1, <1>2, Zenon
<1> QED BY <1>2, <1>3, Zenon DEF memchr

\* The line that is processed next ends at memchr and is a text.
LEMMA NextLineIs ==
    ASSUME NEW text \in Streams, NEW c \in Nat, LineEnds(text, c) # {}
    PROVE  \E e \in Nat : /\ memchr(text, c) = e /\ c < e /\ e <= Len(text) /\ text[e] = LF
                          /\ \A i \in c + 1 .. e - 1 : text[i] # LF
                          /\ IsPiece(NextLine(text, c), text, c + 1, e - 1)
<1>1. PICK n \in Nat : n = Len(text) /\ DOMAIN text = 1 .. n
      BY DEF Streams
<1>2. PICK e : e = memchr(text, c)
      BY Zenon
<1>3. e \in LineEnds(text, c) /\ \A i \in LineEnds(text, c) : e <= i
      BY <1>2, FirstEnd, Zenon
<1>4. e \in 1 .. n /\ e > c /\ text[e] = LF
      BY <1>1, <1>3 DEF LineEnds
<1>5. \A i \in c + 1 .. e - 1 : text[i] # LF
  <2> SUFFICES ASSUME NEW i \in c + 1 .. e - 1, text[i] = LF PROVE FALSE
      OBVIOUS
  <2>1. i \in LineEnds(text, c) /\ ~(e <= i)
        BY <1>1, <1>4 DEF LineEnds
  <2> QED BY <2>1, <1>3, Zenon
<1>6. c + 1 \in Nat \ {0} /\ e - 1 \in Nat /\ c + 1 <= (e - 1) + 1 /\ e - 1 <= n /\ e \in Nat
      BY <1>4
<1>7. IsPiece(SubSeq(text, c + 1, e - 1), text, c + 1, e - 1)
      BY <1>1, <1>6, Piece
<1> QED BY <1>1, <1>2, <1>4, <1>5, <1>6, <1>7, SMT DEF NextLine

\* A round of the loop in terms of that line.
LEMMA RoundTyped ==
    ASSUME NEW text \in Streams, NEW q \in Places
    PROVE  Round(text, q) \in Places
<1>1. q.consumed \in Nat /\ q.parsed \in Results
      BY DEF Places
<1>2. CASE LineEnds(text, q.consumed) = {}
      BY <1>2, Zenon DEF Round
<1>3. CASE LineEnds(text, q.consumed) # {}
  <2>1. PICK e \in Nat : /\ memchr(text, q.consumed) = e
                         /\ IsPiece(NextLine(text, q.consumed), text, q.consumed + 1, e - 1)
        BY <1>1, <1>3, NextLineIs
  <2>2. LDi_processLine(NextLine(text, q.consumed), q.parsed) \in Results
        BY <2>1, <1>1, LineTyped, Zenon DEF IsPiece
  <2>3. Round(text, q) = [consumed |-> e,
                          parsed |-> LDi_processLine(NextLine(text, q.consumed), q.parsed)]
        BY <1>3, <2>1, Zenon DEF Round
  <2> QED BY <2>2, <2>3 DEF Places
<1> QED BY <1>2, <1>3

\* The places that the loop comes to.
Follows(f, text, s) ==
    /\ f \in [Nat -> Places] /\ f[0] = [consumed |-> 0, parsed |-> s]
    /\ \A n \in Nat : f[n + 1] = Round(text, f[n])

\* Rounds is that function.
LEMMA RoundsFollow ==
    ASSUME NEW text \in Streams, NEW s \in Results
    PROVE  Follows(Rounds(text, s), text, s)
<1> DEFINE q0 == [consumed |-> 0, parsed |-> s]
           P(f) == f = [n \in Nat |-> IF n = 0 THEN q0 ELSE Round(text, f[n - 1])]
           G == [n \in Nat |-> [q \in Places |-> Round(text, q)]]
<1>0. G \in [Nat -> [Places -> Places]] /\ q0 \in Places
  <2>1. \A q \in Places : Round(text, q) \in Places
        BY RoundTyped
  <2>2. q0 \in Places
        BY DEF Places
  <2> QED BY <2>1, <2>2
<1>1. PICK f : Steps(f, Places, q0, G)
  <2> HIDE DEF G, q0
  <2> QED BY <1>0, Recursion, Zenon
<1>2. f \in [Nat -> Places] /\ f[0] = q0 /\ \A n \in Nat : f[n + 1] = Round(text, f[n])
  <2>1. f \in [Nat -> Places] /\ f[0] = q0 /\ \A n \in Nat : f[n + 1] = G[n][f[n]]
    <3> HIDE DEF G, q0
    <3> QED BY <1>1, Zenon DEF Steps
  <2>2. \A n \in Nat : f[n] \in Places
        BY <2>1, Zenon
  <2>3. \A n \in Nat : G[n][f[n]] = Round(text, f[n])
        BY <2>2, Zenon
  <2> QED BY <2>1, <2>3, Zenon
<1> HIDE DEF G, q0
<1>3. P(f)
  <2>1. ASSUME NEW n \in Nat PROVE f[n] = IF n = 0 THEN q0 ELSE Round(text, f[n - 1])
    <3>1. CASE n # 0
      <4>1. n - 1 \in Nat /\ (n - 1) + 1 = n
            BY <3>1
      <4>2. f[(n - 1) + 1] = Round(text, f[n - 1])
            BY <4>1, <1>2, Zenon
      <4> QED BY <4>1, <4>2, <3>1, Zenon
    <3> QED BY <3>1, <1>2, Zenon
  <2>2. f = [n \in Nat |-> f[n]]
        BY <1>2, Zenon
  <2> QED BY <2>1, <2>2, Zenon
<1>4. PICK p : p = Rounds(text, s) /\ P(p)
      BY <1>3, Zenon DEF Rounds, q0
<1>5. DOMAIN p = Nat /\ \A n \in Nat : p[n] = IF n = 0 THEN q0 ELSE Round(text, p[n - 1])
      BY <1>4, Zenon
<1>6. p[0] = q0 /\ \A n \in Nat : p[n + 1] = Round(text, p[n])
  <2>1. p[0] = q0
        BY <1>5, Zenon
  <2>2. ASSUME NEW n \in Nat PROVE p[n + 1] = Round(text, p[n])
    <3>1. n + 1 \in Nat /\ n + 1 # 0 /\ (n + 1) - 1 = n
          OBVIOUS
    <3> QED BY <3>1, <1>5, Zenon
  <2> QED BY <2>1, <2>2, Zenon
<1> DEFINE S == {n \in Nat : p[n] \in Places}
<1>7. 0 \in S /\ \A n \in Nat : n \in S => n + 1 \in S
  <2>1. \A n \in Nat : n + 1 \in Nat
        OBVIOUS
  <2> QED BY <2>1, <1>0, <1>6, RoundTyped, Zenon
<1>8. Nat \subseteq S
  <2> HIDE DEF S
  <2> QED BY <1>7, SetInduction, Zenon
<1>9. p = [n \in Nat |-> p[n]]
      BY <1>4, Zenon
<1>10. p \in [Nat -> Places]
      BY <1>8, <1>9, Zenon
<1> QED BY <1>4, <1>6, <1>10, Zenon DEF Follows, q0

\* A text that is found in another one, after d symbols, and a place in it.
Within(x, y, d) == \A i \in 1 .. Len(x) : d + i <= Len(y) /\ y[d + i] = x[i]
Moved(q, d) == [consumed |-> q.consumed + d, parsed |-> q.parsed]

\* A line that ends in the inner text is read as the same line in the outer one.
LEMMA SameRound ==
    ASSUME NEW x \in Streams, NEW y \in Streams, NEW d \in Nat, Within(x, y, d),
           NEW q \in Places, LineEnds(x, q.consumed) # {}
    PROVE  Round(y, Moved(q, d)) = Moved(Round(x, q), d)
<1>1. PICK c \in Nat : c = q.consumed
      BY DEF Places
<1>2. PICK e \in Nat : /\ memchr(x, c) = e /\ c < e /\ e <= Len(x) /\ x[e] = LF
                       /\ \A i \in c + 1 .. e - 1 : x[i] # LF
                       /\ IsPiece(NextLine(x, c), x, c + 1, e - 1)
      BY <1>1, NextLineIs, Zenon
<1>3. PICK m \in Nat, n \in Nat : /\ m = Len(x) /\ n = Len(y)
                                  /\ DOMAIN x = 1 .. m /\ DOMAIN y = 1 .. n
      BY DEF Streams
<1>4. \A i \in 1 .. m : d + i <= n /\ y[d + i] = x[i]
      BY <1>3, Zenon DEF Within
<1>5. d + e \in LineEnds(y, c + d)
      BY <1>2, <1>3, <1>4 DEF LineEnds
<1>6. PICK k \in Nat : /\ memchr(y, c + d) = k /\ c + d < k /\ k <= n /\ y[k] = LF
                       /\ \A i \in c + d + 1 .. k - 1 : y[i] # LF
                       /\ IsPiece(NextLine(y, c + d), y, c + d + 1, k - 1)
  <2>1. c + d \in Nat /\ LineEnds(y, c + d) # {}
        BY <1>5
  <2> QED BY <2>1, <1>3, NextLineIs
<1>7. k = e + d
  <2>1. ~(k > d + e)
    <3> SUFFICES ASSUME k > d + e PROVE FALSE
        OBVIOUS
    <3>1. d + e \in c + d + 1 .. k - 1
          BY <1>2
    <3>2. y[d + e] = LF
          BY <1>2, <1>3, <1>4
    <3> QED BY <3>1, <3>2, <1>6, Zenon
  <2>2. ~(k < d + e)
    <3> SUFFICES ASSUME k < d + e PROVE FALSE
        OBVIOUS
    <3>1. k - d \in c + 1 .. e - 1 /\ k - d \in 1 .. m /\ d + (k - d) = k
          BY <1>2, <1>3, <1>6
    <3>2. y[k] = x[k - d]
          BY <3>1, <1>4, Zenon
    <3> QED BY <3>1, <3>2, <1>2, <1>6, Zenon
  <2> QED BY <2>1, <2>2
<1>8. NextLine(y, c + d) = NextLine(x, c)
  <2> DEFINE u == NextLine(x, c)
             v == NextLine(y, c + d)
  <2>1. PICK l \in Nat : l = e - 1 - c
        BY <1>2
  <2>2. u \in Streams /\ Len(u) = l /\ \A i \in 1 .. l : u[i] = x[c + i]
    <3>1. (e - 1) + 1 - (c + 1) = l /\ \A i \in 1 .. l : (c + 1) + i - 1 = c + i
          BY <2>1
    <3> QED BY <3>1, <1>2, Zenon DEF IsPiece
  <2>3. v \in Streams /\ Len(v) = l /\ \A i \in 1 .. l : v[i] = y[d + (c + i)]
    <3>1. (k - 1) + 1 - (c + d + 1) = l /\ \A i \in 1 .. l : (c + d + 1) + i - 1 = d + (c + i)
          BY <2>1, <1>7
    <3> QED BY <3>1, <1>6, Zenon DEF IsPiece
  <2>4. \A i \in 1 .. l : c + i \in 1 .. m
        BY <1>2, <1>3, <2>1
  <2>5. \A i \in 1 .. l : u[i] = v[i]
        BY <2>2, <2>3, <2>4, <1>4, Zenon
  <2> QED BY <2>2, <2>3, <2>5, SameText, Zenon
<1> DEFINE p == LDi_processLine(NextLine(x, c), q.parsed)
<1>9. Round(x, q) = [consumed |-> e, parsed |-> p]
      BY <1>1, <1>2, Zenon DEF Round
<1>10. Moved(q, d).consumed = c + d /\ Moved(q, d).parsed = q.parsed
      BY <1>1, Zenon DEF Moved
<1>11. Round(y, Moved(q, d)) = [consumed |-> k, parsed |-> p]
      BY <1>5, <1>6, <1>8, <1>10, Zenon DEF Round
<1> HIDE DEF p
<1>12. Moved([consumed |-> e, parsed |-> p], d) = [consumed |-> k, parsed |-> p]
      BY <1>7 DEF Moved
<1> QED BY <1>9, <1>11, <1>12, Zenon

\* A parser of the outer text that comes to where the inner one begins goes along with it.
LEMMA Along ==
    ASSUME NEW x \in Streams, NEW y \in Streams, NEW d \in Nat, Within(x, y, d),
           NEW s, NEW t, NEW f, NEW g, Follows(f, x, s), Follows(g, y, t),
           NEW j \in Nat, g[j] = Moved(f[0], d),
           NEW n \in Nat
    PROVE  \E i \in Nat : g[i] = Moved(f[n], d)
<1> DEFINE S == {k \in Nat : \E i \in Nat : g[i] = Moved(f[k], d)}
<1>1. 0 \in S
      OBVIOUS
<1>2. ASSUME NEW k \in Nat, k \in S PROVE k + 1 \in S
  <2>1. PICK i \in Nat : g[i] = Moved(f[k], d)
        BY <1>2, Zenon
  <2>2. /\ f[k] \in Places /\ f[k + 1] = Round(x, f[k]) /\ g[i + 1] = Round(y, g[i])
        BY Zenon DEF Follows
  <2>3. k + 1 \in Nat /\ i + 1 \in Nat
        OBVIOUS
  <2>4. CASE LineEnds(x, f[k].consumed) = {}
    <3>1. f[k + 1] = f[k]
          BY <2>2, <2>4, Zenon DEF Round
    <3> QED BY <3>1, <2>1, <2>3, Zenon
  <2>5. CASE LineEnds(x, f[k].consumed) # {}
    <3>1. Round(y, Moved(f[k], d)) = Moved(Round(x, f[k]), d)
          BY <2>2, <2>5, SameRound, Zenon
    <3> QED BY <3>1, <2>1, <2>2, <2>3, Zenon
  <2> QED BY <2>4, <2>5, Zenon
<1>3. Nat \subseteq S
  <2> HIDE DEF S
  <2> QED BY <1>1, <1>2, SetInduction, Zenon
<1> QED BY <1>3, Zenon

\* What is consumed ends with a line, and every round consumes one while there is one.
LEMMA Consumes ==
    ASSUME NEW text \in Streams, NEW s, NEW f, Follows(f, text, s), NEW n \in Nat
    PROVE  /\ f[n].consumed \in 0 .. Len(text)
           /\ f[n].consumed = 0 \/ text[f[n].consumed] = LF
           /\ f[n].consumed >= n \/ LineEnds(text, f[n].consumed) = {}
<1> DEFINE S == {k \in Nat : /\ f[k].consumed \in 0 .. Len(text)
                             /\ f[k].consumed = 0 \/ text[f[k].consumed] = LF
                             /\ f[k].consumed >= k \/ LineEnds(text, f[k].consumed) = {}}
<1>0. Len(text) \in Nat
      BY DEF Streams
<1>1. 0 \in S
  <2>0. f[0] = [consumed |-> 0, parsed |-> s]
        BY Zenon DEF Follows
  <2>1. f[0].consumed = 0
        BY <2>0
  <2> QED BY <1>0, <2>1
<1>2. ASSUME NEW k \in Nat, k \in S PROVE k + 1 \in S
  <2>1. f[k] \in Places /\ f[k + 1] = Round(text, f[k])
        BY Zenon DEF Follows
  <2>2. PICK c \in Nat : c = f[k].consumed
        BY <2>1 DEF Places
  <2>3. CASE LineEnds(text, c) = {}
    <3>1. f[k + 1] = f[k]
          BY <2>1, <2>2, <2>3, Zenon DEF Round
    <3>2. k + 1 \in Nat
          OBVIOUS
    <3> QED BY <3>1, <3>2, <2>2, <2>3, <1>2, Zenon
  <2>4. CASE LineEnds(text, c) # {}
    <3>1. PICK e \in Nat : memchr(text, c) = e /\ c < e /\ e <= Len(text) /\ text[e] = LF
          BY <2>4, NextLineIs
    <3> DEFINE p == LDi_processLine(NextLine(text, c), f[k].parsed)
    <3>0. f[k + 1] = [consumed |-> e, parsed |-> p]
          BY <2>1, <2>2, <2>4, <3>1, Zenon DEF Round
    <3> HIDE DEF p
    <3>2. f[k + 1].consumed = e
          BY <3>0
    <3>3. c >= k
          BY <1>2, <2>2, <2>4, Zenon
    <3>4. k + 1 \in Nat /\ e \in 0 .. Len(text) /\ e >= k + 1
          BY <3>1, <3>3, <1>0
    <3> QED BY <3>1, <3>2, <3>4, Zenon
  <2> QED BY <2>3, <2>4, Zenon
<1>3. Nat \subseteq S
  <2> HIDE DEF S
  <2> QED BY <1>1, <1>2, SetInduction, Zenon
<1> QED BY <1>3, Zenon

\* Lines only add calls.
LEMMA LineAdds ==
    ASSUME NEW line, NEW s \in Results
    PROVE  Begins(s.calls, LDi_processLine(line, s).calls)
<1>1. s.calls \in Calls /\ DOMAIN s = {"eventName", "eventBody", "calls"}
      BY DEF Results
<1>2. \A e : Begins(s.calls, Append(s.calls, e))
  <2> SUFFICES ASSUME NEW e PROVE Begins(s.calls, Append(s.calls, e))
      OBVIOUS
  <2>1. PICK n \in Nat : n = Len(s.calls) /\ DOMAIN s.calls = 1 .. n
        BY <1>1 DEF Calls
  <2>2. /\ Len(Append(s.calls, e)) = n + 1
        /\ \A i \in 1 .. n : Append(s.calls, e)[i] = s.calls[i]
        BY <2>1, <1>1 DEF Calls
  <2> QED BY <2>1, <2>2 DEF Begins
<1>3. Begins(s.calls, s.calls)
      BY <1>1 DEF Begins, Calls
<1>4. LDi_processLine(line, s).calls = s.calls
        \/ \E e : LDi_processLine(line, s).calls = Append(s.calls, e)
  <2> DEFINE e == [name |-> s.eventName[1], body |-> s.eventBody[1]]
             R == LDi_processLine(line, s)
  <2>2. CASE line = <<>> /\ (s.eventName = NULL \/ s.eventBody = NULL)
    <3>1. R = [s EXCEPT !.calls = s.calls, !.eventName = NULL, !.eventBody = NULL]
          BY <2>2, Zenon DEF LDi_processLine
    <3> HIDE DEF R
    <3>2. R.calls = s.calls
          BY <3>1 DEF Results
    <3> QED BY <3>2, Zenon DEF R
  <2>3. CASE line = <<>> /\ ~(s.eventName = NULL \/ s.eventBody = NULL)
    <3>1. R = [s EXCEPT !.calls = Append(s.calls, e), !.eventName = NULL, !.eventBody = NULL]
          BY <2>3, Zenon DEF LDi_processLine
    <3> HIDE DEF R, e
    <3>2. R.calls = Append(s.calls, e)
          BY <3>1 DEF Results
    <3> QED BY <3>2, Zenon DEF R
  <2>4. CASE line # <<>>
    <3>1. PICK a, b : R = [s EXCEPT !.eventName = a] \/ R = [s EXCEPT !.eventBody = b] \/ R = s
          BY <2>4, Zenon DEF LDi_processLine
    <3> HIDE DEF R
    <3>2. R.calls = s.calls
      <4>1. CASE R = [s EXCEPT !.eventName = a]
            BY <4>1 DEF Results
      <4>2. CASE R = [s EXCEPT !.eventBody = b]
            BY <4>2 DEF Results
      <4> QED BY <4>1, <4>2, <3>1, Zenon
    <3> QED BY <3>2, Zenon DEF R
  <2> QED BY <2>2, <2>3, <2>4, Zenon
<1> QED BY <1>2, <1>3, <1>4, Zenon

\* Once no line is left the place does not change.
LEMMA Stays ==
    ASSUME NEW text, NEW s, NEW f, Follows(f, text, s), NEW n \in Nat,
           LineEnds(text, f[n].consumed) = {}, NEW m \in Nat, n <= m
    PROVE  f[m] = f[n]
<1> DEFINE S == {k \in Nat : f[n + k] = f[n]}
<1>1. 0 \in S
      OBVIOUS
<1>2. ASSUME NEW k \in Nat, k \in S PROVE k + 1 \in S
  <2>1. k + 1 \in Nat /\ n + k \in Nat /\ n + (k + 1) = (n + k) + 1
        OBVIOUS
  <2>2. f[(n + k) + 1] = Round(text, f[n + k])
        BY <2>1, Zenon DEF Follows
  <2> QED BY <2>1, <2>2, <1>2, Zenon DEF Round
<1>3. Nat \subseteq S
  <2> HIDE DEF S
  <2> QED BY <1>1, <1>2, SetInduction, Zenon
<1>4. PICK k \in Nat : n + k = m
  <2>1. m - n \in Nat /\ n + (m - n) = m
        OBVIOUS
  <2> QED BY <2>1, Zenon
<1>5. f[n + k] = f[n]
      BY <1>3, Zenon
<1> QED BY <1>4, <1>5, Zenon

\* As many rounds as there are symbols leave no line, and where no line is left is where they end.
LEMMA Ends ==
    ASSUME NEW text \in Streams, NEW s, NEW f, Follows(f, text, s)
    PROVE  /\ LineEnds(text, f[Len(text)].consumed) = {}
           /\ \A n \in Nat : n >= Len(text) \/ LineEnds(text, f[n].consumed) = {}
                                => f[n] = f[Len(text)]
<1>1. PICK l \in Nat : l = Len(text) /\ DOMAIN text = 1 .. l
      BY DEF Streams
<1>2. f[l].consumed \in 0 .. l /\ (f[l].consumed >= l \/ LineEnds(text, f[l].consumed) = {})
      BY <1>1, Consumes, Zenon
<1>3. LineEnds(text, f[l].consumed) = {}
  <2>1. CASE f[l].consumed >= l
    <3>1. f[l].consumed = l
          BY <1>2, <2>1
    <3> QED BY <3>1, <1>1 DEF LineEnds
  <2> QED BY <2>1, <1>2, Zenon
<1>4. ASSUME NEW n \in Nat, n >= l \/ LineEnds(text, f[n].consumed) = {}
      PROVE  f[n] = f[l]
  <2>1. CASE l <= n
        BY <2>1, <1>3, Stays
  <2>2. CASE ~(l <= n)
    <3>1. n <= l /\ ~(n >= l)
          BY <2>2
    <3>2. f[l] = f[n]
          BY <3>1, <1>4, Stays
    <3> QED BY <3>2
  <2> QED BY <2>1, <2>2
<1> QED BY <1>1, <1>3, <1>4, Zenon

\* The calls at one place begin the calls at the end.
LEMMA CallsBegin ==
    ASSUME NEW text \in Streams, NEW s, NEW f, Follows(f, text, s), NEW n \in Nat
    PROVE  Begins(f[n].parsed.calls, f[Len(text)].parsed.calls)
<1> DEFINE C(k) == f[k].parsed.calls
           S == {k \in Nat : Begins(C(n), C(n + k))}
<1>0. ASSUME NEW k \in Nat PROVE f[k] \in Places /\ f[k].parsed \in Results /\ C(k) \in Calls
  <2>1. f[k] \in Places
        BY Zenon DEF Follows
  <2> QED BY <2>1 DEF Places, Results
<1>1. 0 \in S
  <2>1. C(n) \in Calls
        BY <1>0
  <2> HIDE DEF C
  <2> QED BY <2>1 DEF Begins, Calls
<1>2. ASSUME NEW k \in Nat, k \in S PROVE k + 1 \in S
  <2>1. PICK j \in Nat : j = n + k /\ n + (k + 1) = j + 1 /\ k + 1 \in Nat /\ j + 1 \in Nat
        OBVIOUS
  <2>2. f[j + 1] = Round(text, f[j]) /\ f[j] \in Places /\ f[j].parsed \in Results
        BY <1>0, Zenon DEF Follows
  <2>3. Begins(C(j), C(j + 1))
    <3>1. CASE LineEnds(text, f[j].consumed) = {}
      <4>1. C(j) = C(j + 1)
            BY <3>1, <2>2, Zenon DEF Round
      <4>2. C(j) \in Calls
            BY <1>0
      <4> HIDE DEF C
      <4> QED BY <4>1, <4>2 DEF Begins, Calls
    <3>2. CASE LineEnds(text, f[j].consumed) # {}
      <4> DEFINE p == LDi_processLine(NextLine(text, f[j].consumed), f[j].parsed)
                 e == memchr(text, f[j].consumed)
      <4>1. f[j + 1] = [consumed |-> e, parsed |-> p]
            BY <3>2, <2>2, Zenon DEF Round
      <4>2. Begins(f[j].parsed.calls, p.calls)
            BY <2>2, LineAdds, Zenon
      <4> HIDE DEF p, e
      <4>3. f[j + 1].parsed = p
            BY <4>1
      <4> QED BY <4>2, <4>3, Zenon
    <3> QED BY <3>1, <3>2, Zenon
  <2>4. Begins(C(n), C(j)) /\ C(n) \in Calls /\ C(j) \in Calls /\ C(j + 1) \in Calls
        BY <1>0, <1>2, <2>1, Zenon
  <2>5. Begins(C(n), C(j + 1))
    <3> HIDE DEF C
    <3> QED BY <2>3, <2>4 DEF Begins, Calls
  <2> QED BY <2>1, <2>5, Zenon
<1>3. Nat \subseteq S
  <2> HIDE DEF S
  <2> QED BY <1>1, <1>2, SetInduction, Zenon
<1>4. PICK l \in Nat : l = Len(text)
      BY DEF Streams
<1>5. CASE n <= l
  <2>1. l - n \in Nat /\ n + (l - n) = l
        BY <1>5
  <2> QED BY <2>1, <1>3, <1>4, Zenon
<1>6. CASE n > l
  <2>1. f[n] = f[l]
    <3>1. n >= l
          BY <1>6
    <3> QED BY <3>1, <1>4, Ends, Zenon
  <2>2. C(n) \in Calls /\ C(n) = C(l)
        BY <2>1, <1>0
  <2>3. Begins(C(n), C(l))
    <3> HIDE DEF C
    <3> QED BY <2>2 DEF Begins, Calls
  <2> QED BY <2>3, <1>4, Zenon
<1> QED BY <1>5, <1>6

\* What the whole text gives, and the line it leaves.
Rest(text) == SubSeq(text, Whole(text).consumed + 1, Len(text))

\* Parsing a whole text ends behind its last line feed, with a result of the right type.
LEMMA WholeIs ==
    ASSUME NEW text \in Streams
    PROVE  /\ Nothing \in Results /\ Whole(text) \in Places
           /\ Whole(text).consumed \in 0 .. Len(text) /\ Whole(text).parsed \in Results
           /\ IsPiece(Rest(text), text, Whole(text).consumed + 1, Len(text))
           /\ IsLastLine(Rest(text), text)
<1>1. Nothing \in Results
  <2>0. NULL \in Optional
        BY Zenon DEF Optional
  <2>1. NULL \in Optional /\ <<>> \in Calls
        BY <2>0 DEF Calls
  <2> QED BY <2>1 DEF Results, Nothing
<1>2. PICK f : f = Rounds(text, Nothing) /\ Follows(f, text, Nothing)
      BY <1>1, RoundsFollow, Zenon
<1>3. PICK l \in Nat : l = Len(text)
      BY DEF Streams
<1>4. PICK w : w = Whole(text) /\ w = f[l]
      BY <1>2, <1>3, Zenon DEF Whole
<1>5. w \in Places
      BY <1>2, <1>4, Zenon DEF Follows
<1>6. PICK c \in Nat : c = w.consumed
      BY <1>5 DEF Places
<1>7. c \in 0 .. l /\ (c = 0 \/ text[c] = LF) /\ LineEnds(text, c) = {}
  <2>1. /\ f[l].consumed \in 0 .. Len(text)
        /\ f[l].consumed = 0 \/ text[f[l].consumed] = LF
        BY <1>2, Consumes
  <2>2. LineEnds(text, f[Len(text)].consumed) = {}
        BY <1>2, Ends
  <2> QED BY <2>1, <2>2, <1>3, <1>4, <1>6, Zenon
<1>8. IsPiece(SubSeq(text, c + 1, l), text, c + 1, l)
  <2>1. c + 1 \in Nat \ {0} /\ c + 1 <= l + 1 /\ l <= Len(text)
        BY <1>3, <1>7
  <2> QED BY <2>1, Piece
<1>9. Rest(text) = SubSeq(text, c + 1, l)
      BY <1>3, <1>4, <1>6, Zenon DEF Rest
<1>10. IsLastLine(Rest(text), text)
      BY <1>9, <1>7, <1>3, Zenon DEF IsLastLine
<1>11. w.parsed \in Results
      BY <1>5 DEF Places
<1> QED BY <1>1, <1>3, <1>4, <1>5, <1>6, <1>7, <1>8, <1>9, <1>10, <1>11, Zenon

\* How the concatenation of two texts looks.
LEMMA Joined ==
    ASSUME NEW x \in Streams, NEW y \in Streams
    PROVE  /\ x \o y \in Streams /\ Len(x \o y) = Len(x) + Len(y)
           /\ Len(x) \in Nat /\ Len(y) \in Nat
           /\ \A i \in 1 .. Len(x) : (x \o y)[i] = x[i]
           /\ \A i \in 1 .. Len(y) : (x \o y)[Len(x) + i] = y[i]
BY DEF Streams

\* The buffer with a chunk is the end of the whole text, from where the lines were consumed.
LEMMA BufferWithin ==
    ASSUME NEW text \in Streams, NEW chunk \in Streams, NEW d \in Nat, d = Whole(text).consumed
    PROVE  /\ Rest(text) \o chunk \in Streams
           /\ Len(text \o chunk) = d + Len(Rest(text) \o chunk)
           /\ Within(Rest(text) \o chunk, text \o chunk, d)
           /\ Within(text, text \o chunk, 0)
<1>0. PICK r : r = Rest(text)
      BY Zenon
<1>1. PICK l \in Nat, m \in Nat : l = Len(text) /\ m = Len(chunk)
      BY DEF Streams
<1>2. d <= l /\ IsPiece(r, text, d + 1, l)
  <2>1. d \in 0 .. l
        BY <1>1, WholeIs, Zenon
  <2> QED BY <2>1, <1>0, <1>1, WholeIs
<1>3. PICK k \in Nat : k = l - d
      BY <1>2
<1>4. r \in Streams /\ Len(r) = k /\ \A i \in 1 .. k : r[i] = text[d + i]
  <2>1. l + 1 - (d + 1) = k /\ \A i \in 1 .. k : (d + 1) + i - 1 = d + i
        BY <1>3
  <2> QED BY <2>1, <1>2, Zenon DEF IsPiece
<1>5. /\ r \o chunk \in Streams /\ Len(r \o chunk) = k + m
      /\ \A i \in 1 .. k : (r \o chunk)[i] = r[i]
      /\ \A i \in 1 .. m : (r \o chunk)[k + i] = chunk[i]
  <2>1. /\ r \o chunk \in Streams /\ Len(r \o chunk) = Len(r) + Len(chunk)
        /\ \A i \in 1 .. Len(r) : (r \o chunk)[i] = r[i]
        /\ \A i \in 1 .. Len(chunk) : (r \o chunk)[Len(r) + i] = chunk[i]
        BY <1>4, Joined, Zenon
  <2>2. Len(r) = k /\ Len(chunk) = m
        BY <1>1, <1>4
  <2> QED BY <2>1, <2>2
<1>6. /\ text \o chunk \in Streams /\ Len(text \o chunk) = l + m
      /\ \A i \in 1 .. l : (text \o chunk)[i] = text[i]
      /\ \A i \in 1 .. m : (text \o chunk)[l + i] = chunk[i]
      BY <1>1, Joined, Zenon
<1>7. ASSUME NEW i \in 1 .. k + m
      PROVE  d + i <= l + m /\ (text \o chunk)[d + i] = (r \o chunk)[i]
  <2>1. CASE i <= k
    <3>1. i \in 1 .. k /\ d + i \in 1 .. l /\ d + i <= l + m
          BY <2>1, <1>3
    <3> QED BY <3>1, <1>4, <1>5, <1>6, Zenon
  <2>2. CASE i > k
    <3>1. PICK j \in 1 .. m : i = k + j /\ d + i = l + j /\ d + i <= l + m
      <4>1. i - k \in 1 .. m /\ i = k + (i - k) /\ d + i = l + (i - k) /\ d + i <= l + m
            BY <2>2, <1>3
      <4> QED BY <4>1, Zenon
    <3>2. (text \o chunk)[l + j] = (r \o chunk)[k + j]
          BY <1>5, <1>6, Zenon
    <3> QED BY <3>1, <3>2, Zenon
  <2>3. i <= k \/ i > k
        OBVIOUS
  <2> QED BY <2>1, <2>2, <2>3, Zenon
<1>8. Within(r \o chunk, text \o chunk, d)
      BY <1>5, <1>6, <1>7, Zenon DEF Within
<1>9. Within(text, text \o chunk, 0)
  <2>1. \A i \in 1 .. l : 0 + i = i /\ i <= l + m
        OBVIOUS
  <2> QED BY <2>1, <1>1, <1>6, Zenon DEF Within
<1>10. l + m = d + (k + m)
      BY <1>3
<1> QED BY <1>0, <1>1, <1>5, <1>6, <1>8, <1>9, <1>10, Zenon

\* The place at the end of a text is one that a parser of the text and a chunk comes to, and from
\* it every place of a parser of the buffer and the chunk.
LEMMA Passes ==
    ASSUME NEW text \in Streams, NEW chunk \in Streams, NEW d \in Nat, d = Whole(text).consumed,
           NEW h, Follows(h, Rest(text) \o chunk, Whole(text).parsed),
           NEW g, Follows(g, text \o chunk, Nothing), NEW n \in Nat
    PROVE  /\ \E j \in Nat : g[j] = Whole(text)
           /\ \E j \in Nat : g[j] = Moved(h[n], d)
<1>1. PICK f : f = Rounds(text, Nothing) /\ Follows(f, text, Nothing)
      BY WholeIs, RoundsFollow, Zenon
<1>2. text \o chunk \in Streams /\ Len(text) \in Nat
      BY Joined, Zenon
<1>3. PICK w \in Places : w = Whole(text) /\ w = f[Len(text)]
      BY <1>1, WholeIs, Zenon DEF Whole
<1>4. Moved(w, 0) = w
      BY DEF Moved, Places
<1>5. Moved(f[0], 0) = g[0]
  <2>1. f[0] = [consumed |-> 0, parsed |-> Nothing] /\ g[0] = [consumed |-> 0, parsed |-> Nothing]
        BY <1>1, Zenon DEF Follows
  <2>2. Moved([consumed |-> 0, parsed |-> Nothing], 0) = [consumed |-> 0, parsed |-> Nothing]
        BY DEF Moved
  <2> QED BY <2>1, <2>2, Zenon
<1>6. PICK j \in Nat : g[j] = Moved(f[Len(text)], 0)
  <2>1. 0 \in Nat
        OBVIOUS
  <2>2. Within(text, text \o chunk, 0)
        BY BufferWithin, Zenon
  <2> QED BY <2>1, <2>2, <1>1, <1>2, <1>5, Along
<1>7. g[j] = w
      BY <1>3, <1>4, <1>6, Zenon
<1>8. w = Moved(h[0], d)
  <2>1. h[0] = [consumed |-> 0, parsed |-> w.parsed]
        BY <1>3, Zenon DEF Follows
  <2>2. Moved([consumed |-> 0, parsed |-> w.parsed], d) = w
        BY <1>3 DEF Moved, Places
  <2> QED BY <2>1, <2>2, Zenon
<1>9. Rest(text) \o chunk \in Streams /\ Within(Rest(text) \o chunk, text \o chunk, d)
      BY BufferWithin, Zenon
<1>10. \E i \in Nat : g[i] = Moved(h[n], d)
      BY <1>2, <1>7, <1>8, <1>9, Along
<1> QED BY <1>3, <1>7, <1>10, Zenon

\* Parsing the buffer and a chunk ends where parsing the whole text does.
Continued(text, chunk) ==
    Rounds(Rest(text) \o chunk, Whole(text).parsed)[Len(Rest(text) \o chunk)]

\* This is what lets the parser forget the lines it has consumed.
LEMMA ChunkParsed ==
    ASSUME NEW text \in Streams, NEW chunk \in Streams
    PROVE  /\ Whole(text \o chunk).parsed = Continued(text, chunk).parsed
           /\ Rest(text \o chunk) = SubSeq(Rest(text) \o chunk, Continued(text, chunk).consumed + 1,
                                            Len(Rest(text) \o chunk))
<1>0. PICK t, h : /\ t = Rest(text) \o chunk /\ h[Len(t)] = Continued(text, chunk)
                  /\ Follows(h, Rest(text) \o chunk, Whole(text).parsed)
  <2>1. Whole(text).parsed \in Results /\ Rest(text) \in Streams
        BY WholeIs, Zenon DEF IsPiece
  <2>2. Rest(text) \o chunk \in Streams
        BY <2>1, Joined, Zenon
  <2> QED BY <2>1, <2>2, RoundsFollow, Zenon DEF Continued
<1>1. PICK d \in Nat : d = Whole(text).consumed
  <2>1. Whole(text) \in Places
        BY WholeIs, Zenon
  <2> QED BY <2>1 DEF Places
<1>2. PICK y, g : /\ y \in Streams /\ y = text \o chunk
                  /\ Follows(g, y, Nothing) /\ Whole(y) = g[Len(y)]
  <2>1. text \o chunk \in Streams
        BY Joined, Zenon
  <2>2. Nothing \in Results
        BY WholeIs, Zenon
  <2> QED BY <2>1, <2>2, RoundsFollow, Zenon DEF Whole
<1>3. t \in Streams /\ Len(y) = d + Len(t) /\ Within(t, y, d)
      BY <1>0, <1>1, <1>2, BufferWithin, Zenon
<1>4. PICK k \in Nat, n \in Nat : /\ k = Len(t) /\ n = Len(y) /\ n = d + k
                                  /\ DOMAIN t = 1 .. k /\ DOMAIN y = 1 .. n
      BY <1>3 DEF Streams
<1>5. PICK j \in Nat : g[j] = Moved(h[k], d)
  <2>1. Follows(g, text \o chunk, Nothing)
        BY <1>2, Zenon
  <2> QED BY <2>1, <1>0, <1>1, <1>4, Passes
<1>6. h[k] \in Places /\ LineEnds(t, h[k].consumed) = {} /\ h[k].consumed \in 0 .. k
  <2>0. Follows(h, t, Whole(text).parsed)
        BY <1>0, Zenon
  <2>1. h[k] \in Places
        BY <2>0, <1>4, Zenon DEF Follows
  <2>2. LineEnds(t, h[Len(t)].consumed) = {}
        BY <2>0, <1>3, Ends, Zenon
  <2>3. h[k].consumed \in 0 .. Len(t)
        BY <2>0, <1>3, <1>4, Consumes, Zenon
  <2> QED BY <2>1, <2>2, <2>3, <1>4, Zenon
<1>7. PICK c \in Nat : /\ h[k] = [consumed |-> c, parsed |-> h[k].parsed] /\ c <= k
  <2>1. h[k] = [consumed |-> h[k].consumed, parsed |-> h[k].parsed] /\ h[k].consumed \in Nat
        BY <1>6 DEF Places
  <2>2. h[k].consumed <= k
        BY <1>6
  <2> QED BY <2>1, <2>2, Zenon
<1>p. PICK p : p = h[k].parsed
      BY Zenon
<1>8. h[k].consumed = c /\ h[k].parsed = p /\ g[j] = [consumed |-> c + d, parsed |-> p]
  <2>1. h[k].consumed = c
        BY <1>7
  <2> QED BY <2>1, <1>p, <1>5, Zenon DEF Moved
<1>9. LineEnds(y, c + d) = {}
  <2> SUFFICES ASSUME NEW i \in 1 .. n, i > c + d, y[i] = LF PROVE FALSE
      BY <1>4, Zenon DEF LineEnds
  <2>1. i - d \in 1 .. k /\ i - d > c /\ d + (i - d) = i
        BY <1>4
  <2>2. t[i - d] = y[d + (i - d)]
        BY <2>1, <1>3, <1>4, Zenon DEF Within
  <2>3. t[i - d] = LF
        BY <2>1, <2>2, Zenon
  <2>4. i - d \in LineEnds(t, c)
        BY <2>1, <2>3, <1>4, Zenon DEF LineEnds
  <2> QED BY <2>4, <1>6, <1>8, Zenon
<1>10. g[j].consumed = c + d /\ g[j].parsed = p
      BY <1>8
<1>11. Whole(y) = g[j]
  <2>1. LineEnds(y, g[j].consumed) = {}
        BY <1>9, <1>10, Zenon
  <2>2. g[j] = g[Len(y)]
        BY <2>1, <1>2, Ends, Zenon
  <2> QED BY <2>2, <1>2, Zenon
<1>12. Rest(y) = SubSeq(t, c + 1, k)
  <2>1. Rest(y) = SubSeq(y, c + d + 1, n)
        BY <1>4, <1>10, <1>11, Zenon DEF Rest
  <2>2. IsPiece(Rest(y), y, c + d + 1, n)
    <3>1. c + d + 1 \in Nat \ {0} /\ c + d + 1 <= n + 1 /\ n <= Len(y)
          BY <1>4, <1>7
    <3> QED BY <3>1, <2>1, <1>2, Piece, Zenon
  <2>3. IsPiece(SubSeq(t, c + 1, k), t, c + 1, k)
    <3>1. c + 1 \in Nat \ {0} /\ c + 1 <= k + 1 /\ k <= Len(t)
          BY <1>4, <1>7
    <3> QED BY <3>1, <1>3, Piece, Zenon
  <2> DEFINE u == Rest(y)
             v == SubSeq(t, c + 1, k)
  <2>4. PICK l \in Nat : l = k - c
        BY <1>7
  <2>5. u \in Streams /\ Len(u) = l /\ \A i \in 1 .. l : u[i] = y[d + (c + i)]
    <3>1. n + 1 - (c + d + 1) = l /\ \A i \in 1 .. l : (c + d + 1) + i - 1 = d + (c + i)
          BY <2>4, <1>4
    <3> QED BY <3>1, <2>2, Zenon DEF IsPiece
  <2>6. v \in Streams /\ Len(v) = l /\ \A i \in 1 .. l : v[i] = t[c + i]
    <3>1. k + 1 - (c + 1) = l /\ \A i \in 1 .. l : (c + 1) + i - 1 = c + i
          BY <2>4
    <3> QED BY <3>1, <2>3, Zenon DEF IsPiece
  <2>7. \A i \in 1 .. l : c + i \in 1 .. k
        BY <2>4
  <2>8. \A i \in 1 .. l : u[i] = v[i]
        BY <2>5, <2>6, <2>7, <1>3, <1>4, Zenon DEF Within
  <2> QED BY <2>5, <2>6, <2>8, SameText, Zenon
<1> QED BY <1>0, <1>2, <1>4, <1>8, <1>10, <1>11, <1>12, Zenon

\* The calls that a parser of the buffer and a chunk has made after n lines.
LEMMA CallsInOrder ==
    ASSUME NEW text \in Streams, NEW chunk \in Streams,
           NEW h, Follows(h, Rest(text) \o chunk, Whole(text).parsed), NEW n \in Nat
    PROVE  /\ Begins(Whole(text).parsed.calls, Whole(text \o chunk).parsed.calls)
           /\ Begins(h[n].parsed.calls, Whole(text \o chunk).parsed.calls)
<1>1. PICK d \in Nat : d = Whole(text).consumed
  <2>1. Whole(text) \in Places
        BY WholeIs, Zenon
  <2> QED BY <2>1 DEF Places
<1>2. PICK y, g : /\ y \in Streams /\ y = text \o chunk
                  /\ Follows(g, y, Nothing) /\ Whole(y) = g[Len(y)]
  <2>1. text \o chunk \in Streams
        BY Joined, Zenon
  <2>2. Nothing \in Results
        BY WholeIs, Zenon
  <2> QED BY <2>1, <2>2, RoundsFollow, Zenon DEF Whole
<1>3. PICK i \in Nat, j \in Nat : g[i] = Whole(text) /\ g[j] = Moved(h[n], d)
  <2>1. Follows(g, text \o chunk, Nothing)
        BY <1>2, Zenon
  <2>2. \E i \in Nat : g[i] = Whole(text)
        BY <2>1, <1>1, Passes, SMTT(30)
  <2>3. \E j \in Nat : g[j] = Moved(h[n], d)
        BY <2>1, <1>1, Passes, SMTT(30)
  <2> QED BY <2>2, <2>3, Zenon
<1>4. g[j].parsed = h[n].parsed
      BY <1>3 DEF Moved
<1>5. \A k \in Nat : Begins(g[k].parsed.calls, g[Len(y)].parsed.calls)
      BY <1>2, CallsBegin, Zenon
<1> QED BY <1>2, <1>3, <1>4, <1>5, Zenon

\* Nothing is made of nothing.
LEMMA EmptyText ==
    /\ <<>> \in Streams /\ Whole(<<>>).parsed = Nothing /\ Rest(<<>>) = <<>>
    /\ Nothing.eventName = NULL /\ Nothing.eventBody = NULL /\ Nothing.calls = <<>>
<1>1. <<>> \in Streams /\ Len(<<>>) = 0
      BY DEF Streams
<1>2. Nothing \in Results
      BY <1>1, WholeIs, Zenon
<1>3. Whole(<<>>) = [consumed |-> 0, parsed |-> Nothing]
      BY <1>1, <1>2, RoundsFollow, Zenon DEF Whole, Follows
<1>4. Whole(<<>>).consumed = 0 /\ Whole(<<>>).parsed = Nothing
      BY <1>3
<1>5. Rest(<<>>) = SubSeq(<<>>, 0 + 1, 0)
      BY <1>1, <1>4, Zenon DEF Rest
<1>6. SubSeq(<<>>, 0 + 1, 0) = <<>>
      OBVIOUS
<1>7. Nothing.eventName = NULL /\ Nothing.eventBody = NULL /\ Nothing.calls = <<>>
      BY DEF Nothing, NULL
<1> QED BY <1>1, <1>4, <1>5, <1>6, <1>7, Zenon

\* The inductive invariant: the parser is where the whole text would have brought it, and the
\* buffer begins where the last line that was consumed ends.
SSEInv ==
    /\ received \in Streams
    /\ ~ended => Progress = Whole(received).parsed /\ buffer = Rest(received)
    /\ ended => Begins(dispatched, Whole(received).parsed.calls)

\* What becomes of the parser is what was parsed.
LEMMA Became ==
    ASSUME NEW s \in Results, Becomes(s)
    PROVE  Progress' = s /\ dispatched' = s.calls
<1>1. s = [eventName |-> s.eventName, eventBody |-> s.eventBody, calls |-> s.calls]
      BY DEF Results
<1>2. Progress' = [eventName |-> s.eventName, eventBody |-> s.eventBody, calls |-> s.calls]
      BY Zenon DEF Becomes, Progress
<1> QED BY <1>1, <1>2, Zenon DEF Becomes

\* The loop over the buffer and a chunk begins where the whole text so far ended.
LEMMA Continues ==
    ASSUME SSEInv, ~ended, NEW chunk \in Chunks
    PROVE  /\ received \in Streams /\ chunk \in Streams /\ received \o chunk \in Streams
           /\ dispatched = Whole(received).parsed.calls
           /\ buffer \o chunk = Rest(received) \o chunk
           /\ Follows(Rounds(buffer \o chunk, Progress), Rest(received) \o chunk,
                      Whole(received).parsed)
<1>1. received \in Streams /\ chunk \in Streams
      BY ChunksAreTexts DEF SSEInv, Streams
<1>2. received \o chunk \in Streams
      BY <1>1, Joined, Zenon
<1>3. Progress = Whole(received).parsed /\ buffer = Rest(received)
      BY Zenon DEF SSEInv
<1>4. dispatched = Progress.calls
      BY DEF Progress
<1>5. Whole(received).parsed \in Results /\ Rest(received) \in Streams
      BY <1>1, WholeIs, Zenon DEF IsPiece
<1>6. Rest(received) \o chunk \in Streams
      BY <1>1, <1>5, Joined, Zenon
<1> QED BY <1>1, <1>2, <1>3, <1>4, <1>5, <1>6, RoundsFollow, Zenon

\* Every step of the parser keeps it.
LEMMA SSEStep ==
    ASSUME SSEInv, [SSENext]_sseVars
    PROVE  SSEInv'
<1>1. ASSUME NEW chunk \in Chunks, StreamWriteCallback(chunk)
      PROVE  SSEInv'
  <2>1. ~ended /\ ~ended' /\ received' = received \o chunk
        BY <1>1, Zenon DEF StreamWriteCallback, Receives
  <2>2. PICK t, q : /\ t = Rest(received) \o chunk /\ t = buffer \o chunk
                    /\ q = Continued(received, chunk) /\ q = Rounds(t, Progress)[Len(t)]
        BY <2>1, Zenon DEF SSEInv, Continued
  <2>3. received \in Streams /\ chunk \in Streams /\ received' \in Streams
        BY <2>1, Continues, Zenon
  <2>4. Becomes(q.parsed) /\ buffer' = SubSeq(t, q.consumed + 1, Len(t))
        BY <1>1, <2>2, Zenon DEF StreamWriteCallback, LDSSEParserProcess
  <2>5. Whole(received').parsed = q.parsed /\ Rest(received') = SubSeq(t, q.consumed + 1, Len(t))
    <3>1. /\ Whole(received \o chunk).parsed = Continued(received, chunk).parsed
          /\ Rest(received \o chunk) = SubSeq(Rest(received) \o chunk,
                                               Continued(received, chunk).consumed + 1,
                                               Len(Rest(received) \o chunk))
          BY <2>3, ChunkParsed, Zenon
    <3> QED BY <3>1, <2>1, <2>2, Zenon
  <2>6. Whole(received').parsed \in Results
        BY <2>3, WholeIs, Zenon
  <2>7. Progress' = Whole(received').parsed
        BY <2>4, <2>5, <2>6, Became
  <2> QED BY <2>1, <2>3, <2>4, <2>5, <2>7, Zenon DEF SSEInv
<1>2. ASSUME NEW chunk \in Chunks, ChunkFails(chunk)
      PROVE  SSEInv'
  <2>1. ~ended /\ ended' /\ received' = received \o chunk /\ dispatched' = dispatched
        BY <1>2, Zenon DEF ChunkFails, Receives, parserVars
  <2>2. PICK h : Follows(h, Rest(received) \o chunk, Whole(received).parsed)
        BY <2>1, Continues, Zenon
  <2>3. /\ received \in Streams /\ chunk \in Streams /\ received' \in Streams
        /\ dispatched = Whole(received).parsed.calls
        BY <2>1, Continues, Zenon
  <2>4. Begins(Whole(received).parsed.calls, Whole(received \o chunk).parsed.calls)
    <3>1. 0 \in Nat
          OBVIOUS
    <3> QED BY <3>1, <2>2, <2>3, CallsInOrder
  <2> QED BY <2>1, <2>3, <2>4, Zenon DEF SSEInv
<1>3. ASSUME NEW chunk \in Chunks, NEW n \in 0 .. Len(buffer \o chunk), LineFails(chunk, n)
      PROVE  SSEInv'
  <2>1. ~ended /\ ended' /\ received' = received \o chunk
        BY <1>3, Zenon DEF LineFails, Receives
  <2>2. PICK h : /\ h = Rounds(buffer \o chunk, Progress)
                 /\ Follows(h, Rest(received) \o chunk, Whole(received).parsed)
        BY <2>1, Continues, Zenon
  <2>3. received \in Streams /\ chunk \in Streams /\ received' \in Streams
        BY <2>1, Continues, Zenon
  <2>4. n \in Nat
        OBVIOUS
  <2>5. PICK line : Becomes(OutOfMemory(line, h[n].parsed))
        BY <1>3, <2>2, Zenon DEF LineFails
  <2>6. h[n].parsed \in Results
    <3>1. h[n] \in Places
          BY <2>2, <2>4, Zenon DEF Follows
    <3> QED BY <3>1 DEF Places
  <2>7. dispatched' = h[n].parsed.calls
    <3>1. dispatched' = OutOfMemory(line, h[n].parsed).calls
          BY <2>5, Zenon DEF Becomes
    <3>2. CASE IsField(line, "event")
      <4>1. OutOfMemory(line, h[n].parsed) = [h[n].parsed EXCEPT !.eventName = NULL]
            BY <3>2, Zenon DEF OutOfMemory
      <4>2. [h[n].parsed EXCEPT !.eventName = NULL].calls = h[n].parsed.calls
            BY <2>6 DEF Results
      <4> QED BY <4>1, <4>2, <3>1, Zenon
    <3>3. CASE ~IsField(line, "event")
          BY <3>3, <3>1, Zenon DEF OutOfMemory
    <3> QED BY <3>2, <3>3, Zenon
  <2>8. Begins(h[n].parsed.calls, Whole(received \o chunk).parsed.calls)
        BY <2>2, <2>3, <2>4, CallsInOrder
  <2> QED BY <2>1, <2>3, <2>7, <2>8, Zenon DEF SSEInv
<1>4. ASSUME Reconnect PROVE SSEInv'
  <2>1. ~ended' /\ received' = <<>> /\ buffer' = <<>> /\ Becomes(Nothing)
        BY <1>4, Zenon DEF Reconnect
  <2>2. Nothing \in Results
        BY EmptyText, WholeIs, Zenon
  <2>3. Progress' = Nothing
        BY <2>1, <2>2, Became
  <2> QED BY <2>1, <2>3, EmptyText, Zenon DEF SSEInv
<1>5. ASSUME UNCHANGED sseVars PROVE SSEInv'
  <2>1. /\ received' = received /\ ended' = ended /\ buffer' = buffer /\ dispatched' = dispatched
        /\ eventName' = eventName /\ eventBody' = eventBody
        BY <1>5, Zenon DEF sseVars, parserVars
  <2>2. Progress' = Progress
        BY <2>1, Zenon DEF Progress
  <2> QED BY <2>1, <2>2, Zenon DEF SSEInv
<1> QED BY <1>1, <1>2, <1>3, <1>4, <1>5, Zenon DEF SSENext

\* Chunk independence of LDSSEParserProcess, for every alphabet, every set of chunks and any number
\* of them.
THEOREM ChunksDoNotMatterAlways == SSESpec => []ChunksDoNotMatter
<1>1. SSEInit => SSEInv
  <2> SUFFICES ASSUME SSEInit PROVE SSEInv
      OBVIOUS
  <2>1. ~ended /\ received = <<>> /\ buffer = <<>>
        BY Zenon DEF SSEInit, LDSSEParserInitialize
  <2>2. Progress = Nothing
        BY Zenon DEF SSEInit, LDSSEParserInitialize, Progress, Nothing
  <2> QED BY <2>1, <2>2, EmptyText, Zenon DEF SSEInv
<1>2. SSEInv /\ [SSENext]_sseVars => SSEInv'
      BY SSEStep
<1>3. SSEInv => ChunksDoNotMatter
  <2> SUFFICES ASSUME SSEInv PROVE ChunksDoNotMatter
      OBVIOUS
  <2>1. IsLastLine(Rest(received), received)
        BY WholeIs, Zenon DEF SSEInv
  <2> QED BY <2>1, Zenon DEF SSEInv, ChunksDoNotMatter
<1> QED BY <1>1, <1>2, <1>3, PTL DEF SSESpec
=============================================================================
