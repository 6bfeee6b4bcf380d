------------------------------ MODULE RateLimit ------------------------------
(***************************************************************************)
(* The in-memory fixed-window limiter of the public endpoints.  A key is   *)
(* `endpoint:clientIp`, all clients without a trustworthy address sharing  *)
(* one.  The map lives as long as the process, and Init is its start.      *)
(***************************************************************************)
EXTENDS Integers, FiniteSetsExt

CONSTANTS
  Keys,     \* bucket keys
  MaxHits,      \* PUBLIC_RATE_LIMIT_MAX: parsed as a positive integer
  Window,   \* windowMs, in ticks
  Horizon   \* bound of the exploration: the clock stops here

ASSUME LimitAssumption == MaxHits \in Nat \ {0} /\ Window \in Nat \ {0}
ASSUME HorizonAssumption == Horizon \in Nat

VARIABLES
  now,          \* the clock
  bucket,       \* the map: a count of 0 stands for no entry
  nextSweepAt,  \* when the map is swept next
  admitted      \* history: requests let through, by key and time

vars == <<now, bucket, nextSweepAt, admitted>>

Bucket == [count: 0..MaxHits, resetAt: Nat]
NoBucket == [count |-> 0, resetAt |-> 0]

TypeOK ==
  /\ now \in 0..Horizon
  /\ bucket \in [Keys -> Bucket]
  /\ nextSweepAt \in Nat
  /\ admitted \in [Keys -> [0..Horizon -> Nat]]

Init ==
  /\ now = 0
  /\ bucket = [k \in Keys |-> NoBucket]
  /\ nextSweepAt = 0
  /\ admitted = [k \in Keys |-> [t \in 0..Horizon |-> 0]]

-----------------------------------------------------------------------------

Due == now >= nextSweepAt

\* The map after maybeSweep: once per window, the expired entries go.
Swept == [k \in Keys |-> IF Due /\ now >= bucket[k].resetAt
                         THEN NoBucket ELSE bucket[k]]

Fresh(k) == Swept[k].count = 0 \/ now >= Swept[k].resetAt

Allowed(k) == Fresh(k) \/ Swept[k].count < MaxHits

\* Mutant: every request let through pushes the window's end out.
Hit_Extends(k) == [count |-> IF Fresh(k) THEN 1 ELSE Swept[k].count + 1,
                   resetAt |-> now + Window]

\* The entry of a request that is let through: a new window, or one hit more.
Hit(k) == IF Fresh(k) THEN [count |-> 1, resetAt |-> now + Window]
          ELSE [Swept[k] EXCEPT !.count = @ + 1]

Check(k) ==
  /\ nextSweepAt' = IF Due THEN now + Window ELSE nextSweepAt
  /\ IF Allowed(k)
     THEN /\ bucket' = [Swept EXCEPT ![k] = Hit(k)]
          /\ admitted' = [admitted EXCEPT ![k][now] = @ + 1]
     ELSE /\ bucket' = Swept
          /\ UNCHANGED admitted
  /\ UNCHANGED now

Tick ==
  /\ now < Horizon
  /\ now' = now + 1
  /\ UNCHANGED <<bucket, nextSweepAt, admitted>>

Next == (\E k \in Keys : Check(k)) \/ Tick

Spec == Init /\ [][Next]_vars

-----------------------------------------------------------------------------

\* Requests of k let through in the ticks of `times`.
Admissions(k, times) == MapThenSumSet(LAMBDA t : admitted[k][t], times)

\* The limit as a client meets it: windows open at a client's own requests, so
\* over any stretch of one window's length that begins with one fewer than twice
\* MaxHits get through (RateLimiter.check).
FewerThanTwiceMax ==
  \A k \in Keys, a \in 0..Horizon :
    admitted[k][a] > 0 =>
      Admissions(k, {t \in a..Horizon : t < a + Window}) < 2 * MaxHits

\* A live entry has counted every request let through since its window opened,
\* whatever sweeps the requests of other keys caused.
LiveCountIsExact ==
  \A k \in Keys :
    now < bucket[k].resetAt =>
      bucket[k].count = Admissions(k, {t \in 0..now : t >= bucket[k].resetAt - Window})

\* A live window is neither dropped by a sweep nor pushed out by the requests it
\* blocks ("blocked requests can't push the reset out").
LiveWindowsStand ==
  [][\A k \in Keys :
       now < bucket[k].resetAt =>
         /\ bucket'[k].resetAt = bucket[k].resetAt
         /\ bucket'[k].count >= bucket[k].count]_vars

\* The map does not keep the keys of the past: an entry outlives its window by
\* less than a window of checks (maybeSweep).
ExpiredAreSwept ==
  \A k \in Keys : bucket[k].count > 0 => nextSweepAt < bucket[k].resetAt + Window

\* The limiter keeps its limit with a bounded memory: windows stand, counts are
\* exact, less than twice the maximum passes in a window, expired keys go.
LimitHolds ==
  /\ [](TypeOK /\ FewerThanTwiceMax /\ LiveCountIsExact /\ ExpiredAreSwept)
  /\ LiveWindowsStand
=============================================================================
