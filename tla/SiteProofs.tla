----------------------------- MODULE SiteProofs -----------------------------
(***************************************************************************)
(* Proofs about the public site, for any sets, limits and windows: each    *)
(* section proves the properties of one module from its specification.     *)
(***************************************************************************)
EXTENDS SerialIds, Display, GuideBars, IpGate, ShortLinks, Ratings, ViewDedup,
        Traffic, RateLimit, PostFiles, SequenceTheorems, SumTheorems

-----------------------------------------------------------------------------
(* The limiter of the public endpoints (RateLimit)                         *)

\* The sweep of the limiter leaves buckets behind (rateLimit.ts).
LEMMA SweptType ==
  ASSUME TypeOK
  PROVE  Swept \in [Keys -> Bucket]
<1>1. NoBucket \in Bucket
  BY LimitAssumption DEF NoBucket, Bucket
<1> QED BY <1>1 DEF TypeOK, Swept

\* The entry of a request let through stays within the limit.
LEMMA HitType ==
  ASSUME TypeOK, NEW k \in Keys, Allowed(k)
  PROVE  Hit(k) \in Bucket
<1> DEFINE b == Swept[k]
<1>1. b \in Bucket
  BY SweptType
<1>2. CASE Fresh(k)
  BY <1>2, LimitAssumption, HorizonAssumption DEF Hit, Bucket, TypeOK
<1>3. CASE ~Fresh(k)
  <2>1. b.count + 1 \in 0..MaxHits
    BY <1>1, <1>3, LimitAssumption DEF Allowed, Bucket
  <2>2. [b EXCEPT !.count = @ + 1] \in Bucket
    BY <1>1, <2>1 DEF Bucket
  <2> QED BY <1>3, <2>2 DEF Hit
<1> QED BY <1>2, <1>3

\* The counter of an entry never exceeds the limit, and every part of the state
\* keeps its type.
THEOREM TypeCorrect == Spec => []TypeOK
<1> USE LimitAssumption, HorizonAssumption
<1>1. Init => TypeOK
  BY DEF Init, TypeOK, NoBucket, Bucket
<1>2. TypeOK /\ [Next]_vars => TypeOK'
  <2> SUFFICES ASSUME TypeOK, [Next]_vars PROVE TypeOK'
    OBVIOUS
  <2>1. ASSUME NEW k \in Keys, Check(k) PROVE TypeOK'
    <3>1. nextSweepAt' \in Nat
      BY <2>1 DEF Check, TypeOK
    <3>2. bucket' \in [Keys -> Bucket]
      BY <2>1, SweptType, HitType DEF Check
    <3>3. admitted' \in [Keys -> [0..Horizon -> Nat]]
      <4>1. [admitted[k] EXCEPT ![now] = @ + 1] \in [0..Horizon -> Nat]
        BY DEF TypeOK
      <4> QED BY <2>1, <4>1 DEF Check, TypeOK
    <3> QED BY <2>1, <3>1, <3>2, <3>3 DEF Check, TypeOK
  <2>2. CASE Tick
    BY <2>2 DEF Tick, TypeOK
  <2>3. CASE UNCHANGED vars
    BY <2>3 DEF vars, TypeOK
  <2> QED BY <2>1, <2>2, <2>3 DEF Next
<1> QED BY <1>1, <1>2, PTL DEF Spec

-----------------------------------------------------------------------------

\* The strengthening that makes ExpiredAreSwept inductive: the next sweep is
\* never more than a window away.
SweepInv == nextSweepAt <= now + Window /\ ExpiredAreSwept

\* An entry outlives its window by less than a window of checks.
THEOREM ExpiredAreSweptHolds == Spec => []ExpiredAreSwept
<1> USE LimitAssumption, HorizonAssumption
<1>1. Init => SweepInv
  BY DEF Init, SweepInv, ExpiredAreSwept, NoBucket
<1>2. TypeOK /\ SweepInv /\ [Next]_vars => SweepInv'
  <2> SUFFICES ASSUME TypeOK, SweepInv, [Next]_vars PROVE SweepInv'
    OBVIOUS
  <2>1. ASSUME NEW k \in Keys, Check(k) PROVE SweepInv'
    <3>1. nextSweepAt' <= now' + Window
      BY <2>1 DEF Check, TypeOK, SweepInv
    <3>2. ASSUME NEW j \in Keys, Swept[j].count > 0
          PROVE  nextSweepAt' < Swept[j].resetAt + Window
      BY <2>1, <3>2 DEF Check, Swept, Due, NoBucket, SweepInv, ExpiredAreSwept,
                        TypeOK, Bucket
    <3>3. ASSUME Allowed(k) PROVE nextSweepAt' < Hit(k).resetAt + Window
      <4>1. CASE Fresh(k)
        BY <2>1, <3>1, <4>1 DEF Hit, Check, TypeOK
      <4>2. CASE ~Fresh(k)
        <5>1. Swept[k] \in Bucket
          BY SweptType
        <5>2. Hit(k).resetAt = Swept[k].resetAt /\ Swept[k].count > 0
          BY <4>2, <5>1 DEF Hit, Fresh, Bucket
        <5> QED BY <3>2, <5>2
      <4> QED BY <4>1, <4>2
    <3>4. ExpiredAreSwept'
      <4> SUFFICES ASSUME NEW j \in Keys, bucket'[j].count > 0
                   PROVE  nextSweepAt' < bucket'[j].resetAt + Window
        BY DEF ExpiredAreSwept
      <4>1. bucket'[j] = Swept[j] \/ (Allowed(k) /\ bucket'[j] = Hit(k))
        BY <2>1, SweptType DEF Check
      <4> QED BY <3>2, <3>3, <4>1
    <3> QED BY <3>1, <3>4 DEF SweepInv
  <2>2. CASE Tick
    BY <2>2 DEF Tick, SweepInv, ExpiredAreSwept, TypeOK
  <2>3. CASE UNCHANGED vars
    BY <2>3 DEF vars, SweepInv, ExpiredAreSwept
  <2> QED BY <2>1, <2>2, <2>3 DEF Next
<1>3. SweepInv => ExpiredAreSwept
  BY DEF SweepInv
<1> QED BY <1>1, <1>2, <1>3, TypeCorrect, PTL DEF Spec

\* An entry that is not there has no window: without this a live window could
\* be taken for a missing entry.
EmptyInv == \A k \in Keys : bucket[k].count = 0 => bucket[k].resetAt = 0

\* A bucket that counts nothing holds no window (rateLimit.ts).
LEMMA EmptyInvHolds == Spec => []EmptyInv
<1> USE LimitAssumption, HorizonAssumption
<1>1. Init => EmptyInv
  BY DEF Init, EmptyInv, NoBucket
<1>2. TypeOK /\ EmptyInv /\ [Next]_vars => EmptyInv'
  <2> SUFFICES ASSUME TypeOK, EmptyInv, [Next]_vars,
                      NEW j \in Keys, bucket'[j].count = 0
               PROVE  bucket'[j].resetAt = 0
    BY DEF EmptyInv
  <2>1. ASSUME NEW k \in Keys, Check(k) PROVE bucket'[j].resetAt = 0
    <3>1. Swept[j].count = 0 => Swept[j].resetAt = 0
      BY DEF Swept, NoBucket, EmptyInv
    <3>2. ASSUME Allowed(k) PROVE Hit(k).count > 0
      <4>1. Swept[k] \in Bucket
        BY SweptType
      <4> QED BY <4>1 DEF Hit, Bucket
    <3>3. bucket'[j] = Swept[j] \/ (Allowed(k) /\ bucket'[j] = Hit(k))
      BY <2>1, SweptType DEF Check
    <3> QED BY <3>1, <3>2, <3>3
  <2>2. CASE Tick
    BY <2>2 DEF Tick, EmptyInv
  <2>3. CASE UNCHANGED vars
    BY <2>3 DEF vars, EmptyInv
  <2> QED BY <2>1, <2>2, <2>3 DEF Next
<1> QED BY <1>1, <1>2, TypeCorrect, PTL DEF Spec

\* A live window is neither dropped nor pushed out by any request.
THEOREM LiveWindowsStandHolds == Spec => LiveWindowsStand
<1> DEFINE Stands(k) ==
      now < bucket[k].resetAt =>
        /\ bucket'[k].resetAt = bucket[k].resetAt
        /\ bucket'[k].count >= bucket[k].count
<1>1. TypeOK /\ EmptyInv /\ [Next]_vars => [\A k \in Keys : Stands(k)]_vars
  <2> SUFFICES ASSUME TypeOK, EmptyInv, Next, NEW j \in Keys,
                      now < bucket[j].resetAt
               PROVE  /\ bucket'[j].resetAt = bucket[j].resetAt
                      /\ bucket'[j].count >= bucket[j].count
    OBVIOUS
  <2>1. bucket[j] \in Bucket /\ bucket[j].count \in Nat
    BY DEF TypeOK, Bucket
  <2>2. ASSUME NEW k \in Keys, Check(k)
        PROVE  /\ bucket'[j].resetAt = bucket[j].resetAt
               /\ bucket'[j].count >= bucket[j].count
    <3>1. Swept[j] = bucket[j]
      BY DEF Swept, TypeOK, Bucket
    <3>2. CASE j = k /\ Allowed(k)
      <4>1. bucket'[j] = Hit(j)
        BY <2>2, <3>2, SweptType DEF Check
      <4>2. CASE Fresh(j)
        BY <3>1, <4>2 DEF Fresh, EmptyInv, TypeOK, Bucket
      <4>3. CASE ~Fresh(j)
        BY <2>1, <3>1, <4>1, <4>3 DEF Hit, Bucket
      <4> QED BY <4>2, <4>3
    <3>3. CASE ~(j = k /\ Allowed(k))
      <4>1. bucket'[j] = Swept[j]
        BY <2>2, <3>3, SweptType DEF Check
      <4> QED BY <2>1, <3>1, <4>1
    <3> QED BY <3>2, <3>3
  <2>3. CASE Tick
    BY <2>1, <2>3 DEF Tick
  <2> QED BY <2>2, <2>3 DEF Next
<1> QED BY <1>1, TypeCorrect, EmptyInvHolds, PTL DEF Spec, LiveWindowsStand

-----------------------------------------------------------------------------
(* The limit of a window (RateLimit)                                       *)

\* The ticks from a to b.
Within(a, b) == {t \in 0..Horizon : a <= t /\ t <= b}

\* What a history lets through from time a to time b.
Passed(h, a, b) == SumOf(h, Within(a, b))

\* A stretch of ticks is a finite set.
LEMMA WithinFinite ==
  ASSUME NEW a \in Int, NEW b \in Int
  PROVE  IsFiniteSet(Within(a, b))
<1>1. Within(a, b) \in SUBSET (0..Horizon)
  BY DEF Within
<1>2. IsFiniteSet(0..Horizon)
  BY HorizonAssumption, FS_Interval
<1> QED
  BY <1>1, <1>2, FS_Subset

\* A stretch is cut at m; a shorter one lets no more through; one of a single tick
\* lets through what that tick does.
Laws(h) ==
  /\ \A a, b \in Int : Passed(h, a, b) \in Nat
  /\ \A a, b, m \in Int : a <= m /\ m <= b + 1 => Passed(h, a, b) = Passed(h, a, m - 1) + Passed(h, m, b)
  /\ \A a, b, c, d \in Int : a <= c /\ d <= b => Passed(h, c, d) <= Passed(h, a, b)
  /\ \A a, b \in Int : (\A t \in 0..Horizon : a <= t /\ t <= b => h[t] = 0) => Passed(h, a, b) = 0
  /\ \A t \in 0..Horizon : Passed(h, t, t) = h[t]

\* Every history obeys them.
LEMMA PassedLaws ==
  ASSUME NEW h \in [0..Horizon -> Nat]
  PROVE  Laws(h)
<1>0. \A c, d \in Int : IsFiniteSet(Within(c, d)) /\ \A t \in Within(c, d) : h[t] \in Nat
  BY WithinFinite DEF Within
<1>1. ASSUME NEW a \in Int, NEW b \in Int PROVE Passed(h, a, b) \in Nat
  <2> DEFINE S == Within(a, b)
  <2>1. IsFiniteSet(S) /\ \A t \in S : h[t] \in Nat
    BY <1>0
  <2> HIDE DEF S
  <2> QED
    BY <2>1, SumAdds DEF Passed, S
<1>2. ASSUME NEW a \in Int, NEW b \in Int, NEW m \in Int, a <= m, m <= b + 1
      PROVE  Passed(h, a, b) = Passed(h, a, m - 1) + Passed(h, m, b)
  <2> DEFINE before == Within(a, m - 1)
             after == Within(m, b)
  <2>1. before \cap after = {} /\ Within(a, b) = before \cup after
    BY <1>2, HorizonAssumption DEF Within
  <2>2. IsFiniteSet(before) /\ IsFiniteSet(after) /\ \A t \in before \cup after : h[t] \in Nat
    BY <1>0
  <2> HIDE DEF before, after
  <2>3. SumOf(h, before \cup after) = SumOf(h, before) + SumOf(h, after)
    BY <2>1, <2>2, SumOfUnion
  <2> QED
    BY <2>1, <2>3 DEF Passed, before, after
<1>3. ASSUME NEW a \in Int, NEW b \in Int, NEW c \in Int, NEW d \in Int, a <= c, d <= b
      PROVE  Passed(h, c, d) <= Passed(h, a, b)
  <2>1. Within(c, d) \in SUBSET Within(a, b)
    BY <1>3, HorizonAssumption DEF Within
  <2> QED
    BY <1>0, <2>1, SumOfPart DEF Passed
<1>4. ASSUME NEW a \in Int, NEW b \in Int, \A t \in 0..Horizon : a <= t /\ t <= b => h[t] = 0
      PROVE  Passed(h, a, b) = 0
  <2>1. \A t \in Within(a, b) : h[t] = 0
    BY <1>4 DEF Within
  <2> QED
    BY <1>0, <2>1, SumOfZeros DEF Passed
<1>5. ASSUME NEW t \in 0..Horizon PROVE Passed(h, t, t) = h[t]
  <2>1. Within(t, t) = {t}
    BY HorizonAssumption DEF Within
  <2>2. IsFiniteSet({t}) /\ h[t] \in Nat /\ {t} \ {t} = {}
    BY FS_Singleton
  <2>3. \A x \in {t} : h[x] \in Nat /\ SumOf(h, {t}) = h[x] + SumOf(h, {t} \ {x})
    BY <2>2, SumAdds
  <2>4. SumOf(h, {}) = 0
    BY <2>2, SumAdds
  <2>5. SumOf(h, {t}) = h[t] + SumOf(h, {t} \ {t})
    BY <2>3
  <2>6. SumOf(h, {t}) = h[t] + SumOf(h, {})
    BY <2>2, <2>5, Zenon
  <2>7. SumOf(h, {t}) = h[t]
    BY <2>2, <2>4, <2>6
  <2> QED
    BY <2>1, <2>7, Zenon DEF Passed
<1> QED
  BY <1>1, <1>2, <1>3, <1>4, <1>5 DEF Laws

\* Nothing passes after time n.
LEMMA PassedBy ==
  ASSUME NEW h \in [0..Horizon -> Nat], NEW n \in 0..Horizon, \A t \in 0..Horizon : t > n => h[t] = 0,
         NEW a \in Int, NEW b \in Int, a <= n + 1, n <= b
  PROVE  Passed(h, a, b) = Passed(h, a, n)
<1>0. Laws(h)
  BY PassedLaws
<1>1. n + 1 \in Int /\ a <= n + 1 /\ n + 1 <= b + 1 /\ (n + 1) - 1 = n /\ n \in Int
  BY HorizonAssumption
<1>2. Passed(h, a, b) = Passed(h, a, n) + Passed(h, n + 1, b)
  BY <1>0, <1>1 DEF Laws
<1>3. \A t \in 0..Horizon : n + 1 <= t /\ t <= b => h[t] = 0
  BY HorizonAssumption
<1>4. Passed(h, n + 1, b) = 0
  BY <1>0, <1>1, <1>3 DEF Laws
<1>5. Passed(h, a, n) \in Nat
  BY <1>0, <1>1 DEF Laws
<1> QED
  BY <1>2, <1>4, <1>5

\* One more request at time t.
LEMMA PassedMore ==
  ASSUME NEW h \in [0..Horizon -> Nat], NEW t \in 0..Horizon, NEW g \in [0..Horizon -> Nat],
         \A x \in 0..Horizon : g[x] = IF x = t THEN h[x] + 1 ELSE h[x]
  PROVE  \A a, b \in Int : Passed(g, a, b) = IF a <= t /\ t <= b THEN Passed(h, a, b) + 1 ELSE Passed(h, a, b)
<1> SUFFICES ASSUME NEW a \in Int, NEW b \in Int
             PROVE  Passed(g, a, b) = IF a <= t /\ t <= b THEN Passed(h, a, b) + 1 ELSE Passed(h, a, b)
  OBVIOUS
<1> DEFINE S == Within(a, b)
<1>1. IsFiniteSet(S)
  BY WithinFinite
<1>2. \A x \in S : h[x] \in Nat /\ g[x] = IF x = t THEN h[x] + 1 ELSE h[x]
  BY DEF Within
<1>3. t \in S <=> a <= t /\ t <= b
  BY DEF Within
<1> HIDE DEF S
<1>4. CASE t \in S
  BY <1>1, <1>2, <1>3, <1>4, SumOfUpdate DEF Passed, S
<1>5. CASE t \notin S
  <2>1. \A x \in S : h[x] \in Nat /\ h[x] = g[x]
    BY <1>2, <1>5
  <2> QED
    BY <1>1, <1>3, <1>5, <2>1, SumSame DEF Passed, S
<1> QED
  BY <1>4, <1>5

-----------------------------------------------------------------------------

\* The window of a key is open, since its first request.
Live(k) == now < bucket[k].resetAt
Opened(k) == bucket[k].resetAt - Window

\* Nothing passes in the future.
NoneAhead(k) == \A t \in 0..Horizon : t > now => admitted[k][t] = 0

\* An open window has counted what passed since its first request; before that
\* request less than the maximum had passed in any window's length.
OpenWindow(k) ==
  /\ Opened(k) \in 0..now /\ admitted[k][Opened(k)] > 0
  /\ bucket[k].count = Passed(admitted[k], Opened(k), now)
  /\ \A a \in 0..Horizon : a < Opened(k) /\ a + Window > Opened(k) =>
       Passed(admitted[k], a, Opened(k) - 1) < MaxHits

\* While no window is open, less than the maximum has passed in the last one.
NoWindow(k) ==
  /\ admitted[k][now] = 0
  /\ \A a \in 0..Horizon : a + Window > now => Passed(admitted[k], a, now) < MaxHits

NeverTwice(k) == \A a \in 0..Horizon : Passed(admitted[k], a, a + Window - 1) < 2 * MaxHits

WindowInv(k) ==
  /\ NoneAhead(k) /\ NeverTwice(k)
  /\ IF Live(k) THEN OpenWindow(k) ELSE NoWindow(k)

\* A sweep takes nothing from an open window and leaves nothing live behind.
LEMMA SweepKeepsLive ==
  ASSUME TypeOK, EmptyInv, NEW k \in Keys
  PROVE  /\ Fresh(k) <=> ~Live(k)
         /\ Live(k) => Swept[k] = bucket[k]
         /\ ~Live(k) => now >= Swept[k].resetAt
         /\ bucket[k] \in Bucket /\ Swept[k] \in Bucket
<1> USE LimitAssumption, HorizonAssumption
<1>1. bucket[k] \in Bucket /\ now \in Nat
  BY DEF TypeOK
<1>2. CASE Due /\ now >= bucket[k].resetAt
  BY <1>1, <1>2 DEF Swept, NoBucket, Bucket, Fresh, Live
<1>3. CASE ~(Due /\ now >= bucket[k].resetAt)
  <2>1. Swept[k] = bucket[k]
    BY <1>3 DEF Swept
  <2> QED
    BY <1>1, <2>1 DEF EmptyInv, Fresh, Live, Bucket
<1> QED
  BY <1>2, <1>3

\* A key whose history stays and whose open window stays.
LEMMA KeyRests ==
  ASSUME TypeOK, NEW k \in Keys, WindowInv(k), now' = now, admitted'[k] = admitted[k],
         IF Live(k) THEN bucket'[k] = bucket[k] ELSE now >= bucket'[k].resetAt, bucket'[k] \in Bucket
  PROVE  WindowInv(k)'
<1>1. CASE Live(k)
  BY <1>1 DEF WindowInv, NoneAhead, NeverTwice, OpenWindow, NoWindow, Live, Opened
<1>2. CASE ~Live(k)
  <2>1. ~Live(k)'
    BY <1>2, HorizonAssumption DEF Live, TypeOK, Bucket
  <2> QED
    BY <1>2, <2>1 DEF WindowInv, NoneAhead, NeverTwice, NoWindow
<1> QED
  BY <1>1, <1>2

\* A request that opens a window.
LEMMA KeyOpens ==
  ASSUME TypeOK, TypeOK', NEW k \in Keys, WindowInv(k), ~Live(k), now' = now,
         bucket'[k] = [count |-> 1, resetAt |-> now + Window],
         admitted'[k] = [admitted[k] EXCEPT ![now] = @ + 1]
  PROVE  WindowInv(k)'
<1> USE LimitAssumption, HorizonAssumption
<1> DEFINE h == admitted[k]
           g == admitted'[k]
<1>1. h \in [0..Horizon -> Nat] /\ g \in [0..Horizon -> Nat] /\ now \in 0..Horizon
  BY DEF TypeOK
<1>2. \A a, b \in Int : Passed(g, a, b) = IF a <= now /\ now <= b THEN Passed(h, a, b) + 1 ELSE Passed(h, a, b)
  <2>1. \A x \in 0..Horizon : g[x] = IF x = now THEN h[x] + 1 ELSE h[x]
    BY <1>1
  <2> HIDE DEF g, h
  <2> QED
    BY <1>1, <2>1, PassedMore
<1>3. NoneAhead(k) /\ NoWindow(k) /\ NeverTwice(k)
  BY DEF WindowInv
<1>4. Live(k)' /\ Opened(k)' = now
  BY <1>1 DEF Live, Opened
<1>5. g[now] = h[now] + 1 /\ h[now] = 0 /\ \A t \in 0..Horizon : t > now => g[t] = h[t]
  BY <1>1, <1>3 DEF NoWindow
<1>6. NoneAhead(k)'
  BY <1>1, <1>3, <1>5 DEF NoneAhead
<1> HIDE DEF h, g
<1>7. Laws(h) /\ Laws(g) /\ now \in Int /\ now - 1 \in Int /\ \A a \in 0..Horizon : a \in Int /\ a + Window - 1 \in Int
  <2>1. Laws(h) /\ Laws(g)
    BY <1>1, PassedLaws
  <2>2. now \in Int /\ now - 1 \in Int
    BY <1>1
  <2>3. \A a \in 0..Horizon : a \in Int /\ a + Window - 1 \in Int
    OBVIOUS
  <2> QED
    BY <2>1, <2>2, <2>3
<1>8. ASSUME NEW a \in 0..Horizon, a < now, a + Window > now PROVE Passed(g, a, now - 1) < MaxHits
  <2>1. Passed(h, a, now) < MaxHits
    BY <1>3, <1>8 DEF NoWindow, h
  <2>2. Passed(h, a, now - 1) <= Passed(h, a, now) /\ Passed(h, a, now - 1) \in Nat /\ Passed(h, a, now) \in Nat
    <3>1. a \in Int /\ now \in Int /\ now - 1 \in Int /\ a <= a /\ now - 1 <= now
      BY <1>1, <1>7
    <3> QED
      BY <1>7, <3>1 DEF Laws
  <2>3. Passed(g, a, now - 1) = Passed(h, a, now - 1)
    BY <1>2, <1>7
  <2> QED
    BY <2>1, <2>2, <2>3
<1>9. bucket'[k].count = Passed(g, now, now) /\ bucket'[k].count = 1
  BY <1>1, <1>5, <1>7 DEF Laws
<1>10. OpenWindow(k)'
  <2>1. g[now] > 0
    BY <1>5
  <2>2. now' = now /\ Opened(k)' \in 0..now'
    BY <1>1, <1>4
  <2>3. bucket'[k].count = Passed(g, Opened(k)', now')
    BY <1>4, <1>9, <2>2
  <2>4. \A a \in 0..Horizon : a < Opened(k)' /\ a + Window > Opened(k)' =>
          Passed(g, a, Opened(k)' - 1) < MaxHits
    BY <1>4, <1>8
  <2>5. g[Opened(k)'] > 0
    BY <1>4, <2>1
  <2> QED
    BY <2>2, <2>3, <2>4, <2>5 DEF OpenWindow, g
<1>11. NeverTwice(k)'
  <2> SUFFICES ASSUME NEW a \in 0..Horizon PROVE Passed(g, a, a + Window - 1) < 2 * MaxHits
    BY DEF NeverTwice, g
  <2>1. Passed(h, a, a + Window - 1) < 2 * MaxHits
    BY <1>3 DEF NeverTwice, h
  <2>2. CASE ~(a <= now /\ now <= a + Window - 1)
    BY <1>2, <1>7, <2>1, <2>2
  <2>3. CASE a <= now /\ now <= a + Window - 1
    <3>1. Passed(h, a, a + Window - 1) = Passed(h, a, now)
      <4>1. \A t \in 0..Horizon : t > now => h[t] = 0
        BY <1>3 DEF NoneAhead, h
      <4>2. a <= now + 1
        BY <1>1, <2>3
      <4> QED
        BY <1>1, <1>7, <2>3, <4>1, <4>2, PassedBy
    <3>2. Passed(h, a, now) < MaxHits
      BY <1>1, <1>3, <2>3 DEF NoWindow, h
    <3>3. Passed(h, a, now) \in Nat
      BY <1>7 DEF Laws
    <3>4. Passed(g, a, a + Window - 1) = Passed(h, a, a + Window - 1) + 1
      BY <1>2, <1>7, <2>3
    <3> QED
      BY <3>1, <3>2, <3>3, <3>4
  <2> QED
    BY <2>2, <2>3
<1> QED
  BY <1>4, <1>6, <1>10, <1>11 DEF WindowInv

\* A request counted in the open window.
LEMMA KeyCounts ==
  ASSUME TypeOK, TypeOK', NEW k \in Keys, WindowInv(k), Live(k), now' = now,
         bucket[k].count < MaxHits,
         bucket'[k] = [bucket[k] EXCEPT !.count = @ + 1],
         admitted'[k] = [admitted[k] EXCEPT ![now] = @ + 1]
  PROVE  WindowInv(k)'
<1> USE LimitAssumption, HorizonAssumption
<1> DEFINE h == admitted[k]
           g == admitted'[k]
           w == Opened(k)
<1>1. h \in [0..Horizon -> Nat] /\ g \in [0..Horizon -> Nat] /\ now \in 0..Horizon
  BY DEF TypeOK
<1>2. \A a, b \in Int : Passed(g, a, b) = IF a <= now /\ now <= b THEN Passed(h, a, b) + 1 ELSE Passed(h, a, b)
  <2>1. \A x \in 0..Horizon : g[x] = IF x = now THEN h[x] + 1 ELSE h[x]
    BY <1>1
  <2> HIDE DEF g, h
  <2> QED
    BY <1>1, <2>1, PassedMore
<1>3. NoneAhead(k) /\ OpenWindow(k) /\ NeverTwice(k)
  BY DEF WindowInv
<1>4. w \in 0..now /\ bucket[k] \in Bucket /\ now < w + Window
  BY <1>1, <1>3 DEF OpenWindow, TypeOK, Live, Bucket, Opened
<1>5. bucket'[k].count = bucket[k].count + 1 /\ Live(k)' /\ Opened(k)' = w
  BY <1>4 DEF Live, Opened, Bucket
<1>6. bucket[k].count = Passed(h, w, now) /\ h[w] > 0
      /\ \A a \in 0..Horizon : a < w /\ a + Window > w => Passed(h, a, w - 1) < MaxHits
  BY <1>3 DEF OpenWindow
<1>7. \A t \in 0..Horizon : g[t] = IF t = now THEN h[t] + 1 ELSE h[t]
  BY <1>1
<1>8. NoneAhead(k)'
  BY <1>1, <1>3, <1>7 DEF NoneAhead
<1> HIDE DEF h, g, w
<1>9. /\ Laws(h) /\ Laws(g) /\ now \in Int /\ w \in Int /\ w - 1 \in Int /\ w <= now /\ w \in 0..Horizon
      /\ \A a \in 0..Horizon : a \in Int /\ a + Window - 1 \in Int
  BY <1>1, <1>4, PassedLaws
<1>10. ASSUME NEW a \in 0..Horizon, a < w, a + Window > w PROVE Passed(g, a, w - 1) < MaxHits
  <2>1. Passed(g, a, w - 1) = Passed(h, a, w - 1)
    BY <1>2, <1>9
  <2> QED
    BY <1>6, <1>10, <2>1
<1>11. bucket'[k].count = Passed(g, w, now)
  BY <1>2, <1>5, <1>6, <1>9
<1>12. g[w] > 0
  <2>1. h[w] \in Nat
    BY <1>1, <1>9
  <2> QED
    BY <1>6, <1>7, <1>9, <2>1
<1>13. OpenWindow(k)'
  BY <1>4, <1>5, <1>10, <1>11, <1>12 DEF OpenWindow, g
<1>14. NeverTwice(k)'
  <2> SUFFICES ASSUME NEW a \in 0..Horizon PROVE Passed(g, a, a + Window - 1) < 2 * MaxHits
    BY DEF NeverTwice, g
  <2>1. Passed(h, a, a + Window - 1) < 2 * MaxHits
    BY <1>3 DEF NeverTwice, h
  <2>2. CASE ~(a <= now /\ now <= a + Window - 1)
    BY <1>2, <1>9, <2>1, <2>2
  <2>3. CASE a <= now /\ now <= a + Window - 1
    <3>1. Passed(h, a, a + Window - 1) = Passed(h, a, now)
      <4>1. \A t \in 0..Horizon : t > now => h[t] = 0
        BY <1>3 DEF NoneAhead, h
      <4>2. a <= now + 1
        BY <1>1, <2>3
      <4> QED
        BY <1>1, <1>9, <2>3, <4>1, <4>2, PassedBy
    <3>2. Passed(g, a, a + Window - 1) = Passed(h, a, a + Window - 1) + 1
      BY <1>2, <1>9, <2>3
    <3>3. Passed(h, w, now) < MaxHits /\ Passed(h, w, now) \in Nat /\ Passed(h, a, now) \in Nat
      BY <1>6, <1>9 DEF Laws
    <3>4. CASE a >= w
      <4>1. Passed(h, a, now) <= Passed(h, w, now)
        BY <1>9, <3>4 DEF Laws
      <4> QED
        BY <3>1, <3>2, <3>3, <4>1
    <3>5. CASE a < w
      <4>1. Passed(h, a, w - 1) < MaxHits
        BY <1>6, <1>9, <2>3, <3>5
      <4>2. w <= now + 1 /\ a <= w
        BY <1>9, <3>5
      <4>3. Passed(h, a, now) = Passed(h, a, w - 1) + Passed(h, w, now) /\ Passed(h, a, w - 1) \in Nat
        BY <1>9, <4>2 DEF Laws
      <4> QED
        BY <3>1, <3>2, <3>3, <4>1, <4>3
    <3> QED
      BY <1>9, <3>4, <3>5
  <2> QED
    BY <2>2, <2>3
<1> QED
  BY <1>5, <1>8, <1>13, <1>14 DEF WindowInv

\* Time passes; the window may close.
LEMMA KeyAges ==
  ASSUME TypeOK, NEW k \in Keys, WindowInv(k), Tick
  PROVE  WindowInv(k)'
<1> USE LimitAssumption, HorizonAssumption
<1> DEFINE h == admitted[k]
           later == now + 1
<1>1. h \in [0..Horizon -> Nat] /\ now \in 0..Horizon /\ later \in 0..Horizon /\ bucket[k] \in Bucket
  BY DEF TypeOK, Tick
<1>2. now' = later /\ admitted' = admitted /\ bucket' = bucket
  BY DEF Tick
<1>3. NoneAhead(k) /\ NeverTwice(k)
  BY DEF WindowInv
<1>4. h[later] = 0
  BY <1>1, <1>3 DEF NoneAhead
<1>5. NoneAhead(k)' /\ NeverTwice(k)'
  <2>1. \A t \in 0..Horizon : t > later => t > now
    BY <1>1
  <2>2. NoneAhead(k)'
    BY <1>2, <1>3, <2>1 DEF NoneAhead
  <2>3. NeverTwice(k)'
    BY <1>2, <1>3 DEF NeverTwice
  <2> QED
    BY <2>2, <2>3
<1> HIDE DEF h, later
<1>6. Laws(h) /\ now \in Int /\ later \in Int /\ now <= later /\ \A a \in 0..Horizon : a \in Int
  BY <1>1, PassedLaws DEF later
<1>7. \A a \in Int : a <= later => Passed(h, a, later) = Passed(h, a, now)
  <2>1. \A t \in 0..Horizon : t > now => h[t] = 0
    BY <1>3 DEF NoneAhead, h
  <2>2. later = now + 1
    BY DEF later
  <2> QED
    BY <1>1, <1>6, <2>1, <2>2, PassedBy
<1>8. CASE Live(k) /\ Live(k)'
  <2>1. OpenWindow(k)
    BY <1>8 DEF WindowInv
  <2>2. Opened(k)' = Opened(k)
    BY <1>2 DEF Opened
  <2>3. Opened(k) \in 0..later /\ Opened(k) \in Int /\ Opened(k) <= later
    BY <1>1, <2>1 DEF OpenWindow, later
  <2>4. Passed(h, Opened(k), later) = Passed(h, Opened(k), now)
    BY <1>7, <2>3
  <2>5. OpenWindow(k)'
    BY <1>2, <2>1, <2>2, <2>3, <2>4 DEF OpenWindow, h
  <2> QED
    BY <1>5, <1>8, <2>5 DEF WindowInv
<1>9. CASE ~Live(k)'
  <2> SUFFICES ASSUME NEW a \in 0..Horizon, a + Window > later PROVE Passed(h, a, later) < MaxHits
    BY <1>2, <1>4, <1>5, <1>9 DEF WindowInv, NoWindow, h
  <2>0. a \in Int /\ Passed(h, a, now) \in Nat /\ Passed(h, a, later) \in Nat
    BY <1>6 DEF Laws
  <2>1. CASE a > later
    <3>1. \A t \in 0..Horizon : a <= t /\ t <= later => h[t] = 0
      BY <1>1, <2>1
    <3>2. Passed(h, a, later) = 0
      BY <1>6, <3>1 DEF Laws
    <3> QED
      BY <3>2
  <2>2. CASE a <= later /\ ~Live(k)
    <3>1. NoWindow(k)
      BY <2>2 DEF WindowInv
    <3>2. a + Window > now
      BY <1>1, <1>6
    <3>3. Passed(h, a, now) < MaxHits
      BY <3>1, <3>2 DEF NoWindow, h
    <3>4. Passed(h, a, later) = Passed(h, a, now)
      BY <1>6, <1>7, <2>2
    <3> QED
      BY <3>3, <3>4
  <2>3. CASE a <= later /\ Live(k)
    <3>1. OpenWindow(k)
      BY <2>3 DEF WindowInv
    <3> DEFINE w == Opened(k)
    <3>2. w \in 0..now /\ h[w] > 0 /\ bucket[k].count = Passed(h, w, now)
      BY <3>1 DEF OpenWindow, h
    <3>3. w + Window = later
      BY <1>1, <1>2, <1>9, <2>3 DEF Live, Opened, later, Bucket
    <3>4. bucket[k].count <= MaxHits
      BY <1>1 DEF Bucket
    <3> HIDE DEF w
    <3>5. a > w /\ w \in 0..Horizon /\ w \in Int /\ w + 1 \in Int /\ w + 1 <= a /\ w + 1 <= now + 1 /\ (w + 1) - 1 = w
      BY <1>1, <3>2, <3>3
    <3>6. Passed(h, w, now) = Passed(h, w, w) + Passed(h, w + 1, now)
      BY <1>6, <3>5 DEF Laws
    <3>7. Passed(h, w, w) = h[w] /\ h[w] \in Nat
      BY <1>1, <1>6, <3>5 DEF Laws
    <3>8. Passed(h, a, now) <= Passed(h, w + 1, now) /\ Passed(h, w + 1, now) \in Nat
      BY <1>6, <3>5 DEF Laws
    <3>9. Passed(h, a, later) = Passed(h, a, now)
      BY <1>6, <1>7, <2>3
    <3> QED
      BY <2>0, <3>2, <3>4, <3>6, <3>7, <3>8, <3>9
  <2> QED
    BY <1>6, <2>1, <2>2, <2>3
<1>10. CASE ~Live(k) /\ Live(k)'
  BY <1>1, <1>2, <1>10 DEF Live, Bucket, later
<1> QED
  BY <1>8, <1>9, <1>10

\* The window of every key is right.
Limits == \A k \in Keys : WindowInv(k)

\* The window of every key is right after every request and every tick.
LEMMA LimitsHold == Spec => []Limits
<1> USE LimitAssumption, HorizonAssumption
<1>1. Init => Limits
  <2> SUFFICES ASSUME Init, NEW k \in Keys PROVE WindowInv(k)
    BY DEF Limits
  <2>1. admitted[k] = [t \in 0..Horizon |-> 0] /\ now = 0 /\ bucket[k] = NoBucket
    BY DEF Init
  <2>2. admitted[k] \in [0..Horizon -> Nat] /\ \A t \in 0..Horizon : admitted[k][t] = 0
    BY <2>1
  <2>3. \A a, b \in Int : Passed(admitted[k], a, b) = 0
    BY <2>2, PassedLaws DEF Laws
  <2>4. ~Live(k)
    BY <2>1 DEF Live, NoBucket
  <2>5. NoneAhead(k)
    BY <2>2 DEF NoneAhead
  <2>6. \A a \in 0..Horizon : a \in Int /\ a + Window - 1 \in Int
    OBVIOUS
  <2>7. NeverTwice(k)
    BY <2>3, <2>6 DEF NeverTwice
  <2>8. NoWindow(k)
    BY <2>1, <2>2, <2>3, <2>6 DEF NoWindow
  <2> QED
    BY <2>4, <2>5, <2>7, <2>8 DEF WindowInv
<1>2. TypeOK /\ TypeOK' /\ EmptyInv /\ Limits /\ [Next]_vars => Limits'
  <2> SUFFICES ASSUME TypeOK, TypeOK', EmptyInv, Limits, [Next]_vars, NEW j \in Keys PROVE WindowInv(j)'
    BY DEF Limits
  <2>0. WindowInv(j) /\ bucket'[j] \in Bucket
    BY DEF Limits, TypeOK
  <2>1. ASSUME NEW k \in Keys, Check(k) PROVE WindowInv(j)'
    <3>0. now' = now
      BY <2>1 DEF Check
    <3>1. CASE j = k /\ Allowed(k)
      <4>1. bucket'[j] = Hit(j)
        BY <2>1, <3>1, SweptType DEF Check
      <4>2. admitted'[j] = [admitted[j] EXCEPT ![now] = @ + 1]
        BY <2>1, <3>1 DEF Check, TypeOK
      <4>3. CASE Fresh(j)
        <5>1. bucket'[j] = [count |-> 1, resetAt |-> now + Window]
          BY <4>1, <4>3 DEF Hit
        <5> QED
          BY <2>0, <3>0, <4>2, <4>3, <5>1, SweepKeepsLive, KeyOpens
      <4>4. CASE ~Fresh(j)
        <5>1. Live(j) /\ Swept[j] = bucket[j]
          BY <4>4, SweepKeepsLive
        <5>2. bucket[j].count < MaxHits /\ bucket'[j] = [bucket[j] EXCEPT !.count = @ + 1]
          BY <3>1, <4>1, <4>4, <5>1 DEF Allowed, Hit
        <5> QED
          BY <2>0, <3>0, <4>2, <5>1, <5>2, KeyCounts
      <4> QED
        BY <4>3, <4>4
    <3>2. CASE ~(j = k /\ Allowed(k))
      <4>1. bucket'[j] = Swept[j] /\ admitted'[j] = admitted[j]
        BY <2>1, <3>2, SweptType DEF Check, TypeOK
      <4> QED
        BY <2>0, <3>0, <4>1, SweepKeepsLive, KeyRests
    <3> QED
      BY <3>1, <3>2
  <2>2. CASE Tick
    BY <2>0, <2>2, KeyAges
  <2>3. CASE UNCHANGED vars
    <3>1. IF Live(j) THEN bucket'[j] = bucket[j] ELSE now >= bucket'[j].resetAt
      BY <2>0, <2>3 DEF vars, Live, TypeOK, Bucket
    <3> QED
      BY <2>0, <2>3, <3>1, KeyRests DEF vars
  <2> QED
    BY <2>1, <2>2, <2>3 DEF Next
<1> QED
  BY <1>1, <1>2, TypeCorrect, EmptyInvHolds, PTL DEF Spec

\* RateLimiter.check and maybeSweep: a live window's count is exact, less than
\* twice the maximum passes in any stretch as long as a window, live windows stand
\* and expired entries are swept.
THEOREM LimitHoldsAlways == Spec => LimitHolds
<1> USE LimitAssumption, HorizonAssumption
<1>0. ASSUME NEW k, NEW S PROVE Admissions(k, S) = SumOf(admitted[k], S)
  BY DEF Admissions, SumOf, MapThenSumSet, MapThenFoldSet
<1>1. TypeOK /\ Limits => FewerThanTwiceMax
  <2> SUFFICES ASSUME TypeOK, Limits, NEW k \in Keys, NEW a \in 0..Horizon
               PROVE  Admissions(k, {t \in a..Horizon : t < a + Window}) < 2 * MaxHits
    BY DEF FewerThanTwiceMax
  <2>1. {t \in a..Horizon : t < a + Window} = Within(a, a + Window - 1)
    BY DEF Within
  <2>2. Passed(admitted[k], a, a + Window - 1) < 2 * MaxHits
    BY DEF Limits, WindowInv, NeverTwice
  <2> QED
    BY <1>0, <2>1, <2>2 DEF Passed
<1>2. TypeOK /\ Limits => LiveCountIsExact
  <2> SUFFICES ASSUME TypeOK, Limits, NEW k \in Keys, now < bucket[k].resetAt
               PROVE  bucket[k].count = Admissions(k, {t \in 0..now : t >= bucket[k].resetAt - Window})
    BY DEF LiveCountIsExact
  <2>1. OpenWindow(k)
    BY DEF Limits, WindowInv, Live
  <2>2. {t \in 0..now : t >= bucket[k].resetAt - Window} = Within(Opened(k), now)
    BY <2>1 DEF Within, Opened, OpenWindow, TypeOK
  <2> QED
    BY <1>0, <2>1, <2>2 DEF OpenWindow, Passed
<1> QED
  BY <1>1, <1>2, TypeCorrect, LimitsHold, ExpiredAreSweptHolds, LiveWindowsStandHolds, PTL DEF LimitHolds

-----------------------------------------------------------------------------
(* Page views, rollups and pruning (Traffic)                               *)

\* The views of a day, as a sum of the theory of sums.
LEMMA TotalIsSum ==
  ASSUME NEW c
  PROVE  Total(c) = SumOf(c, Visitors)
BY DEF Total, SumOf, MapThenSumSet, MapThenFoldSet

\* ... are a number,
LEMMA TotalType ==
  ASSUME NEW c \in Counts
  PROVE  Total(c) \in Nat
<1>1. \A v \in Visitors : c[v] \in Nat
  BY DEF Counts
<1> QED
  BY <1>1, VisitorsAssumption, TotalIsSum, SumAdds

\* ... none where nothing is stored,
LEMMA TotalOfNone == None \in Counts /\ Total(None) = 0
<1>1. \A v \in Visitors : None[v] = 0
  BY DEF None
<1> QED
  BY <1>1, VisitorsAssumption, TotalIsSum, SumOfZeros DEF Counts, None

\* ... and one more with each row.
LEMMA TotalOfOneMore ==
  ASSUME NEW c \in Counts, NEW w \in Visitors
  PROVE  [c EXCEPT ![w] = @ + 1] \in Counts /\ Total([c EXCEPT ![w] = @ + 1]) = Total(c) + 1
<1> DEFINE g == [c EXCEPT ![w] = @ + 1]
<1>1. g \in Counts /\ \A v \in Visitors : c[v] \in Nat /\ g[v] = IF v = w THEN c[v] + 1 ELSE c[v]
  BY DEF Counts
<1> HIDE DEF g
<1>2. SumOf(g, Visitors) = SumOf(c, Visitors) + 1
  BY <1>1, VisitorsAssumption, SumOfUpdate
<1>3. Total(g) = Total(c) + 1
  BY <1>2, TotalIsSum
<1> QED
  BY <1>1, <1>3 DEF g

\* What a run computes of a day.
LEMMA FiguresType ==
  ASSUME TrafficTypeOK, NEW d \in Days
  PROVE  /\ Figures(d) \in Rollup
         /\ Figures(d).exists
         /\ Figures(d).views = Total(raw[d]) /\ Total(raw[d]) \in Nat
<1>1. Total(raw[d]) \in Nat
  BY TotalType DEF TrafficTypeOK
<1>2. Cardinality({v \in Visitors : raw[d][v] > 0}) \in Nat
  <2>1. IsFiniteSet({v \in Visitors : raw[d][v] > 0})
    BY VisitorsAssumption, FS_Subset
  <2> QED
    BY <2>1, FS_CardinalityType
<1> QED
  BY <1>1, <1>2 DEF Figures, Rollup

\* The idle slots have their type.
LEMMA NoBeaconIsBeacon == NoBeacon \in Beacon
BY VisitorsAssumption, BoundsAssumption DEF NoBeacon, Beacon, Days

\* ... and so has a run that starts, or goes on to prune.
LEMMA NoJobIsJob ==
  /\ NoJob \in Job
  /\ \A d \in Days, prune \in BOOLEAN : [NoJob EXCEPT !.pc = "load", !.day = d, !.prune = prune] \in Job
  /\ [NoJob EXCEPT !.pc = "scan"] \in Job
<1>1. 0 \in Days /\ NoRollup \in Rollup
  BY BoundsAssumption DEF Days, NoRollup, Rollup
<1>2. NoJob \in Job
  BY <1>1 DEF NoJob, Job, JobPc
<1>3. ASSUME NEW d \in Days, NEW prune \in BOOLEAN
      PROVE  [NoJob EXCEPT !.pc = "load", !.day = d, !.prune = prune] \in Job
  BY <1>2, <1>3 DEF Job, JobPc
<1>4. [NoJob EXCEPT !.pc = "scan"] \in Job
  BY <1>2 DEF Job, JobPc
<1> QED
  BY <1>2, <1>3, <1>4

\* What is stored of a day: the views that came, less those that were pruned.
RawInv ==
  \A d \in Days :
    /\ Total(raw[d]) <= hist[d].ever
    /\ ~hist[d].pruned => Total(raw[d]) = hist[d].ever

\* The figures a run carries: nobody's views twice, and, unless they are stale, all
\* views but the late ones and no less than the rollup it is going to replace.
FiguresInv ==
  \A j \in Jobs : job[j].pc \in {"find", "write"} =>
    LET d == job[j].day
        n == job[j].figures.views IN
    /\ job[j].figures.exists /\ hist[d].loaded
    /\ n <= hist[d].ever
    /\ ~job[j].stale => n >= rollup[d].views /\ hist[d].ever <= n + hist[d].late

RollupInv ==
  \A d \in Days :
    /\ rollup[d].views <= hist[d].ever
    /\ rollup[d].exists => hist[d].loaded
    /\ rollup[d].exists /\ ~hist[d].redone => hist[d].ever <= rollup[d].views + hist[d].late

\* Only days that have a rollup are, or are about to be, pruned.
PruneInv ==
  /\ \A d \in Days : hist[d].pruned => rollup[d].exists
  /\ \A j \in Jobs : \A d \in job[j].target : rollup[d].exists

\* The inductive invariant.
TrafficInv == TrafficTypeOK /\ RawInv /\ FiguresInv /\ RollupInv /\ PruneInv

\* Nothing is stored at first.
LEMMA TrafficStarts == TrafficInit => TrafficInv
<1> SUFFICES ASSUME TrafficInit PROVE TrafficInv
  OBVIOUS
<1>1. TrafficTypeOK
  <2>1. today \in Days /\ NoRollup \in Rollup /\ NoHistory \in History
    BY BoundsAssumption DEF TrafficInit, Days, NoRollup, Rollup, NoHistory, History
  <2>2. beacon \in [Beacons -> Beacon] /\ job \in [Jobs -> Job] /\ raw \in [Days -> Counts]
    BY TotalOfNone, NoBeaconIsBeacon, NoJobIsJob DEF TrafficInit
  <2> QED
    BY <2>1, <2>2 DEF TrafficInit, TrafficTypeOK
<1>2. RawInv
  BY TotalOfNone DEF RawInv, TrafficInit, NoHistory
<1>3. FiguresInv /\ PruneInv /\ RollupInv
  BY DEF FiguresInv, PruneInv, RollupInv, TrafficInit, NoJob, NoHistory, NoRollup
<1> QED
  BY <1>1, <1>2, <1>3 DEF TrafficInv

\* The row of a beacon is stored: late where a run has loaded the day.
LEMMA InsertKeeps ==
  ASSUME TrafficInv, NEW b \in Beacons, Insert(b)
  PROVE  TrafficInv'
<1> DEFINE d == beacon[b].day
           v == beacon[b].visitor
<1>1. d \in Days /\ v \in Visitors /\ raw[d] \in Counts /\ hist[d] \in History
  BY DEF TrafficInv, TrafficTypeOK, Beacon
<1>2. raw' = [raw EXCEPT ![d] = [raw[d] EXCEPT ![v] = @ + 1]]
      /\ job' = job /\ rollup' = rollup /\ today' = today
      /\ hist' = [hist EXCEPT ![d] = [hist[d] EXCEPT !.ever = hist[d].ever + 1,
                                        !.late = IF hist[d].loaded THEN hist[d].late + 1 ELSE hist[d].late]]
  <2>1. hist \in [Days -> History]
    BY DEF TrafficInv, TrafficTypeOK
  <2>2. hist' = [hist EXCEPT ![d].ever = @ + 1, ![d].late = IF hist[d].loaded THEN @ + 1 ELSE @]
    BY DEF Insert
  <2> DEFINE more == hist[d].ever + 1
             after == IF hist[d].loaded THEN hist[d].late + 1 ELSE hist[d].late
  <2>3. hist' = [hist EXCEPT ![d] = [hist[d] EXCEPT !.ever = more, !.late = after]]
    BY <1>1, <2>1, <2>2 DEF History
  <2> QED
    BY <2>3 DEF Insert
<1> HIDE DEF d, v
<1>3. \A e \in Days : e # d => raw'[e] = raw[e] /\ hist'[e] = hist[e]
  BY <1>1, <1>2 DEF TrafficInv, TrafficTypeOK
<1>4. raw'[d] \in Counts /\ Total(raw'[d]) = Total(raw[d]) + 1 /\ Total(raw[d]) \in Nat
  <2>1. raw'[d] = [raw[d] EXCEPT ![v] = @ + 1]
    BY <1>1, <1>2 DEF TrafficInv, TrafficTypeOK
  <2> QED
    BY <1>1, <2>1, TotalOfOneMore, TotalType
<1>5. /\ hist'[d] = [hist[d] EXCEPT !.ever = hist[d].ever + 1,
                       !.late = IF hist[d].loaded THEN hist[d].late + 1 ELSE hist[d].late]
  BY <1>1, <1>2 DEF TrafficInv, TrafficTypeOK
<1>6. /\ hist'[d] \in History /\ hist'[d].ever = hist[d].ever + 1 /\ hist'[d].loaded = hist[d].loaded
      /\ hist'[d].pruned = hist[d].pruned /\ hist'[d].redone = hist[d].redone
      /\ hist[d].loaded => hist'[d].late = hist[d].late + 1
  <2> DEFINE more == hist[d].ever + 1
             after == IF hist[d].loaded THEN hist[d].late + 1 ELSE hist[d].late
  <2>1. more \in Nat /\ after \in Nat /\ (hist[d].loaded => after = hist[d].late + 1)
    BY <1>1 DEF History
  <2>2. hist'[d] = [hist[d] EXCEPT !.ever = more, !.late = after]
    BY <1>5
  <2>3. more = hist[d].ever + 1
    OBVIOUS
  <2> HIDE DEF more, after
  <2> QED
    BY <1>1, <2>1, <2>2, <2>3 DEF History
<1>7. TrafficTypeOK'
  <2>1. raw' \in [Days -> Counts] /\ hist' \in [Days -> History]
    BY <1>1, <1>2, <1>3, <1>4, <1>6 DEF TrafficInv, TrafficTypeOK
  <2>2. beacon' \in [Beacons -> Beacon]
    BY NoBeaconIsBeacon DEF Insert, TrafficInv, TrafficTypeOK
  <2> QED
    BY <1>2, <2>1, <2>2 DEF TrafficInv, TrafficTypeOK
<1>8. RawInv'
  <2> SUFFICES ASSUME NEW e \in Days
               PROVE  Total(raw'[e]) <= hist'[e].ever /\ (~hist'[e].pruned => Total(raw'[e]) = hist'[e].ever)
    BY DEF RawInv
  <2>1. Total(raw[e]) <= hist[e].ever /\ (~hist[e].pruned => Total(raw[e]) = hist[e].ever)
    BY DEF TrafficInv, RawInv
  <2>2. CASE e # d
    BY <1>3, <2>1, <2>2
  <2>3. CASE e = d
    BY <1>1, <1>4, <1>6, <2>1, <2>3 DEF History
  <2> QED
    BY <2>2, <2>3
<1>9. FiguresInv'
  <2> SUFFICES ASSUME NEW j \in Jobs, job[j].pc \in {"find", "write"}
               PROVE  LET e == job[j].day
                          n == job[j].figures.views IN
                      /\ job[j].figures.exists /\ hist'[e].loaded
                      /\ n <= hist'[e].ever
                      /\ ~job[j].stale => n >= rollup[e].views /\ hist'[e].ever <= n + hist'[e].late
    BY <1>2 DEF FiguresInv
  <2> DEFINE e == job[j].day
             n == job[j].figures.views
  <2>1. /\ job[j].figures.exists /\ hist[e].loaded
        /\ n <= hist[e].ever
        /\ ~job[j].stale => n >= rollup[e].views /\ hist[e].ever <= n + hist[e].late
    BY DEF TrafficInv, FiguresInv
  <2>2. e \in Days /\ n \in Nat
    BY DEF TrafficInv, TrafficTypeOK, Job, Rollup
  <2> HIDE DEF e, n
  <2>3. CASE e # d
    BY <1>3, <2>1, <2>2, <2>3 DEF e, n
  <2>4. CASE e = d
    <3>1. hist[e].ever \in Nat /\ hist[e].late \in Nat
      BY <1>1, <2>4 DEF History
    <3> QED
      BY <1>6, <2>1, <2>2, <2>4, <3>1 DEF e, n
  <2> QED
    BY <2>3, <2>4
<1>10. RollupInv'
  <2> SUFFICES ASSUME NEW e \in Days
               PROVE  /\ rollup[e].views <= hist'[e].ever
                      /\ rollup[e].exists => hist'[e].loaded
                      /\ rollup[e].exists /\ ~hist'[e].redone => hist'[e].ever <= rollup[e].views + hist'[e].late
    BY <1>2 DEF RollupInv
  <2>1. /\ rollup[e].views <= hist[e].ever
        /\ rollup[e].exists => hist[e].loaded
        /\ rollup[e].exists /\ ~hist[e].redone => hist[e].ever <= rollup[e].views + hist[e].late
    BY DEF TrafficInv, RollupInv
  <2>2. rollup[e].views \in Nat
    BY DEF TrafficInv, TrafficTypeOK, Rollup
  <2>3. CASE e # d
    BY <1>3, <2>1, <2>3
  <2>4. CASE e = d
    <3>1. hist[e].ever \in Nat /\ hist[e].late \in Nat
      BY <1>1, <2>4 DEF History
    <3> QED
      BY <1>6, <2>1, <2>2, <2>4, <3>1
  <2> QED
    BY <2>3, <2>4
<1>11. PruneInv'
  <2>1. \A e \in Days : hist'[e].pruned = hist[e].pruned
    BY <1>3, <1>6
  <2> QED
    BY <1>2, <2>1 DEF TrafficInv, PruneInv
<1> QED
  BY <1>7, <1>8, <1>9, <1>10, <1>11 DEF TrafficInv

\* A run that neither writes nor deletes: only its own slot changes.
LEMMA RunRests ==
  ASSUME TrafficInv, NEW j \in Jobs, NEW r \in Job,
         job' = [job EXCEPT ![j] = r],
         UNCHANGED <<today, beacon, raw, rollup, hist>>,
         r.pc \in {"find", "write"} =>
           job[j].pc \in {"find", "write"} /\ r.day = job[j].day /\ r.figures = job[j].figures /\ r.stale = job[j].stale,
         \A d \in r.target : rollup[d].exists
  PROVE  TrafficInv'
<1>1. \A i \in Jobs : job'[i] = IF i = j THEN r ELSE job[i]
  BY DEF TrafficInv, TrafficTypeOK
<1>2. TrafficTypeOK' /\ RawInv' /\ RollupInv'
  BY DEF TrafficInv, TrafficTypeOK, RawInv, RollupInv
<1>3. FiguresInv'
  <2> SUFFICES ASSUME NEW i \in Jobs, job'[i].pc \in {"find", "write"}
               PROVE  LET d == job'[i].day
                          n == job'[i].figures.views IN
                      /\ job'[i].figures.exists /\ hist[d].loaded
                      /\ n <= hist[d].ever
                      /\ ~job'[i].stale => n >= rollup[d].views /\ hist[d].ever <= n + hist[d].late
    BY DEF FiguresInv
  <2>1. /\ job[i].pc \in {"find", "write"}
        /\ job'[i].day = job[i].day /\ job'[i].figures = job[i].figures /\ job'[i].stale = job[i].stale
    BY <1>1
  <2> QED
    BY <2>1 DEF TrafficInv, FiguresInv
<1>4. PruneInv'
  BY <1>1 DEF TrafficInv, PruneInv
<1> QED
  BY <1>2, <1>3, <1>4 DEF TrafficInv

\* A run loads its day.
LEMMA LoadKeeps ==
  ASSUME TrafficInv, NEW j \in Jobs, JobLoad(j)
  PROVE  TrafficInv'
<1> DEFINE d == job[j].day
           r == [job[j] EXCEPT !.pc = "find", !.figures = Figures(d), !.stale = hist[d].pruned]
<1>1. d \in Days /\ job[j] \in Job /\ hist[d] \in History
  BY DEF TrafficInv, TrafficTypeOK, Job
<1>2. /\ job' = [job EXCEPT ![j] = r] /\ raw' = raw /\ rollup' = rollup /\ today' = today /\ beacon' = beacon
      /\ hist' = [hist EXCEPT ![d] = [hist[d] EXCEPT !.loaded = TRUE]]
  BY DEF JobLoad
<1>3. /\ Figures(d) \in Rollup /\ Figures(d).exists /\ Figures(d).views = Total(raw[d]) /\ Total(raw[d]) \in Nat
  BY <1>1, FiguresType DEF TrafficInv
<1>4. /\ r \in Job /\ r.pc = "find" /\ r.day = d /\ r.figures = Figures(d) /\ r.stale = hist[d].pruned
      /\ r.target = job[j].target
  <2>1. hist[d].pruned \in BOOLEAN
    BY <1>1 DEF History
  <2> QED
    BY <1>1, <1>3, <2>1 DEF Job, JobPc
<1> HIDE DEF d, r
<1>5. /\ \A i \in Jobs : i # j => job'[i] = job[i]
      /\ job'[j] = r
  BY <1>2 DEF TrafficInv, TrafficTypeOK
<1>6. \A e \in Days : /\ hist'[e].ever = hist[e].ever /\ hist'[e].late = hist[e].late
                      /\ hist'[e].pruned = hist[e].pruned /\ hist'[e].redone = hist[e].redone
                      /\ hist[e].loaded => hist'[e].loaded
                      /\ hist'[e] \in History
  <2> SUFFICES ASSUME NEW e \in Days
               PROVE  /\ hist'[e].ever = hist[e].ever /\ hist'[e].late = hist[e].late
                      /\ hist'[e].pruned = hist[e].pruned /\ hist'[e].redone = hist[e].redone
                      /\ hist[e].loaded => hist'[e].loaded
                      /\ hist'[e] \in History
    OBVIOUS
  <2>0. hist[e] \in History
    BY DEF TrafficInv, TrafficTypeOK
  <2>1. CASE e = d
    <3>1. hist'[e] = [hist[e] EXCEPT !.loaded = TRUE]
      BY <1>1, <1>2, <2>1 DEF TrafficInv, TrafficTypeOK
    <3> QED
      BY <2>0, <3>1 DEF History
  <2>2. CASE e # d
    <3>1. hist'[e] = hist[e]
      BY <1>1, <1>2, <2>2 DEF TrafficInv, TrafficTypeOK
    <3> QED
      BY <2>0, <3>1
  <2> QED
    BY <2>1, <2>2
<1>7. hist'[d].loaded
  BY <1>1, <1>2 DEF TrafficInv, TrafficTypeOK, History
<1>8. TrafficTypeOK'
  <2>1. hist' \in [Days -> History]
    BY <1>2, <1>6 DEF TrafficInv, TrafficTypeOK
  <2>2. job' \in [Jobs -> Job]
    BY <1>2, <1>4 DEF TrafficInv, TrafficTypeOK
  <2> QED
    BY <1>2, <2>1, <2>2 DEF TrafficInv, TrafficTypeOK
<1>9. RawInv'
  BY <1>2, <1>6 DEF TrafficInv, RawInv
<1>10. FiguresInv'
  <2> SUFFICES ASSUME NEW i \in Jobs, job'[i].pc \in {"find", "write"}
               PROVE  LET e == job'[i].day
                          n == job'[i].figures.views IN
                      /\ job'[i].figures.exists /\ hist'[e].loaded
                      /\ n <= hist'[e].ever
                      /\ ~job'[i].stale => n >= rollup[e].views /\ hist'[e].ever <= n + hist'[e].late
    BY <1>2 DEF FiguresInv
  <2>1. CASE i # j
    <3>1. job'[i] = job[i] /\ job[i].day \in Days
      BY <1>5, <2>1 DEF TrafficInv, TrafficTypeOK, Job
    <3> QED
      BY <1>6, <3>1 DEF TrafficInv, FiguresInv
  <2>2. CASE i = j
    <3>1. Total(raw[d]) <= hist[d].ever /\ (~hist[d].pruned => Total(raw[d]) = hist[d].ever)
      BY <1>1 DEF TrafficInv, RawInv
    <3>2. rollup[d].views <= hist[d].ever
      BY <1>1 DEF TrafficInv, RollupInv
    <3>3. hist[d].ever \in Nat /\ hist[d].late \in Nat
      BY <1>1 DEF History
    <3>4. job'[i].day = d /\ job'[i].figures = Figures(d) /\ job'[i].stale = hist[d].pruned
      BY <1>4, <1>5, <2>2
    <3> QED
      BY <1>1, <1>3, <1>6, <1>7, <3>1, <3>2, <3>3, <3>4
  <2> QED
    BY <2>1, <2>2
<1>11. RollupInv'
  BY <1>2, <1>6 DEF TrafficInv, RollupInv
<1>12. PruneInv'
  <2>1. \A i \in Jobs : job'[i].target = job[i].target
    BY <1>4, <1>5
  <2> QED
    BY <1>2, <1>6, <2>1 DEF TrafficInv, PruneInv
<1> QED
  BY <1>8, <1>9, <1>10, <1>11, <1>12 DEF TrafficInv

\* A run writes its rollup; only stale figures take views away.
LEMMA WriteKeeps ==
  ASSUME TrafficInv, NEW j \in Jobs, JobWrite(j)
  PROVE  TrafficInv' /\ \A e \in Days : hist'[e].redone \/ rollup'[e].views >= rollup[e].views
<1> DEFINE d == job[j].day
           refused == ~job[j].found /\ rollup[d].exists
           n == job[j].figures.views
<1>1. /\ d \in Days /\ job[j] \in Job /\ hist[d] \in History /\ rollup[d] \in Rollup
      /\ job[j].figures \in Rollup /\ n \in Nat /\ job[j].stale \in BOOLEAN
  BY DEF TrafficInv, TrafficTypeOK, Job, Rollup
<1>2. /\ job[j].pc = "write"
      /\ rollup' = [rollup EXCEPT ![d] = IF refused THEN rollup[d] ELSE job[j].figures]
      /\ hist' = [hist EXCEPT ![d] = [hist[d] EXCEPT !.redone = hist[d].redone \/ (job[j].stale /\ ~refused)]]
      /\ raw' = raw /\ today' = today /\ beacon' = beacon
  BY DEF JobWrite
<1>3. \A i \in Jobs : job'[i] =
        IF i = j
        THEN IF ~refused /\ job[j].prune THEN [NoJob EXCEPT !.pc = "scan"] ELSE NoJob
        ELSE [job[i] EXCEPT !.stale = job[i].stale \/ (job[i].pc \in {"find", "write"}
                                           /\ job[i].day = d /\ ~refused)]
  BY DEF JobWrite
<1>4. /\ job[j].figures.exists /\ hist[d].loaded /\ n <= hist[d].ever
      /\ ~job[j].stale => n >= rollup[d].views /\ hist[d].ever <= n + hist[d].late
  BY <1>2 DEF TrafficInv, FiguresInv
<1>5. refused \in BOOLEAN
  BY DEF refused
<1> HIDE DEF d, refused, n
<1>6. \A e \in Days : /\ hist'[e].ever = hist[e].ever /\ hist'[e].late = hist[e].late
                      /\ hist'[e].pruned = hist[e].pruned /\ hist'[e].loaded = hist[e].loaded
                      /\ hist[e].redone => hist'[e].redone
                      /\ hist'[e] \in History
                      /\ e # d => rollup'[e] = rollup[e]
  <2> SUFFICES ASSUME NEW e \in Days
               PROVE  /\ hist'[e].ever = hist[e].ever /\ hist'[e].late = hist[e].late
                      /\ hist'[e].pruned = hist[e].pruned /\ hist'[e].loaded = hist[e].loaded
                      /\ hist[e].redone => hist'[e].redone
                      /\ hist'[e] \in History
                      /\ e # d => rollup'[e] = rollup[e]
    OBVIOUS
  <2>0. hist[e] \in History
    BY DEF TrafficInv, TrafficTypeOK
  <2>1. CASE e = d
    <3> DEFINE again == hist[e].redone \/ (job[j].stale /\ ~refused)
    <3>1. hist'[e] = [hist[e] EXCEPT !.redone = again] /\ again \in BOOLEAN
      BY <1>1, <1>2, <2>1 DEF TrafficInv, TrafficTypeOK
    <3>2. hist[e].redone => again
      OBVIOUS
    <3> HIDE DEF again
    <3> QED
      BY <2>0, <2>1, <3>1, <3>2 DEF History
  <2>2. CASE e # d
    <3>1. hist'[e] = hist[e] /\ rollup'[e] = rollup[e]
      BY <1>1, <1>2, <2>2 DEF TrafficInv, TrafficTypeOK
    <3> QED
      BY <2>0, <3>1
  <2> QED
    BY <2>1, <2>2
<1>7. rollup'[d] = IF refused THEN rollup[d] ELSE job[j].figures
  BY <1>1, <1>2 DEF TrafficInv, TrafficTypeOK
<1>8. ~refused /\ job[j].stale => hist'[d].redone
  <2> SUFFICES ASSUME ~refused, job[j].stale PROVE hist'[d].redone
    OBVIOUS
  <2>1. hist'[d] = [hist[d] EXCEPT !.redone = TRUE]
    BY <1>1, <1>2 DEF TrafficInv, TrafficTypeOK
  <2> QED
    BY <1>1, <2>1 DEF History
<1>9. \A i \in Jobs : /\ job'[i] \in Job /\ (job'[i].pc \in {"find", "write"} => i # j /\ job[i].pc \in {"find", "write"}
                           /\ job'[i].day = job[i].day /\ job'[i].figures = job[i].figures
                           /\ (~job'[i].stale => ~job[i].stale /\ (refused \/ job[i].day # d)))
                      /\ job'[i].target \subseteq job[i].target
  <2> SUFFICES ASSUME NEW i \in Jobs
               PROVE  /\ job'[i] \in Job /\ (job'[i].pc \in {"find", "write"} => i # j /\ job[i].pc \in {"find", "write"}
                           /\ job'[i].day = job[i].day /\ job'[i].figures = job[i].figures
                           /\ (~job'[i].stale => ~job[i].stale /\ (refused \/ job[i].day # d)))
                      /\ job'[i].target \subseteq job[i].target
    OBVIOUS
  <2>0. job[i] \in Job
    BY DEF TrafficInv, TrafficTypeOK
  <2>1. CASE i = j
    <3>1. job'[i] = NoJob \/ job'[i] = [NoJob EXCEPT !.pc = "scan"]
      BY <1>3, <2>1
    <3>2. job'[i] \in Job
      BY <3>1, NoJobIsJob
    <3>3. job'[i].target = {} /\ job'[i].pc \notin {"find", "write"}
      BY <3>1 DEF NoJob
    <3> QED
      BY <3>2, <3>3
  <2>2. CASE i # j
    <3> DEFINE old == job[i].stale \/ (job[i].pc \in {"find", "write"} /\ job[i].day = d /\ ~refused)
    <3>1. job'[i] = [job[i] EXCEPT !.stale = old] /\ old \in BOOLEAN
      BY <1>3, <2>0, <2>2 DEF Job
    <3>2. ~old /\ job[i].pc \in {"find", "write"} => ~job[i].stale /\ (refused \/ job[i].day # d)
      OBVIOUS
    <3> HIDE DEF old
    <3> QED
      BY <2>0, <2>2, <3>1, <3>2 DEF Job
  <2> QED
    BY <2>1, <2>2
<1>10. TrafficTypeOK'
  <2>1. job' \in [Jobs -> Job]
    <3>1. DOMAIN job' = Jobs /\ job' = [i \in Jobs |-> job'[i]]
      BY DEF JobWrite
    <3> QED
      BY <1>9, <3>1
  <2>2. hist' \in [Days -> History] /\ rollup' \in [Days -> Rollup]
    BY <1>1, <1>2, <1>6 DEF TrafficInv, TrafficTypeOK
  <2> QED
    BY <1>2, <2>1, <2>2 DEF TrafficInv, TrafficTypeOK
<1>11. RawInv'
  BY <1>2, <1>6 DEF TrafficInv, RawInv
<1>12. FiguresInv'
  <2> SUFFICES ASSUME NEW i \in Jobs, job'[i].pc \in {"find", "write"}
               PROVE  LET e == job'[i].day
                          m == job'[i].figures.views IN
                      /\ job'[i].figures.exists /\ hist'[e].loaded
                      /\ m <= hist'[e].ever
                      /\ ~job'[i].stale => m >= rollup'[e].views /\ hist'[e].ever <= m + hist'[e].late
    BY DEF FiguresInv
  <2> DEFINE e == job[i].day
             m == job[i].figures.views
  <2>1. /\ job'[i].day = e /\ job'[i].figures = job[i].figures /\ job[i].pc \in {"find", "write"}
        /\ ~job'[i].stale => ~job[i].stale /\ (refused \/ e # d)
    BY <1>9
  <2>2. /\ job[i].figures.exists /\ hist[e].loaded
        /\ m <= hist[e].ever
        /\ ~job[i].stale => m >= rollup[e].views /\ hist[e].ever <= m + hist[e].late
    BY <2>1 DEF TrafficInv, FiguresInv
  <2>3. e \in Days
    BY DEF TrafficInv, TrafficTypeOK, Job
  <2>4. refused \/ e # d => rollup'[e] = rollup[e]
    BY <1>6, <1>7, <2>3
  <2> QED
    BY <1>6, <2>1, <2>2, <2>3, <2>4
<1>13. RollupInv'
  <2> SUFFICES ASSUME NEW e \in Days
               PROVE  /\ rollup'[e].views <= hist'[e].ever
                      /\ rollup'[e].exists => hist'[e].loaded
                      /\ rollup'[e].exists /\ ~hist'[e].redone => hist'[e].ever <= rollup'[e].views + hist'[e].late
    BY DEF RollupInv
  <2>1. /\ rollup[e].views <= hist[e].ever
        /\ rollup[e].exists => hist[e].loaded
        /\ rollup[e].exists /\ ~hist[e].redone => hist[e].ever <= rollup[e].views + hist[e].late
    BY DEF TrafficInv, RollupInv
  <2>2. CASE e # d \/ refused
    <3>1. rollup'[e] = rollup[e]
      BY <1>6, <1>7, <2>2
    <3> QED
      BY <1>6, <2>1, <3>1
  <2>3. CASE e = d /\ ~refused
    <3>1. rollup'[d] = job[j].figures
      BY <1>7, <2>3
    <3> QED
      BY <1>1, <1>4, <1>6, <1>8, <2>3, <3>1 DEF n
  <2> QED
    BY <2>2, <2>3
<1>14. \A e \in Days : rollup[e].exists => rollup'[e].exists
  <2> SUFFICES ASSUME NEW e \in Days, rollup[e].exists PROVE rollup'[e].exists
    OBVIOUS
  <2>1. CASE e # d \/ refused
    BY <1>6, <1>7, <2>1
  <2>2. CASE e = d /\ ~refused
    BY <1>4, <1>7, <2>2
  <2> QED
    BY <2>1, <2>2
<1>15. PruneInv'
  <2>1. \A i \in Jobs : \A e \in job[i].target : e \in Days
    BY DEF TrafficInv, TrafficTypeOK, Job
  <2> QED
    BY <1>6, <1>9, <1>14, <2>1 DEF TrafficInv, PruneInv
<1>16. ASSUME NEW e \in Days PROVE hist'[e].redone \/ rollup'[e].views >= rollup[e].views
  <2>0. rollup[e].views \in Nat
    BY DEF TrafficInv, TrafficTypeOK, Rollup
  <2>1. CASE e # d \/ refused
    <3>1. rollup'[e] = rollup[e]
      BY <1>6, <1>7, <2>1
    <3> QED
      BY <2>0, <3>1
  <2>2. CASE e = d /\ ~refused
    <3>1. rollup'[d] = job[j].figures
      BY <1>7, <2>2
    <3> QED
      BY <1>1, <1>4, <1>8, <2>2, <3>1 DEF n
  <2> QED
    BY <2>1, <2>2
<1> QED
  BY <1>10, <1>11, <1>12, <1>13, <1>15, <1>16 DEF TrafficInv

\* A run deletes the views of a day that has a rollup.
LEMMA DeleteKeeps ==
  ASSUME TrafficInv, NEW j \in Jobs, NEW d \in Days, JobDelete(j, d)
  PROVE  TrafficInv'
<1> DEFINE r == [job[j] EXCEPT !.target = {}]
<1>1. job[j] \in Job /\ hist[d] \in History
  BY DEF TrafficInv, TrafficTypeOK
<1>2. /\ job[j].pc = "prune" /\ d \in job[j].target
      /\ raw' = [raw EXCEPT ![d] = None] /\ job' = [job EXCEPT ![j] = r]
      /\ hist' = [hist EXCEPT ![d] = [hist[d] EXCEPT !.pruned = TRUE]]
      /\ rollup' = rollup /\ today' = today /\ beacon' = beacon
  BY DEF JobDelete
<1>3. r \in Job /\ r.pc = "prune" /\ r.target = {}
  BY <1>1, <1>2 DEF Job
<1> HIDE DEF r
<1>4. job'[j] = r /\ \A i \in Jobs : i # j => job'[i] = job[i]
  BY <1>2 DEF TrafficInv, TrafficTypeOK
<1>5. \A e \in Days : e # d => raw'[e] = raw[e] /\ hist'[e] = hist[e]
  BY <1>2 DEF TrafficInv, TrafficTypeOK
<1>6. /\ raw'[d] = None /\ hist'[d] \in History /\ hist'[d].pruned
      /\ hist'[d].ever = hist[d].ever /\ hist'[d].late = hist[d].late
      /\ hist'[d].loaded = hist[d].loaded /\ hist'[d].redone = hist[d].redone
  <2>1. raw'[d] = None /\ hist'[d] = [hist[d] EXCEPT !.pruned = TRUE]
    BY <1>2 DEF TrafficInv, TrafficTypeOK
  <2> QED
    BY <1>1, <2>1 DEF History
<1>7. TrafficTypeOK'
  BY <1>2, <1>3, <1>5, <1>6, TotalOfNone DEF TrafficInv, TrafficTypeOK
<1>8. RawInv'
  <2>1. Total(raw'[d]) = 0 /\ hist'[d].ever \in Nat
    BY <1>1, <1>6, TotalOfNone DEF History
  <2> QED
    BY <1>5, <1>6, <2>1 DEF TrafficInv, RawInv
<1>9. \A e \in Days : /\ hist'[e].ever = hist[e].ever /\ hist'[e].late = hist[e].late
                      /\ hist'[e].loaded = hist[e].loaded /\ hist'[e].redone = hist[e].redone
                      /\ hist'[e].pruned => hist[e].pruned \/ e = d
  BY <1>5, <1>6
<1>10. FiguresInv'
  <2> SUFFICES ASSUME NEW i \in Jobs, job'[i].pc \in {"find", "write"}
               PROVE  LET e == job'[i].day
                          n == job'[i].figures.views IN
                      /\ job'[i].figures.exists /\ hist'[e].loaded
                      /\ n <= hist'[e].ever
                      /\ ~job'[i].stale => n >= rollup[e].views /\ hist'[e].ever <= n + hist'[e].late
    BY <1>2 DEF FiguresInv
  <2>1. i # j /\ job'[i] = job[i] /\ job[i].day \in Days
    BY <1>3, <1>4 DEF TrafficInv, TrafficTypeOK, Job
  <2> QED
    BY <1>9, <2>1 DEF TrafficInv, FiguresInv
<1>11. RollupInv'
  BY <1>2, <1>9 DEF TrafficInv, RollupInv
<1>12. PruneInv'
  <2>1. rollup[d].exists
    BY <1>2 DEF TrafficInv, PruneInv
  <2>2. \A i \in Jobs : job'[i].target \subseteq job[i].target
    BY <1>3, <1>4
  <2> QED
    BY <1>2, <1>9, <2>1, <2>2 DEF TrafficInv, PruneInv
<1> QED
  BY <1>7, <1>8, <1>10, <1>11, <1>12 DEF TrafficInv

\* A step of the clock or of a beacon that stores nothing.
LEMMA TrafficRests ==
  ASSUME TrafficInv, UNCHANGED <<raw, rollup, job, hist>>, today' \in Days, beacon' \in [Beacons -> Beacon]
  PROVE  TrafficInv'
BY DEF TrafficInv, TrafficTypeOK, RawInv, FiguresInv, RollupInv, PruneInv

\* Every step keeps the invariant, and no rollup loses views unless redone.
LEMMA TrafficSteps ==
  ASSUME TrafficInv, [TrafficNext]_trafficVars
  PROVE  TrafficInv' /\ \A e \in Days : hist'[e].redone \/ rollup'[e].views >= rollup[e].views
<1> USE BoundsAssumption
<1>0. today \in Days /\ \A e \in Days : rollup[e].views \in Nat
  BY DEF TrafficInv, TrafficTypeOK, Rollup
<1>1. CASE \E j \in Jobs : JobWrite(j)
  BY <1>1, WriteKeeps
<1>2. CASE ~\E j \in Jobs : JobWrite(j)
  <2>1. rollup' = rollup
    BY <1>2 DEF TrafficNext, trafficVars, Capture, Insert, InsertFails, JobStart, JobStep,
       JobLoad, JobFind, JobScan, JobCheck, JobDelete, JobEnd, Midnight
  <2>2. \A e \in Days : rollup'[e].views >= rollup[e].views
    BY <1>0, <2>1
  <2>3. ASSUME NEW b \in Beacons, NEW v \in Visitors, Capture(b, v) PROVE TrafficInv'
    <3>1. beacon' \in [Beacons -> Beacon]
      BY <1>0, <2>3 DEF Capture, Beacon, TrafficInv, TrafficTypeOK
    <3> QED
      BY <1>0, <2>3, <3>1, TrafficRests DEF Capture
  <2>4. ASSUME NEW b \in Beacons, InsertFails(b) PROVE TrafficInv'
    <3>1. beacon' \in [Beacons -> Beacon]
      BY <2>4, NoBeaconIsBeacon DEF InsertFails, TrafficInv, TrafficTypeOK
    <3> QED
      BY <1>0, <2>4, <3>1, TrafficRests DEF InsertFails
  <2>5. ASSUME Midnight PROVE TrafficInv'
    <3>1. today' \in Days /\ beacon' \in [Beacons -> Beacon]
      <4>1. today' \in Days
        BY <1>0, <2>5 DEF Midnight, Days
      <4> QED
        BY <2>5, <4>1 DEF Midnight, TrafficInv, TrafficTypeOK
    <3> QED
      BY <2>5, <3>1, TrafficRests DEF Midnight
  <2>6. ASSUME UNCHANGED trafficVars PROVE TrafficInv'
    BY <1>0, <2>6, TrafficRests DEF trafficVars, TrafficInv, TrafficTypeOK
  <2>7. ASSUME NEW j \in Jobs, NEW d \in Days, NEW prune \in BOOLEAN, JobStart(j, d, prune) PROVE TrafficInv'
    <3> DEFINE r == [NoJob EXCEPT !.pc = "load", !.day = d, !.prune = prune]
    <3>1. r \in Job /\ r.pc = "load" /\ r.target = {}
      BY NoJobIsJob DEF NoJob
    <3>2. job' = [job EXCEPT ![j] = r] /\ UNCHANGED <<today, beacon, raw, rollup, hist>>
      BY <2>7 DEF JobStart
    <3> HIDE DEF r
    <3> QED
      BY <3>1, <3>2, RunRests
  <2>8. ASSUME NEW j \in Jobs, JobFind(j) PROVE TrafficInv'
    <3> DEFINE r == [job[j] EXCEPT !.pc = "write", !.found = rollup[job[j].day].exists]
    <3>1. job[j] \in Job /\ job[j].pc = "find" /\ rollup[job[j].day].exists \in BOOLEAN
      BY <2>8 DEF JobFind, TrafficInv, TrafficTypeOK, Job, Rollup
    <3>2. /\ r \in Job /\ r.day = job[j].day /\ r.figures = job[j].figures /\ r.stale = job[j].stale
          /\ r.target = job[j].target
      BY <3>1 DEF Job, JobPc
    <3>3. job' = [job EXCEPT ![j] = r] /\ UNCHANGED <<today, beacon, raw, rollup, hist>>
      BY <2>8 DEF JobFind
    <3>4. \A d \in job[j].target : rollup[d].exists
      BY DEF TrafficInv, PruneInv
    <3> HIDE DEF r
    <3> QED
      BY <3>1, <3>2, <3>3, <3>4, RunRests
  <2>9. ASSUME NEW j \in Jobs, JobScan(j) PROVE TrafficInv'
    <3> DEFINE r == [job[j] EXCEPT !.pc = "prune", !.todo = Aged]
    <3>1. job[j] \in Job /\ Aged \in SUBSET Days
      BY DEF TrafficInv, TrafficTypeOK, Aged
    <3>2. r \in Job /\ r.pc = "prune" /\ r.target = job[j].target
      BY <3>1 DEF Job, JobPc
    <3>3. job' = [job EXCEPT ![j] = r] /\ UNCHANGED <<today, beacon, raw, rollup, hist>>
      BY <2>9 DEF JobScan
    <3>4. \A d \in job[j].target : rollup[d].exists
      BY DEF TrafficInv, PruneInv
    <3> HIDE DEF r
    <3> QED
      BY <3>2, <3>3, <3>4, RunRests
  <2>10. ASSUME NEW j \in Jobs, NEW d \in Days, JobCheck(j, d) PROVE TrafficInv'
    <3> DEFINE r == [job[j] EXCEPT !.todo = job[j].todo \ {d}, !.target = IF MayPrune(d) THEN {d} ELSE {}]
    <3>1. job[j] \in Job /\ job[j].pc = "prune"
      BY <2>10 DEF JobCheck, TrafficInv, TrafficTypeOK
    <3> DEFINE next == IF MayPrune(d) THEN {d} ELSE {}
               left == job[j].todo \ {d}
    <3>4. next \in SUBSET Days /\ left \in SUBSET Days
      BY <3>1 DEF Job
    <3>5. r = [job[j] EXCEPT !.todo = left, !.target = next]
      OBVIOUS
    <3> HIDE DEF next, left, r
    <3>6. r \in Job /\ r.pc = "prune" /\ r.target = next
      BY <3>1, <3>4, <3>5 DEF Job
    <3>2. r \in Job /\ r.pc = "prune" /\ r.target = IF MayPrune(d) THEN {d} ELSE {}
      BY <3>6 DEF next
    <3>3. job' = [job EXCEPT ![j] = r] /\ UNCHANGED <<today, beacon, raw, rollup, hist>>
      BY <2>10 DEF JobCheck, r
    <3>7. \A e \in r.target : rollup[e].exists
      BY <3>2 DEF MayPrune
    <3> QED
      BY <3>2, <3>3, <3>7, RunRests
  <2>11. ASSUME NEW j \in Jobs, JobEnd(j) PROVE TrafficInv'
    <3>1. NoJob \in Job /\ NoJob.pc = "idle" /\ NoJob.target = {}
      BY NoJobIsJob DEF NoJob
    <3>2. job' = [job EXCEPT ![j] = NoJob] /\ UNCHANGED <<today, beacon, raw, rollup, hist>>
      BY <2>11 DEF JobEnd
    <3> QED
      BY <3>1, <3>2, RunRests
  <2>12. ASSUME NEW j \in Jobs, JobStep(j) PROVE TrafficInv'
    BY <1>2, <2>8, <2>9, <2>10, <2>11, <2>12, LoadKeeps, DeleteKeeps DEF JobStep
  <2>13. TrafficInv'
    BY <2>3, <2>4, <2>5, <2>6, <2>7, <2>12, InsertKeeps DEF TrafficNext
  <2> QED
    BY <2>2, <2>13
<1> QED
  BY <1>1, <1>2

\* aggregateTrafficForDate, pruneAgedPageViews: no view is counted twice, none is
\* pruned uncounted, and none is lost from a rollup but to a run that overlapped
\* another or came after the pruning.
THEOREM ViewsCountedOnceHolds == TrafficSpec => ViewsCountedOnce
<1>1. TrafficInv => TrafficTypeOK /\ NeverOvercounts /\ PrunedHaveRollup /\ PrunedWereCounted
  BY DEF TrafficInv, RollupInv, PruneInv, NeverOvercounts, PrunedHaveRollup, PrunedWereCounted
<1>2. TrafficInv /\ [TrafficNext]_trafficVars
      => TrafficInv' /\ [\A d \in Days : hist'[d].redone \/ rollup'[d].views >= rollup[d].views]_trafficVars
  BY TrafficSteps
<1> QED
  BY <1>1, <1>2, TrafficStarts, PTL DEF TrafficSpec, ViewsCountedOnce, RollupsOnlyGrow

-----------------------------------------------------------------------------
(* One view a window (ViewDedup)                                           *)

\* The memory of the beacons and the times of each key.
DedupTypeOK ==
  /\ minute \in Nat \ {0} /\ nextSweep \in Nat
  /\ seen \in [DedupKeys -> Nat] /\ stored \in [DedupKeys -> Nat] /\ armed \in [DedupKeys -> Nat]

\* An entry is the last arming of its key, and goes only when its window is over.
EntriesAreArmings ==
  \A k \in DedupKeys :
    /\ seen[k] # 0 => armed[k] # 0 /\ seen[k] = armed[k] + DedupWindow
    /\ armed[k] # 0 /\ seen[k] = 0 => minute >= armed[k] + DedupWindow
    /\ armed[k] # 0 => stored[k] <= armed[k]
    /\ stored[k] <= minute

\* The next sweep comes in time for every entry.
SweepIsNear ==
  /\ nextSweep <= minute + DedupWindow
  /\ \A k \in DedupKeys : seen[k] # 0 => nextSweep < seen[k] + DedupWindow

\* The inductive invariant.
DedupIInv == DedupTypeOK /\ EntriesAreArmings /\ SweepIsNear

\* What a beacon does to one key.
LEMMA BeaconOnKey ==
  ASSUME DedupIInv, NEW v \in Views, NEW failed \in BOOLEAN, DedupBeacon(v, failed),
         NEW j \in DedupKeys
  PROVE  /\ DedupSwept(minute)[j] \in {0, seen[j]}
         /\ DedupSwept(minute)[j] # seen[j] => minute >= seen[j]
         /\ ~(minute < nextSweep) /\ DedupSwept(minute)[j] # 0 => minute < seen[j]
         /\ seen'[j] = IF j = Key(v) /\ ~Suppressed(j) THEN minute + DedupWindow ELSE DedupSwept(minute)[j]
         /\ stored'[j] = IF j = Key(v) /\ ~Suppressed(j) /\ ~failed THEN minute ELSE stored[j]
         /\ armed'[j] = IF j = Key(v) /\ ~Suppressed(j) THEN minute ELSE armed[j]
         /\ Suppressed(j) <=> DedupSwept(minute)[j] # 0 /\ minute < DedupSwept(minute)[j]
<1> USE DedupAssumption DEF DedupIInv, DedupTypeOK
<1> DEFINE k == Key(v)
<1>1. DedupSwept(minute) \in [DedupKeys -> Nat]
  BY DEF DedupSwept
<1>2. /\ seen' = [DedupSwept(minute) EXCEPT ![k] = Expires(k)]
      /\ stored' = IF Suppressed(k) \/ failed THEN stored ELSE [stored EXCEPT ![k] = minute]
      /\ armed' = IF Suppressed(k) THEN armed ELSE [armed EXCEPT ![k] = minute]
  BY DEF DedupBeacon
<1>3. /\ DedupSwept(minute)[j] \in {0, seen[j]}
      /\ DedupSwept(minute)[j] # seen[j] => minute >= seen[j]
      /\ ~(minute < nextSweep) /\ DedupSwept(minute)[j] # 0 => minute < seen[j]
  BY DEF DedupSwept
<1>4. Suppressed(j) <=> DedupSwept(minute)[j] # 0 /\ minute < DedupSwept(minute)[j]
  BY DEF Suppressed
<1>5. Expires(k) = IF Suppressed(k) THEN DedupSwept(minute)[k] ELSE minute + DedupWindow
  BY DEF Expires
<1> HIDE DEF k
<1>6. seen'[j] = IF j = k /\ ~Suppressed(j) THEN minute + DedupWindow ELSE DedupSwept(minute)[j]
  BY <1>1, <1>2, <1>5
<1>7. /\ stored'[j] = IF j = k /\ ~Suppressed(j) /\ ~failed THEN minute ELSE stored[j]
      /\ armed'[j] = IF j = k /\ ~Suppressed(j) THEN minute ELSE armed[j]
  BY <1>2
<1> QED
  BY <1>3, <1>4, <1>6, <1>7 DEF k

\* Every beacon, minute and restart keeps the entries right.
LEMMA DedupStep ==
  ASSUME DedupIInv, [DedupNext]_dedupVars
  PROVE  DedupIInv'
<1> USE DedupAssumption DEF DedupIInv
<1>1. ASSUME NEW v \in Views, NEW failed \in BOOLEAN, DedupBeacon(v, failed) PROVE DedupIInv'
  <2>1. minute' = minute /\ nextSweep' = IF minute < nextSweep THEN nextSweep ELSE minute + DedupWindow
    BY <1>1 DEF DedupBeacon, SweepAfter
  <2>2. DedupTypeOK'
    <3>1. DedupSwept(minute) \in [DedupKeys -> Nat]
      BY DEF DedupSwept, DedupTypeOK
    <3>2. \A k \in DedupKeys : Expires(k) \in Nat
      BY <3>1 DEF Expires, DedupTypeOK
    <3>3. seen' \in [DedupKeys -> Nat]
      BY <1>1, <3>1, <3>2 DEF DedupBeacon
    <3> QED
      BY <1>1, <2>1, <3>3 DEF DedupBeacon, DedupTypeOK
  <2>3. EntriesAreArmings'
    <3> SUFFICES ASSUME NEW k \in DedupKeys
                 PROVE  /\ seen'[k] # 0 => armed'[k] # 0 /\ seen'[k] = armed'[k] + DedupWindow
                        /\ armed'[k] # 0 /\ seen'[k] = 0 => minute' >= armed'[k] + DedupWindow
                        /\ armed'[k] # 0 => stored'[k] <= armed'[k]
                        /\ stored'[k] <= minute'
      BY DEF EntriesAreArmings
    <3>1. /\ seen[k] \in Nat /\ armed[k] \in Nat /\ stored[k] \in Nat /\ minute \in Nat \ {0}
          /\ seen[k] # 0 => armed[k] # 0 /\ seen[k] = armed[k] + DedupWindow
          /\ armed[k] # 0 /\ seen[k] = 0 => minute >= armed[k] + DedupWindow
          /\ armed[k] # 0 => stored[k] <= armed[k]
          /\ stored[k] <= minute
      BY DEF EntriesAreArmings, DedupTypeOK
    <3>2. CASE k = Key(v) /\ ~Suppressed(k)
      <4>1. seen'[k] = minute + DedupWindow /\ armed'[k] = minute /\ stored'[k] \in {minute, stored[k]}
        BY <1>1, <3>2, BeaconOnKey
      <4> QED
        BY <2>1, <3>1, <4>1
    <3>3. CASE ~(k = Key(v) /\ ~Suppressed(k))
      <4>1. /\ seen'[k] \in {0, seen[k]} /\ armed'[k] = armed[k] /\ stored'[k] = stored[k]
            /\ seen'[k] # seen[k] => minute >= seen[k]
        BY <1>1, <3>3, BeaconOnKey
      <4> QED
        BY <2>1, <3>1, <4>1
    <3> QED
      BY <3>2, <3>3
  <2>4. SweepIsNear'
    BY <1>1, <2>1, BeaconOnKey DEF SweepIsNear, DedupTypeOK
  <2> QED
    BY <2>2, <2>3, <2>4
<1>2. CASE MinutePasses
  BY <1>2 DEF MinutePasses, DedupTypeOK, EntriesAreArmings, SweepIsNear
<1>3. CASE RestartDedup
  BY <1>3 DEF RestartDedup, DedupTypeOK, EntriesAreArmings, SweepIsNear
<1>4. CASE UNCHANGED dedupVars
  BY <1>4 DEF dedupVars, DedupTypeOK, EntriesAreArmings, SweepIsNear
<1> QED
  BY <1>1, <1>2, <1>3, <1>4 DEF DedupNext

\* trafficDedup.ts: one view a window is stored, none is suppressed for longer, and
\* nothing expired is kept past the next sweep.
THEOREM OneViewAWindowHolds == DedupSpec => OneViewAWindow
<1> USE DedupAssumption
<1>1. DedupInit => DedupIInv
  BY DEF DedupInit, DedupIInv, DedupTypeOK, EntriesAreArmings, SweepIsNear
<1>2. DedupIInv /\ [DedupNext]_dedupVars => DedupIInv'
  BY DedupStep
<1>3. DedupIInv /\ [DedupNext]_dedupVars
      => [\A k \in DedupKeys :
            stored'[k] # stored[k] /\ stored[k] # 0 /\ armed[k] # 0 => minute >= stored[k] + DedupWindow]_dedupVars
  <2> SUFFICES ASSUME DedupIInv, DedupNext, NEW k \in DedupKeys,
                      stored'[k] # stored[k], stored[k] # 0, armed[k] # 0
               PROVE  minute >= stored[k] + DedupWindow
    OBVIOUS
  <2>1. PICK v \in Views, failed \in BOOLEAN : DedupBeacon(v, failed)
    BY DEF DedupNext, MinutePasses, RestartDedup
  <2> QED
    BY <2>1, BeaconOnKey DEF DedupIInv, DedupTypeOK, EntriesAreArmings
<1>4. DedupIInv /\ [DedupNext]_dedupVars
      => [\A k \in DedupKeys :
            (\E v \in Views, failed \in BOOLEAN : k = Key(v) /\ DedupBeacon(v, failed))
            /\ armed'[k] = armed[k] => armed[k] # 0 /\ minute < armed[k] + DedupWindow]_dedupVars
  <2> SUFFICES ASSUME DedupIInv, NEW k \in DedupKeys, NEW v \in Views, NEW failed \in BOOLEAN,
                      k = Key(v), DedupBeacon(v, failed), armed'[k] = armed[k]
               PROVE  armed[k] # 0 /\ minute < armed[k] + DedupWindow
    OBVIOUS
  <2> QED
    BY BeaconOnKey DEF DedupIInv, DedupTypeOK, EntriesAreArmings
<1>5. DedupIInv /\ [DedupNext]_dedupVars
      => [\A v \in Views, failed \in BOOLEAN :
            DedupBeacon(v, failed) => \A k \in DedupKeys : seen'[k] = 0 \/ minute < seen'[k] + DedupWindow]_dedupVars
  <2> SUFFICES ASSUME DedupIInv, NEW v \in Views, NEW failed \in BOOLEAN, DedupBeacon(v, failed),
                      NEW k \in DedupKeys, seen'[k] # 0
               PROVE  minute < seen'[k] + DedupWindow
    OBVIOUS
  <2> QED
    BY BeaconOnKey DEF DedupIInv, DedupTypeOK, SweepIsNear
<1> QED
  BY <1>1, <1>2, <1>3, <1>4, <1>5, PTL
     DEF DedupSpec, OneViewAWindow, ViewsStoredApart, SuppressedForOneWindow, SweptInTime

-----------------------------------------------------------------------------
(* Ratings (Ratings)                                                       *)

\* What a submit asks for: a member is known by the id, a guest by the address.
Asked(a) ==
  /\ a \in Submitted /\ a.page = Canonical[a.spelt]
  /\ a.member # Nobody => a.hash = a.member
  /\ a.member = Nobody => a.hash \in Raters \cup {Nobody}

\* What a submit carries, and those that are about to insert.
RatingSubmit == {[stage |-> "new"], [stage |-> "done"]} \cup [stage: {"insert", "refused"}, asked: Submitted]

Inserting == {s \in Submits : rating[s].stage = "insert"}

\* Submits carry what they ask; a rating was asked for, and its submit is over.
SubmitsAreSound ==
  /\ rating \in [Submits -> RatingSubmit]
  /\ \A s \in Inserting : Asked(rating[s].asked)
  /\ \A s \in Made : rating[s] = [stage |-> "done"] /\ rated[s].page = Canonical[rated[s].spelt]

\* The rating of a member who is still there names the member.
PresentAreNamed ==
  \A s \in Made : rated[s].hash \in present => rated[s].member = rated[s].hash

\* Two ratings of one page by one known person.
SameRater(a, b) == a.page = b.page /\ a.hash = b.hash /\ a.hash # Nobody

\* Submits that are under way together are remembered, and so is one that is
\* under way when the same person's rating is there.
RacesAreSeen ==
  /\ \A s, t \in Inserting : s # t => {s, t} \in raced
  /\ \A s \in Made, t \in Inserting : SameRater(rated[s], rating[t].asked) => {s, t} \in raced
  /\ \A s, t \in Made : s # t /\ SameRater(rated[s], rated[t]) => {s, t} \in raced

\* The inductive invariant.
RatingIInv == RatingTypeOK /\ SubmitsAreSound /\ PresentAreNamed /\ RacesAreSeen

\* A submit that looks for an earlier rating.
LEMMA SubmitIsSeen ==
  ASSUME RatingIInv, NEW s \in Submits, SubmitRating(s)
  PROVE  RatingIInv'
<1> USE RatingAssumption DEF RatingIInv
<1>1. PICK who \in present \cup {Nobody}, address \in Raters \cup {Nobody}, sent \in Spellings :
        rating' = [rating EXCEPT ![s] =
          [stage |-> IF ~enabled \/ Earlier(who, address, PageKey(sent)) # {} THEN "refused" ELSE "insert",
           asked |-> [page |-> PageKey(sent), spelt |-> sent, member |-> who,
                      hash |-> Hashed(who, address)]]]
  BY DEF SubmitRating
<1> DEFINE asked == [page |-> PageKey(sent), spelt |-> sent, member |-> who, hash |-> Hashed(who, address)]
           stage == IF ~enabled \/ Earlier(who, address, PageKey(sent)) # {} THEN "refused" ELSE "insert"
<1>2. Asked(asked)
  BY DEF Asked, Submitted, PageKey, Hashed, RatingTypeOK
<1>3. stage \in {"insert", "refused"} /\ (stage = "insert" => Earlier(who, address, PageKey(sent)) = {})
  OBVIOUS
<1>4. rating' = [rating EXCEPT ![s] = [stage |-> stage, asked |-> asked]]
  BY <1>1
<1>5. \A t \in Made : stage = "insert" => ~SameRater(rated[t], asked)
  <2> SUFFICES ASSUME NEW t \in Made, stage = "insert", SameRater(rated[t], asked) PROVE FALSE
    OBVIOUS
  <2>1. rated[t].page = PageKey(sent) /\ rated[t].hash = Hashed(who, address) /\ Hashed(who, address) # Nobody
    BY DEF SameRater
  <2>2. CASE who # Nobody
    <3>1. rated[t].member = who
      BY <2>1, <2>2 DEF Hashed, PresentAreNamed
    <3> QED
      BY <1>3, <2>1, <2>2, <3>1 DEF Earlier
  <2>3. CASE who = Nobody
    BY <1>3, <2>1, <2>3 DEF Hashed, Earlier
  <2> QED
    BY <2>2, <2>3
<1> HIDE DEF stage, asked
<1>6. Made' = Made /\ s \notin Made
  BY DEF SubmitRating, Made, SubmitsAreSound
<1>7. Inserting' = IF stage = "insert" THEN Inserting \cup {s} ELSE Inserting
  BY <1>3, <1>4 DEF SubmitRating, Inserting, SubmitsAreSound
<1>8. \A t \in Submits : rating'[t] = IF t = s THEN [stage |-> stage, asked |-> asked] ELSE rating[t]
  BY <1>4 DEF SubmitsAreSound
<1>9. RatingTypeOK'
  BY <1>6 DEF SubmitRating, RatingTypeOK
<1>10. SubmitsAreSound'
  <2>1. rating' \in [Submits -> RatingSubmit]
    BY <1>2, <1>3, <1>4 DEF SubmitsAreSound, RatingSubmit, Asked
  <2>2. \A t \in Inserting' : Asked(rating'[t].asked)
    BY <1>2, <1>7, <1>8 DEF SubmitsAreSound, Inserting
  <2>3. rated' = rated
    BY DEF SubmitRating
  <2>4. \A t \in Made' : rating'[t] = [stage |-> "done"] /\ rated'[t].page = Canonical[rated'[t].spelt]
    BY <1>6, <1>8, <2>3 DEF SubmitsAreSound, Made
  <2> QED
    BY <2>1, <2>2, <2>4 DEF SubmitsAreSound, Asked
<1>11. PresentAreNamed'
  BY <1>6 DEF SubmitRating, PresentAreNamed
<1>12. RacesAreSeen'
  <2>1. raced \subseteq raced' /\ \A t \in Inserting : {s, t} \in raced'
    BY DEF SubmitRating, Inserting
  <2>2. s \notin Inserting /\ rated' = rated
    BY DEF SubmitRating, Inserting
  <2>3. \A t, u \in Inserting' : t # u => {t, u} \in raced'
    <3> SUFFICES ASSUME NEW t \in Inserting', NEW u \in Inserting', t # u PROVE {t, u} \in raced'
      OBVIOUS
    <3>1. {t, u} = {u, t}
      OBVIOUS
    <3> QED
      BY <1>7, <2>1, <2>2, <3>1 DEF RacesAreSeen
  <2>4. \A t \in Made', u \in Inserting' : SameRater(rated'[t], rating'[u].asked) => {t, u} \in raced'
    <3> SUFFICES ASSUME NEW t \in Made, NEW u \in Inserting', SameRater(rated[t], rating'[u].asked)
                 PROVE  {t, u} \in raced'
      BY <1>6, <2>2
    <3>1. CASE u = s
      BY <1>5, <1>7, <1>8, <2>2, <3>1 DEF Inserting
    <3>2. CASE u # s
      BY <1>7, <1>8, <2>1, <3>2 DEF RacesAreSeen, Inserting
    <3> QED
      BY <3>1, <3>2
  <2>5. \A t, u \in Made' : t # u /\ SameRater(rated'[t], rated'[u]) => {t, u} \in raced'
    BY <1>6, <2>1, <2>2 DEF RacesAreSeen
  <2> QED
    BY <2>3, <2>4, <2>5 DEF RacesAreSeen, SameRater
<1> QED
  BY <1>9, <1>10, <1>11, <1>12

\* The insert that follows.
LEMMA InsertIsSeen ==
  ASSUME RatingIInv, NEW s \in Submits, InsertRating(s)
  PROVE  RatingIInv'
<1> USE RatingAssumption DEF RatingIInv
<1> DEFINE a == rating[s].asked
           fits == a.member \in present \cup {Nobody}
<1>1. s \in Inserting /\ Asked(a) /\ s \notin Made
  BY DEF InsertRating, Inserting, SubmitsAreSound
<1>2. \A t \in Submits : rated'[t] = IF t = s THEN IF fits THEN a ELSE <<>> ELSE rated[t]
  BY DEF InsertRating, RatingTypeOK
<1>3. rating' = [rating EXCEPT ![s] = [stage |-> "done"]] /\ UNCHANGED <<enabled, present, raced>>
  BY DEF InsertRating
<1>4. a # <<>>
  BY <1>1 DEF Asked, Submitted
<1> HIDE DEF a
<1>5. Made' = IF fits THEN Made \cup {s} ELSE Made
  BY <1>1, <1>2, <1>4 DEF Made
<1>6. Inserting' = Inserting \ {s}
  BY <1>1, <1>3 DEF Inserting, SubmitsAreSound
<1>7. \A t \in Submits : rating'[t] = IF t = s THEN [stage |-> "done"] ELSE rating[t]
  BY <1>3 DEF SubmitsAreSound
<1>8. RatingTypeOK'
  <2>1. rated' \in [Submits -> Submitted \cup {<<>>}]
    BY <1>1 DEF InsertRating, RatingTypeOK, Asked, a
  <2> QED
    BY <1>2, <1>3, <1>5, <2>1 DEF RatingTypeOK, Made
<1>9. SubmitsAreSound'
  <2>1. rating' \in [Submits -> RatingSubmit]
    BY <1>3 DEF SubmitsAreSound, RatingSubmit
  <2>2. \A t \in Inserting' : Asked(rating'[t].asked)
    BY <1>6, <1>7 DEF SubmitsAreSound, Inserting
  <2>3. \A t \in Made' : rating'[t] = [stage |-> "done"] /\ rated'[t].page = Canonical[rated'[t].spelt]
    BY <1>1, <1>2, <1>5, <1>7 DEF SubmitsAreSound, Made, Asked
  <2> QED
    BY <2>1, <2>2, <2>3 DEF SubmitsAreSound, Asked
<1>10. PresentAreNamed'
  BY <1>1, <1>2, <1>3, <1>5 DEF PresentAreNamed, Made, Asked, RatingTypeOK
<1>11. RacesAreSeen'
  <2>1. \A t, u \in Inserting' : t # u => {t, u} \in raced'
    BY <1>3, <1>6 DEF RacesAreSeen
  <2>2. \A t \in Made', u \in Inserting' : SameRater(rated'[t], rating'[u].asked) => {t, u} \in raced'
    BY <1>1, <1>2, <1>3, <1>5, <1>6, <1>7 DEF RacesAreSeen, Made, Inserting
  <2>3. \A t, u \in Made' : t # u /\ SameRater(rated'[t], rated'[u]) => {t, u} \in raced'
    <3> SUFFICES ASSUME NEW t \in Made', NEW u \in Made', t # u, SameRater(rated'[t], rated'[u])
                 PROVE  {t, u} \in raced'
      OBVIOUS
    <3>1. CASE t # s /\ u # s
      BY <1>2, <1>3, <1>5, <3>1 DEF RacesAreSeen, Made
    <3>2. CASE u = s
      BY <1>1, <1>2, <1>3, <1>5, <3>2 DEF RacesAreSeen, Made, a
    <3>3. CASE t = s
      <4>1. rated'[s] = a /\ u \in Made /\ rated'[u] = rated[u]
        BY <1>1, <1>2, <1>5, <3>3 DEF Made
      <4>2. SameRater(rated[u], a)
        BY <3>3, <4>1 DEF SameRater
      <4>3. {u, s} \in raced
        BY <1>1, <4>1, <4>2 DEF RacesAreSeen, a
      <4>4. {u, s} = {t, u}
        BY <3>3
      <4> QED
        BY <1>3, <4>3, <4>4
    <3> QED
      BY <3>1, <3>2, <3>3
  <2> QED
    BY <2>1, <2>2, <2>3 DEF RacesAreSeen, SameRater
<1> QED
  BY <1>8, <1>9, <1>10, <1>11

\* A member who leaves, and every other step.
LEMMA GoneIsSeen ==
  ASSUME RatingIInv, NEW m \in Members, MemberGoes(m)
  PROVE  RatingIInv'
<1> USE RatingAssumption DEF RatingIInv
<1>1. \A s \in Submits :
        /\ (rated'[s] = <<>>) <=> (rated[s] = <<>>)
        /\ rated[s] # <<>> =>
             /\ rated'[s] \in Submitted
             /\ rated'[s].page = rated[s].page /\ rated'[s].spelt = rated[s].spelt
             /\ rated'[s].hash = rated[s].hash
             /\ rated'[s].member = IF rated[s].member = m THEN Nobody ELSE rated[s].member
  BY DEF MemberGoes, Kept, RatingTypeOK, Submitted
<1>2. Made' = Made /\ UNCHANGED <<rating, enabled, raced>> /\ present' = present \ {m}
  BY <1>1 DEF Made, MemberGoes
<1>3. Inserting' = Inserting
  BY <1>2 DEF Inserting
<1>4. RatingTypeOK'
  <2>1. rated' \in [Submits -> Submitted \cup {<<>>}]
    BY <1>1 DEF MemberGoes, RatingTypeOK
  <2>2. \A s \in Made' : rated'[s].member \in present' \cup {Nobody}
    BY <1>1, <1>2 DEF RatingTypeOK, Made
  <2> QED
    BY <1>2, <2>1, <2>2 DEF RatingTypeOK
<1>5. SubmitsAreSound'
  BY <1>1, <1>2, <1>3 DEF SubmitsAreSound, Asked, Made
<1>6. PresentAreNamed'
  BY <1>1, <1>2 DEF PresentAreNamed, Made
<1>7. RacesAreSeen'
  BY <1>1, <1>2, <1>3 DEF RacesAreSeen, SameRater, Made
<1> QED
  BY <1>4, <1>5, <1>6, <1>7

\* site/satisfaction.ts: one rating a person and page unless submits raced, and no
\* rating is withdrawn or moved when a member leaves.
THEOREM RatingsAreFairHolds == RatingSpec => RatingsAreFair
<1>1. RatingInit => RatingIInv
  BY DEF RatingInit, RatingIInv, RatingTypeOK, SubmitsAreSound, PresentAreNamed, RacesAreSeen,
         Made, Inserting, RatingSubmit
<1>2. RatingIInv /\ [RatingNext]_ratingVars => RatingIInv'
  <2> SUFFICES ASSUME RatingIInv, [RatingNext]_ratingVars PROVE RatingIInv'
    OBVIOUS
  <2>1. CASE SwitchRatings
    BY <2>1 DEF SwitchRatings, RatingIInv, RatingTypeOK, SubmitsAreSound, PresentAreNamed, RacesAreSeen,
                Made, Inserting, Asked
  <2>2. CASE UNCHANGED ratingVars
    BY <2>2 DEF ratingVars, RatingIInv, RatingTypeOK, SubmitsAreSound, PresentAreNamed, RacesAreSeen,
                Made, Inserting, Asked
  <2> QED
    BY <2>1, <2>2, SubmitIsSeen, InsertIsSeen, GoneIsSeen DEF RatingNext
<1>3. RatingIInv => RatingTypeOK /\ OneRatingUnlessRaced
  BY DEF RatingIInv, SubmitsAreSound, RacesAreSeen, SameRater, OneRatingUnlessRaced
<1>4. RatingIInv /\ [RatingNext]_ratingVars
      => [\A s \in Made : rated'[s] # <<>> /\ rated'[s].page = rated[s].page]_ratingVars
  <2> SUFFICES ASSUME RatingIInv, RatingNext, NEW s \in Made
               PROVE  rated'[s] # <<>> /\ rated'[s].page = rated[s].page
    OBVIOUS
  <2>1. s \in Submits /\ rated[s] # <<>> /\ rated[s] \in Submitted
    BY DEF Made, RatingIInv, RatingTypeOK
  <2>2. ASSUME NEW t \in Submits, InsertRating(t) PROVE rated'[s] = rated[s]
    BY <2>1, <2>2 DEF InsertRating, RatingIInv, SubmitsAreSound, RatingTypeOK
  <2>3. ASSUME NEW m \in Members, MemberGoes(m) PROVE rated'[s] # <<>> /\ rated'[s].page = rated[s].page
    BY <2>1, <2>3 DEF MemberGoes, Kept, Submitted
  <2>4. ASSUME NEW t \in Submits, SubmitRating(t) \/ SwitchRatings PROVE rated' = rated
    BY <2>4 DEF SubmitRating, SwitchRatings
  <2> QED
    BY <2>1, <2>2, <2>3, <2>4 DEF RatingNext
<1> QED
  BY <1>1, <1>2, <1>3, <1>4, PTL DEF RatingSpec, RatingsAreFair, RatingsOutliveMembers

-----------------------------------------------------------------------------
(* Short links (ShortLinks)                                                *)

\* A short link, from its first draw on, and a hit on one.
LinkRow ==
  [stage: {"drawing", "look", "insert", "live", "failed"}, code: Codes \cup {0}, url: Urls, hits: Nat,
   draws: Nat]

Hitter ==
  {IdleHit}
  \cup [stage: {"found", "read"}, link: Links, target: Urls, hits: Nat, base: [url: Urls, hits: Nat]]
  \cup [stage: {"sent"}, link: Links, target: Urls]

LinksTypeOK ==
  /\ links \in [Links -> LinkRow] /\ hitters \in [Hitters -> Hitter]
  /\ meant \in [Links -> Urls] /\ counted \in [Links -> Nat]
  /\ crossedLinks \in BOOLEAN

\* A link that is not live has no hits, and the url it was entered with.
Untouched ==
  ~crossedLinks => \A l \in Links : links[l].hits = counted[l] /\ links[l].url = meant[l]

\* The inductive invariant.
LinksIInv == LinksTypeOK /\ CodeNamesOneLink /\ Untouched

\* Every draw, insert, edit and step of a hit keeps codes and counters right.
LEMMA LinksStep ==
  ASSUME LinksIInv, [LinksNext]_linkVars
  PROVE  LinksIInv'
<1> USE LinksAssumption DEF LinksIInv
<1>1. ASSUME NEW l \in Links, NEW code \in Codes, DrawCode(l, code) PROVE LinksIInv'
  <2>1. LinksTypeOK'
    <3> DEFINE stage == IF links[l].draws < Draws THEN "look" ELSE "insert"
               row == [links[l] EXCEPT !.code = code, !.draws = links[l].draws + 1, !.stage = stage]
    <3>1. links[l] \in LinkRow /\ stage \in {"look", "insert"}
      BY DEF LinksTypeOK
    <3>2. links' = [links EXCEPT ![l] = row]
      BY <1>1 DEF DrawCode
    <3> HIDE DEF stage
    <3>3. row \in LinkRow
      <4>1. links[l].draws + 1 \in Nat
        BY <3>1 DEF LinkRow
      <4>2. ASSUME NEW d \in Nat
            PROVE  [links[l] EXCEPT !.code = code, !.draws = d, !.stage = stage] \in LinkRow
        BY <3>1 DEF LinkRow
      <4> QED
        BY <4>1, <4>2
    <3> HIDE DEF row
    <3>4. links' \in [Links -> LinkRow]
      BY <3>2, <3>3 DEF LinksTypeOK
    <3> QED
      BY <1>1, <3>4 DEF DrawCode, LinksTypeOK
  <2>2. LiveLinks' = LiveLinks /\ \A k \in LiveLinks : links'[k] = links[k]
    BY <1>1 DEF DrawCode, LiveLinks, LinksTypeOK, LinkRow
  <2>3. CodeNamesOneLink'
    BY <2>2 DEF CodeNamesOneLink
  <2>4. Untouched'
    BY <1>1 DEF DrawCode, Untouched, LinksTypeOK, LinkRow
  <2> QED
    BY <2>1, <2>3, <2>4
<1>2. ASSUME NEW l \in Links, LookUpCode(l) PROVE LinksIInv'
  <2>1. LinksTypeOK'
    BY <1>2 DEF LookUpCode, LinksTypeOK, LinkRow
  <2>2. LiveLinks' = LiveLinks /\ \A k \in LiveLinks : links'[k] = links[k]
    BY <1>2 DEF LookUpCode, LiveLinks, LinksTypeOK, LinkRow
  <2>3. CodeNamesOneLink'
    BY <2>2 DEF CodeNamesOneLink
  <2>4. Untouched'
    BY <1>2 DEF LookUpCode, Untouched, LinksTypeOK, LinkRow
  <2> QED
    BY <2>1, <2>3, <2>4
<1>3. ASSUME NEW l \in Links, InsertLink(l) PROVE LinksIInv'
  <2>1. LinksTypeOK'
    BY <1>3 DEF InsertLink, LinksTypeOK, LinkRow
  <2>2. \A k \in Links : links'[k].code = links[k].code
    BY <1>3 DEF InsertLink, LinksTypeOK, LinkRow
  <2>3. \A k \in LiveLinks' : k \in LiveLinks \/ (k = l /\ links[l].code \notin CodesInUse)
    BY <1>3 DEF InsertLink, LiveLinks, LinksTypeOK, LinkRow, CodeFree
  <2>4. CodeNamesOneLink'
    BY <2>2, <2>3 DEF CodeNamesOneLink, CodesInUse, LiveLinks
  <2>5. Untouched'
    BY <1>3 DEF InsertLink, Untouched, LinksTypeOK, LinkRow
  <2> QED
    BY <2>1, <2>4, <2>5
<1>4. ASSUME NEW l \in Links, NEW url \in Urls, EditLink(l, url) PROVE LinksIInv'
  <2>1. LinksTypeOK'
    BY <1>4 DEF EditLink, LinksTypeOK, LinkRow
  <2>2. LiveLinks' = LiveLinks /\ \A k \in Links : links'[k].code = links[k].code
    BY <1>4 DEF EditLink, LiveLinks, LinksTypeOK, LinkRow
  <2>3. CodeNamesOneLink'
    BY <2>2 DEF CodeNamesOneLink, LiveLinks
  <2>4. Untouched'
    BY <1>4 DEF EditLink, Untouched, LinksTypeOK, LinkRow
  <2> QED
    BY <2>1, <2>3, <2>4
<1>5. ASSUME NEW h \in Hitters, FindLink(h) \/ ReadLink(h) PROVE LinksIInv'
  <2>1. hitters' \in [Hitters -> Hitter]
    <3>1. CASE FindLink(h)
      BY <3>1 DEF FindLink, LinksTypeOK, LinkRow, Hitter, Version, LiveLinks
    <3>2. CASE ReadLink(h)
      <4>1. hitters[h] \in [stage: {"found", "read"}, link: Links, target: Urls, hits: Nat,
                            base: [url: Urls, hits: Nat]]
        BY <3>2 DEF ReadLink, LinksTypeOK, Hitter, IdleHit
      <4>2. Version(hitters[h].link) \in [url: Urls, hits: Nat]
        BY <4>1 DEF LinksTypeOK, LinkRow, Version
      <4>3. [hitters[h] EXCEPT !.stage = "read", !.base = Version(hitters[h].link)] \in Hitter
        BY <4>1, <4>2 DEF Hitter
      <4> QED
        BY <3>2, <4>3 DEF ReadLink, LinksTypeOK
    <3> QED
      BY <1>5, <3>1, <3>2
  <2>2. UNCHANGED <<links, meant, counted, crossedLinks>>
    BY <1>5 DEF FindLink, ReadLink
  <2> QED
    BY <2>1, <2>2 DEF LinksTypeOK, CodeNamesOneLink, Untouched, LiveLinks
<1>6. ASSUME NEW h \in Hitters, WriteHit(h) PROVE LinksIInv'
  <2> DEFINE hit == hitters[h]
  <2>1. hit \in [stage: {"found", "read"}, link: Links, target: Urls, hits: Nat,
                 base: [url: Urls, hits: Nat]]
    BY <1>6 DEF WriteHit, LinksTypeOK, Hitter, IdleHit
  <2>2. hitters' \in [Hitters -> Hitter] /\ meant' = meant
    <3>1. [stage |-> "sent", link |-> hit.link, target |-> hit.target] \in Hitter
      BY <2>1 DEF Hitter
    <3> QED
      BY <1>6, <3>1 DEF WriteHit, LinksTypeOK
  <2>3. CASE UNCHANGED <<links, counted, crossedLinks>>
    BY <2>2, <2>3 DEF LinksTypeOK, CodeNamesOneLink, Untouched, LiveLinks
  <2>4. CASE /\ links' = [links EXCEPT ![hit.link].url = hit.base.url, ![hit.link].hits = hit.hits + 1]
             /\ counted' = [counted EXCEPT ![hit.link] = @ + 1]
             /\ crossedLinks' = (crossedLinks \/ Version(hit.link) # hit.base \/ hit.hits # links[hit.link].hits)
    <3>1. links' \in [Links -> LinkRow] /\ counted' \in [Links -> Nat]
      BY <2>1, <2>4 DEF LinksTypeOK, LinkRow
    <3>2. LinksTypeOK'
      BY <2>2, <2>4, <3>1 DEF LinksTypeOK
    <3>3. \A k \in Links : links'[k].code = links[k].code /\ links'[k].stage = links[k].stage
      BY <2>1, <2>4 DEF LinksTypeOK, LinkRow
    <3>4. CodeNamesOneLink'
      BY <3>3 DEF CodeNamesOneLink, LiveLinks
    <3>5. Untouched'
      <4> SUFFICES ASSUME ~crossedLinks', NEW k \in Links
                   PROVE  links'[k].hits = counted'[k] /\ links'[k].url = meant'[k]
        BY DEF Untouched
      <4>1. ~crossedLinks /\ Version(hit.link) = hit.base /\ hit.hits = links[hit.link].hits
        BY <2>4
      <4>2. links[k].hits = counted[k] /\ links[k].url = meant[k]
        BY <4>1 DEF Untouched
      <4>3. CASE k # hit.link
        BY <2>1, <2>2, <2>4, <4>2, <4>3 DEF LinksTypeOK, LinkRow
      <4>4. CASE k = hit.link
        <5>1. links'[k].hits = hit.hits + 1 /\ links'[k].url = hit.base.url /\ counted'[k] = counted[k] + 1
          BY <2>1, <2>4, <4>4 DEF LinksTypeOK, LinkRow
        <5>2. hit.base.url = links[k].url
          BY <4>1, <4>4 DEF Version
        <5> QED
          BY <2>2, <4>1, <4>2, <4>4, <5>1, <5>2
      <4> QED
        BY <4>3, <4>4
    <3> QED
      BY <3>2, <3>4, <3>5
  <2> QED
    BY <1>6, <2>3, <2>4 DEF WriteHit, Restored
<1>7. CASE UNCHANGED linkVars
  BY <1>7 DEF linkVars, LinksTypeOK, CodeNamesOneLink, Untouched, LiveLinks
<1> QED
  BY <1>1, <1>2, <1>3, <1>4, <1>5, <1>6, <1>7 DEF LinksNext

\* shortUrlRedirect.ts, ShortUrls.ts: a code names one link, and a link keeps its
\* url and its hits as long as no whole-row update crossed another.
THEOREM LinksAreSoundHolds == LinksSpec => []LinksAreSound
<1>1. LinksInit => LinksIInv
  <2> SUFFICES ASSUME LinksInit PROVE LinksIInv
    OBVIOUS
  <2>1. LinksTypeOK
    <3>1. PICK url \in Urls :
            /\ links = [l \in Links |-> [stage |-> "drawing", code |-> 0, url |-> url, hits |-> 0, draws |-> 0]]
            /\ meant = [l \in Links |-> url]
      BY DEF LinksInit
    <3>2. links \in [Links -> LinkRow] /\ meant \in [Links -> Urls]
      BY <3>1 DEF LinkRow
    <3>3. hitters \in [Hitters -> Hitter] /\ counted \in [Links -> Nat] /\ crossedLinks \in BOOLEAN
      BY DEF LinksInit, Hitter
    <3> QED
      BY <3>2, <3>3 DEF LinksTypeOK
  <2>2. LiveLinks = {}
    BY DEF LinksInit, LiveLinks
  <2>3. Untouched
    BY DEF LinksInit, Untouched
  <2> QED
    BY <2>1, <2>2, <2>3 DEF LinksIInv, CodeNamesOneLink
<1>2. LinksIInv /\ [LinksNext]_linkVars => LinksIInv'
  BY LinksStep
<1>3. LinksIInv => LinksAreSound
  BY DEF LinksIInv, LinksAreSound, LinksUndisturbed, Untouched, LiveLinks
<1> QED
  BY <1>1, <1>2, <1>3, PTL DEF LinksSpec

-----------------------------------------------------------------------------
(* The address gate of the administration (IpGate)                         *)

\* The stored rules.
GateTypeOK ==
  /\ ipRules \in [RuleSlots -> IpRule \cup {<<>>}]
  /\ tick \in 0..LastTick /\ guarding \in BOOLEAN

\* ... keep their type.
LEMMA GateTyped == GateSpec => []GateTypeOK
<1>1. GateInit => GateTypeOK
  BY GateAssumption DEF GateInit, GateTypeOK
<1>2. GateTypeOK /\ [GateNext]_gateVars => GateTypeOK'
  <2> SUFFICES ASSUME GateTypeOK, [GateNext]_gateVars PROVE GateTypeOK'
    OBVIOUS
  <2>1. ASSUME NEW s \in RuleSlots, PutRule(s) \/ DropRule(s) PROVE GateTypeOK'
    <3>1. PICK r \in IpRule \cup {<<>>} : ipRules' = [ipRules EXCEPT ![s] = r]
      BY <2>1 DEF PutRule, DropRule
    <3>2. ipRules' \in [RuleSlots -> IpRule \cup {<<>>}]
      BY <3>1 DEF GateTypeOK
    <3> QED
      BY <2>1, <3>2 DEF PutRule, DropRule, GateTypeOK
  <2>2. CASE GateTick \/ SwitchGuard \/ UNCHANGED gateVars
    <3>1. ipRules' = ipRules /\ tick' \in 0..LastTick
      BY <2>2, GateAssumption DEF GateTypeOK, GateTick, SwitchGuard, gateVars
    <3>2. guarding' \in BOOLEAN
      BY <2>2 DEF GateTypeOK, GateTick, SwitchGuard, gateVars
    <3> QED
      BY <3>1, <3>2 DEF GateTypeOK
  <2> QED
    BY <2>1, <2>2 DEF GateNext
<1> QED
  BY <1>1, <1>2, PTL DEF GateSpec

\* Rules in force are rules, and arm the list.
LEMMA RulesInForce ==
  ASSUME GateTypeOK
  PROVE  /\ InForce \subseteq IpRule
         /\ Armed => Given # {}
<1>1. \A s \in Given : ipRules[s] \in IpRule
  BY DEF Given, GateTypeOK
<1> QED
  BY <1>1 DEF InForce, Armed

\* What a client sends in the header does not move the place its address is read from.
LEMMA HeaderCannotLieHolds ==
  ASSUME GateTypeOK
  PROVE  HeaderCannotLie
<1> SUFFICES ASSUME guarding, Hops > 0, Hops = Proxies,
                    NEW sent \in SeqOf(Addresses, 2), NEW client \in Addresses
             PROVE  Admitted(Believed(Forwarded(sent, client)), FALSE) <=> ByRules(client)
  BY DEF HeaderCannotLie
<1> DEFINE peers == [i \in 1..Proxies |-> IF i = 1 THEN client ELSE NoAddress]
           header == Forwarded(sent, client)
<1>1. sent \in Seq(Addresses)
  <2>1. PICK n \in 0..2 : sent \in [1..n -> Addresses]
    BY DEF SeqOf
  <2> QED
    BY <2>1
<1>2. peers \in Seq(Addresses \cup {NoAddress}) /\ Len(peers) = Proxies /\ peers[1] = client
  <2>1. peers \in [1..Proxies -> Addresses \cup {NoAddress}] /\ Proxies \in Nat /\ 1 \in 1..Proxies
    BY GateAssumption
  <2>2. peers[1] = client
    BY <2>1
  <2> HIDE DEF peers
  <2>3. peers \in Seq(Addresses \cup {NoAddress})
    BY <2>1
  <2> QED
    BY <2>1, <2>2, <2>3
<1>3. Len(header) = Len(sent) + Proxies /\ header[Len(sent) + 1] = client
  <2>1. sent \in Seq(Addresses \cup {NoAddress})
    BY <1>1
  <2> HIDE DEF peers
  <2>2. Len(sent \o peers) = Len(sent) + Proxies /\ (sent \o peers)[Len(sent) + 1] = peers[1]
    BY <1>2, <2>1, GateAssumption
  <2> QED
    BY <1>2, <2>2 DEF Forwarded, peers
<1>4. Len(sent) \in Nat
  BY <1>1
<1>5. Believed(header) = client
  BY <1>3, <1>4, GateAssumption DEF Believed
<1> QED
  BY <1>5, GateAssumption DEF Admitted

\* A request without an address passes only where everyone passes.
LEMMA NamelessOnlyIfAllHolds ==
  ASSUME GateTypeOK
  PROVE  NamelessOnlyIfAll
<1> SUFFICES ASSUME guarding, Production, Armed, Admitted(NoAddress, FALSE), NEW a \in Addresses
             PROVE  Admitted(a, FALSE)
  BY DEF NamelessOnlyIfAll
<1>1. Unrestricted
  BY RulesInForce DEF Admitted
<1>2. ByRules(a)
  BY <1>1, GateAssumption DEF Unrestricted, ByRules, Matches, Star
<1> QED
  BY <1>2, GateAssumption DEF Admitted

\* An address no rule names is refused by an armed list.
LEMMA DefaultDenyHolds ==
  ASSUME GateTypeOK
  PROVE  DefaultDeny
BY GateAssumption DEF DefaultDeny, Admitted, ByRules, Matches

\* Another allow rule, or a block rule less, shuts nobody out.
LEMMA WideningKeeps ==
  ASSUME GateTypeOK, GateTypeOK', GateNext, UNCHANGED <<tick, guarding>>, Given # {}, Given' # {},
         NEW s \in RuleSlots, NEW a \in Addresses, Admitted(a, FALSE),
         \/ ipRules[s] = <<>> /\ ipRules'[s] # <<>> /\ ipRules'[s].type = "allow"
         \/ ipRules[s] # <<>> /\ ipRules[s].type = "block" /\ ipRules'[s] = <<>>
  PROVE  Admitted(a, FALSE)'
<1>1. \A g \in RuleSlots \ {s} : ipRules'[g] = ipRules[g]
  BY DEF GateNext, PutRule, DropRule, GateTick, SwitchGuard, GateTypeOK
<1>2. CASE ~guarding
  BY <1>2 DEF Admitted
<1>3. CASE guarding
  <2>1. /\ \A r \in InForce : r.type = "block" => ~Matches(r, a)
        /\ \E r \in InForce : r.type = "allow" /\ Matches(r, a)
    BY <1>3, GateAssumption DEF Admitted, ByRules
  <2>2. \A r \in InForce' : r \in InForce \/ r.type = "allow"
    BY <1>1 DEF InForce, Given
  <2>3. \A r \in InForce : r.type = "allow" => r \in InForce'
    BY <1>1 DEF InForce, Given
  <2>4. \A r \in InForce' : r.type = "block" => ~Matches(r, a)
    BY <2>1, <2>2
  <2>5. \E r \in InForce' : r.type = "allow" /\ Matches(r, a)
    BY <2>1, <2>3
  <2>6. ByRules(a)'
    BY <2>4, <2>5 DEF ByRules, Matches
  <2> QED
    BY <2>6, GateAssumption DEF Admitted
<1> QED
  BY <1>2, <1>3 DEF GateTypeOK

\* adminIpEnforcement.ts, ipAllowlist.ts: the header cannot lie, the default is to
\* deny, and widening the rules keeps everyone who was admitted.
THEOREM OnlyAllowedPassHolds == GateSpec => OnlyAllowedPass
<1>1. GateTypeOK => HeaderCannotLie /\ NamelessOnlyIfAll /\ DefaultDeny
  BY HeaderCannotLieHolds, NamelessOnlyIfAllHolds, DefaultDenyHolds
<1>2. GateTypeOK /\ GateTypeOK' /\ [GateNext]_gateVars
      => [\A s \in RuleSlots, a \in Addresses :
            /\ UNCHANGED <<tick, guarding>> /\ Given # {} /\ Given' # {}
            /\ \/ ipRules[s] = <<>> /\ ipRules'[s] # <<>> /\ ipRules'[s].type = "allow"
               \/ ipRules[s] # <<>> /\ ipRules[s].type = "block" /\ ipRules'[s] = <<>>
            /\ Admitted(a, FALSE)
            => Admitted(a, FALSE)']_gateVars
  BY WideningKeeps
<1> QED
  BY <1>1, <1>2, GateTyped, PTL DEF GateSpec, OnlyAllowedPass, WideningKeepsAll

-----------------------------------------------------------------------------
(* Guide links (GuideBars)                                                 *)

\* What is stored, and what a save carries from its count to its write.
GuideTypeOK ==
  /\ guides \in [Guides -> Guide \cup {<<>>}]
  /\ guideSaves \in [GuideSaves -> {Idle} \cup [stage: {"counted"}, guide: Guides, row: Guide]]
  /\ sideBySide \in BOOLEAN

\* The top links.
Tops == {h \in Guides : guides[h] # <<>> /\ guides[h].position = "top"}

\* Every top link has room, and so does a link that a save is about to put on top.
GuideIInv ==
  /\ GuideTypeOK
  /\ ~sideBySide =>
       /\ \A g \in Tops : Cardinality(Tops \ {g}) < MaxTop
       /\ \A s \in GuideSaves :
            guideSaves[s].stage = "counted" /\ guideSaves[s].row.position = "top" =>
              Cardinality(Tops \ {guideSaves[s].guide}) < MaxTop

\* What a save counts, and the top links without the saved one, are the same.
LEMMA OtherTopsAre ==
  ASSUME NEW g
  PROVE  OtherTops(g) = Tops \ {g}
BY DEF OtherTops, Tops

\* The top links can be counted.
LEMMA TopsFinite == IsFiniteSet(Tops) /\ Cardinality(Tops) \in Nat
<1>1. Tops \in SUBSET Guides
  BY DEF Tops
<1>2. IsFiniteSet(Tops)
  BY <1>1, GuideAssumption, FS_Subset
<1> QED
  BY <1>2, FS_CardinalityType

\* A part of the top links has room where the whole has.
FewerTops(h) ==
  Tops' \ {h} \in SUBSET (Tops \ {h}) /\ Cardinality(Tops \ {h}) < MaxTop => Cardinality(Tops' \ {h}) < MaxTop

\* ... because the links of a subset are no more.
LEMMA FewerTopsAlways ==
  ASSUME NEW h
  PROVE  FewerTops(h)
<1>1. IsFiniteSet(Tops \ {h}) /\ Cardinality(Tops \ {h}) \in Nat
  BY TopsFinite, FS_RemoveElement, FS_CardinalityType
<1>2. ASSUME Tops' \ {h} \in SUBSET (Tops \ {h})
      PROVE  Cardinality(Tops' \ {h}) \in Nat /\ Cardinality(Tops' \ {h}) <= Cardinality(Tops \ {h})
  BY <1>1, <1>2, FS_Subset, FS_CardinalityType
<1> QED
  BY <1>1, <1>2, GuideAssumption DEF FewerTops

\* Every step of a save, a count, a write or a switch keeps the room.
LEMMA GuideStep ==
  ASSUME GuideIInv, [GuideNext]_guideVars
  PROVE  GuideIInv'
<1> USE DEF GuideIInv
<1>0. IsFiniteSet(Tops) /\ Cardinality(Tops) \in Nat /\ MaxTop \in Nat
  BY TopsFinite, GuideAssumption
<1>1. ASSUME NEW s \in GuideSaves, CountTops(s) PROVE GuideIInv'
  <2>1. PICK g \in Guides, row \in Guide :
          /\ row.position = "top" => Cardinality(Tops \ {g}) < MaxTop
          /\ guideSaves' = [guideSaves EXCEPT ![s] = [stage |-> "counted", guide |-> g, row |-> row]]
    BY <1>1, OtherTopsAre DEF CountTops
  <2>2. GuideTypeOK' /\ Tops' = Tops /\ sideBySide' = sideBySide
    BY <1>1, <2>1 DEF CountTops, GuideTypeOK, Tops
  <2>3. \A t \in GuideSaves :
          guideSaves'[t] = IF t = s THEN [stage |-> "counted", guide |-> g, row |-> row] ELSE guideSaves[t]
    BY <2>1 DEF GuideTypeOK
  <2>4. ASSUME ~sideBySide', NEW t \in GuideSaves, guideSaves'[t].stage = "counted",
               guideSaves'[t].row.position = "top"
        PROVE  Cardinality(Tops' \ {guideSaves'[t].guide}) < MaxTop
    <3>1. CASE t = s
      BY <2>1, <2>2, <2>3, <2>4, <3>1
    <3>2. CASE t # s
      BY <2>2, <2>3, <2>4, <3>2
    <3> QED
      BY <3>1, <3>2
  <2>5. ~sideBySide' => \A h \in Tops' : Cardinality(Tops' \ {h}) < MaxTop
    BY <2>2
  <2> QED
    BY <2>2, <2>4, <2>5
<1>2. ASSUME NEW s \in GuideSaves, WriteGuide(s) PROVE GuideIInv'
  <2> DEFINE g == guideSaves[s].guide
             row == guideSaves[s].row
  <2>1. g \in Guides /\ row \in Guide /\ row # <<>> /\ guides' = [guides EXCEPT ![g] = row]
    BY <1>2 DEF WriteGuide, GuideTypeOK, Idle, Guide
  <2>2. GuideTypeOK'
    BY <1>2, <2>1 DEF WriteGuide, GuideTypeOK
  <2>3. ASSUME NEW t \in GuideSaves, ~sideBySide' PROVE guideSaves'[t].stage # "counted"
    BY <1>2, <2>3 DEF WriteGuide, GuideTypeOK, Idle
  <2>4. ASSUME NEW h \in Tops', ~sideBySide' PROVE Cardinality(Tops' \ {h}) < MaxTop
    <3>1. ~sideBySide
      BY <1>2, <2>4 DEF WriteGuide
    <3>2. CASE row.position = "top"
      <4>1. Cardinality(Tops \ {g}) < MaxTop
        BY <1>2, <3>1, <3>2 DEF WriteGuide
      <4>2. Tops' = (Tops \ {g}) \cup {g}
        BY <2>1, <3>2 DEF Tops, GuideTypeOK
      <4> HIDE DEF g
      <4>3. IsFiniteSet(Tops \ {g}) /\ Cardinality(Tops \ {g}) \in Nat
        BY <1>0, FS_RemoveElement, FS_CardinalityType
      <4>4. IsFiniteSet(Tops') /\ Cardinality(Tops') = Cardinality(Tops \ {g}) + 1
        BY <4>2, <4>3, FS_AddElement
      <4>5. Cardinality(Tops' \ {h}) = Cardinality(Tops') - 1
        BY <2>4, <4>4, FS_RemoveElement
      <4> QED
        BY <4>1, <4>3, <4>4, <4>5
    <3>3. CASE row.position # "top"
      <4>1. h \in Tops /\ Tops' \ {h} \in SUBSET (Tops \ {h})
        BY <2>1, <2>4, <3>3 DEF Tops, GuideTypeOK
      <4>2. FewerTops(h)
        BY <4>1, FewerTopsAlways
      <4> QED
        BY <3>1, <4>1, <4>2 DEF FewerTops
    <3> QED
      BY <3>2, <3>3
  <2> QED
    BY <2>2, <2>3, <2>4
<1>3. ASSUME NEW g \in Guides, DropGuide(g) PROVE GuideIInv'
  <2>1. GuideTypeOK' /\ Tops' \subseteq Tops /\ guideSaves' = guideSaves /\ sideBySide' = sideBySide
    BY <1>3 DEF DropGuide, GuideTypeOK, Tops
  <2>2. ASSUME NEW h, Cardinality(Tops \ {h}) < MaxTop PROVE Cardinality(Tops' \ {h}) < MaxTop
    <3>1. Tops' \ {h} \in SUBSET (Tops \ {h})
      BY <2>1
    <3> QED
      BY <2>2, <3>1, FewerTopsAlways DEF FewerTops
  <2> QED
    BY <2>1, <2>2
<1>4. CASE UNCHANGED guideVars
  BY <1>4 DEF guideVars, GuideTypeOK, Tops
<1> QED
  BY <1>1, <1>2, <1>3, <1>4 DEF GuideNext

\* GuideMenus.ts, validateGuideMenu: the top bar is never fuller than the limit
\* unless two saves counted side by side.
THEOREM TopBarHolds == GuideSpec => []TopBarOverfullOnlyByRace
<1>1. GuideInit => GuideIInv
  <2> SUFFICES ASSUME GuideInit PROVE GuideIInv
    OBVIOUS
  <2>1. GuideTypeOK
    BY DEF GuideInit, GuideTypeOK
  <2>2. Tops = {} /\ \A s \in GuideSaves : guideSaves[s].stage # "counted"
    BY DEF GuideInit, Tops, Idle
  <2> QED
    BY <2>1, <2>2 DEF GuideIInv
<1>2. GuideIInv /\ [GuideNext]_guideVars => GuideIInv'
  BY GuideStep
<1>3. GuideIInv => TopBarOverfullOnlyByRace
  <2> SUFFICES ASSUME GuideIInv, ~sideBySide PROVE TopBarOverfullOnlyByRace
    BY DEF TopBarOverfullOnlyByRace
  <2>1. \A g \in Guides : guides[g] # <<>> /\ guides[g].position = "top" => Cardinality(OtherTops(g)) < MaxTop
    BY OtherTopsAre DEF GuideIInv, Tops
  <2>2. Bar("top") \in SUBSET Tops
    BY DEF Bar, Tops
  <2>3. IsFiniteSet(Tops) /\ Cardinality(Tops) \in Nat /\ MaxTop \in Nat
    BY TopsFinite, GuideAssumption
  <2>4. IsFiniteSet(Bar("top")) /\ Cardinality(Bar("top")) <= Cardinality(Tops) /\ Cardinality(Bar("top")) \in Nat
    BY <2>2, <2>3, FS_Subset, FS_CardinalityType
  <2>5. Cardinality(Tops) <= MaxTop
    <3>1. CASE Tops = {}
      BY <2>3, <3>1, FS_EmptySet
    <3>2. CASE Tops # {}
      <4>1. PICK g \in Tops : TRUE
        BY <3>2
      <4>2. Cardinality(Tops \ {g}) < MaxTop
        BY <4>1, OtherTopsAre DEF GuideIInv
      <4>3. Cardinality(Tops \ {g}) = Cardinality(Tops) - 1
        BY <2>3, <4>1, FS_RemoveElement
      <4> QED
        BY <2>3, <4>2, <4>3
    <3> QED
      BY <3>1, <3>2
  <2>6. Cardinality(Bar("top")) <= MaxTop
    BY <2>3, <2>4, <2>5
  <2> QED
    BY <2>1, <2>6 DEF TopBarOverfullOnlyByRace
<1> QED
  BY <1>1, <1>2, <1>3, PTL DEF GuideSpec

-----------------------------------------------------------------------------
(* Display items (Display)                                                 *)

\* Rows, copy, pages and what the browsers remember have their type.
DisplayTypeOK ==
  /\ items \in [Items -> Item \cup {<<>>}] /\ held \in [Items -> Item \cup {<<>>}]
  /\ hour \in 0..LastHour
  /\ page \in [Tabs -> [popups: SUBSET Items, forDay: SUBSET Items]]
  /\ until \in [Items -> Nat]
  /\ shutIn \in [Tabs -> SUBSET Items]
  /\ edited \subseteq Items
  /\ closedAt \in [Items -> 0..LastHour + 1]

\* The copy is right about every row nobody edited.
CopyIsFresh == \A i \in Items \ edited : held[i] = items[i]

\* The browser remembers the last closing for a day, and nothing else.
UntilIsADay ==
  \A i \in Items : until[i] = IF closedAt[i] <= LastHour THEN closedAt[i] + Day ELSE 0

\* The inductive invariant.
DisplayIInv == DisplayTypeOK /\ CopyIsFresh /\ UntilIsADay

\* Every edit, copy, page load, click and hour keeps the copy and the closings right.
LEMMA DisplayStep ==
  ASSUME DisplayIInv, [DisplayNext]_displayVars
  PROVE  DisplayIInv'
<1> USE DisplayAssumption DEF DisplayIInv
<1>0. Active \in SUBSET Items /\ \A i \in Items : {i} \in SUBSET Items
  BY DEF Active
<1>1. ASSUME NEW i \in Items, PutItem(i) PROVE DisplayIInv'
  <2>1. PICK row \in Item \cup {<<>>} : items' = [items EXCEPT ![i] = row]
    BY <1>1 DEF PutItem
  <2>2. DisplayTypeOK'
    BY <1>1, <2>1 DEF PutItem, DisplayTypeOK
  <2>3. CopyIsFresh'
    BY <1>1, <2>1 DEF PutItem, CopyIsFresh, DisplayTypeOK
  <2>4. UntilIsADay'
    BY <1>1 DEF PutItem, UntilIsADay
  <2> QED
    BY <2>2, <2>3, <2>4
<1>2. CASE CopyItems
  BY <1>2 DEF CopyItems, Copied, DisplayTypeOK, CopyIsFresh, UntilIsADay
<1>3. CASE HourPasses
  BY <1>3 DEF HourPasses, DisplayTypeOK, CopyIsFresh, UntilIsADay
<1>4. ASSUME NEW t \in Tabs, LoadPage(t) \/ FollowLink(t) PROVE DisplayIInv'
  <2>1. {i \in Active : held[i].closeForDay} \in SUBSET Items
    BY <1>0
  <2>2. page' \in [Tabs -> [popups: SUBSET Items, forDay: SUBSET Items]]
    <3> DEFINE shown == [popups |-> Active, forDay |-> {i \in Active : held[i].closeForDay}]
    <3>1. shown \in [popups: SUBSET Items, forDay: SUBSET Items]
      BY <1>0, <2>1
    <3>2. page' = [page EXCEPT ![t] = shown]
      BY <1>4 DEF LoadPage, FollowLink
    <3> HIDE DEF shown
    <3> QED
      BY <3>1, <3>2 DEF DisplayTypeOK
  <2>3. shutIn' \in [Tabs -> SUBSET Items]
    BY <1>4 DEF LoadPage, FollowLink, DisplayTypeOK
  <2> QED
    BY <1>4, <2>2, <2>3 DEF LoadPage, FollowLink, DisplayTypeOK, CopyIsFresh, UntilIsADay
<1>5. ASSUME NEW t \in Tabs, NEW i \in Items, NEW stores \in BOOLEAN, ClosePopup(t, i, stores)
      PROVE  DisplayIInv'
  <2>1. shutIn' \in [Tabs -> SUBSET Items]
    BY <1>5 DEF ClosePopup, DisplayTypeOK
  <2>2. CASE i \in page[t].forDay /\ stores
    <3>1. until' = [until EXCEPT ![i] = hour + Day] /\ closedAt' = [closedAt EXCEPT ![i] = hour]
      BY <1>5, <2>2 DEF ClosePopup, Until
    <3>2. DisplayTypeOK'
      BY <1>5, <2>1, <3>1 DEF ClosePopup, DisplayTypeOK
    <3>3. UntilIsADay'
      BY <3>1 DEF DisplayTypeOK, UntilIsADay
    <3> QED
      BY <1>5, <3>2, <3>3 DEF ClosePopup, CopyIsFresh
  <2>3. CASE ~(i \in page[t].forDay /\ stores)
    BY <1>5, <2>1, <2>3 DEF ClosePopup, DisplayTypeOK, CopyIsFresh, UntilIsADay
  <2> QED
    BY <2>2, <2>3
<1>6. CASE UNCHANGED displayVars
  BY <1>6 DEF displayVars, DisplayTypeOK, CopyIsFresh, UntilIsADay
<1> QED
  BY <1>1, <1>2, <1>3, <1>4, <1>5, <1>6 DEF DisplayNext

\* site/rsc.ts, PopupLayer.tsx: a display item is seen exactly inside its window,
\* whatever the age of the copy, and again a day after the visitor closed it.
THEOREM ShownWhenDueHolds == DisplaySpec => []ShownWhenDue
<1>1. DisplayInit => DisplayIInv
  BY DisplayAssumption DEF DisplayInit, DisplayIInv, DisplayTypeOK, CopyIsFresh, UntilIsADay
<1>2. DisplayIInv /\ [DisplayNext]_displayVars => DisplayIInv'
  BY DisplayStep
<1>3. DisplayIInv => ShownWhenDue
  <2> SUFFICES ASSUME DisplayIInv PROVE ShownWhenDue
    OBVIOUS
  <2>1. ShownExactlyInWindow
    BY DEF DisplayIInv, CopyIsFresh, ShownExactlyInWindow, Active
  <2>2. ClosedForOneDay
    BY DisplayAssumption DEF DisplayIInv, DisplayTypeOK, UntilIsADay, ClosedForOneDay, Visible
  <2> QED
    BY <2>1, <2>2 DEF ShownWhenDue
<1> QED
  BY <1>1, <1>2, <1>3, PTL DEF DisplaySpec

-----------------------------------------------------------------------------
(* Numbers without a sequence (SerialIds)                                  *)

\* The largest of some numbers is one of them and at least as large as any.
LEMMA LargestIsThere ==
  ASSUME NEW n \in Nat, NEW S \in SUBSET (0..n), S # {}
  PROVE  Max(S) \in S /\ \A w \in S : w <= Max(S)
<1> DEFINE T == {n - v : v \in S}
<1>0. \A v \in S : v \in Nat /\ v <= n
  OBVIOUS
<1>1. T \subseteq Nat /\ T # {}
  <2>1. \A v \in S : n - v \in Nat
    BY <1>0
  <2> QED
    BY <2>1
<1>2. PICK x \in T : \A y \in T : <<y, x>> \notin OpToRel(<, Nat)
  BY <1>1, WFMin, NatLessThanWellFounded
<1>3. \A y \in T : ~(y < x)
  BY <1>1, <1>2 DEF OpToRel
<1>4. \E v \in S : \A w \in S : v >= w
  <2>1. PICK v \in S : x = n - v
    OBVIOUS
  <2>2. ASSUME NEW w \in S PROVE v >= w
    <3>1. n - w \in T
      OBVIOUS
    <3>2. ~(n - w < n - v)
      BY <1>3, <2>1, <3>1
    <3> HIDE DEF T
    <3> QED
      BY <1>0, <3>2
  <2> QED
    BY <2>1, <2>2
<1>5. Max(S) \in S /\ \A w \in S : Max(S) >= w
  BY <1>4 DEF Max
<1> QED
  BY <1>0, <1>5

\* Numbers, creates and which of them were overtaken.
SerialTypeOK ==
  /\ numbered \in [Creates -> 0..LastNumber]
  /\ creating \in [Creates -> [stage: {"new", "computed", "pinned", "made", "refused"}, no: 0..LastNumber]]
  /\ overtaken \in [Creates -> BOOLEAN]

\* The number of a create that nobody overtook is larger than every number in use.
ComputedAreAhead ==
  \A c \in Creates :
    /\ creating[c].stage \in {"computed", "pinned"} => creating[c].no # 0
    /\ creating[c].stage = "computed" /\ ~overtaken[c] => \A n \in InUse : n < creating[c].no

\* The inductive invariant.
SerialIInv == SerialTypeOK /\ ComputedAreAhead /\ NumbersUnique /\ RefusedOnlyByRace

\* Every step of a create or a delete keeps the numbers apart.
LEMMA SerialStep ==
  ASSUME SerialIInv, NEW c \in Creates,
         \/ ComputeNumber(c) \/ PinNumber(c) \/ InsertNumbered(c) \/ RefuseCreate(c)
         \/ RetryCreate(c) \/ DeleteNumbered(c)
  PROVE  SerialIInv'
<1> USE SerialAssumption DEF SerialIInv
<1>0. InUse \in SUBSET (1..LastNumber) /\ \A n \in InUse : n \in 1..LastNumber
  BY DEF InUse, SerialTypeOK
<1>1. CASE ComputeNumber(c)
  <2>1. NextSerial \in 1..LastNumber /\ \A n \in InUse : n < NextSerial
    <3>1. InUse \cup {0} \in SUBSET (0..LastNumber) /\ InUse \cup {0} # {}
      BY <1>0
    <3>2. Max(InUse \cup {0}) \in InUse \cup {0} /\ \A w \in InUse \cup {0} : w <= Max(InUse \cup {0})
      BY <3>1, LargestIsThere
    <3>3. Max(InUse \cup {0}) \in Nat
      <4>1. \A n \in InUse \cup {0} : n \in Nat
        BY <1>0
      <4> QED
        BY <3>2, <4>1
    <3>4. NextSerial = Max(InUse \cup {0}) + 1 /\ NextSerial <= LastNumber
      BY <1>1 DEF ComputeNumber, NextSerial
    <3>5. \A n \in InUse : n \in Nat
      BY <1>0
    <3> QED
      BY <3>2, <3>3, <3>4, <3>5
  <2>2. \A d \in Creates : creating'[d] = IF d = c THEN [stage |-> "computed", no |-> NextSerial] ELSE creating[d]
    BY <1>1 DEF ComputeNumber, SerialTypeOK
  <2>3. SerialTypeOK'
    BY <1>1, <2>1 DEF ComputeNumber, SerialTypeOK
  <2>4. InUse' = InUse /\ numbered' = numbered /\ overtaken' = overtaken
    BY <1>1 DEF ComputeNumber, InUse
  <2> QED
    BY <2>1, <2>2, <2>3, <2>4 DEF ComputedAreAhead, NumbersUnique, RefusedOnlyByRace
<1>2. CASE PinNumber(c)
  <2>1. PICK n \in 1..LastNumber : creating' = [creating EXCEPT ![c] = [stage |-> "pinned", no |-> n]]
    BY <1>2 DEF PinNumber
  <2>2. \A d \in Creates : creating'[d] = IF d = c THEN [stage |-> "pinned", no |-> n] ELSE creating[d]
    BY <2>1 DEF SerialTypeOK
  <2>3. SerialTypeOK'
    BY <1>2, <2>1 DEF PinNumber, SerialTypeOK
  <2>4. InUse' = InUse /\ numbered' = numbered /\ overtaken' = overtaken
    BY <1>2 DEF PinNumber, InUse
  <2> QED
    BY <2>1, <2>2, <2>3, <2>4 DEF ComputedAreAhead, NumbersUnique, RefusedOnlyByRace
<1>3. CASE InsertNumbered(c)
  <2>1. /\ creating[c].no \notin InUse /\ creating[c].no \in 1..LastNumber
        /\ creating[c].stage \in {"computed", "pinned"}
    BY <1>3 DEF InsertNumbered, Free, ComputedAreAhead, SerialTypeOK
  <2>2. \A d \in Creates :
          /\ numbered'[d] = IF d = c THEN creating[c].no ELSE numbered[d]
          /\ creating'[d].stage = IF d = c THEN "made" ELSE creating[d].stage
          /\ creating'[d].no = creating[d].no
          /\ overtaken'[d] = (overtaken[d] \/ (d # c /\ creating[d].stage = "computed"))
    BY <1>3 DEF InsertNumbered, SerialTypeOK
  <2>3. SerialTypeOK'
    BY <1>3, <2>1 DEF InsertNumbered, SerialTypeOK
  <2>4. NumbersUnique'
    BY <2>1, <2>2 DEF NumbersUnique, InUse
  <2>5. ComputedAreAhead'
    BY <2>2 DEF ComputedAreAhead
  <2>6. RefusedOnlyByRace'
    BY <2>2 DEF RefusedOnlyByRace
  <2> QED
    BY <2>3, <2>4, <2>5, <2>6
<1>4. CASE RefuseCreate(c)
  <2>1. \A d \in Creates :
          /\ creating'[d].no = creating[d].no
          /\ creating'[d].stage = IF d # c THEN creating[d].stage
                                  ELSE IF creating[c].stage = "computed" THEN "refused" ELSE "new"
    BY <1>4 DEF RefuseCreate, SerialTypeOK
  <2>2. SerialTypeOK'
    BY <1>4 DEF RefuseCreate, SerialTypeOK
  <2>3. InUse' = InUse /\ numbered' = numbered /\ overtaken' = overtaken
    BY <1>4 DEF RefuseCreate, InUse
  <2>4. creating[c].stage = "computed" => overtaken[c]
    <3>1. creating[c].no \in InUse /\ ~(creating[c].no < creating[c].no)
      BY <1>0, <1>4 DEF RefuseCreate
    <3> QED
      BY <3>1 DEF ComputedAreAhead
  <2> QED
    BY <2>1, <2>2, <2>3, <2>4 DEF ComputedAreAhead, NumbersUnique, RefusedOnlyByRace
<1>5. CASE RetryCreate(c)
  <2>1. \A d \in Creates :
          /\ creating'[d].no = creating[d].no
          /\ creating'[d].stage = IF d = c THEN "new" ELSE creating[d].stage
          /\ overtaken'[d] = IF d = c THEN FALSE ELSE overtaken[d]
    BY <1>5 DEF RetryCreate, SerialTypeOK
  <2>2. SerialTypeOK'
    BY <1>5 DEF RetryCreate, SerialTypeOK
  <2>3. InUse' = InUse /\ numbered' = numbered
    BY <1>5 DEF RetryCreate, InUse
  <2> QED
    BY <2>1, <2>2, <2>3 DEF ComputedAreAhead, NumbersUnique, RefusedOnlyByRace
<1>6. CASE DeleteNumbered(c)
  <2>1. \A d \in Creates :
          /\ numbered'[d] = IF d = c THEN 0 ELSE numbered[d]
          /\ d # c => creating'[d] = creating[d] /\ overtaken'[d] = overtaken[d]
          /\ creating'[c].stage = "new"
    BY <1>6 DEF DeleteNumbered, SerialTypeOK
  <2>2. SerialTypeOK'
    BY <1>6 DEF DeleteNumbered, SerialTypeOK
  <2>3. InUse' \subseteq InUse
    BY <2>1 DEF InUse
  <2>4. ComputedAreAhead'
    BY <2>1, <2>3 DEF ComputedAreAhead
  <2>5. NumbersUnique'
    BY <2>1 DEF NumbersUnique
  <2>6. RefusedOnlyByRace'
    BY <2>1 DEF RefusedOnlyByRace
  <2> QED
    BY <2>2, <2>4, <2>5, <2>6
<1> QED
  BY <1>1, <1>2, <1>3, <1>4, <1>5, <1>6

\* fields/defaults.ts: numbers are unique, refused only where creates raced, and
\* given out again only from the top.
THEOREM NumbersAreSoundHolds == SerialSpec => NumbersAreSound
<1>1. SerialInit => SerialIInv
  BY SerialAssumption DEF SerialInit, SerialIInv, SerialTypeOK, ComputedAreAhead, NumbersUnique, RefusedOnlyByRace
<1>2. SerialIInv /\ [SerialNext]_serialVars => SerialIInv'
  <2>1. CASE UNCHANGED serialVars
    BY <2>1 DEF serialVars, SerialIInv, SerialTypeOK, ComputedAreAhead, NumbersUnique, RefusedOnlyByRace, InUse
  <2> QED
    BY <2>1, SerialStep DEF SerialNext
<1>3. SerialIInv /\ [SerialNext]_serialVars
      => [\A c \in Creates :
            /\ InsertNumbered(c) /\ creating[c].stage = "computed" /\ ~overtaken[c] /\ creating[c].no \in freed
            => \A n \in InUse : n < creating[c].no]_serialVars
  BY DEF SerialIInv, ComputedAreAhead
<1>4. SerialIInv => NumbersUnique /\ RefusedOnlyByRace
  BY DEF SerialIInv
<1> QED
  BY <1>1, <1>2, <1>3, <1>4, PTL DEF SerialSpec, NumbersAreSound, ReusedOnlyFromTheTop

-----------------------------------------------------------------------------
(* The files of a post (PostFiles).  Rows that are stored, or about to be,   *)
(* have files and numbers of their own; a form in flight keeps the counters  *)
(* of the rows it has loaded.                                                *)

\* Rows in order: no file twice, no number twice, all numbers positive.
DistinctFiles(rows) == \A i, j \in DOMAIN rows : rows[i].file = rows[j].file => i = j
DistinctNumbers(rows) ==
  \A i, j \in DOMAIN rows : rows[i].sn > 0 /\ (rows[i].sn = rows[j].sn => i = j)
Sound(rows) == rows \in Seq(Row) /\ DistinctFiles(rows) /\ DistinctNumbers(rows)

\* The files that were there before show the counts they had.
Continues(rows, base) ==
  \A i \in DOMAIN rows :
    rows[i].file \in FilesOf(base) =>
      \E j \in DOMAIN base : base[j].file = rows[i].file /\ base[j].count = rows[i].count

\* The numbers of finitely many rows are finitely many.
LEMMA NumbersFinite ==
  ASSUME NEW rows \in Seq(Row)
  PROVE  IsFiniteSet(Numbers(rows)) /\ Numbers(rows) \subseteq Nat
<1>1. rows \in [1..Len(rows) -> Row] /\ Len(rows) \in Nat
  BY LenProperties
<1>2. Numbers(rows) \subseteq Nat
  BY <1>1 DEF Numbers, Row
<1>3. IsFiniteSet(1..Len(rows))
  BY <1>1, FS_Interval
<1>. DEFINE f == [i \in 1..Len(rows) |-> rows[i].sn]
<1>4. f \in Surjection(1..Len(rows), Numbers(rows))
  BY <1>1 DEF Surjection, Numbers
<1>. QED
  BY <1>1, <1>2, <1>3, <1>4, FS_Surjection

\* The lowest free number is free and positive (the loop over fileSn).
LEMMA LowestIsFree ==
  ASSUME NEW used, IsFiniteSet(used), used \subseteq Nat
  PROVE  LowestFree(used) \in Nat /\ LowestFree(used) > 0 /\ LowestFree(used) \notin used
<1>. DEFINE c == Cardinality(used)
            bad == {n \in Nat : n > 0 /\ n \notin used}
<1>1. c \in Nat
  BY FS_CardinalityType
<1>2. bad # {}
  <2>. SUFFICES ASSUME bad = {} PROVE FALSE
    OBVIOUS
  <2>1. 1..(c + 1) \subseteq used
    BY <1>1
  <2>2. Cardinality(1..(c + 1)) <= c
    BY <2>1, FS_Subset
  <2>3. Cardinality(1..(c + 1)) = c + 1
    BY <1>1, FS_Interval
  <2>. QED
    BY <1>1, <2>2, <2>3
<1>3. PICK n \in bad : \A m \in bad : ~(m < n)
  <2>1. bad \in SUBSET Nat
    OBVIOUS
  <2>. HIDE DEF bad
  <2>. QED
    BY <1>2, <2>1, SmallestNat
<1>4. n \in Nat /\ n > 0 /\ n \notin used /\ \A k \in 1..(n - 1) : k \in used
  BY <1>3
<1>5. n <= c + 1
  <2>1. 1..(n - 1) \subseteq used /\ n - 1 \in Nat
    BY <1>4
  <2>2. Cardinality(1..(n - 1)) <= c
    BY <2>1, FS_Subset
  <2>3. Cardinality(1..(n - 1)) = n - 1
    BY <2>1, FS_Interval
  <2>. QED
    BY <1>1, <1>4, <2>2, <2>3
<1>6. n \in 1..(c + 1)
  BY <1>1, <1>4, <1>5
<1>7. \E m \in 1..(c + 1) : m \notin used /\ \A k \in 1..(m - 1) : k \in used
  BY <1>4, <1>6
<1>8. LowestFree(used) \in 1..(c + 1) /\ LowestFree(used) \notin used
  BY <1>7 DEF LowestFree
<1>. QED
  BY <1>1, <1>8

\* A row that is numbered keeps its file and its counter, and its number is not used.
LEMMA NumberIsNew ==
  ASSUME NEW r \in Row, NEW used, IsFiniteSet(used), used \subseteq Nat
  PROVE  /\ WithNumber(r, used) \in Row /\ WithNumber(r, used).sn > 0
         /\ WithNumber(r, used).sn \notin used
         /\ WithNumber(r, used).file = r.file /\ WithNumber(r, used).count = r.count
BY LowestIsFree DEF WithNumber, Keeps, Row

\* The recursion behind Numbered, up to row k.
IsNumbering(w, rows, k) ==
  w = [n \in 0..k |->
         IF n = 0 THEN <<>>
         ELSE Append(w[n - 1], WithNumber(rows[n], Numbers(w[n - 1])))]

\* Numbering a whole list is the last of the numberings up to each row
\* (assignAttachmentSerials).
LEMMA NumberedIs ==
  ASSUME NEW rows
  PROVE  Numbered(rows) = (CHOOSE w : IsNumbering(w, rows, Len(rows)))[Len(rows)]
BY DEF Numbered, IsNumbering

\* There is a numbering up to each row.
LEMMA NumberingExists ==
  ASSUME NEW rows, NEW n \in Nat
  PROVE  \E w : IsNumbering(w, rows, n)
<1>. DEFINE bad == {k \in Nat : ~\E w : IsNumbering(w, rows, k)}
<1>. SUFFICES ASSUME bad # {} PROVE FALSE
  OBVIOUS
<1>1. PICK k \in bad : \A m \in bad : ~(m < k)
  <2>1. bad \in SUBSET Nat
    OBVIOUS
  <2>. HIDE DEF bad
  <2>. QED
    BY <2>1, SmallestNat
<1>2. k \in Nat /\ ~\E w : IsNumbering(w, rows, k)
  OBVIOUS
<1>3. CASE k = 0
  <2>. DEFINE w == [m \in 0..0 |-> <<>>]
  <2>1. IsNumbering(w, rows, 0)
    BY DEF IsNumbering
  <2>. QED
    BY <1>2, <1>3, <2>1
<1>4. CASE k # 0
  <2>1. k - 1 \in Nat /\ k - 1 \notin bad
    BY <1>1, <1>2, <1>4
  <2>2. PICK w : IsNumbering(w, rows, k - 1)
    BY <2>1
  <2>. DEFINE x == [m \in 0..k |->
                 IF m = k THEN Append(w[k - 1], WithNumber(rows[k], Numbers(w[k - 1]))) ELSE w[m]]
  <2>3. \A m \in 0..(k - 1) :
          w[m] = IF m = 0 THEN <<>> ELSE Append(w[m - 1], WithNumber(rows[m], Numbers(w[m - 1])))
    BY <2>1, <2>2 DEF IsNumbering
  <2>4. \A m \in 0..k :
          x[m] = IF m = 0 THEN <<>> ELSE Append(x[m - 1], WithNumber(rows[m], Numbers(x[m - 1])))
    <3>. TAKE m \in 0..k
    <3>1. CASE m = k
      <4>1. x[k] = Append(w[k - 1], WithNumber(rows[k], Numbers(w[k - 1]))) /\ x[k - 1] = w[k - 1]
        BY <1>2, <1>4
      <4>. QED
        BY <1>4, <3>1, <4>1
    <3>2. CASE m # k
      <4>1. m \in 0..(k - 1) /\ (m # 0 => m - 1 \in 0..k /\ m - 1 # k)
        BY <1>2, <3>2
      <4>2. x[m] = w[m] /\ (m # 0 => x[m - 1] = w[m - 1])
        BY <3>2, <4>1
      <4>. QED
        BY <2>3, <4>1, <4>2
    <3>. QED
      BY <3>1, <3>2
  <2>5. x = [m \in 0..k |-> x[m]]
    OBVIOUS
  <2>. HIDE DEF x
  <2>6. IsNumbering(x, rows, k)
    BY <2>4, <2>5 DEF IsNumbering
  <2>. QED
    BY <1>2, <2>6
<1>. QED
  BY <1>3, <1>4

\* Numbering leaves files and counters alone and gives each row a number of its own,
\* whatever numbers the form sent (validatePostAgainstBoard).
LEMMA NumberedIsSound ==
  ASSUME NEW rows \in Seq(Row)
  PROVE  /\ Numbered(rows) \in Seq(Row) /\ Len(Numbered(rows)) = Len(rows)
         /\ DistinctNumbers(Numbered(rows))
         /\ \A i \in 1..Len(rows) : /\ Numbered(rows)[i].file = rows[i].file
                                    /\ Numbered(rows)[i].count = rows[i].count
<1>1. Len(rows) \in Nat /\ rows \in [1..Len(rows) -> Row]
  BY LenProperties
<1>. DEFINE w == CHOOSE w : IsNumbering(w, rows, Len(rows))
            Right(n) ==
              /\ w[n] \in Seq(Row) /\ Len(w[n]) = n
              /\ \A i \in 1..n : /\ w[n][i].sn > 0
                                 /\ w[n][i].file = rows[i].file /\ w[n][i].count = rows[i].count
              /\ \A i, j \in 1..n : w[n][i].sn = w[n][j].sn => i = j
            bad == {n \in 0..Len(rows) : ~Right(n)}
<1>2. IsNumbering(w, rows, Len(rows))
  BY <1>1, NumberingExists
<1>3. Numbered(rows) = w[Len(rows)]
  BY NumberedIs
<1>. HIDE DEF w
<1>4. w[0] = <<>> /\ \A n \in 1..Len(rows) :
                       w[n] = Append(w[n - 1], WithNumber(rows[n], Numbers(w[n - 1])))
  <2>1. \A n \in 0..Len(rows) :
          w[n] = IF n = 0 THEN <<>> ELSE Append(w[n - 1], WithNumber(rows[n], Numbers(w[n - 1])))
    BY <1>2 DEF IsNumbering
  <2>2. 0 \in 0..Len(rows) /\ \A n \in 1..Len(rows) : n \in 0..Len(rows) /\ n # 0
    BY <1>1
  <2>. QED
    BY <2>1, <2>2
<1>5. bad = {}
  <2>. SUFFICES ASSUME bad # {} PROVE FALSE
    OBVIOUS
  <2>1. PICK n \in bad : \A m \in bad : ~(m < n)
    <3>1. bad \in SUBSET Nat
      BY <1>1
    <3>. HIDE DEF bad
    <3>. QED
      BY <3>1, SmallestNat
  <2>2. n \in 0..Len(rows) /\ ~Right(n)
    OBVIOUS
  <2>3. CASE n = 0
    <3>1. w[0] \in Seq(Row) /\ Len(w[0]) = 0
      BY <1>4, EmptySeq
    <3>. QED
      BY <2>2, <2>3, <3>1
  <2>4. CASE n # 0
    <3>1. n - 1 \in 0..Len(rows) /\ n \in 1..Len(rows) /\ Right(n - 1)
      BY <1>1, <2>1, <2>2, <2>4
    <3>. DEFINE u == w[n - 1]
                r == WithNumber(rows[n], Numbers(u))
    <3>2. u \in Seq(Row) /\ Len(u) = n - 1 /\ n \in Nat
      BY <1>1, <3>1
    <3>3. IsFiniteSet(Numbers(u)) /\ Numbers(u) \subseteq Nat
      BY <3>2, NumbersFinite
    <3>4. r \in Row /\ r.sn > 0 /\ r.sn \notin Numbers(u)
          /\ r.file = rows[n].file /\ r.count = rows[n].count
      BY <1>1, <3>1, <3>3, NumberIsNew
    <3>5. w[n] = Append(u, r)
      BY <1>4, <3>1
    <3>6. \A i \in 1..(n - 1) : /\ u[i].sn > 0
                                 /\ u[i].file = rows[i].file /\ u[i].count = rows[i].count
      BY <3>1
    <3>7. \A i, j \in 1..(n - 1) : u[i].sn = u[j].sn => i = j
      BY <3>1
    <3>8. \A i \in 1..(n - 1) : u[i].sn \in Numbers(u)
      BY <3>2, LenProperties DEF Numbers
    <3>. HIDE DEF u, r
    <3>9. /\ w[n] \in Seq(Row) /\ Len(w[n]) = n
          /\ \A i \in 1..n : w[n][i] = IF i = n THEN r ELSE u[i]
      BY <3>2, <3>4, <3>5, AppendProperties
    <3>10. \A i \in 1..n : /\ w[n][i].sn > 0
                           /\ w[n][i].file = rows[i].file /\ w[n][i].count = rows[i].count
      BY <3>2, <3>4, <3>6, <3>9
    <3>11. ASSUME NEW i \in 1..n, NEW j \in 1..n, w[n][i].sn = w[n][j].sn PROVE i = j
      <4>1. CASE i # n /\ j # n
        <5>1. i \in 1..(n - 1) /\ j \in 1..(n - 1)
          BY <3>2, <4>1
        <5>. QED
          BY <3>7, <3>9, <3>11, <5>1
      <4>2. CASE i = n /\ j # n
        <5>1. j \in 1..(n - 1)
          BY <3>2, <4>2
        <5>2. u[j].sn = r.sn
          BY <3>9, <3>11, <4>2
        <5>. QED
          BY <3>4, <3>8, <5>1, <5>2
      <4>3. CASE i # n /\ j = n
        <5>1. i \in 1..(n - 1)
          BY <3>2, <4>3
        <5>2. u[i].sn = r.sn
          BY <3>9, <3>11, <4>3
        <5>. QED
          BY <3>4, <3>8, <5>1, <5>2
      <4>. QED
        BY <4>1, <4>2, <4>3
    <3>. QED
      BY <2>2, <3>9, <3>10, <3>11
  <2>. QED
    BY <2>3, <2>4
<1>6. Right(Len(rows))
  BY <1>1, <1>5
<1>7. DOMAIN w[Len(rows)] = 1..Len(rows)
  BY <1>6, LenProperties
<1>. QED
  BY <1>3, <1>6, <1>7 DEF DistinctNumbers

\* What editing may make of loaded rows: each row is one of them, or holds a file
\* that was not among them; and no file is there twice.
EditedWell(rows, base) == rows \in Seq(Row) /\ DistinctFiles(rows) /\ Continues(rows, base)

\* Taking a row away, moving rows or putting one in between, row by row.
LEMMA RemovedAt ==
  ASSUME NEW S, NEW s \in Seq(S), NEW i \in 1..Len(s)
  PROVE  /\ RemoveAt(s, i) \in Seq(S) /\ Len(RemoveAt(s, i)) = Len(s) - 1
         /\ \A k \in 1..(Len(s) - 1) : RemoveAt(s, i)[k] = IF k < i THEN s[k] ELSE s[k + 1]
<1>1. Len(s) \in Nat /\ \A k \in 1..Len(s) : s[k] \in S
  BY LenProperties
<1>. DEFINE a == SubSeq(s, 1, i - 1)
            b == SubSeq(s, i + 1, Len(s))
<1>2. /\ a \in Seq(S) /\ Len(a) = i - 1
      /\ \A k \in 1..(i - 1) : a[k] = s[k]
  <2>1. \A k \in 1..(i - 1) : s[k] \in S
    BY <1>1
  <2>2. 1 \in Int /\ i - 1 \in Int
    BY <1>1
  <2>3. /\ a \in Seq(S) /\ Len(a) = IF 1 <= i - 1 THEN i - 1 - 1 + 1 ELSE 0
        /\ \A k \in 1..(i - 1 - 1 + 1) : a[k] = s[1 + k - 1]
    BY <2>1, <2>2, SubSeqProperties
  <2>. QED
    BY <1>1, <2>3
<1>3. /\ b \in Seq(S) /\ Len(b) = Len(s) - i
      /\ \A k \in 1..(Len(s) - i) : b[k] = s[k + i]
  <2>1. \A k \in (i + 1)..Len(s) : s[k] \in S
    BY <1>1
  <2>2. i + 1 \in Int /\ Len(s) \in Int
    BY <1>1
  <2>3. /\ b \in Seq(S) /\ Len(b) = IF i + 1 <= Len(s) THEN Len(s) - (i + 1) + 1 ELSE 0
        /\ \A k \in 1..(Len(s) - (i + 1) + 1) : b[k] = s[(i + 1) + k - 1]
    BY <2>1, <2>2, SubSeqProperties
  <2>. QED
    BY <1>1, <2>3
<1>4. RemoveAt(s, i) = a \o b
  BY DEF RemoveAt
<1>. HIDE DEF a, b
<1>5. /\ a \o b \in Seq(S) /\ Len(a \o b) = Len(a) + Len(b)
      /\ \A k \in 1..(Len(a) + Len(b)) : (a \o b)[k] = IF k <= Len(a) THEN a[k] ELSE b[k - Len(a)]
  BY <1>2, <1>3, ConcatProperties
<1>. QED
  BY <1>1, <1>2, <1>3, <1>4, <1>5

\* InsertAt puts the new row between the others and loses none of them.
LEMMA InsertedAt ==
  ASSUME NEW S, NEW s \in Seq(S), NEW i \in 1..(Len(s) + 1), NEW e \in S
  PROVE  /\ InsertAt(s, i, e) \in Seq(S) /\ Len(InsertAt(s, i, e)) = Len(s) + 1
         /\ \A k \in 1..(Len(s) + 1) :
              InsertAt(s, i, e)[k] = IF k < i THEN s[k] ELSE IF k = i THEN e ELSE s[k - 1]
<1>1. Len(s) \in Nat /\ \A k \in 1..Len(s) : s[k] \in S
  BY LenProperties
<1>. DEFINE a == SubSeq(s, 1, i - 1)
            b == SubSeq(s, i, Len(s))
<1>2. /\ a \in Seq(S) /\ Len(a) = i - 1
      /\ \A k \in 1..(i - 1) : a[k] = s[k]
  <2>1. \A k \in 1..(i - 1) : s[k] \in S
    BY <1>1
  <2>2. 1 \in Int /\ i - 1 \in Int
    BY <1>1
  <2>3. /\ a \in Seq(S) /\ Len(a) = IF 1 <= i - 1 THEN i - 1 - 1 + 1 ELSE 0
        /\ \A k \in 1..(i - 1 - 1 + 1) : a[k] = s[1 + k - 1]
    BY <2>1, <2>2, SubSeqProperties
  <2>. QED
    BY <1>1, <2>3
<1>3. /\ b \in Seq(S) /\ Len(b) = Len(s) - i + 1
      /\ \A k \in 1..(Len(s) - i + 1) : b[k] = s[k + i - 1]
  <2>1. \A k \in i..Len(s) : s[k] \in S
    BY <1>1
  <2>2. i \in Int /\ Len(s) \in Int
    BY <1>1
  <2>3. /\ b \in Seq(S) /\ Len(b) = IF i <= Len(s) THEN Len(s) - i + 1 ELSE 0
        /\ \A k \in 1..(Len(s) - i + 1) : b[k] = s[i + k - 1]
    BY <2>1, <2>2, SubSeqProperties
  <2>. QED
    BY <1>1, <2>3
<1>4. <<e>> \in Seq(S) /\ Len(<<e>>) = 1 /\ <<e>>[1] = e
  OBVIOUS
<1>5. InsertAt(s, i, e) = (a \o <<e>>) \o b
  BY DEF InsertAt
<1>. DEFINE x == <<e>>
            y == a \o x
<1>. HIDE DEF a, b, x
<1>6. /\ y \in Seq(S) /\ Len(y) = Len(a) + Len(x)
      /\ \A k \in 1..(Len(a) + Len(x)) : y[k] = IF k <= Len(a) THEN a[k] ELSE x[k - Len(a)]
  <2>1. x \in Seq(S)
    BY <1>4 DEF x
  <2>. QED
    BY <1>2, <2>1, ConcatProperties
<1>. HIDE DEF y
<1>7. /\ y \o b \in Seq(S) /\ Len(y \o b) = Len(y) + Len(b)
      /\ \A k \in 1..(Len(y) + Len(b)) : (y \o b)[k] = IF k <= Len(y) THEN y[k] ELSE b[k - Len(y)]
  BY <1>3, <1>6, ConcatProperties
<1>8. Len(x) = 1 /\ x[1] = e /\ InsertAt(s, i, e) = y \o b
  BY <1>4, <1>5 DEF x, y
<1>9. InsertAt(s, i, e) \in Seq(S) /\ Len(InsertAt(s, i, e)) = Len(s) + 1
  BY <1>1, <1>2, <1>3, <1>6, <1>7, <1>8
<1>10. ASSUME NEW k \in 1..(Len(s) + 1)
       PROVE  InsertAt(s, i, e)[k] = IF k < i THEN s[k] ELSE IF k = i THEN e ELSE s[k - 1]
  <2>1. /\ Len(s) \in Nat /\ i \in Nat /\ k \in Nat /\ 1 <= i /\ i <= Len(s) + 1
        /\ 1 <= k /\ k <= Len(s) + 1 /\ Len(a) + Len(x) = i /\ Len(y) = i
        /\ Len(b) = Len(s) - i + 1
    BY <1>1, <1>2, <1>3, <1>6, <1>8
  <2>2. k \in 1..(Len(y) + Len(b))
    BY <2>1
  <2>3. InsertAt(s, i, e)[k] = IF k <= i THEN y[k] ELSE b[k - i]
    BY <1>7, <1>8, <2>1, <2>2
  <2>4. k <= i => y[k] = IF k <= i - 1 THEN a[k] ELSE x[k - (i - 1)]
    <3>1. Len(a) = i - 1 /\ (k <= i => k \in 1..(Len(a) + Len(x)))
      BY <1>2, <2>1
    <3>. QED
      BY <1>6, <3>1
  <2>5. CASE k < i
    <3>1. k \in 1..(i - 1)
      BY <2>1, <2>5
    <3>2. a[k] = s[k]
      BY <1>2, <3>1
    <3>. QED
      BY <2>1, <2>3, <2>4, <2>5, <3>2
  <2>6. CASE k = i
    <3>1. k <= i /\ ~(k <= i - 1) /\ k - (i - 1) = 1 /\ ~(k < i)
      BY <2>1, <2>6
    <3>2. InsertAt(s, i, e)[k] = x[k - (i - 1)]
      BY <2>3, <2>4, <3>1
    <3>. QED
      BY <1>8, <2>6, <3>1, <3>2
  <2>7. CASE k > i
    <3>. DEFINE m == k - i
    <3>1. m \in 1..(Len(s) - i + 1) /\ m + i - 1 = k - 1 /\ ~(k <= i) /\ k # i /\ ~(k < i)
      BY <2>1, <2>7
    <3>2. InsertAt(s, i, e)[k] = b[m]
      BY <2>3, <3>1
    <3>. HIDE DEF m
    <3>3. b[m] = s[k - 1]
      BY <1>3, <3>1
    <3>. QED
      BY <3>1, <3>2, <3>3
  <2>. QED
    BY <2>1, <2>5, <2>6, <2>7
<1>. QED
  BY <1>9, <1>10

\* Whatever an editor does to the loaded rows is well edited.
LEMMA EditedIsWell ==
  ASSUME NEW base, Sound(base), NEW rows \in Edited(base)
  PROVE  EditedWell(rows, base)
<1>1. /\ base \in Seq(Row) /\ Len(base) \in Nat /\ DOMAIN base = 1..Len(base)
      /\ \A i \in 1..Len(base) : base[i] \in Row
      /\ \A i, j \in 1..Len(base) : base[i].file = base[j].file => i = j
  <2>1. base \in Seq(Row)
    BY DEF Sound
  <2>2. Len(base) \in Nat /\ DOMAIN base = 1..Len(base) /\ \A i \in 1..Len(base) : base[i] \in Row
    BY <2>1, LenProperties
  <2>. QED
    BY <2>1, <2>2 DEF Sound, DistinctFiles
<1>2. \A f : f \in FilesOf(base) <=> \E i \in 1..Len(base) : f = base[i].file
  BY <1>1 DEF FilesOf
<1>3. ASSUME NEW x, x \in Seq(Row), NEW n \in Nat, Len(x) = n,
             NEW from \in [1..n -> 0..Len(base)], NEW f \in Files,
             f \notin FilesOf(base),
             \A i, j \in 1..n : from[i] = from[j] => i = j,
             \A i \in 1..n : IF from[i] = 0 THEN x[i].file = f ELSE x[i] = base[from[i]]
      PROVE  EditedWell(x, base)
  <2>1. DOMAIN x = 1..n
    BY <1>3, LenProperties
  <2>2. \A i \in 1..n : from[i] # 0 => from[i] \in 1..Len(base) /\ x[i].file \in FilesOf(base)
    BY <1>1, <1>2, <1>3
  <2>3. DistinctFiles(x)
    <3>. SUFFICES ASSUME NEW i \in 1..n, NEW j \in 1..n, x[i].file = x[j].file PROVE i = j
      BY <2>1 DEF DistinctFiles
    <3>1. CASE from[i] = 0
      <4>1. from[j] = 0
        BY <1>3, <2>2, <3>1
      <4>. QED
        BY <1>3, <3>1, <4>1
    <3>2. CASE from[i] # 0
      <4>1. from[j] # 0
        BY <1>3, <2>2, <3>2
      <4>2. from[i] = from[j]
        BY <1>1, <1>3, <2>2, <3>2, <4>1
      <4>. QED
        BY <1>3, <4>2
    <3>. QED
      BY <3>1, <3>2
  <2>4. Continues(x, base)
    <3>. SUFFICES ASSUME NEW i \in 1..n, x[i].file \in FilesOf(base)
                  PROVE  \E j \in DOMAIN base : base[j].file = x[i].file /\ base[j].count = x[i].count
      BY <2>1 DEF Continues
    <3>1. from[i] # 0
      BY <1>3
    <3>. QED
      BY <1>1, <1>3, <2>2, <3>1
  <2>. QED
    BY <1>3, <2>3, <2>4 DEF EditedWell
<1>4. ASSUME NEW x, x \in Seq(Row), NEW n \in Nat, Len(x) = n,
             NEW from \in [1..n -> 1..Len(base)],
             \A i, j \in 1..n : from[i] = from[j] => i = j,
             \A i \in 1..n : x[i] = base[from[i]]
      PROVE  EditedWell(x, base)
  <2>1. DOMAIN x = 1..n
    BY <1>4, LenProperties
  <2>2. DistinctFiles(x)
    <3>. SUFFICES ASSUME NEW i \in 1..n, NEW j \in 1..n, x[i].file = x[j].file PROVE i = j
      BY <2>1 DEF DistinctFiles
    <3>1. from[i] \in 1..Len(base) /\ from[j] \in 1..Len(base) /\ base[from[i]].file = base[from[j]].file
      BY <1>4
    <3>. QED
      BY <1>1, <1>4, <3>1
  <2>3. Continues(x, base)
    BY <1>1, <1>4, <2>1 DEF Continues
  <2>. QED
    BY <1>4, <2>2, <2>3 DEF EditedWell
<1>5. CASE rows = base
  <2>1. Continues(base, base)
    BY DEF Continues, FilesOf
  <2>. QED
    BY <1>5, <2>1 DEF EditedWell, Sound
<1>6. CASE \E i \in DOMAIN base : rows = RemoveAt(base, i)
  <2>1. PICK i \in 1..Len(base) : rows = RemoveAt(base, i)
    BY <1>1, <1>6
  <2>. DEFINE n == Len(base) - 1
              from == [k \in 1..n |-> IF k < i THEN k ELSE k + 1]
  <2>2. rows \in Seq(Row) /\ Len(rows) = n /\ n \in Nat
        /\ \A k \in 1..n : rows[k] = IF k < i THEN base[k] ELSE base[k + 1]
    <3>1. /\ RemoveAt(base, i) \in Seq(Row) /\ Len(RemoveAt(base, i)) = Len(base) - 1
          /\ \A k \in 1..(Len(base) - 1) :
               RemoveAt(base, i)[k] = IF k < i THEN base[k] ELSE base[k + 1]
      BY <1>1, RemovedAt
    <3>2. Len(base) - 1 \in Nat
      BY <1>1
    <3>. QED
      BY <2>1, <3>1, <3>2
  <2>3. \A k \in 1..n : from[k] = (IF k < i THEN k ELSE k + 1) /\ from[k] \in 1..Len(base)
    BY <1>1
  <2>4. from \in [1..n -> 1..Len(base)]
    BY <2>3
  <2>. HIDE DEF from
  <2>5. \A k, j \in 1..n : from[k] = from[j] => k = j
    BY <1>1, <2>3
  <2>6. \A k \in 1..n : rows[k] = base[from[k]]
    BY <2>2, <2>3
  <2>. HIDE DEF n
  <2>. QED
    BY <1>4, <2>2, <2>4, <2>5, <2>6
<1>7. ASSUME NEW i \in 1..(Len(base) + 1), NEW e \in Row, e.file \in Files \ FilesOf(base),
             rows = InsertAt(base, i, e)
      PROVE  EditedWell(rows, base)
  <2>. DEFINE n == Len(base) + 1
              from == [k \in 1..n |-> IF k < i THEN k ELSE IF k = i THEN 0 ELSE k - 1]
  <2>2. rows \in Seq(Row) /\ Len(rows) = n /\ n \in Nat
        /\ \A k \in 1..n : rows[k] = IF k < i THEN base[k] ELSE IF k = i THEN e ELSE base[k - 1]
    <3>1. /\ InsertAt(base, i, e) \in Seq(Row) /\ Len(InsertAt(base, i, e)) = Len(base) + 1
          /\ \A k \in 1..(Len(base) + 1) :
               InsertAt(base, i, e)[k] = IF k < i THEN base[k] ELSE IF k = i THEN e ELSE base[k - 1]
      BY <1>1, InsertedAt
    <3>2. Len(base) + 1 \in Nat
      BY <1>1
    <3>. QED
      BY <1>7, <3>1, <3>2
  <2>3. \A k \in 1..n : from[k] = (IF k < i THEN k ELSE IF k = i THEN 0 ELSE k - 1)
                        /\ from[k] \in 0..Len(base)
    BY <1>1
  <2>4. from \in [1..n -> 0..Len(base)]
    BY <2>3
  <2>. HIDE DEF from
  <2>5. \A k, j \in 1..n : from[k] = from[j] => k = j
    BY <1>1, <2>3
  <2>6. \A k \in 1..n : IF from[k] = 0 THEN rows[k].file = e.file ELSE rows[k] = base[from[k]]
    BY <1>1, <2>2, <2>3
  <2>7. e.file \in Files /\ e.file \notin FilesOf(base)
    BY <1>7
  <2>. HIDE DEF n
  <2>. QED
    BY <1>3, <2>2, <2>4, <2>5, <2>6, <2>7
<1>8. CASE \E i \in 1..(Len(base) + 1), f \in Files \ FilesOf(base) :
              rows = InsertAt(base, i, [sn |-> 0, file |-> f, count |-> 0])
  <2>1. \A f \in Files : [sn |-> 0, file |-> f, count |-> 0] \in Row
    BY DEF Row
  <2>. QED
    BY <1>7, <1>8, <2>1
<1>9. CASE \E i \in DOMAIN base, f \in Files \ FilesOf(base) :
              rows = InsertAt(base, i + 1, [base[i] EXCEPT !.file = f])
  <2>1. PICK i \in 1..Len(base), f \in Files \ FilesOf(base) :
              rows = InsertAt(base, i + 1, [base[i] EXCEPT !.file = f])
    BY <1>1, <1>9
  <2>2. [base[i] EXCEPT !.file = f] \in Row /\ [base[i] EXCEPT !.file = f].file = f
    BY <1>1 DEF Row
  <2>3. i + 1 \in 1..(Len(base) + 1)
    BY <1>1
  <2>. QED
    BY <1>7, <2>1, <2>2, <2>3
<1>10. CASE rows = Reverse(base)
  <2>. DEFINE n == Len(base)
              from == [k \in 1..n |-> n - k + 1]
  <2>1. \A k \in 1..n : from[k] = n - k + 1 /\ from[k] \in 1..Len(base)
    BY <1>1
  <2>2. from \in [1..n -> 1..Len(base)]
    BY <2>1
  <2>3. rows = [k \in 1..n |-> base[from[k]]]
    BY <1>10, <1>1 DEF Reverse
  <2>. HIDE DEF from
  <2>4. rows \in Seq(Row) /\ Len(rows) = n
    BY <1>1, <2>2, <2>3
  <2>5. \A k, j \in 1..n : from[k] = from[j] => k = j
    BY <1>1, <2>1
  <2>6. \A k \in 1..n : rows[k] = base[from[k]]
    BY <2>3
  <2>. HIDE DEF n
  <2>7. n \in Nat
    BY <1>1 DEF n
  <2>. QED
    BY <1>4, <2>2, <2>4, <2>5, <2>6, <2>7
<1>. DEFINE less == {RemoveAt(base, i) : i \in DOMAIN base}
            New(i, f) == InsertAt(base, i, [sn |-> 0, file |-> f, count |-> 0])
            more == {New(i, f) : i \in 1..(Len(base) + 1), f \in Files \ FilesOf(base)}
            twice == {InsertAt(base, i + 1, [base[i] EXCEPT !.file = f]) :
                        i \in DOMAIN base, f \in Files \ FilesOf(base)}
<1>11. Edited(base) = {base} \cup less \cup more \cup twice \cup {Reverse(base)}
  BY DEF Edited
<1>12. rows \in less => \E i \in DOMAIN base : rows = RemoveAt(base, i)
  OBVIOUS
<1>13. rows \in more => \E i \in 1..(Len(base) + 1), f \in Files \ FilesOf(base) :
                           rows = New(i, f)
  <2>. HIDE DEF New
  <2>. QED
    OBVIOUS
<1>14. rows \in twice => \E i \in DOMAIN base, f \in Files \ FilesOf(base) :
              rows = InsertAt(base, i + 1, [base[i] EXCEPT !.file = f])
  OBVIOUS
<1>. HIDE DEF less, more, twice
<1>15. rows = base \/ rows = Reverse(base) \/ rows \in less \/ rows \in more \/ rows \in twice
  BY <1>11
<1>. QED
  BY <1>5, <1>6, <1>8, <1>9, <1>10, <1>12, <1>13, <1>14, <1>15, Zenon

\* What a submit stores: well-edited rows, each with a number of its own.
LEMMA SubmittedIsSound ==
  ASSUME NEW base, Sound(base), NEW rows \in Edited(base)
  PROVE  Sound(Numbered(rows)) /\ Continues(Numbered(rows), base)
<1>1. rows \in Seq(Row) /\ DistinctFiles(rows) /\ Continues(rows, base)
  BY EditedIsWell DEF EditedWell
<1>2. /\ Numbered(rows) \in Seq(Row) /\ Len(Numbered(rows)) = Len(rows)
      /\ DistinctNumbers(Numbered(rows))
      /\ \A i \in 1..Len(rows) : /\ Numbered(rows)[i].file = rows[i].file
                                 /\ Numbered(rows)[i].count = rows[i].count
  BY <1>1, NumberedIsSound
<1>3. DOMAIN rows = 1..Len(rows) /\ DOMAIN Numbered(rows) = 1..Len(rows)
  BY <1>1, <1>2, LenProperties
<1>. QED
  BY <1>1, <1>2, <1>3 DEF Sound, DistinctFiles, Continues

-----------------------------------------------------------------------------

SaveRecord ==
  [stage: {"closed", "open", "read", "done"}, base: Seq(Row), rows: Seq(Row), views: Nat]
VisitRecord == [stage: {"idle", "shown", "read", "done"}, seen: Nat, rows: Seq(Row)]
FetchRecord ==
  [stage: {"idle", "found", "served", "done"}, sn: Nat, file: Files \cup {"none"}, rows: Seq(Row)]

\* Visits that may have been counted.
Visited == {v \in Visits : visits[v].stage \in {"read", "done"}}

\* The inductive invariant.  What is about to be written is sound, and a count that is
\* about to be written is behind the visits.
PostSound ==
  post \in [rows: Seq(Row), views: Nat] /\ Sound(post.rows) /\ post.views <= Cardinality(Visited)

SavesSound ==
  /\ saves \in [Saves -> SaveRecord]
  /\ \A s \in Saves :
       /\ saves[s].stage = "open" => Sound(saves[s].base)
       /\ saves[s].stage = "read" =>
            /\ Sound(saves[s].rows) /\ Continues(saves[s].rows, saves[s].base)
            /\ saves[s].views <= Cardinality(Visited)

VisitsSound ==
  /\ visits \in [Visits -> VisitRecord]
  /\ \A v \in Visits :
       /\ visits[v].stage \in {"shown", "read"} => visits[v].seen <= Cardinality(Visited \ {v})
       /\ visits[v].stage = "read" => Sound(visits[v].rows)

FetchesSound ==
  /\ fetches \in [Fetches -> FetchRecord]
  /\ \A d \in Fetches :
       fetches[d].stage \in {"found", "served"} => fetches[d].file \in Files /\ fetches[d].rows # <<>>

FilesInv ==
  /\ PostSound /\ SavesSound /\ VisitsSound /\ FetchesSound
  /\ due \in [Files -> Nat] /\ crossed \in BOOLEAN /\ CountersExact

\* The rows of a post, one by one.
LEMMA RowsAre ==
  ASSUME NEW rows \in Seq(Row)
  PROVE  /\ Len(rows) \in Nat /\ DOMAIN rows = 1..Len(rows)
         /\ \A i \in DOMAIN rows :
              /\ rows[i] \in Row /\ rows[i].sn \in Nat /\ rows[i].file \in Files
              /\ rows[i].count \in Nat
         /\ \A f : f \in FilesOf(rows) <=> \E i \in DOMAIN rows : rows[i].file = f
         /\ \A n : n \in Numbers(rows) <=> \E i \in DOMAIN rows : rows[i].sn = n
<1>1. Len(rows) \in Nat /\ DOMAIN rows = 1..Len(rows) /\ \A i \in DOMAIN rows : rows[i] \in Row
  BY LenProperties
<1>2. \A r \in Row : r.sn \in Nat /\ r.file \in Files /\ r.count \in Nat
  BY DEF Row
<1>3. \A f : f \in FilesOf(rows) <=> \E i \in DOMAIN rows : rows[i].file = f
  BY DEF FilesOf
<1>4. \A n : n \in Numbers(rows) <=> \E i \in DOMAIN rows : rows[i].sn = n
  BY DEF Numbers
<1>. QED
  BY <1>1, <1>2, <1>3, <1>4

\* Nothing has been attached to the post yet.
LEMMA FilesInitHolds == FilesInit => FilesInv
<1>. SUFFICES ASSUME FilesInit PROVE FilesInv
  OBVIOUS
<1>1. <<>> \in Seq(Row) /\ DOMAIN <<>> = {} /\ Sound(<<>>)
  <2>1. <<>> \in Seq(Row) /\ DOMAIN <<>> = {}
    BY EmptySeq
  <2>. QED
    BY <2>1 DEF Sound, DistinctFiles, DistinctNumbers
<1>2. Visited \subseteq Visits /\ IsFiniteSet(Visited) /\ Cardinality(Visited) \in Nat
  BY FilesAssumption, FS_Subset, FS_CardinalityType DEF Visited
<1>3. post = [rows |-> <<>>, views |-> 0]
      /\ saves = [s \in Saves |-> NoForm] /\ visits = [v \in Visits |-> NoVisit]
      /\ fetches = [d \in Fetches |-> NoFetch] /\ due = [f \in Files |-> 0] /\ crossed = FALSE
  BY DEF FilesInit
<1>4. NoForm \in SaveRecord /\ NoForm.stage = "closed"
  BY <1>1 DEF NoForm, SaveRecord
<1>5. NoVisit \in VisitRecord /\ NoVisit.stage = "idle"
  BY <1>1 DEF NoVisit, VisitRecord
<1>6. NoFetch \in FetchRecord /\ NoFetch.stage = "idle"
  BY <1>1 DEF NoFetch, FetchRecord
<1>7. PostSound
  BY <1>1, <1>2, <1>3 DEF PostSound
<1>8. SavesSound
  BY <1>3, <1>4 DEF SavesSound
<1>9. VisitsSound
  BY <1>3, <1>5 DEF VisitsSound
<1>10. FetchesSound
  BY <1>3, <1>6 DEF FetchesSound
<1>11. CountersExact
  BY <1>1, <1>3 DEF CountersExact
<1>. QED
  BY <1>3, <1>7, <1>8, <1>9, <1>10, <1>11 DEF FilesInv

\* Visits are counted once each.
LEMMA VisitedCounts ==
  /\ IsFiniteSet(Visited) /\ Cardinality(Visited) \in Nat
  /\ \A v \in Visits : /\ Cardinality(Visited \ {v}) \in Nat
                       /\ v \notin Visited => Cardinality(Visited \ {v}) = Cardinality(Visited)
                       /\ v \in Visited => Cardinality(Visited \ {v}) = Cardinality(Visited) - 1
<1>1. Visited \subseteq Visits /\ IsFiniteSet(Visited) /\ Cardinality(Visited) \in Nat
  BY FilesAssumption, FS_Subset, FS_CardinalityType DEF Visited
<1>2. ASSUME NEW v \in Visits
      PROVE  /\ Cardinality(Visited \ {v}) \in Nat
             /\ v \notin Visited => Cardinality(Visited \ {v}) = Cardinality(Visited)
             /\ v \in Visited => Cardinality(Visited \ {v}) = Cardinality(Visited) - 1
  <2>1. IsFiniteSet(Visited \ {v}) /\ Cardinality(Visited \ {v}) \in Nat
    BY <1>1, FS_Subset, FS_CardinalityType
  <2>2. v \notin Visited => Visited \ {v} = Visited
    OBVIOUS
  <2>. QED
    BY <1>1, <2>1, <2>2, FS_RemoveElement
<1>. QED
  BY <1>1, <1>2

\* No visit is ever taken back.
LEMMA VisitedGrows ==
  ASSUME Visited \subseteq Visited', visits' \in [Visits -> VisitRecord]
  PROVE  /\ Cardinality(Visited) <= Cardinality(Visited') /\ Cardinality(Visited') \in Nat
         /\ \A v \in Visits : /\ Cardinality(Visited \ {v}) <= Cardinality(Visited' \ {v})
                              /\ Cardinality(Visited' \ {v}) \in Nat
<1>1. Visited' \subseteq Visits
  BY DEF Visited
<1>2. IsFiniteSet(Visited') /\ \A v \in Visits : IsFiniteSet(Visited' \ {v})
  BY <1>1, FilesAssumption, FS_Subset
<1>3. \A v \in Visits : Visited \ {v} \subseteq Visited' \ {v}
  OBVIOUS
<1>. QED
  BY <1>2, <1>3, FS_Subset, FS_CardinalityType

\* A step of a form does not disturb the visits, nor the downloads.
LEMMA FormStep ==
  ASSUME FilesInv, NEW s \in Saves, NEW x \in SaveRecord,
         saves' = [saves EXCEPT ![s] = x], UNCHANGED <<visits, fetches>>,
         x.stage = "open" => Sound(x.base),
         x.stage = "read" =>
           Sound(x.rows) /\ Continues(x.rows, x.base) /\ x.views <= Cardinality(Visited)
  PROVE  SavesSound' /\ VisitsSound' /\ FetchesSound' /\ Visited' = Visited
<1>1. Visited' = Visited
  BY DEF Visited
<1>2. SavesSound'
  <2>1. saves' \in [Saves -> SaveRecord] /\ \A t \in Saves : saves'[t] = IF t = s THEN x ELSE saves[t]
    BY DEF FilesInv, SavesSound
  <2>. QED
    BY <1>1, <2>1 DEF FilesInv, SavesSound
<1>3. VisitsSound'
  BY <1>1 DEF FilesInv, VisitsSound
<1>4. FetchesSound'
  BY DEF FilesInv, FetchesSound
<1>. QED
  BY <1>1, <1>2, <1>3, <1>4

\* A step of a visit disturbs neither forms nor downloads.
LEMMA VisitStep ==
  ASSUME FilesInv, NEW v \in Visits, NEW x \in VisitRecord,
         visits' = [visits EXCEPT ![v] = x], UNCHANGED <<saves, fetches>>,
         visits[v].stage \in {"read", "done"} => x.stage \in {"read", "done"},
         x.stage \in {"shown", "read"} => x.seen <= Cardinality(Visited \ {v}),
         x.stage = "read" => Sound(x.rows)
  PROVE  /\ SavesSound' /\ VisitsSound' /\ FetchesSound'
         /\ Cardinality(Visited) <= Cardinality(Visited') /\ Cardinality(Visited') \in Nat
<1>1. visits' \in [Visits -> VisitRecord] /\ \A u \in Visits : visits'[u] = IF u = v THEN x ELSE visits[u]
  BY DEF FilesInv, VisitsSound
<1>2. Visited \subseteq Visited'
  BY <1>1 DEF Visited
<1>3. /\ Cardinality(Visited) <= Cardinality(Visited') /\ Cardinality(Visited') \in Nat
      /\ \A u \in Visits : /\ Cardinality(Visited \ {u}) <= Cardinality(Visited' \ {u})
                           /\ Cardinality(Visited' \ {u}) \in Nat
  BY <1>1, <1>2, VisitedGrows
<1>4. /\ Cardinality(Visited) \in Nat /\ \A u \in Visits : Cardinality(Visited \ {u}) \in Nat
  BY VisitedCounts
<1>5. SavesSound'
  <2>. SUFFICES ASSUME NEW s \in Saves, saves[s].stage = "read"
                PROVE  saves[s].views <= Cardinality(Visited')
    BY DEF FilesInv, SavesSound
  <2>1. saves[s].views \in Nat /\ saves[s].views <= Cardinality(Visited)
    BY DEF FilesInv, SavesSound, SaveRecord
  <2>. QED
    BY <1>3, <1>4, <2>1
<1>6. VisitsSound'
  <2>1. ASSUME NEW u \in Visits, visits'[u].stage \in {"shown", "read"}
        PROVE  visits'[u].seen <= Cardinality(Visited' \ {u})
    <3>1. visits'[u].seen \in Nat /\ visits'[u].seen <= Cardinality(Visited \ {u})
      BY <1>1, <2>1 DEF FilesInv, VisitsSound, VisitRecord
    <3>. QED
      BY <1>3, <1>4, <3>1
  <2>2. \A u \in Visits : visits'[u].stage = "read" => Sound(visits'[u].rows)
    BY <1>1 DEF FilesInv, VisitsSound
  <2>. QED
    BY <1>1, <2>1, <2>2 DEF VisitsSound
<1>7. FetchesSound'
  BY DEF FilesInv, FetchesSound
<1>. QED
  BY <1>3, <1>5, <1>6, <1>7

\* Rows that are written whole: the counters stay exact where the rows that were read
\* are the rows that are replaced (Attached is the history of a write).
LEMMA WriteKeepsCounters ==
  ASSUME FilesInv, NEW rows, NEW base, Sound(rows), Continues(rows, base),
         post'.rows = rows, Attached(rows), crossed' = (crossed \/ base # post.rows)
  PROVE  due' \in [Files -> Nat] /\ crossed' \in BOOLEAN /\ CountersExact'
<1>. DEFINE of == [f \in FilesOf(rows) |-> CHOOSE r \in Range(rows) : r.file = f]
            joined == FilesOf(rows) \ FilesOf(post.rows)
<1>1. due' = [f \in Files |-> IF f \in joined THEN of[f].count ELSE due[f]]
  BY DEF Attached
<1>2. rows \in Seq(Row) /\ post.rows \in Seq(Row) /\ DistinctFiles(rows)
  BY DEF Sound, FilesInv, PostSound
<1>3. ASSUME NEW i \in DOMAIN rows PROVE of[rows[i].file] = rows[i]
  <2>1. \A r : r \in Range(rows) <=> \E j \in DOMAIN rows : r = rows[j]
    BY DEF Range
  <2>2. \E r \in Range(rows) : r.file = rows[i].file
    BY <2>1
  <2>. DEFINE c == CHOOSE r \in Range(rows) : r.file = rows[i].file
  <2>3. c \in Range(rows) /\ c.file = rows[i].file
    BY <2>2
  <2>4. rows[i].file \in FilesOf(rows)
    BY <1>2, RowsAre
  <2>5. of[rows[i].file] = c
    BY <2>4
  <2>. HIDE DEF c, of
  <2>6. PICK j \in DOMAIN rows : c = rows[j]
    BY <2>1, <2>3
  <2>. QED
    BY <1>2, <2>3, <2>5, <2>6 DEF DistinctFiles
<1>. HIDE DEF of
<1>4. \A f \in joined : \E i \in DOMAIN rows : rows[i].file = f
  BY <1>2, RowsAre
<1>5. \A f \in joined : of[f].count \in Nat
  BY <1>2, <1>3, <1>4, RowsAre
<1>6. due' \in [Files -> Nat]
  <2>1. due \in [Files -> Nat]
    BY DEF FilesInv
  <2>. HIDE DEF joined
  <2>. QED
    BY <1>1, <1>5, <2>1
<1>7. crossed' \in BOOLEAN
  OBVIOUS
<1>8. ASSUME ~crossed', NEW i \in DOMAIN rows PROVE rows[i].count = due'[rows[i].file]
  <2>1. ~crossed /\ base = post.rows
    BY <1>8
  <2>2. rows[i].file \in Files /\ rows[i].file \in FilesOf(rows)
    BY <1>2, RowsAre
  <2>3. CASE rows[i].file \in joined
    BY <1>1, <1>3, <2>2, <2>3
  <2>4. CASE rows[i].file \notin joined
    <3>1. rows[i].file \in FilesOf(post.rows)
      BY <2>2, <2>4
    <3>2. PICK j \in DOMAIN post.rows : post.rows[j].file = rows[i].file
                                        /\ post.rows[j].count = rows[i].count
      BY <2>1, <3>1 DEF Continues
    <3>3. post.rows[j].count = due[post.rows[j].file]
      BY <2>1 DEF FilesInv, CountersExact
    <3>4. due'[rows[i].file] = due[rows[i].file]
      BY <1>1, <2>2, <2>4
    <3>. QED
      BY <3>2, <3>3, <3>4
  <2>. QED
    BY <2>3, <2>4
<1>9. CountersExact'
  BY <1>8 DEF CountersExact
<1>. QED
  BY <1>6, <1>7, <1>9

\* Opening, submitting and saving a form keep the invariant.
LEMMA LoadFormKeeps == ASSUME FilesInv, NEW s \in Saves, LoadForm(s) PROVE FilesInv'
<1>. DEFINE x == [NoForm EXCEPT !.stage = "open", !.base = post.rows]
<1>1. saves' = [saves EXCEPT ![s] = x] /\ UNCHANGED <<post, visits, fetches, due, crossed>>
  BY DEF LoadForm
<1>2. <<>> \in Seq(Row) /\ post.rows \in Seq(Row) /\ Sound(post.rows)
  BY EmptySeq DEF FilesInv, PostSound
<1>3. x \in SaveRecord /\ x.stage = "open" /\ x.base = post.rows
  BY <1>2 DEF SaveRecord, NoForm
<1>. HIDE DEF x
<1>4. SavesSound' /\ VisitsSound' /\ FetchesSound' /\ Visited' = Visited
  BY <1>1, <1>2, <1>3, FormStep
<1>5. PostSound' /\ CountersExact'
  BY <1>1, <1>4 DEF FilesInv, PostSound, CountersExact
<1>. QED
  BY <1>1, <1>4, <1>5 DEF FilesInv

\* Sending a form keeps the invariant.
LEMMA SubmitKeeps == ASSUME FilesInv, NEW s \in Saves, SubmitForm(s) PROVE FilesInv'
<1>1. saves[s].stage = "open" /\ UNCHANGED <<post, visits, fetches, due, crossed>>
      /\ saves[s] \in SaveRecord /\ Sound(saves[s].base) /\ saves \in [Saves -> SaveRecord]
  BY DEF SubmitForm, FilesInv, SavesSound
<1>2. PICK rows \in Edited(saves[s].base) :
        saves' = [saves EXCEPT ![s] =
          [saves[s] EXCEPT !.stage = "read", !.rows = Numbered(rows), !.views = post.views]]
  BY DEF SubmitForm
<1>. DEFINE x == [saves[s] EXCEPT !.stage = "read", !.rows = Numbered(rows), !.views = post.views]
<1>3. saves' = [saves EXCEPT ![s] = x]
  BY <1>2
<1>4. Sound(Numbered(rows)) /\ Continues(Numbered(rows), saves[s].base)
  BY <1>1, SubmittedIsSound
<1>5. post.views \in Nat /\ post.views <= Cardinality(Visited)
  BY DEF FilesInv, PostSound
<1>6. /\ x \in SaveRecord /\ x.stage = "read" /\ x.rows = Numbered(rows)
      /\ x.base = saves[s].base /\ x.views = post.views
  BY <1>1, <1>4, <1>5 DEF SaveRecord, Sound
<1>. HIDE DEF x
<1>7. SavesSound' /\ VisitsSound' /\ FetchesSound' /\ Visited' = Visited
  BY <1>1, <1>3, <1>4, <1>5, <1>6, FormStep
<1>8. PostSound' /\ CountersExact'
  BY <1>1, <1>7 DEF FilesInv, PostSound, CountersExact
<1>. QED
  BY <1>1, <1>7, <1>8 DEF FilesInv

\* Saving what was sent keeps it: the last form to be saved wins.
LEMMA SaveKeeps == ASSUME FilesInv, NEW s \in Saves, SaveForm(s) PROVE FilesInv'
<1>1. /\ saves[s].stage = "read" /\ saves[s] \in SaveRecord
      /\ Sound(saves[s].rows) /\ Continues(saves[s].rows, saves[s].base)
      /\ saves[s].views <= Cardinality(Visited) /\ saves[s].views \in Nat
  BY DEF SaveForm, FilesInv, SavesSound, SaveRecord
<1>. DEFINE x == [NoForm EXCEPT !.stage = "done"]
<1>2. /\ post' = [rows |-> saves[s].rows, views |-> saves[s].views] /\ Attached(saves[s].rows)
      /\ saves' = [saves EXCEPT ![s] = x] /\ crossed' = (crossed \/ saves[s].base # post.rows)
      /\ UNCHANGED <<visits, fetches>>
  BY DEF SaveForm
<1>3. x \in SaveRecord /\ x.stage = "done"
  BY EmptySeq DEF SaveRecord, NoForm
<1>. HIDE DEF x
<1>4. SavesSound' /\ VisitsSound' /\ FetchesSound' /\ Visited' = Visited
  BY <1>2, <1>3, FormStep
<1>5. PostSound'
  <2>1. saves[s].rows \in Seq(Row)
    BY <1>1 DEF Sound
  <2>. QED
    BY <1>1, <1>2, <1>4, <2>1 DEF PostSound
<1>6. due' \in [Files -> Nat] /\ crossed' \in BOOLEAN /\ CountersExact'
  <2>1. post'.rows = saves[s].rows
    BY <1>2
  <2>. QED
    BY <1>1, <1>2, <2>1, WriteKeepsCounters
<1>. QED
  BY <1>4, <1>5, <1>6 DEF FilesInv

\* Showing the post, reading it for its count and writing the count keep the invariant.
LEMMA ShowKeeps == ASSUME FilesInv, NEW v \in Visits, ShowPost(v) PROVE FilesInv'
<1>. DEFINE x == [NoVisit EXCEPT !.stage = "shown", !.seen = post.views]
<1>1. visits[v].stage = "idle" /\ visits' = [visits EXCEPT ![v] = x]
      /\ UNCHANGED <<post, saves, fetches, due, crossed>>
  BY DEF ShowPost
<1>2. post.views \in Nat /\ post.views <= Cardinality(Visited)
  BY DEF FilesInv, PostSound
<1>3. x \in VisitRecord /\ x.stage = "shown" /\ x.seen = post.views
  BY <1>2, EmptySeq DEF VisitRecord, NoVisit
<1>4. post.views <= Cardinality(Visited \ {v})
  <2>1. v \notin Visited
    BY <1>1 DEF Visited
  <2>. QED
    BY <1>2, <2>1, VisitedCounts
<1>. HIDE DEF x
<1>5. /\ SavesSound' /\ VisitsSound' /\ FetchesSound'
      /\ Cardinality(Visited) <= Cardinality(Visited') /\ Cardinality(Visited') \in Nat
  BY <1>1, <1>3, <1>4, VisitStep
<1>6. PostSound'
  BY <1>1, <1>2, <1>5, VisitedCounts DEF FilesInv, PostSound
<1>7. CountersExact'
  BY <1>1 DEF FilesInv, CountersExact
<1>. QED
  BY <1>1, <1>5, <1>6, <1>7 DEF FilesInv

\* Reading a post to count its view keeps the invariant.
LEMMA ReadKeeps == ASSUME FilesInv, NEW v \in Visits, ReadForCount(v) PROVE FilesInv'
<1>. DEFINE x == [visits[v] EXCEPT !.stage = "read", !.rows = post.rows]
<1>1. visits[v].stage = "shown" /\ visits' = [visits EXCEPT ![v] = x]
      /\ UNCHANGED <<post, saves, fetches, due, crossed>>
  BY DEF ReadForCount, FilesInv, VisitsSound
<1>2. /\ visits[v] \in VisitRecord /\ Sound(post.rows) /\ post.rows \in Seq(Row)
      /\ visits[v].seen <= Cardinality(Visited \ {v})
      /\ post.views \in Nat /\ post.views <= Cardinality(Visited)
  BY <1>1 DEF FilesInv, VisitsSound, PostSound
<1>3. x \in VisitRecord /\ x.stage = "read" /\ x.seen = visits[v].seen /\ x.rows = post.rows
  BY <1>2 DEF VisitRecord
<1>. HIDE DEF x
<1>5. /\ SavesSound' /\ VisitsSound' /\ FetchesSound'
      /\ Cardinality(Visited) <= Cardinality(Visited') /\ Cardinality(Visited') \in Nat
  BY <1>1, <1>2, <1>3, VisitStep
<1>6. PostSound'
  BY <1>1, <1>2, <1>5, VisitedCounts DEF FilesInv, PostSound
<1>7. CountersExact'
  BY <1>1 DEF FilesInv, CountersExact
<1>. QED
  BY <1>1, <1>5, <1>6, <1>7 DEF FilesInv

\* Writing the count back keeps it: no visit is counted twice.
LEMMA WriteViewsKeeps == ASSUME FilesInv, NEW v \in Visits, WriteCount(v) PROVE FilesInv'
<1>. DEFINE x == [NoVisit EXCEPT !.stage = "done"]
<1>1. visits[v].stage = "read" /\ visits' = [visits EXCEPT ![v] = x]
      /\ UNCHANGED <<saves, fetches>>
  BY DEF WriteCount
<1>2. /\ visits[v] \in VisitRecord /\ Sound(visits[v].rows) /\ visits[v].seen \in Nat
      /\ visits[v].rows \in Seq(Row)
      /\ visits[v].seen <= Cardinality(Visited \ {v})
      /\ post.views \in Nat /\ post.views <= Cardinality(Visited)
  BY <1>1 DEF FilesInv, VisitsSound, PostSound, VisitRecord
<1>3. x \in VisitRecord /\ x.stage = "done"
  BY EmptySeq DEF VisitRecord, NoVisit
<1>. HIDE DEF x
<1>4. /\ SavesSound' /\ VisitsSound' /\ FetchesSound'
      /\ Cardinality(Visited) <= Cardinality(Visited') /\ Cardinality(Visited') \in Nat
  BY <1>1, <1>2, <1>3, VisitStep
<1>5. CASE /\ post' = [rows |-> visits[v].rows, views |-> Counted(visits[v].seen)]
           /\ Attached(visits[v].rows) /\ crossed' = (crossed \/ visits[v].rows # post.rows)
  <2>1. v \in Visited
    BY <1>1 DEF Visited
  <2>2. visits[v].seen + 1 <= Cardinality(Visited')
    BY <1>2, <1>4, <2>1, VisitedCounts
  <2>3. PostSound'
    BY <1>2, <1>5, <2>2 DEF PostSound, Counted
  <2>4. Continues(visits[v].rows, visits[v].rows)
    BY DEF Continues, FilesOf
  <2>5. post'.rows = visits[v].rows
    BY <1>5
  <2>6. due' \in [Files -> Nat] /\ crossed' \in BOOLEAN /\ CountersExact'
    BY <1>2, <1>5, <2>4, <2>5, WriteKeepsCounters
  <2>. QED
    BY <1>4, <2>3, <2>6 DEF FilesInv
<1>6. CASE UNCHANGED <<post, due, first, crossed>>
  <2>1. PostSound'
    BY <1>2, <1>4, <1>6, VisitedCounts DEF FilesInv, PostSound
  <2>2. CountersExact'
    BY <1>6 DEF FilesInv, CountersExact
  <2>. QED
    BY <1>4, <1>6, <2>1, <2>2 DEF FilesInv
<1>. QED
  BY <1>5, <1>6 DEF WriteCount

\* A step of a download disturbs neither forms nor visits.
LEMMA FetchStep ==
  ASSUME FilesInv, NEW d \in Fetches, NEW x \in FetchRecord,
         fetches' = [fetches EXCEPT ![d] = x], UNCHANGED <<saves, visits>>,
         x.stage \in {"found", "served"} => x.file \in Files /\ x.rows # <<>>
  PROVE  SavesSound' /\ VisitsSound' /\ FetchesSound' /\ Visited' = Visited
<1>1. Visited' = Visited
  BY DEF Visited
<1>2. FetchesSound'
  <2>1. fetches' \in [Fetches -> FetchRecord]
        /\ \A e \in Fetches : fetches'[e] = IF e = d THEN x ELSE fetches[e]
    BY DEF FilesInv, FetchesSound
  <2>. QED
    BY <2>1 DEF FilesInv, FetchesSound
<1>3. SavesSound'
  BY <1>1 DEF FilesInv, SavesSound
<1>4. VisitsSound'
  BY <1>1 DEF FilesInv, VisitsSound
<1>. QED
  BY <1>1, <1>2, <1>3, <1>4

\* Finding the file, serving it and counting the download keep the invariant.
LEMMA FindKeeps == ASSUME FilesInv, NEW d \in Fetches, FindFile(d) PROVE FilesInv'
<1>1. post.rows \in Seq(Row) /\ UNCHANGED <<post, saves, visits, due, crossed>>
  BY DEF FilesInv, PostSound, FindFile
<1>2. PICK i \in DOMAIN post.rows :
        fetches' = [fetches EXCEPT ![d] = [stage |-> "found", sn |-> post.rows[i].sn,
                                           file |-> post.rows[i].file, rows |-> post.rows]]
  BY DEF FindFile
<1>. DEFINE x == [stage |-> "found", sn |-> post.rows[i].sn,
                  file |-> post.rows[i].file, rows |-> post.rows]
<1>3. post.rows[i].sn \in Nat /\ post.rows[i].file \in Files
  BY <1>1, RowsAre
<1>4. post.rows # <<>>
  BY <1>2, EmptySeq
<1>5. x \in FetchRecord /\ x.stage = "found" /\ x.file \in Files /\ x.rows # <<>>
  BY <1>1, <1>3, <1>4 DEF FetchRecord
<1>6. fetches' = [fetches EXCEPT ![d] = x]
  BY <1>2
<1>. HIDE DEF x
<1>7. SavesSound' /\ VisitsSound' /\ FetchesSound' /\ Visited' = Visited
  BY <1>1, <1>5, <1>6, FetchStep
<1>8. PostSound' /\ CountersExact'
  BY <1>1, <1>7 DEF FilesInv, PostSound, CountersExact
<1>. QED
  BY <1>1, <1>7, <1>8 DEF FilesInv

\* Answering a download, whatever its status, keeps the invariant.
LEMMA ServeKeeps == ASSUME FilesInv, NEW d \in Fetches, ServeFile(d) PROVE FilesInv'
<1>1. /\ fetches[d].stage = "found" /\ fetches[d] \in FetchRecord
      /\ fetches[d].file \in Files /\ fetches[d].rows # <<>>
      /\ UNCHANGED <<post, saves, visits, due, crossed>>
  BY DEF FilesInv, FetchesSound, ServeFile
<1>2. PICK status \in Status :
        fetches' = [fetches EXCEPT ![d] =
          [fetches[d] EXCEPT !.stage = IF CountsDownload(status) THEN "served" ELSE "done",
                             !.rows = IF status = 200 THEN fetches[d].rows ELSE <<>>]]
  BY DEF ServeFile, FilesInv, FetchesSound
<1>. DEFINE x == [fetches[d] EXCEPT !.stage = IF CountsDownload(status) THEN "served" ELSE "done",
                                    !.rows = IF status = 200 THEN fetches[d].rows ELSE <<>>]
<1>3. x \in FetchRecord /\ x.file = fetches[d].file
      /\ (x.stage \in {"found", "served"} => x.rows = fetches[d].rows)
  BY <1>1, EmptySeq DEF FetchRecord, CountsDownload
<1>4. fetches' = [fetches EXCEPT ![d] = x]
  BY <1>2
<1>. HIDE DEF x
<1>5. SavesSound' /\ VisitsSound' /\ FetchesSound' /\ Visited' = Visited
  BY <1>1, <1>3, <1>4, FetchStep
<1>6. PostSound' /\ CountersExact'
  BY <1>1, <1>5 DEF FilesInv, PostSound, CountersExact
<1>. QED
  BY <1>1, <1>5, <1>6 DEF FilesInv

\* The rows after the counting statement.
LEMMA BumpedRows ==
  ASSUME NEW rows \in Seq(Row), NEW d
  PROVE  /\ Bumped(rows, d) \in Seq(Row) /\ DOMAIN Bumped(rows, d) = DOMAIN rows
         /\ \A i \in DOMAIN rows :
              /\ Bumped(rows, d)[i].file = rows[i].file /\ Bumped(rows, d)[i].sn = rows[i].sn
              /\ Bumped(rows, d)[i].count =
                   IF rows[i].sn = fetches[d].sn THEN rows[i].count + 1 ELSE rows[i].count
              /\ rows[i].sn # fetches[d].sn => Bumped(rows, d)[i] = rows[i]
<1>. DEFINE n == Len(rows)
            new(i) == [rows[i] EXCEPT !.count = IF rows[i].sn = fetches[d].sn THEN rows[i].count + 1
                                                ELSE rows[i].count]
<1>1. n \in Nat /\ DOMAIN rows = 1..n /\ \A i \in 1..n : rows[i] \in Row /\ rows[i].count \in Nat
  BY RowsAre
<1>2. \A i \in 1..n :
        /\ new(i) \in Row /\ new(i).file = rows[i].file /\ new(i).sn = rows[i].sn
        /\ new(i).count = IF rows[i].sn = fetches[d].sn THEN rows[i].count + 1 ELSE rows[i].count
  BY <1>1 DEF Row
<1>3. \A i \in 1..n : rows[i].sn # fetches[d].sn => new(i) = rows[i]
  BY <1>1 DEF Row
<1>4. Bumped(rows, d) = [i \in 1..n |-> new(i)]
  BY <1>1 DEF Bumped
<1>. HIDE DEF new, n
<1>5. Bumped(rows, d) \in [1..n -> Row]
  BY <1>2, <1>4
<1>6. Bumped(rows, d) \in Seq(Row)
  BY <1>1, <1>5, SeqDef
<1>. QED
  BY <1>1, <1>2, <1>3, <1>4, <1>6

\* Counting a download keeps it: the row that still has the number is the file served, or
\* forms have crossed.
LEMMA CountKeeps == ASSUME FilesInv, NEW d \in Fetches, CountDownload(d) PROVE FilesInv'
<1>. DEFINE x == [NoFetch EXCEPT !.stage = "done"]
<1>1. /\ fetches[d].stage = "served" /\ fetches[d].file \in Files /\ fetches[d].rows # <<>>
      /\ fetches' = [fetches EXCEPT ![d] = x] /\ UNCHANGED <<saves, visits>>
  BY DEF FilesInv, FetchesSound, CountDownload
<1>2. x \in FetchRecord /\ x.stage = "done"
  BY EmptySeq DEF FetchRecord, NoFetch
<1>. HIDE DEF x
<1>3. SavesSound' /\ VisitsSound' /\ FetchesSound' /\ Visited' = Visited
  BY <1>1, <1>2, FetchStep
<1>4. CASE UNCHANGED <<post, due, crossed>>
  <2>1. PostSound' /\ CountersExact'
    BY <1>3, <1>4 DEF FilesInv, PostSound, CountersExact
  <2>. QED
    BY <1>3, <1>4, <2>1 DEF FilesInv
<1>5. CASE /\ post' = [post EXCEPT !.rows = Bumped(post.rows, d)]
           /\ due' = [due EXCEPT ![fetches[d].file] =
                        IF fetches[d].rows # <<>> /\ StillNames(d) THEN @ + 1 ELSE @]
           /\ crossed' = (crossed \/ (~StillNames(d) /\ fetches[d].sn \in Numbers(post.rows)))
  <2>. DEFINE rows == post.rows
              new == Bumped(rows, d)
              g == fetches[d].file
              n == fetches[d].sn
  <2>1. /\ rows \in Seq(Row) /\ DistinctFiles(rows) /\ DistinctNumbers(rows)
        /\ post \in [rows: Seq(Row), views: Nat] /\ post.views <= Cardinality(Visited)
        /\ due \in [Files -> Nat] /\ (~crossed => \A i \in DOMAIN rows : rows[i].count = due[rows[i].file])
    BY DEF FilesInv, PostSound, Sound, CountersExact
  <2>2. /\ new \in Seq(Row) /\ DOMAIN new = DOMAIN rows
        /\ \A i \in DOMAIN rows :
             /\ new[i].file = rows[i].file /\ new[i].sn = rows[i].sn
             /\ new[i].count = IF rows[i].sn = n THEN rows[i].count + 1 ELSE rows[i].count
    BY <2>1, BumpedRows
  <2>. HIDE DEF new
  <2>3. Sound(new)
    BY <2>1, <2>2 DEF Sound, DistinctFiles, DistinctNumbers
  <2>4. post' \in [rows: Seq(Row), views: Nat] /\ post'.rows = new /\ post'.views = post.views
    BY <1>5, <2>1, <2>2 DEF new
  <2>5. PostSound'
    BY <1>3, <2>1, <2>3, <2>4 DEF PostSound
  <2>6. due' \in [Files -> Nat]
    BY <1>1, <1>5, <2>1
  <2>7. crossed' \in BOOLEAN
    BY <1>5
  <2>8. ASSUME ~crossed', NEW i \in DOMAIN rows PROVE new[i].count = due'[rows[i].file]
    <3>1. ~crossed /\ (StillNames(d) \/ n \notin Numbers(rows))
      BY <1>5, <2>8
    <3>2. rows[i].count = due[rows[i].file] /\ rows[i].file \in Files /\ rows[i].count \in Nat
      BY <2>1, <3>1, RowsAre
    <3>3. CASE StillNames(d)
      <4>1. PICK j \in DOMAIN rows : rows[j].sn = n /\ rows[j].file = g
        BY <3>3 DEF StillNames
      <4>2. due' = [due EXCEPT ![g] = due[g] + 1]
        BY <1>1, <1>5, <2>1, <3>3
      <4>3. CASE i = j
        BY <1>1, <2>1, <2>2, <3>2, <4>1, <4>2, <4>3
      <4>4. CASE i # j
        <5>1. rows[i].sn # n /\ rows[i].file # g
          BY <2>1, <4>1, <4>4 DEF DistinctNumbers, DistinctFiles
        <5>. QED
          BY <2>1, <2>2, <3>2, <4>2, <5>1
      <4>. QED
        BY <4>3, <4>4
    <3>4. CASE ~StillNames(d)
      <4>1. rows[i].sn # n
        BY <2>1, <3>1, <3>4, RowsAre
      <4>2. due' = due
        BY <1>1, <1>5, <2>1, <3>4
      <4>. QED
        BY <2>2, <3>2, <4>1, <4>2
    <3>. QED
      BY <3>3, <3>4
  <2>9. CountersExact'
    BY <2>2, <2>4, <2>8 DEF CountersExact
  <2>. QED
    BY <1>3, <2>5, <2>6, <2>7, <2>9 DEF FilesInv
<1>. QED
  BY <1>4, <1>5 DEF CountDownload

\* The inductive invariant holds of every step.
LEMMA FilesInvHolds == FilesSpec => []FilesInv
<1>1. FilesInv /\ [FilesNext]_filesVars => FilesInv'
  <2>. SUFFICES ASSUME FilesInv, [FilesNext]_filesVars PROVE FilesInv'
    OBVIOUS
  <2>1. CASE UNCHANGED filesVars
    <3>1. Visited' = Visited
      BY <2>1 DEF filesVars, Visited
    <3>. QED
      BY <2>1, <3>1 DEF filesVars, FilesInv, PostSound, SavesSound, VisitsSound, FetchesSound,
                        CountersExact
  <2>. QED
    BY <2>1, LoadFormKeeps, SubmitKeeps, SaveKeeps, ShowKeeps, ReadKeeps, WriteViewsKeeps, FindKeeps,
       ServeKeeps, CountKeeps DEF FilesNext
<1>. QED
  BY <1>1, FilesInitHolds, PTL DEF FilesSpec

\* Rows with numbers of their own have as many numbers as there are rows.
LEMMA OneNumberARow ==
  ASSUME NEW rows, Sound(rows)
  PROVE  0 \notin Numbers(rows) /\ Cardinality(Numbers(rows)) = Len(rows)
<1>. DEFINE n == Len(rows)
            f == [i \in 1..n |-> rows[i].sn]
<1>1. /\ rows \in Seq(Row) /\ n \in Nat /\ DOMAIN rows = 1..n
      /\ \A i, j \in 1..n : rows[i].sn > 0 /\ (rows[i].sn = rows[j].sn => i = j)
      /\ \A k : k \in Numbers(rows) <=> \E i \in 1..n : rows[i].sn = k
  BY RowsAre DEF Sound, DistinctNumbers
<1>2. 0 \notin Numbers(rows)
  BY <1>1
<1>3. f \in Bijection(1..n, Numbers(rows))
  <2>1. f \in [1..n -> Numbers(rows)]
    BY <1>1
  <2>2. \A i, j \in 1..n : f[i] = f[j] => i = j
    BY <1>1
  <2>3. \A k \in Numbers(rows) : \E i \in 1..n : f[i] = k
    BY <1>1
  <2>. HIDE DEF f, n
  <2>. QED
    BY <2>1, <2>2, <2>3 DEF Bijection, Injection, Surjection, IsInjective
<1>4. ExistsBijection(1..n, Numbers(rows))
  BY <1>3 DEF ExistsBijection
<1>5. Cardinality(Numbers(rows)) = n
  BY <1>1, <1>4, FS_CountingElements
<1>. QED
  BY <1>2, <1>5

\* What the invariant says of the files of a post, and what a counting step changes.
LEMMA FilesAreSound == FilesInv => FilesTypeOK /\ OneFilePerNumber /\ CountersExact
<1>. SUFFICES ASSUME FilesInv PROVE FilesTypeOK /\ OneFilePerNumber /\ CountersExact
  OBVIOUS
<1>1. post.rows \in Seq(Row) /\ Sound(post.rows) /\ DistinctFiles(post.rows)
      /\ post.views <= Cardinality(Visited) /\ CountersExact
  BY DEF FilesInv, PostSound, Sound
<1>2. IsInjective([i \in DOMAIN post.rows |-> post.rows[i].file])
  BY <1>1 DEF IsInjective, DistinctFiles
<1>3. FilesTypeOK
  BY <1>1, <1>2 DEF FilesTypeOK, Visited
<1>4. OneFilePerNumber
  BY <1>1, OneNumberARow DEF OneFilePerNumber
<1>. QED
  BY <1>1, <1>3, <1>4

\* Counting a download keeps every row, and adds at most one to one of them.
LEMMA CountingTouchesOne ==
  ASSUME FilesInv, NEW d \in Fetches, CountDownload(d)
  PROVE  /\ DOMAIN post'.rows = DOMAIN post.rows
         /\ \A i \in DOMAIN post.rows :
              /\ post'.rows[i].file = post.rows[i].file /\ post'.rows[i].sn = post.rows[i].sn
              /\ post'.rows[i].count - post.rows[i].count \in {0, 1}
         /\ Cardinality({i \in DOMAIN post.rows : post'.rows[i] # post.rows[i]}) <= 1
<1>. DEFINE rows == post.rows
            touched == {i \in DOMAIN rows : post'.rows[i] # rows[i]}
<1>1. /\ rows \in Seq(Row) /\ DistinctNumbers(rows) /\ post \in [rows: Seq(Row), views: Nat]
  BY DEF FilesInv, PostSound, Sound
<1>2. \A i \in DOMAIN rows : rows[i].count \in Nat
  BY <1>1, RowsAre
<1>3. CASE UNCHANGED post
  <2>1. touched = {}
    BY <1>3
  <2>2. Cardinality(touched) = 0
    BY <2>1, FS_EmptySet
  <2>. QED
    BY <1>2, <1>3, <2>2
<1>4. CASE post' = [post EXCEPT !.rows = Bumped(rows, d)]
  <2>1. post'.rows = Bumped(rows, d)
    BY <1>1, <1>4
  <2>2. /\ DOMAIN Bumped(rows, d) = DOMAIN rows
        /\ \A i \in DOMAIN rows :
             /\ Bumped(rows, d)[i].file = rows[i].file /\ Bumped(rows, d)[i].sn = rows[i].sn
             /\ Bumped(rows, d)[i].count =
                  IF rows[i].sn = fetches[d].sn THEN rows[i].count + 1 ELSE rows[i].count
             /\ rows[i].sn # fetches[d].sn => Bumped(rows, d)[i] = rows[i]
    BY <1>1, BumpedRows
  <2>3. \A i, j \in touched : i = j
    BY <1>1, <2>1, <2>2 DEF DistinctNumbers
  <2>4. Cardinality(touched) <= 1
    <3>. HIDE DEF touched
    <3>1. CASE touched = {}
      <4>1. Cardinality(touched) = 0
        BY <3>1, FS_EmptySet, Zenon
      <4>. QED
        BY <4>1
    <3>2. CASE touched # {}
      <4>1. PICK i \in touched : TRUE
        BY <3>2
      <4>2. touched = {i}
        BY <2>3, <4>1
      <4>3. Cardinality(touched) = 1
        BY <4>2, FS_Singleton, Zenon
      <4>. QED
        BY <4>3
    <3>. QED
      BY <3>1, <3>2
  <2>. QED
    BY <1>2, <2>1, <2>2, <2>4
<1>. QED
  BY <1>3, <1>4 DEF CountDownload

\* A number names one file, whatever the forms sent; a counter shows the full downloads
\* of its file unless forms crossed; and counting touches one row (validatePostAgainstBoard,
\* handleFileDownload, incrementDownloadCount).
THEOREM DownloadsAreCountedHolds == FilesSpec => DownloadsAreCounted
<1>1. FilesInv => FilesTypeOK /\ OneFilePerNumber /\ CountersExact
  BY FilesAreSound
<1>2. FilesInv /\ [FilesNext]_filesVars =>
        [(\E d \in Fetches : CountDownload(d)) =>
           /\ DOMAIN post'.rows = DOMAIN post.rows
           /\ \A i \in DOMAIN post.rows :
                /\ post'.rows[i].file = post.rows[i].file /\ post'.rows[i].sn = post.rows[i].sn
                /\ post'.rows[i].count - post.rows[i].count \in {0, 1}
           /\ Cardinality({i \in DOMAIN post.rows : post'.rows[i] # post.rows[i]}) <= 1
          ]_filesVars
  BY CountingTouchesOne
<1>. QED
  BY <1>1, <1>2, FilesInvHolds, PTL DEF FilesSpec, DownloadsAreCounted, CountingTouchesOneRow
=============================================================================
