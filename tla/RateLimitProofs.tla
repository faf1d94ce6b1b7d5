--------------------------- MODULE RateLimitProofs ----------------------------
(***************************************************************************)
(* For every number of callers, rate, capacity and clock: what the bucket  *)
(* admits over a run and over any window of it is bounded, and a refusal   *)
(* is no longer than it has to be.                                         *)
(***************************************************************************)
EXTENDS RateWindow, TokenBucketProofs

\* The account that makes RateBound inductive: what was granted and what is
\* still in the bucket were paid for by the initial capacity and the time the
\* bucket has counted, and no reading is ahead of the clock.
Account ==
    ~Unlimited(bucket) =>
        granted * Token + bucket.tokens <= bucket.capacity + bucket.rate * bucket.last

RateInv ==
    /\ TypeOK
    /\ WellFormed(bucket)
    /\ bucket.last <= clock
    /\ \A c \in Callers : reading[c] <= clock
    /\ Account

\* Refilling moves both sides of the account by at most the same amount.
LEMMA RefillKeepsAccount ==
    ASSUME NEW k \in Nat, NEW from \in Int, NEW to \in Int,
           NEW spent \in Int, NEW t \in Int, NEW r \in Int, NEW cap \in Int,
           r - t <= k * (to - from),
           spent + t <= cap + k * from
    PROVE  spent + r <= cap + k * to
<1>1. k * (to - from) = k * to - k * from OBVIOUS
<1>2. k * to \in Int /\ k * from \in Int OBVIOUS
<1> QED BY <1>1, <1>2

LEMMA RateInit == Init => RateInv
<1> SUFFICES ASSUME Init PROVE RateInv OBVIOUS
<1> USE DEF Init
<1>1. WellFormed(bucket) /\ (~Unlimited(bucket) => bucket.tokens = bucket.capacity /\ bucket.last = 0)
  BY NewBucketFull, RateLimitAssumption
<1>2. bucket.last = 0 BY <1>1 DEF Unlimited, Nil
<1>3. TypeOK BY <1>1, RateLimitAssumption DEF TypeOK, WellFormed, None
<1>4. Account BY <1>1, <1>2, TokenAssumption DEF Account, WellFormed, Buckets
<1> QED BY <1>1, <1>2, <1>3, <1>4 DEF RateInv, None

\* One call of allow keeps the account.
LEMMA AllowKeeps ==
    ASSUME RateInv, NEW c \in Callers, Allow(c)
    PROVE  RateInv'
<1> DEFINE now == reading[c]
           r == Refilled(bucket, now)
<1>1. /\ now \in Nat /\ now <= clock /\ clock \in Nat
      /\ granted \in Nat /\ WellFormed(bucket) /\ bucket \in Buckets
  BY RateLimitAssumption DEF RateInv, TypeOK, Allow, None
<1>2. /\ bucket' = Taken(bucket, now)
      /\ clock' = clock
      /\ granted' = IF Admits(bucket, now) THEN granted + 1 ELSE granted
  BY DEF Allow
<1>3. /\ WellFormed(bucket')
      /\ Unlimited(bucket) => bucket' = bucket
      /\ ~Unlimited(bucket) =>
           /\ ~Unlimited(bucket')
           /\ bucket'.rate = bucket.rate /\ bucket'.capacity = bucket.capacity
           /\ bucket'.last = r.last
           /\ Admits(bucket, now) => bucket'.tokens = r.tokens - Token
           /\ ~Admits(bucket, now) => bucket'.tokens = r.tokens
  BY <1>1, <1>2, TakenSpends
<1>4. ~Unlimited(bucket) =>
           /\ r \in Buckets
           /\ r.last = (IF now > bucket.last THEN now ELSE bucket.last)
           /\ r.tokens - bucket.tokens <= bucket.rate * (r.last - bucket.last)
  BY <1>1, RefillEarns
<1>5. bucket'.last <= clock'
  <2>1. bucket.last <= clock /\ bucket.last \in Nat BY <1>1 DEF RateInv, Buckets
  <2> QED BY <1>1, <1>2, <1>3, <1>4, <2>1
<1>6. TypeOK'
  BY <1>1, <1>2, <1>3 DEF RateInv, TypeOK, Allow, WellFormed
<1>7. Account'
  <2> SUFFICES ASSUME ~Unlimited(bucket')
               PROVE  granted' * Token + bucket'.tokens
                        <= bucket'.capacity + bucket'.rate * bucket'.last
    BY DEF Account
  <2>1. ~Unlimited(bucket) BY <1>3
  <2>2. /\ bucket.rate \in Nat /\ bucket.last \in Nat /\ bucket.tokens \in Nat
        /\ bucket.capacity \in Nat /\ r.last \in Nat /\ r.tokens \in Nat
    BY <1>1, <1>4, <2>1 DEF Buckets
  <2>3. granted * Token \in Nat BY <1>1, TokenAssumption
  <2>4. granted * Token + bucket.tokens <= bucket.capacity + bucket.rate * bucket.last
    BY <2>1 DEF RateInv, Account
  <2> HIDE DEF r
  <2>5. granted * Token + r.tokens <= bucket.capacity + bucket.rate * r.last
    BY <1>4, <2>1, <2>2, <2>3, <2>4, RefillKeepsAccount
  <2>6. granted' * Token + bucket'.tokens = granted * Token + r.tokens
    <3>1. CASE Admits(bucket, now)
      <4>1. (granted + 1) * Token = granted * Token + Token BY <1>1, TokenAssumption
      <4> QED BY <1>2, <1>3, <2>1, <2>2, <2>3, <3>1, <4>1, TokenAssumption
    <3>2. CASE ~Admits(bucket, now)
      BY <1>2, <1>3, <2>1, <3>2
    <3> QED BY <3>1, <3>2
  <2> QED BY <1>3, <2>1, <2>5, <2>6
<1>8. \A d \in Callers : reading'[d] <= clock'
  BY <1>1, <1>2 DEF RateInv, TypeOK, Allow, None
<1> QED BY <1>3, <1>5, <1>6, <1>7, <1>8 DEF RateInv

LEMMA RateNext == RateInv /\ [Next]_vars => RateInv'
<1> SUFFICES ASSUME RateInv, [Next]_vars PROVE RateInv' OBVIOUS
<1> USE DEF RateInv, TypeOK, Account
<1>1. CASE Tick
  <2>1. bucket.last \in Nat BY DEF Buckets
  <2>2. \A c \in Callers : reading[c] \in Int BY RateLimitAssumption DEF None
  <2> QED BY <1>1, <2>1, <2>2, RateLimitAssumption DEF Tick
<1>2. ASSUME NEW c \in Callers, ReadClock(c) PROVE RateInv'
  BY <1>2, RateLimitAssumption DEF ReadClock
<1>3. ASSUME NEW c \in Callers, Allow(c) PROVE RateInv'
  BY <1>3, AllowKeeps
<1>4. CASE UNCHANGED vars BY <1>4 DEF vars
<1> QED BY <1>1, <1>2, <1>3, <1>4 DEF Next

LEMMA RateInvariant == Spec => []RateInv
<1> QED BY RateInit, RateNext, PTL DEF Spec

\* Whatever the order in which readings reach the bucket, what it has admitted
\* by any instant was paid for by its capacity and the time since the start
\* (rate.go, allow).
THEOREM RateBounded == Spec => []RateBound
<1>1. RateInv => RateBound
  <2> SUFFICES ASSUME RateInv, ~Unlimited(bucket)
               PROVE  granted * Token <= bucket.capacity + bucket.rate * clock
    BY DEF RateBound
  <2>1. /\ bucket.rate \in Nat /\ bucket.last \in Nat /\ bucket.tokens \in Nat
        /\ bucket.capacity \in Nat /\ clock \in Nat /\ granted * Token \in Nat
        /\ bucket.last <= clock
    BY TokenAssumption, RateLimitAssumption DEF RateInv, TypeOK, Buckets
  <2>2. bucket.rate * bucket.last <= bucket.rate * clock BY <2>1, Monotone
  <2>3. granted * Token + bucket.tokens <= bucket.capacity + bucket.rate * bucket.last
    BY DEF RateInv, Account
  <2>4. bucket.rate * bucket.last \in Nat /\ bucket.rate * clock \in Nat BY <2>1
  <2> QED BY <2>1, <2>2, <2>3, <2>4
<1> QED BY <1>1, RateInvariant, PTL

-----------------------------------------------------------------------------
(* The window of RateWindow: the bound from every instant on, and how long  *)
(* a refusal can last.                                                     *)

\* The account of the window: nothing fresh is granted before the bucket's own
\* time reaches since, and from there on the capacity and the window pay.
WindowAccount ==
    ~Unlimited(bucket) =>
        IF bucket.last < since
        THEN fresh = 0
        ELSE fresh * Token + bucket.tokens
                <= bucket.capacity + bucket.rate * (bucket.last - since)

\* What the bucket earned since the last grant is still there, up to the brim.
Kept ==
    ~Unlimited(bucket) =>
        \/ bucket.tokens >= bucket.capacity
        \/ bucket.tokens >= bucket.rate * (bucket.last - lastGrant)

WindowInv ==
    /\ RateInv
    /\ since \in Nat
    /\ fresh \in Nat
    /\ lastGrant \in Nat
    /\ WindowAccount
    /\ Kept

LEMMA WindowInit == WInit => WindowInv
<1> SUFFICES ASSUME WInit PROVE WindowInv OBVIOUS
<1>1. RateInv BY RateInit DEF WInit
<1>2. since \in Nat /\ fresh = 0 /\ lastGrant = 0
  BY RateLimitAssumption DEF WInit
<1>3. ~Unlimited(bucket) => bucket.tokens = bucket.capacity /\ bucket.last = 0
  BY NewBucketFull, RateLimitAssumption DEF WInit, Init
<1>4. bucket \in Buckets BY <1>1 DEF RateInv, TypeOK
<1>5. WindowAccount
  <2> SUFFICES ASSUME ~Unlimited(bucket), ~(bucket.last < since)
               PROVE  fresh * Token + bucket.tokens
                        <= bucket.capacity + bucket.rate * (bucket.last - since)
    BY <1>2 DEF WindowAccount
  <2>1. since = 0 /\ bucket.last = 0 /\ bucket.tokens = bucket.capacity BY <1>2, <1>3
  <2>2. bucket.rate * (bucket.last - since) = 0 BY <1>4, <2>1 DEF Buckets
  <2>3. fresh * Token = 0 BY <1>2, TokenAssumption
  <2> QED BY <1>4, <2>1, <2>2, <2>3 DEF Buckets
<1>6. Kept BY <1>3, <1>4 DEF Kept, Buckets
<1> QED BY <1>1, <1>2, <1>5, <1>6 DEF WindowInv

\* One call of allow keeps both accounts.
LEMMA AllowKeepsWindow ==
    ASSUME WindowInv, NEW c \in Callers, WAllow(c), since' = since
    PROVE  WindowInv'
<1> DEFINE now == reading[c]
           r == Refilled(bucket, now)
           won == Admits(bucket, now)
<1>1. RateInv' BY AllowKeeps DEF WindowInv, WAllow
<1>2. /\ now \in Nat /\ bucket \in Buckets /\ bucket' \in Buckets /\ WellFormed(bucket)
      /\ bucket' = Taken(bucket, now)
      /\ fresh' = IF won /\ now >= since THEN fresh + 1 ELSE fresh
      /\ lastGrant' = IF won THEN bucket'.last ELSE lastGrant
  BY <1>1, RateLimitAssumption
     DEF WindowInv, RateInv, TypeOK, WAllow, Allow, Observe, None
<1>3. since' \in Nat /\ fresh' \in Nat /\ lastGrant' \in Nat
  BY <1>2 DEF WindowInv, Buckets
<1>4. Unlimited(bucket) <=> Unlimited(bucket')
  BY <1>2, TakenSpends
<1>5. ASSUME ~Unlimited(bucket)
      PROVE  /\ r \in Buckets
             /\ r.rate = bucket.rate /\ r.capacity = bucket.capacity
             /\ r.last = (IF now > bucket.last THEN now ELSE bucket.last)
             /\ r.tokens <= r.capacity
             /\ r.tokens - bucket.tokens <= bucket.rate * (r.last - bucket.last)
             /\ \/ r.tokens = r.capacity
                \/ r.tokens - bucket.tokens = bucket.rate * (r.last - bucket.last)
             /\ bucket'.rate = bucket.rate /\ bucket'.capacity = bucket.capacity
             /\ bucket'.last = r.last
             /\ won => bucket'.tokens = r.tokens - Token
             /\ ~won => bucket'.tokens = r.tokens
  BY <1>2, <1>5, TakenSpends, RefillEarns
<1> HIDE DEF r, won
<1>6. WindowAccount'
  <2> SUFFICES ASSUME ~Unlimited(bucket')
               PROVE  IF bucket'.last < since
                      THEN fresh' = 0
                      ELSE fresh' * Token + bucket'.tokens
                              <= bucket'.capacity + bucket'.rate * (bucket'.last - since)
    BY DEF WindowAccount
  <2>1. ~Unlimited(bucket) BY <1>4
  <2>2. /\ bucket.rate \in Nat /\ bucket.last \in Nat /\ bucket.tokens \in Nat
        /\ bucket.capacity \in Nat /\ r.last \in Nat /\ r.tokens \in Nat
        /\ since \in Nat /\ fresh \in Nat /\ fresh * Token \in Nat
    BY <1>2, <1>5, <2>1, TokenAssumption DEF Buckets, WindowInv
  <2>3. CASE r.last < since
    \* The reading is before the window, so the grant, if any, is not fresh.
    <3>1. bucket.last < since /\ now < since BY <1>2, <1>5, <2>1, <2>2, <2>3
    <3>2. fresh = 0 BY <2>1, <3>1 DEF WindowInv, WindowAccount
    <3>3. fresh' = 0 BY <1>2, <2>2, <3>1, <3>2
    <3> QED BY <1>5, <2>1, <2>3, <3>3
  <2>4. CASE ~(r.last < since)
    <3>1. fresh * Token + r.tokens <= bucket.capacity + bucket.rate * (r.last - since)
      <4>1. CASE bucket.last < since
        <5>1. fresh = 0 BY <2>1, <4>1 DEF WindowInv, WindowAccount
        <5>2. fresh * Token = 0 BY <5>1, TokenAssumption
        <5>3. bucket.rate * (r.last - since) \in Nat BY <2>2, <2>4
        <5> QED BY <1>5, <2>1, <2>2, <5>2, <5>3
      <4>2. CASE ~(bucket.last < since)
        <5>1. fresh * Token + bucket.tokens
                <= bucket.capacity + bucket.rate * (bucket.last - since)
          BY <2>1, <4>2 DEF WindowInv, WindowAccount
        <5>2. bucket.rate * (r.last - since)
                = bucket.rate * (r.last - bucket.last) + bucket.rate * (bucket.last - since)
          BY <2>2
        <5>3. /\ bucket.rate * (r.last - since) \in Int
              /\ bucket.rate * (r.last - bucket.last) \in Int
              /\ bucket.rate * (bucket.last - since) \in Int
          BY <2>2
        <5> QED BY <1>5, <2>1, <2>2, <5>1, <5>2, <5>3
      <4> QED BY <4>1, <4>2
    <3>2. fresh' * Token + bucket'.tokens <= fresh * Token + r.tokens
      <4>1. (fresh + 1) * Token = fresh * Token + Token BY <2>2, TokenAssumption
      <4>2. fresh' * Token <= (IF won THEN fresh * Token + Token ELSE fresh * Token)
        BY <1>2, <2>2, <4>1, TokenAssumption
      <4>3. fresh' * Token \in Nat BY <1>3, Product, TokenAssumption
      <4> QED BY <1>5, <2>1, <2>2, <4>2, <4>3, TokenAssumption
    <3>3. /\ fresh' * Token \in Nat /\ bucket'.tokens \in Nat
          /\ bucket.rate * (r.last - since) \in Int
      BY <1>2, <1>3, <2>2, Product, TokenAssumption DEF Buckets
    <3> QED BY <1>5, <2>1, <2>2, <2>4, <3>1, <3>2, <3>3
  <2> QED BY <2>3, <2>4
<1>7. Kept'
  <2> SUFFICES ASSUME ~Unlimited(bucket')
               PROVE  \/ bucket'.tokens >= bucket'.capacity
                      \/ bucket'.tokens >= bucket'.rate * (bucket'.last - lastGrant')
    BY DEF Kept
  <2>1. ~Unlimited(bucket) BY <1>4
  <2>2. /\ bucket.rate \in Nat /\ bucket.last \in Nat /\ bucket.tokens \in Nat
        /\ bucket.capacity \in Nat /\ r.last \in Nat /\ r.tokens \in Nat
        /\ bucket'.tokens \in Nat /\ lastGrant \in Nat
    BY <1>2, <1>5, <2>1 DEF Buckets, WindowInv
  <2>3. CASE won
    <3>1. bucket'.rate * (bucket'.last - lastGrant') = 0
      BY <1>2, <1>5, <2>1, <2>2, <2>3
    <3> QED BY <2>2, <3>1
  <2>4. CASE ~won
    <3>1. /\ bucket.rate * (r.last - lastGrant)
                = bucket.rate * (r.last - bucket.last) + bucket.rate * (bucket.last - lastGrant)
          /\ bucket.rate * (r.last - bucket.last) \in Nat
          /\ bucket.rate * (bucket.last - lastGrant) \in Int
      BY <1>2, <1>5, <2>1, <2>2
    <3>2. \/ bucket.tokens >= bucket.capacity
          \/ bucket.tokens >= bucket.rate * (bucket.last - lastGrant)
      BY <2>1 DEF WindowInv, Kept
    <3> QED BY <1>2, <1>5, <2>1, <2>2, <2>4, <3>1, <3>2
  <2> QED BY <2>3, <2>4
<1> QED BY <1>1, <1>3, <1>6, <1>7 DEF WindowInv

LEMMA WindowNext == WindowInv /\ [WNext]_wvars => WindowInv'
<1> SUFFICES ASSUME WindowInv, [WNext]_wvars PROVE WindowInv' OBVIOUS
<1>1. RateInv'
  <2>1. [Next]_vars BY DEF WNext, WTick, WReadClock, WAllow, Next, wvars, vars
  <2> QED BY <2>1, RateNext DEF WindowInv
<1>2. CASE UNCHANGED <<bucket, since, fresh, lastGrant>>
  BY <1>1, <1>2 DEF WindowInv, WindowAccount, Kept
<1>3. ASSUME NEW c \in Callers, WAllow(c), UNCHANGED since PROVE WindowInv'
  BY <1>3, AllowKeepsWindow
<1> QED BY <1>2, <1>3 DEF WNext, WTick, WReadClock, Tick, ReadClock, wvars

LEMMA WindowInvariant == WSpec => []WindowInv
<1> QED BY WindowInit, WindowNext, PTL DEF WSpec

\* From any instant on the bucket admits at most its capacity and what the
\* window earned, measured by the readings callers bring (rate.go, allow).
THEOREM WindowBounded == WSpec => []WindowBound
<1>1. WindowInv => WindowBound
  <2> SUFFICES ASSUME WindowInv, ~Unlimited(bucket), clock >= since
               PROVE  fresh * Token <= bucket.capacity + bucket.rate * (clock - since)
    BY DEF WindowBound
  <2>1. /\ bucket.rate \in Nat /\ bucket.last \in Nat /\ bucket.tokens \in Nat
        /\ bucket.capacity \in Nat /\ clock \in Nat /\ since \in Nat /\ fresh \in Nat
        /\ bucket.last <= clock
    BY RateLimitAssumption DEF WindowInv, RateInv, TypeOK, Buckets
  <2>2. fresh * Token \in Nat /\ bucket.rate * (clock - since) \in Nat
    BY <2>1, Product, TokenAssumption
  <2>3. CASE bucket.last < since
    <3>1. fresh * Token = 0 BY <2>1, <2>3, TokenAssumption DEF WindowInv, WindowAccount
    <3> QED BY <2>1, <2>2, <3>1
  <2>4. CASE ~(bucket.last < since)
    <3>1. fresh * Token + bucket.tokens
            <= bucket.capacity + bucket.rate * (bucket.last - since)
      BY <2>4 DEF WindowInv, WindowAccount
    <3>2. bucket.rate * (bucket.last - since) <= bucket.rate * (clock - since)
      BY <2>1, Monotone
    <3>3. bucket.rate * (bucket.last - since) \in Int BY <2>1
    <3> QED BY <2>1, <2>2, <3>1, <3>2, <3>3
  <2> QED BY <2>3, <2>4
<1> QED BY <1>1, WindowInvariant, PTL

\* A call is refused only within one refill interval of the last grant:
\* "at most one refill interval" (rate.go:55-56), fractions included.
THEOREM RefusedBriefly == WSpec => RefusalsAreShort
<1>1. ASSUME WindowInv, [WNext]_wvars,
             NEW c \in Callers, Allow(c), ~Admits(bucket, reading[c])
      PROVE  bucket.rate * (bucket'.last - lastGrant) < Token
  <2> DEFINE now == reading[c]
             r == Refilled(bucket, now)
  <2>1. /\ now \in Nat /\ WellFormed(bucket) /\ bucket \in Buckets
        /\ bucket' = Taken(bucket, now) /\ lastGrant \in Nat
    BY <1>1, RateLimitAssumption DEF WindowInv, RateInv, TypeOK, Allow, None
  <2>2. ~Unlimited(bucket) BY <1>1 DEF Admits
  <2>3. /\ r \in Buckets /\ r.capacity = bucket.capacity
        /\ bucket.tokens <= r.tokens
        /\ \/ r.tokens = r.capacity
           \/ r.tokens - bucket.tokens = bucket.rate * (r.last - bucket.last)
        /\ bucket'.last = r.last /\ r.tokens < Token
    BY <1>1, <2>1, <2>2, TakenSpends, RefillEarns
  <2> HIDE DEF r
  <2>4. /\ bucket.rate \in Nat /\ bucket.last \in Nat /\ bucket.tokens \in Nat
        /\ bucket.capacity \in Nat /\ r.last \in Nat /\ r.tokens \in Nat
        /\ bucket.capacity >= Token
    BY <2>1, <2>2, <2>3 DEF Buckets, WellFormed
  \* A bucket short of a token is not full, now or before the refill.
  <2>5. r.tokens - bucket.tokens = bucket.rate * (r.last - bucket.last)
    BY <2>3, <2>4, TokenAssumption
  <2>6. bucket.tokens >= bucket.rate * (bucket.last - lastGrant)
    BY <1>1, <2>2, <2>3, <2>4, TokenAssumption DEF WindowInv, Kept
  <2>7. /\ bucket.rate * (r.last - lastGrant)
              = bucket.rate * (r.last - bucket.last) + bucket.rate * (bucket.last - lastGrant)
        /\ bucket.rate * (r.last - bucket.last) \in Int
        /\ bucket.rate * (bucket.last - lastGrant) \in Int
    BY <2>1, <2>4
  <2> QED BY <2>3, <2>4, <2>5, <2>6, <2>7, TokenAssumption
<1>2. WindowInv /\ [WNext]_wvars
        => [\A c \in Callers :
              Allow(c) /\ ~Admits(bucket, reading[c]) =>
                  bucket.rate * (bucket'.last - lastGrant) < Token]_wvars
  BY <1>1
<1> QED BY <1>2, WindowInvariant, PTL DEF WSpec, RefusalsAreShort
=============================================================================
