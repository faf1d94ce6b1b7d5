-------------------------- MODULE TokenBucketProofs --------------------------
(***************************************************************************)
(* What newBucket and allow do to a bucket, for every rate, capacity and   *)
(* reading of the clock.                                                   *)
(***************************************************************************)
EXTENDS TokenBucket, TLAPS

\* What every operation keeps true of a bucket: nil, or no fuller than its
\* capacity, which holds at least one token.
WellFormed(b) ==
    /\ b \in Buckets
    /\ ~Unlimited(b) => /\ b.rate > 0
                        /\ b.capacity >= Token
                        /\ b.tokens <= b.capacity

\* Multiplication by a natural number is monotone: the one non-linear fact the
\* arithmetic below needs.
LEMMA Monotone ==
    ASSUME NEW k \in Nat, NEW a \in Int, NEW b \in Int, a <= b
    PROVE  k * a <= k * b
<1>1. k * (b - a) >= 0 OBVIOUS
<1> QED BY <1>1

LEMMA Product == ASSUME NEW k \in Nat, NEW n \in Nat PROVE k * n \in Nat
OBVIOUS

\* newBucket builds a full bucket, or none (rate.go:32-42).
LEMMA NewBucketFull ==
    ASSUME NEW rate \in Int, NEW capacity \in Int, NEW now \in Nat
    PROVE  LET b == NewBucket(rate, capacity, now)
           IN  /\ WellFormed(b)
               /\ ~Unlimited(b) => b.tokens = b.capacity /\ b.last = now
BY TokenAssumption DEF NewBucket, WellFormed, Unlimited, Nil, Buckets

\* A refill never moves the clock back, keeps the limits of the bucket, and
\* earns at most what the elapsed time pays for (rate.go:55-60).
LEMMA RefillEarns ==
    ASSUME NEW b, WellFormed(b), ~Unlimited(b), NEW now \in Nat
    PROVE  LET r == Refilled(b, now)
           IN  /\ r \in Buckets
               /\ r.rate = b.rate /\ r.capacity = b.capacity
               /\ r.last = (IF now > b.last THEN now ELSE b.last)
               /\ b.tokens <= r.tokens /\ r.tokens <= r.capacity
               /\ r.tokens - b.tokens <= b.rate * (r.last - b.last)
               /\ r.tokens = r.capacity
                    \/ r.tokens - b.tokens = b.rate * (r.last - b.last)
<1> DEFINE r == Refilled(b, now)
           earned == b.tokens + (now - b.last) * b.rate
<1>1. /\ b \in [tokens : Nat, capacity : Nat, rate : Nat, last : Nat]
      /\ b.tokens \in Nat /\ b.capacity \in Nat /\ b.rate \in Nat /\ b.last \in Nat
      /\ b.tokens <= b.capacity
  BY DEF WellFormed, Buckets
<1>2. CASE now > b.last
  <2>1. (now - b.last) * b.rate \in Nat /\ (now - b.last) * b.rate = b.rate * (now - b.last)
    BY <1>1, <1>2
  <2>2. r = [b EXCEPT !.last = now,
                      !.tokens = IF earned < b.capacity THEN earned ELSE b.capacity]
    BY <1>2 DEF Refilled
  <2>3. /\ r.rate = b.rate /\ r.capacity = b.capacity /\ r.last = now
        /\ r.tokens = (IF earned < b.capacity THEN earned ELSE b.capacity)
    BY <1>1, <2>2
  <2>4. /\ r.tokens \in Nat /\ b.tokens <= r.tokens /\ r.tokens <= r.capacity
        /\ r.tokens - b.tokens <= (now - b.last) * b.rate
        /\ r.tokens = r.capacity \/ r.tokens - b.tokens = (now - b.last) * b.rate
    <3> HIDE DEF r
    <3> DEFINE gain == (now - b.last) * b.rate
    <3>1. gain \in Nat BY <2>1
    <3>2. r.tokens = (IF b.tokens + gain < b.capacity THEN b.tokens + gain ELSE b.capacity)
      BY <2>3
    <3> HIDE DEF gain
    <3>3. /\ r.tokens \in Nat /\ b.tokens <= r.tokens /\ r.tokens <= r.capacity
          /\ r.tokens - b.tokens <= gain
          /\ r.tokens = r.capacity \/ r.tokens - b.tokens = gain
      BY <1>1, <2>3, <3>1, <3>2
    <3> QED BY <3>3 DEF gain
  <2>5. r \in Buckets BY <1>1, <2>2, <2>3, <2>4 DEF Buckets
  <2> QED BY <1>2, <2>1, <2>3, <2>4, <2>5
<1>3. CASE ~(now > b.last)
  <2>1. r = b BY <1>3 DEF Refilled
  <2>2. b.rate * (b.last - b.last) = 0 BY <1>1
  <2> QED BY <1>1, <1>3, <2>1, <2>2 DEF Buckets
<1> QED BY <1>2, <1>3

\* allow takes exactly one token when it says yes and none when it says no, and
\* a bucket that is nil stays nil (rate.go:47-69).
LEMMA TakenSpends ==
    ASSUME NEW b, WellFormed(b), NEW now \in Nat
    PROVE  LET t == Taken(b, now)
               r == Refilled(b, now)
           IN  /\ WellFormed(t)
               /\ Unlimited(b) => t = b
               /\ ~Unlimited(b) =>
                    /\ ~Unlimited(t)
                    /\ t.rate = b.rate /\ t.capacity = b.capacity
                    /\ t.last = r.last
                    /\ Admits(b, now) => r.tokens >= Token /\ t.tokens = r.tokens - Token
                    /\ ~Admits(b, now) => r.tokens < Token /\ t.tokens = r.tokens
<1>1. CASE Unlimited(b)
  BY <1>1 DEF Taken, WellFormed
<1>2. CASE ~Unlimited(b)
  <2> DEFINE r == Refilled(b, now)
  <2>1. /\ r \in Buckets
        /\ r.rate = b.rate /\ r.capacity = b.capacity
        /\ r.tokens <= r.capacity
    BY <1>2, RefillEarns
  <2>2. b.rate > 0 /\ b.capacity >= Token BY <1>2 DEF WellFormed
  <2>3. CASE Admits(b, now)
    <3>1. r.tokens >= Token BY <1>2, <2>3 DEF Admits
    <3>2. Taken(b, now) = [r EXCEPT !.tokens = @ - Token] BY <1>2, <2>3 DEF Taken
    <3> QED BY <1>2, <2>1, <2>2, <2>3, <3>1, <3>2, TokenAssumption
            DEF WellFormed, Unlimited, Nil, Buckets
  <2>4. CASE ~Admits(b, now)
    <3>1. r.tokens < Token BY <1>2, <2>1, <2>4, TokenAssumption DEF Admits, Buckets
    <3>2. Taken(b, now) = r BY <1>2, <2>4 DEF Taken
    <3> QED BY <1>2, <2>1, <2>2, <2>4, <3>1, <3>2, TokenAssumption
            DEF WellFormed, Unlimited, Nil, Buckets
  <2> QED BY <2>3, <2>4
<1> QED BY <1>1, <1>2
=============================================================================
