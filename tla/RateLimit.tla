------------------------------ MODULE RateLimit ------------------------------
(***************************************************************************)
(* Concurrent callers of one bucket.  Every call site in the program is    *)
(* b.allow(time.Now()): the argument is evaluated before allow takes the   *)
(* mutex, so a call is two steps and the readings of concurrent callers    *)
(* can reach the bucket out of order.  The monotonic reading of time.Now   *)
(* itself never goes back (clock only grows).                              *)
(*                                                                         *)
(* This is also the abstract specification of a rate limit: Handler        *)
(* implements it twice, with its limiter and with its upstreamWarn bucket. *)
(***************************************************************************)
EXTENDS TokenBucket

CONSTANTS Callers,      \* goroutines that may call allow at the same time
          Rate,         \* credits earned per tick; <= 0 is no limit
          Capacity,     \* credits asked for at construction
          MaxClock      \* bound: the last instant explored

ASSUME RateLimitAssumption ==
    /\ Rate \in Int
    /\ Capacity \in Int
    /\ MaxClock \in Nat

VARIABLES clock,        \* the monotonic clock, in ticks
          bucket,       \* the value behind b.mu
          reading,      \* what a caller's time.Now() returned, None outside a call
          granted       \* history: calls answered true so far

vars == <<clock, bucket, reading, granted>>

None == -1

TypeOK ==
    /\ clock \in 0..MaxClock
    /\ bucket \in Buckets
    /\ reading \in [Callers -> 0..MaxClock \union {None}]
    /\ granted \in Nat

Init ==
    /\ clock = 0
    /\ bucket = NewBucket(Rate, Capacity, 0)
    /\ reading = [c \in Callers |-> None]
    /\ granted = 0

Tick ==
    /\ clock < MaxClock
    /\ clock' = clock + 1
    /\ UNCHANGED <<bucket, reading, granted>>

\* time.Now() at the call site, outside the mutex.
ReadClock(c) ==
    /\ reading[c] = None
    /\ reading' = [reading EXCEPT ![c] = clock]
    /\ UNCHANGED <<clock, bucket, granted>>

\* allow, whole under b.mu, with the reading the caller brought.
Allow(c) ==
    /\ reading[c] # None
    /\ bucket' = Taken(bucket, reading[c])
    /\ granted' = IF Admits(bucket, reading[c]) THEN granted + 1 ELSE granted
    /\ reading' = [reading EXCEPT ![c] = None]
    /\ UNCHANGED clock

Next == Tick \/ \E c \in Callers : ReadClock(c) \/ Allow(c)

Spec == Init /\ [][Next]_vars

-----------------------------------------------------------------------------
\* Up to any instant a limited bucket has admitted no more than it held at
\* the start plus what it earned since, in whatever order the readings of
\* concurrent callers reached it (rate.go, allow).
RateBound ==
    ~Unlimited(bucket) => granted * Token <= bucket.capacity + bucket.rate * clock
=============================================================================
