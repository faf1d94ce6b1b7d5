----------------------------- MODULE TokenBucket -----------------------------
(***************************************************************************)
(* The token bucket of rate.go, as the value the mutex protects and the    *)
(* functions on it.  The code counts tokens in a float64; here a token is  *)
(* Token credits and a bucket earns a whole number of credits per tick of  *)
(* the clock, so a fraction of a token is exact (rounding is left out).    *)
(***************************************************************************)
EXTENDS Integers

CONSTANT Token          \* credits in one token

ASSUME TokenAssumption == Token \in Nat \ {0}

Buckets == [tokens : Nat, capacity : Nat, rate : Nat, last : Nat]

\* The nil *bucket, which callers read as "no limit".  No other bucket has
\* rate 0.
Nil == [tokens |-> 0, capacity |-> 0, rate |-> 0, last |-> 0]

Unlimited(b) == b = Nil

\* newBucket: full, and never smaller than one token.
NewBucket(rate, capacity, now) ==
    LET held == IF capacity < Token THEN Token ELSE capacity
    IN  IF rate <= 0
        THEN Nil
        ELSE [tokens |-> held, capacity |-> held, rate |-> rate, last |-> now]

\* Refills that would be wrong: one that lets a backward reading move last, one
\* that credits whole tokens only and forgets the rest, one with no ceiling.
RefilledMinting(b, now) ==
    LET earned == b.tokens + (IF now > b.last THEN (now - b.last) * b.rate ELSE 0)
    IN  [b EXCEPT !.last = now,
                  !.tokens = IF earned < b.capacity THEN earned ELSE b.capacity]

RefilledTruncating(b, now) ==
    LET earned == b.tokens + (((now - b.last) * b.rate) \div Token) * Token
    IN  IF now > b.last
        THEN [b EXCEPT !.last = now,
                       !.tokens = IF earned < b.capacity THEN earned ELSE b.capacity]
        ELSE b

RefilledUncapped(b, now) ==
    IF now > b.last
    THEN [b EXCEPT !.last = now, !.tokens = @ + (now - b.last) * b.rate]
    ELSE b

\* The lazy refill at the head of allow.  A reading at or before the last one
\* that counted leaves the bucket alone.
Refilled(b, now) ==
    LET earned == b.tokens + (now - b.last) * b.rate
    IN  IF now > b.last
        THEN [b EXCEPT !.last = now,
                       !.tokens = IF earned < b.capacity THEN earned ELSE b.capacity]
        ELSE b

\* What allow(now) returns ...
Admits(b, now) == Unlimited(b) \/ Refilled(b, now).tokens >= Token

\* ... and the bucket it leaves behind: the refill stays even when it refuses.
Taken(b, now) ==
    CASE Unlimited(b)                    -> b
      [] ~Unlimited(b) /\ Admits(b, now) -> [Refilled(b, now) EXCEPT !.tokens = @ - Token]
      [] OTHER                           -> Refilled(b, now)
=============================================================================
