----------------------------- MODULE RateWindow ------------------------------
(***************************************************************************)
(* RateLimit watched over a window of time: what an operator means by "at  *)
(* most so many per second, with this burst" holds from every instant on,  *)
(* not only from the start, and a refusal is never longer than it has to   *)
(* be.  The variables added here observe and decide nothing.               *)
(***************************************************************************)
EXTENDS RateLimit

VARIABLES since,        \* the start of the window, fixed in the initial state
          fresh,        \* calls granted on a reading taken at or after since
          lastGrant     \* bucket.last as of the most recent grant

wvars == <<clock, bucket, reading, granted, since, fresh, lastGrant>>

WInit ==
    /\ Init
    /\ since \in 0..MaxClock
    /\ fresh = 0
    /\ lastGrant = 0

Observe(c) ==
    LET won == Admits(bucket, reading[c])
    IN  /\ fresh' = IF won /\ reading[c] >= since THEN fresh + 1 ELSE fresh
        /\ lastGrant' = IF won THEN bucket'.last ELSE lastGrant

WTick == Tick /\ UNCHANGED <<fresh, lastGrant>>

WReadClock(c) == ReadClock(c) /\ UNCHANGED <<fresh, lastGrant>>

WAllow(c) == Allow(c) /\ Observe(c)

WNext ==
    /\ WTick \/ \E c \in Callers : WReadClock(c) \/ WAllow(c)
    /\ UNCHANGED since

WSpec == WInit /\ [][WNext]_wvars

-----------------------------------------------------------------------------
\* From any instant on, the bucket admits at most its capacity and what the
\* window earned, counting the calls that read the clock inside the window.
\* An idle stretch before it buys no more than one full bucket (the min with
\* capacity in allow) and a late caller with an old reading earns nothing
\* twice (the elapsed > 0 guard, rate.go:55-60).
WindowBound ==
    ~Unlimited(bucket) /\ clock >= since =>
        fresh * Token <= bucket.capacity + bucket.rate * (clock - since)

\* A call is refused only within one refill interval of the last grant, as the
\* bucket measures time: fractions of a token are kept across refusals, and a
\* backward reading costs "at most one refill interval" (rate.go:55-56).
RefusalsAreShort ==
    [][\A c \in Callers :
          Allow(c) /\ ~Admits(bucket, reading[c]) =>
              bucket.rate * (bucket'.last - lastGrant) < Token]_wvars
=============================================================================
