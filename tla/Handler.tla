------------------------------- MODULE Handler -------------------------------
(***************************************************************************)
(* handler.go, ping.go, inspect.go and upstream.go: what one proxy does    *)
(* with the requests its connections hand it, concurrently.  A request is  *)
(* one call of ServeHTTP; pc is where its goroutine stands between two     *)
(* steps another goroutine, the client or Docker can come between.  One    *)
(* tick of the clock is a second.                                          *)
(*                                                                         *)
(* Docker and net/http's client are external: Answered, Fail, Decoded,     *)
(* Garbled and Drained are what a call into them can return.  The client's *)
(* Timeout covers an exchange from Do to the end of the body, so a timeout *)
(* can end each of the three waits.                                        *)
(***************************************************************************)
EXTENDS TokenBucket, FiniteSets

CONSTANTS Requests,       \* the requests clients send
          Kinds,          \* what Classify makes of them, among Routes
          Statuses,       \* status codes Docker answers with
          MaxConcurrent,  \* cfg.MaxConcurrent, the upstream slots
          MaxRate,        \* cfg.MaxRate in requests per second; <= 0 is no limit
          burstSeconds,   \* seconds of tokens the limiter holds
          MaxClock        \* bound: the last instant explored

\* A request no route matches, the version probe, and the two inspects.
Routes == {"none", "ping", "inspect"}

ASSUME HandlerAssumption ==
    /\ IsFiniteSet(Requests)
    /\ Kinds \subseteq Routes
    /\ Statuses \subseteq Nat \ {0}
    /\ MaxConcurrent \in Nat \ {0}
    /\ MaxRate \in Int
    /\ burstSeconds \in Nat
    /\ MaxClock \in Nat

\* Credits are chosen so that upstreamWarn earns one per second.
upstreamWarnInterval == Token

VARIABLES pc,             \* where each request's goroutine stands
          route,          \* what Classify made of it
          ctx,            \* the state of r.Context()
          inFlight,       \* len(h.inFlight)
          clock,          \* the monotonic clock
          limiter,        \* h.limiter
          upstreamWarn,   \* h.upstreamWarn
          reading,        \* the time.Now() a request is about to hand a bucket
          answer,         \* the status Docker answered it with, 0 before
          err,            \* how its last upstream operation failed
          reply,          \* the status written to the client, 0 for none
          record,         \* what it wrote to the log
          asked,          \* history: requests whose exchange with Docker began
          rush            \* history: how many since the limiter was last full

exchange == <<answer, err>>
outcome  == <<reply, record>>
buckets  == <<limiter, upstreamWarn, reading>>
history  == <<asked, rush>>
vars == <<pc, route, ctx, inFlight, clock, buckets, exchange, outcome, history>>

None == -1

Waits   == {"do", "body", "drain"}                  \* inside net/http's client
Judges  == {"unavailable", "invalid", "status", "warn"}
Holding == {"slot", "limit", "return"} \union Waits \union Judges
Errors  == {"none", "timeout", "broken", "invalid"}

\* The level each record is written at.
Debug == {"none", "denied", "throttled", "canceled", "errorStatus"}
Loud  == {"unreachable", "serverError", "invalid"}   \* WARN, WARN, ERROR

Larger(a, b) == IF a < b THEN b ELSE a

\* The limiter's capacity without the concurrency floor, and with it.
BurstWithoutFloor == MaxRate * burstSeconds
Burst == Larger(MaxRate * burstSeconds, MaxConcurrent)

Init ==
    /\ pc = [r \in Requests |-> "new"]
    /\ route \in [Requests -> Kinds]
    /\ ctx = [r \in Requests |-> "live"]
    /\ inFlight = 0
    /\ clock = 0
    /\ limiter = NewBucket(MaxRate * Token, Burst * Token, 0)
    /\ upstreamWarn = NewBucket(1, Token, 0)
    /\ reading = [r \in Requests |-> None]
    /\ answer = [r \in Requests |-> 0]
    /\ err = [r \in Requests |-> "none"]
    /\ reply = [r \in Requests |-> 0]
    /\ record = [r \in Requests |-> "none"]
    /\ asked = {} /\ rush = 0

-----------------------------------------------------------------------------
Goto(r, from, to) == pc[r] = from /\ pc' = [pc EXCEPT ![r] = to]

\* The status line and the log record of a request.
Write(r, status, line) ==
    /\ reply' = [reply EXCEPT ![r] = status]
    /\ record' = [record EXCEPT ![r] = line]

\* A request no route matches costs neither a slot nor a token.
Deny(r) ==
    /\ route[r] = "none"
    /\ Goto(r, "new", "done")
    /\ Write(r, 403, "denied")
    /\ UNCHANGED <<route, ctx, inFlight, clock, buckets, exchange, history>>

\* The rate limit asked before the slot: a request answered 503 pays a token.
BusyPays(r) ==
    /\ route[r] # "none"
    /\ inFlight >= MaxConcurrent
    /\ limiter' = Taken(limiter, clock)
    /\ Goto(r, "new", "done")
    /\ Write(r, 503, "none")
    /\ UNCHANGED <<route, ctx, inFlight, clock, upstreamWarn, reading, exchange, history>>

\* acquire, the default branch: every slot is taken.
Busy(r) ==
    /\ route[r] # "none"
    /\ inFlight >= MaxConcurrent
    /\ Goto(r, "new", "done")
    /\ Write(r, 503, "none")
    /\ UNCHANGED <<route, ctx, inFlight, clock, buckets, exchange, history>>

\* Off by one: the slot past the last is handed out too.
acquireOneMore(r) ==
    /\ route[r] # "none"
    /\ inFlight <= MaxConcurrent
    /\ inFlight' = inFlight + 1
    /\ Goto(r, "new", "slot")
    /\ UNCHANGED <<route, ctx, clock, buckets, exchange, outcome, history>>

acquire(r) ==
    /\ route[r] # "none"
    /\ inFlight < MaxConcurrent
    /\ inFlight' = inFlight + 1
    /\ Goto(r, "new", "slot")
    /\ UNCHANGED <<route, ctx, clock, buckets, exchange, outcome, history>>

\* The argument of h.limiter.allow(time.Now()).
ReadClock(r) ==
    /\ Goto(r, "slot", "limit")
    /\ reading' = [reading EXCEPT ![r] = clock]
    /\ UNCHANGED <<route, ctx, inFlight, clock, limiter, upstreamWarn, exchange, outcome, history>>

\* The release deferred only after the limiter was asked.
ThrottleKeepsSlot(r) ==
    /\ ~Admits(limiter, reading[r])
    /\ limiter' = Taken(limiter, reading[r])
    /\ Goto(r, "limit", "done")
    /\ Write(r, 429, "throttled")
    /\ UNCHANGED <<route, ctx, inFlight, clock, upstreamWarn, reading, exchange, history>>

\* The return after the 429 forgotten.
ThrottleFallsThrough(r) ==
    /\ ~Admits(limiter, reading[r])
    /\ limiter' = Taken(limiter, reading[r])
    /\ Goto(r, "limit", "do")
    /\ Write(r, 429, "throttled")
    /\ UNCHANGED <<route, ctx, inFlight, clock, upstreamWarn, reading, exchange, history>>

\* allow refuses: 429, and the deferred release is still to come.
Throttle(r) ==
    /\ ~Admits(limiter, reading[r])
    /\ limiter' = Taken(limiter, reading[r])
    /\ Goto(r, "limit", "return")
    /\ Write(r, 429, "throttled")
    /\ UNCHANGED <<route, ctx, inFlight, clock, upstreamWarn, reading, exchange, history>>

\* The limiter is full for every call of allow, now or with a reading in hand.
Full ==
    \A t \in {clock} \union {reading[q] : q \in {p \in Requests : pc[p] = "limit"}} :
        Refilled(limiter, t).tokens = limiter.capacity

Forward(r) ==
    /\ Admits(limiter, reading[r])
    /\ limiter' = Taken(limiter, reading[r])
    /\ Goto(r, "limit", "do")
    /\ asked' = asked \union {r}
    /\ rush' = (IF Full THEN 0 ELSE rush) + 1
    /\ UNCHANGED <<route, ctx, inFlight, clock, upstreamWarn, reading, exchange, outcome>>

-----------------------------------------------------------------------------
(* What Docker and the HTTP client can do to a forwarded request.          *)

\* Do returns a response.  A ping that succeeded is answered without its body.
Answered(r) ==
    /\ \E s \in Statuses :
          /\ answer' = [answer EXCEPT ![r] = s]
          /\ \/ s = 200 /\ route[r] = "ping" /\ Goto(r, "do", "return")
                        /\ Write(r, 200, "none")
             \/ s = 200 /\ route[r] = "inspect" /\ Goto(r, "do", "body")
                        /\ UNCHANGED outcome
             \/ s # 200 /\ Goto(r, "do", "drain") /\ UNCHANGED outcome
    /\ UNCHANGED <<route, ctx, inFlight, clock, buckets, err, history>>

\* Which function is handed the error of each wait.
Judge(wait) == CASE wait = "do"    -> "unavailable"
                 [] wait = "body"  -> "invalid"
                 [] wait = "drain" -> "status"

\* A wait ends in an error: the timeout ran out, or the connection broke or was
\* given up because the client went away.
Fail(r, e) ==
    /\ pc[r] \in Waits
    /\ err' = [err EXCEPT ![r] = e]
    /\ pc' = [pc EXCEPT ![r] = Judge(pc[r])]
    /\ UNCHANGED <<route, ctx, inFlight, clock, buckets, answer, outcome, history>>

Break(r) == Fail(r, "broken")

\* A timeout that covers the wait for the headers only, and none at all for a
\* body Docker stops sending.
TimeOutHeaderOnly(r) == pc[r] = "do" /\ Fail(r, "timeout")

TimeOut(r) == Fail(r, "timeout")

\* decodeJSON accepted the body and the object has its Config or Id.
Decoded(r) ==
    /\ Goto(r, "body", "return")
    /\ Write(r, 200, "none")
    /\ UNCHANGED <<route, ctx, inFlight, clock, buckets, exchange, history>>

\* Too large, not JSON, or without its Config or Id.
Garbled(r) ==
    /\ Goto(r, "body", "invalid")
    /\ err' = [err EXCEPT ![r] = "invalid"]
    /\ UNCHANGED <<route, ctx, inFlight, clock, buckets, answer, outcome, history>>

Drained(r) ==
    /\ Goto(r, "drain", "status")
    /\ UNCHANGED <<route, ctx, inFlight, clock, buckets, exchange, outcome, history>>

-----------------------------------------------------------------------------
(* upstream.go: what the client is told about a failed exchange.           *)

Canceled(r) == ctx[r] = "canceled"

\* A timeout taken for the client's own cancellation: nobody is told.
UnavailableSilent(r) ==
    \/ (Canceled(r) \/ err[r] = "timeout") /\ Write(r, 0, "canceled")
    \/ ~Canceled(r) /\ err[r] # "timeout" /\ Write(r, 502, "unreachable")

\* The body of writeUpstreamUnavailable.
Unavailable(r) ==
    \/ Canceled(r) /\ Write(r, 0, "canceled")
    \/ ~Canceled(r) /\ err[r] = "timeout" /\ Write(r, 504, "unreachable")
    \/ ~Canceled(r) /\ err[r] # "timeout" /\ Write(r, 502, "unreachable")

writeUpstreamUnavailable(r) ==
    /\ Goto(r, "unavailable", "return")
    /\ Unavailable(r)
    /\ UNCHANGED <<route, ctx, inFlight, clock, buckets, exchange, history>>

writeUpstreamInvalid(r) ==
    /\ Goto(r, "invalid", "return")
    /\ IF err[r] \in {"timeout", "broken"} \/ Canceled(r)
       THEN Unavailable(r)
       ELSE Write(r, 502, "invalid")
    /\ UNCHANGED <<route, ctx, inFlight, clock, buckets, exchange, history>>

\* Only small codes checked.
RelayedUnlessRedirect(status) == IF status < 400 THEN 502 ELSE status

\* A redirect, or a code that is no error at all, is not passed on.
Relayed(status) == IF status \in 400..599 THEN status ELSE 502

\* The error of drain not looked at.
ExchangeFailedIgnoringDrain(r) == Canceled(r)

\* writeUpstreamStatus up to the bucket: the error of drain matters only if it
\* was a timeout or the client is gone.
ExchangeFailed(r) == err[r] = "timeout" \/ Canceled(r)

StatusUnavailable(r) ==
    /\ ExchangeFailed(r)
    /\ Goto(r, "status", "return")
    /\ Unavailable(r)
    /\ UNCHANGED <<route, ctx, inFlight, clock, buckets, exchange, history>>

StatusRelayed(r) ==
    /\ ~ExchangeFailed(r)
    /\ answer[r] < 500
    /\ Goto(r, "status", "return")
    /\ Write(r, Relayed(answer[r]), "errorStatus")
    /\ UNCHANGED <<route, ctx, inFlight, clock, buckets, exchange, history>>

\* The argument of h.upstreamWarn.allow(time.Now()) for a server error ...
ReadWarnClock(r) ==
    /\ ~ExchangeFailed(r)
    /\ answer[r] >= 500
    /\ Goto(r, "status", "warn")
    /\ reading' = [reading EXCEPT ![r] = clock]
    /\ UNCHANGED <<route, ctx, inFlight, clock, limiter, upstreamWarn, exchange, outcome, history>>

\* A warning for every server error, the bucket only kept up to date.
WarnAlways(r) ==
    /\ Goto(r, "warn", "return")
    /\ upstreamWarn' = Taken(upstreamWarn, reading[r])
    /\ Write(r, Relayed(answer[r]), "serverError")
    /\ UNCHANGED <<route, ctx, inFlight, clock, limiter, reading, exchange, history>>

\* ... and the call, the record it chooses and the reply.
Warn(r) ==
    /\ Goto(r, "warn", "return")
    /\ upstreamWarn' = Taken(upstreamWarn, reading[r])
    /\ Write(r, Relayed(answer[r]),
             IF Admits(upstreamWarn, reading[r]) THEN "serverError" ELSE "errorStatus")
    /\ UNCHANGED <<route, ctx, inFlight, clock, limiter, reading, exchange, history>>

-----------------------------------------------------------------------------
\* The handler returns: body closed, slot given back, locals gone.
release(r) ==
    /\ Goto(r, "return", "done")
    /\ inFlight' = inFlight - 1
    /\ answer' = [answer EXCEPT ![r] = 0]
    /\ err' = [err EXCEPT ![r] = "none"]
    /\ reading' = [reading EXCEPT ![r] = None]
    /\ UNCHANGED <<route, ctx, clock, limiter, upstreamWarn, outcome, history>>

\* The client goes away; net/http cancels the request's context.
Cancel(r) ==
    /\ pc[r] # "done"
    /\ ctx[r] = "live"
    /\ ctx' = [ctx EXCEPT ![r] = "canceled"]
    /\ UNCHANGED <<pc, route, inFlight, clock, buckets, exchange, outcome, history>>

Tick ==
    /\ clock < MaxClock
    /\ clock' = clock + 1
    /\ UNCHANGED <<pc, route, ctx, inFlight, buckets, exchange, outcome, history>>

\* Every request has been served: the model stops, not the program.
Finished == (\A r \in Requests : pc[r] = "done") /\ UNCHANGED vars

\* What the proxy's own goroutine does, given that its waits end.
Proceed(r) ==
    \/ ReadClock(r) \/ Throttle(r) \/ Forward(r)
    \/ writeUpstreamUnavailable(r) \/ writeUpstreamInvalid(r)
    \/ StatusUnavailable(r) \/ StatusRelayed(r) \/ ReadWarnClock(r) \/ Warn(r)
    \/ release(r)

Docker(r) == Answered(r) \/ Break(r) \/ Decoded(r) \/ Garbled(r) \/ Drained(r)

Next ==
    \/ \E r \in Requests : \/ Deny(r) \/ Busy(r) \/ acquire(r)
                           \/ Proceed(r) \/ TimeOut(r) \/ Docker(r) \/ Cancel(r)
    \/ Tick
    \/ Finished

Spec == Init /\ [][Next]_vars

\* A goroutine that can run does, and the client's timer fires.  Nothing is
\* assumed of Docker, of the client, or of the clock.
Fairness == \A r \in Requests : WF_vars(Proceed(r)) /\ WF_vars(TimeOut(r))

FairSpec == Spec /\ Fairness

-----------------------------------------------------------------------------
TypeOK ==
    /\ pc \in [Requests -> {"new", "done"} \union Holding]
    /\ route \in [Requests -> Kinds]
    /\ ctx \in [Requests -> {"live", "canceled"}]
    /\ inFlight \in 0..MaxConcurrent
    /\ clock \in 0..MaxClock
    /\ limiter \in Buckets /\ upstreamWarn \in Buckets
    /\ reading \in [Requests -> 0..MaxClock \union {None}]
    /\ answer \in [Requests -> Statuses \union {0}]
    /\ err \in [Requests -> Errors]
    /\ reply \in [Requests -> Nat]
    /\ record \in [Requests -> Debug \union Loud]
    /\ asked \in SUBSET Requests /\ rush \in Nat

Holders == {r \in Requests : pc[r] \in Holding}

\* The channel counts exactly the requests between acquire and the deferred
\* release, on every path through the handler, so no path leaks a slot or
\* gives one back twice (handler.go, ServeHTTP).
SlotsMatchHolders == inFlight = Cardinality(Holders)

\* Of every rush of requests after a quiet time, the limiter full again, the
\* rate limit refuses none before as many of it reached Docker as may be in
\* flight at once: it is the concurrency limit that decides how much work the
\* proxy can start (handler.go:78-82).
BurstCoversConcurrency ==
    [][\A r \in Requests :
          record[r] # "throttled" /\ record'[r] = "throttled" => rush >= MaxConcurrent]_vars

\* What a request tells its client does not claim more than Docker did: 200
\* only for an exchange that succeeded to the end, no status of Docker's for
\* one that timed out, and, whatever code Docker answers with, never a redirect
\* to follow or a code outside 400..599 (upstream.go:54-66 and 113-126).
RepliesAreTruthful ==
    \A r \in Requests : pc[r] = "return" =>
        /\ reply[r] \in {0, 200} \union 400..599
        /\ reply[r] = 200 => answer[r] = 200 /\ err[r] = "none"
        /\ err[r] = "timeout" => reply[r] \in {0, 504}
        /\ err[r] = "invalid" => reply[r] \in {0, 502}

\* Only a client that has gone away gets no response at all
\* (upstream.go:88-89).
SilentOnlyIfGone ==
    \A r \in Requests : pc[r] = "done" /\ reply[r] = 0 => Canceled(r)

\* The status line is written once: no path goes on after it has replied.
AnsweredOnce ==
    [][\A r \in Requests : reply[r] # 0 => reply'[r] = reply[r]]_vars

\* Records at a level the default configuration shows come no faster than the
\* rate limit lets requests through, whatever clients and Docker do
\* (upstream.go:93-94).
LoudRecordsArePaced ==
    ~Unlimited(limiter) =>
        Cardinality({r \in Requests : record[r] \in Loud}) * Token
            <= limiter.capacity + limiter.rate * clock

\* Every request that got a slot is done in the end, even if Docker never
\* answers and the client never leaves (handler.go:89-90, Timeout).
EveryRequestEnds ==
    \A r \in Requests : pc[r] = "slot" ~> pc[r] = "done"

\* The readings on their way to a bucket.
ReadingsAt(place) == [r \in Requests |-> IF pc[r] = place THEN reading[r] ELSE None]

Warned == {r \in Requests : record[r] = "serverError"}

Limiter == INSTANCE RateLimit
    WITH Callers <- Requests, Rate <- MaxRate * Token, Capacity <- Burst * Token,
         bucket <- limiter, reading <- ReadingsAt("limit"), granted <- Cardinality(asked)

\* The limiter and the requests it lets through to Docker are a rate limit: no
\* other step takes a token, and no request reaches Docker without one
\* (handler.go:120-137).
LimiterIsRateLimit == Limiter!Spec

Warnings == INSTANCE RateLimit
    WITH Callers <- Requests, Rate <- 1, Capacity <- Token,
         bucket <- upstreamWarn, reading <- ReadingsAt("warn"), granted <- Cardinality(Warned)

\* So are upstreamWarn and the warnings about server errors
\* (handler.go:23-27, upstream.go:68-76).
WarningsAreRateLimited == Warnings!Spec

-----------------------------------------------------------------------------
(* What a comment says and the code does not do.                           *)

\* "A body that stalls or is cut short mid-drain means the daemon failed to
\* answer, not that it answered with this status" (upstream.go:55-56).
StatusOnlyWhenComplete ==
    \A r \in Requests :
        pc[r] = "return" /\ record[r] \in {"errorStatus", "serverError"} => err[r] = "none"
=============================================================================
