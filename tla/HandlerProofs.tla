---------------------------- MODULE HandlerProofs ----------------------------
(***************************************************************************)
(* For every number of requests and slots, every rate and every set of     *)
(* answers from Docker: slots are never leaked, clients are told the       *)
(* truth, and the log and Docker are paced by the rate limit.              *)
(***************************************************************************)
EXTENDS Handler, TokenBucketProofs, FiniteSetTheorems

Early == {"new", "slot", "limit"}
Late  == {"return", "done"}

\* What is known of a request from where it stands.
Course(r) ==
    /\ pc[r] \in Early => r \notin asked /\ answer[r] = 0 /\ err[r] = "none"
    /\ pc[r] \in Waits \union Judges => r \in asked
    /\ pc[r] \notin Late => reply[r] = 0 /\ record[r] = "none"
    /\ pc[r] \in {"limit", "warn"} => reading[r] # None
    /\ pc[r] \in Waits => err[r] = "none"
    /\ pc[r] = "body" => answer[r] = 200
    /\ pc[r] = "unavailable" => err[r] \in {"timeout", "broken"}
    /\ pc[r] = "invalid" => err[r] # "none"
    /\ pc[r] = "status" => err[r] # "invalid"
    /\ pc[r] = "warn" => err[r] \notin {"timeout", "invalid"}
    /\ pc[r] = "return" =>
          /\ reply[r] \in {0, 200} \union 400..599
          /\ reply[r] = 200 => answer[r] = 200 /\ err[r] = "none"
          /\ err[r] = "timeout" => reply[r] \in {0, 504}
          /\ err[r] = "invalid" => reply[r] \in {0, 502}
    /\ pc[r] \in Late /\ reply[r] = 0 => Canceled(r)
    /\ record[r] \in Loud => r \in asked

HandlerInv ==
    /\ TypeOK
    /\ WellFormed(limiter)
    /\ WellFormed(upstreamWarn)
    /\ \A r \in Requests : Course(r)

LEMMA CourseNext ==
    ASSUME HandlerInv, [Next]_vars, NEW q \in Requests
    PROVE  Course(q)'
<1> USE HandlerAssumption DEF HandlerInv, TypeOK, Course, Goto, Write, Canceled,
        Early, Late, Holding, Waits, Judges, Loud, Debug, Errors, None,
        exchange, outcome, buckets, history
<1>1. ASSUME NEW r \in Requests, Deny(r) PROVE Course(q)'
  BY <1>1 DEF Deny
<1>2. ASSUME NEW r \in Requests, Busy(r) PROVE Course(q)'
  BY <1>2 DEF Busy
<1>3. ASSUME NEW r \in Requests, acquire(r) PROVE Course(q)'
  BY <1>3 DEF acquire
<1>4. ASSUME NEW r \in Requests, ReadClock(r) PROVE Course(q)'
  BY <1>4 DEF ReadClock
<1>5. ASSUME NEW r \in Requests, Throttle(r) PROVE Course(q)'
  BY <1>5 DEF Throttle
<1>6. ASSUME NEW r \in Requests, Forward(r) PROVE Course(q)'
  BY <1>6 DEF Forward
<1>7. ASSUME NEW r \in Requests, Answered(r) PROVE Course(q)'
  BY <1>7 DEF Answered
<1>8. ASSUME NEW r \in Requests, Break(r) PROVE Course(q)'
  BY <1>8 DEF Break, Fail, Judge
<1>9. ASSUME NEW r \in Requests, TimeOut(r) PROVE Course(q)'
  BY <1>9 DEF TimeOut, Fail, Judge
<1>10. ASSUME NEW r \in Requests, Decoded(r) PROVE Course(q)'
  BY <1>10 DEF Decoded
<1>11. ASSUME NEW r \in Requests, Garbled(r) PROVE Course(q)'
  BY <1>11 DEF Garbled
<1>12. ASSUME NEW r \in Requests, Drained(r) PROVE Course(q)'
  BY <1>12 DEF Drained
<1>13. ASSUME NEW r \in Requests, writeUpstreamUnavailable(r) PROVE Course(q)'
  BY <1>13 DEF writeUpstreamUnavailable, Unavailable, Canceled
<1>14. ASSUME NEW r \in Requests, writeUpstreamInvalid(r) PROVE Course(q)'
  BY <1>14 DEF writeUpstreamInvalid, Unavailable, Canceled
<1>15. ASSUME NEW r \in Requests, StatusUnavailable(r) PROVE Course(q)'
  BY <1>15 DEF StatusUnavailable, ExchangeFailed, Unavailable, Canceled
<1>16. ASSUME NEW r \in Requests, StatusRelayed(r) PROVE Course(q)'
  BY <1>16 DEF StatusRelayed, ExchangeFailed, Relayed, Canceled
<1>17. ASSUME NEW r \in Requests, ReadWarnClock(r) PROVE Course(q)'
  BY <1>17 DEF ReadWarnClock, ExchangeFailed, Canceled
<1>18. ASSUME NEW r \in Requests, Warn(r) PROVE Course(q)'
  BY <1>18 DEF Warn, Relayed
<1>19. ASSUME NEW r \in Requests, release(r) PROVE Course(q)'
  BY <1>19 DEF release
<1>20. ASSUME NEW r \in Requests, Cancel(r) PROVE Course(q)'
  BY <1>20 DEF Cancel
<1>21. CASE Tick BY <1>21 DEF Tick
<1>22. CASE UNCHANGED vars BY <1>22 DEF vars
<1> QED BY <1>1, <1>2, <1>3, <1>4, <1>5, <1>6, <1>7, <1>8, <1>9, <1>10, <1>11, <1>12, <1>13, <1>14, <1>15, <1>16, <1>17, <1>18, <1>19, <1>20, <1>21, <1>22 DEF Next, Proceed, Docker, Finished

LEMMA HandlerInit == Init => HandlerInv
<1> SUFFICES ASSUME Init PROVE HandlerInv OBVIOUS
<1>1. /\ MaxRate * Token \in Int /\ Burst * Token \in Int /\ Token \in Int
  BY HandlerAssumption, TokenAssumption DEF Burst, Larger
<1>2. WellFormed(limiter) /\ WellFormed(upstreamWarn)
  BY <1>1, NewBucketFull DEF Init
<1>3. TypeOK
  BY <1>2, HandlerAssumption DEF Init, TypeOK, WellFormed, Holding, None, Errors, Debug
<1>4. \A r \in Requests : Course(r)
  BY DEF Init, Course, Early, Late, Waits, Judges, Loud
<1> QED BY <1>2, <1>3, <1>4 DEF HandlerInv

\* The three steps that call allow hand it a reading, and leave a bucket.
LEMMA BucketsNext ==
    ASSUME HandlerInv, [Next]_vars
    PROVE  WellFormed(limiter)' /\ WellFormed(upstreamWarn)'
<1>1. \A r \in Requests : pc[r] \in {"limit", "warn"} => reading[r] \in Nat
  BY HandlerAssumption DEF HandlerInv, TypeOK, Course, None
<1>2. ASSUME NEW r \in Requests, Throttle(r) \/ Forward(r)
      PROVE  WellFormed(limiter)' /\ WellFormed(upstreamWarn)'
  <2>1. limiter' = Taken(limiter, reading[r]) /\ upstreamWarn' = upstreamWarn
    BY <1>2 DEF Throttle, Forward
  <2>2. reading[r] \in Nat BY <1>1, <1>2 DEF Throttle, Forward, Goto
  <2> QED BY <2>1, <2>2, TakenSpends DEF HandlerInv
<1>3. ASSUME NEW r \in Requests, Warn(r)
      PROVE  WellFormed(limiter)' /\ WellFormed(upstreamWarn)'
  <2>1. upstreamWarn' = Taken(upstreamWarn, reading[r]) /\ limiter' = limiter
    BY <1>3 DEF Warn
  <2>2. reading[r] \in Nat BY <1>1, <1>3 DEF Warn, Goto
  <2> QED BY <2>1, <2>2, TakenSpends DEF HandlerInv
<1>4. CASE UNCHANGED <<limiter, upstreamWarn>>
  BY <1>4 DEF HandlerInv
<1> QED
  BY <1>2, <1>3, <1>4
  DEF Next, Proceed, Docker, Deny, Busy, acquire, ReadClock, Answered, Break, TimeOut,
      Fail, Decoded, Garbled, Drained, writeUpstreamUnavailable, writeUpstreamInvalid,
      StatusUnavailable, StatusRelayed, ReadWarnClock, release, Cancel, Tick, Finished,
      buckets, vars

\* Every step keeps the types, but for the count of slots: that it stays
\* within bounds when one is given back is SlotsNext below.
LEMMA TypesNext ==
    ASSUME HandlerInv, [Next]_vars, inFlight' \in Nat
    PROVE  TypeOK'
<1> USE HandlerAssumption DEF HandlerInv, TypeOK, Goto, Write, Holding, Waits, Judges,
        Loud, Debug, Errors, None, exchange, outcome, buckets, history
<1>0. limiter' \in Buckets /\ upstreamWarn' \in Buckets
  BY BucketsNext DEF WellFormed
<1>1. ASSUME NEW r \in Requests, Deny(r) PROVE TypeOK'
  BY <1>0, <1>1 DEF Deny
<1>2. ASSUME NEW r \in Requests, Busy(r) PROVE TypeOK'
  BY <1>0, <1>2 DEF Busy
<1>3. ASSUME NEW r \in Requests, acquire(r) PROVE TypeOK'
  BY <1>0, <1>3 DEF acquire
<1>4. ASSUME NEW r \in Requests, ReadClock(r) PROVE TypeOK'
  BY <1>0, <1>4 DEF ReadClock
<1>5. ASSUME NEW r \in Requests, Throttle(r) PROVE TypeOK'
  BY <1>0, <1>5 DEF Throttle
<1>6. ASSUME NEW r \in Requests, Forward(r) PROVE TypeOK'
  BY <1>0, <1>6 DEF Forward
<1>7. ASSUME NEW r \in Requests, Answered(r) PROVE TypeOK'
  BY <1>0, <1>7 DEF Answered
<1>8. ASSUME NEW r \in Requests, Break(r) PROVE TypeOK'
  BY <1>0, <1>8 DEF Break, Fail, Judge
<1>9. ASSUME NEW r \in Requests, TimeOut(r) PROVE TypeOK'
  BY <1>0, <1>9 DEF TimeOut, Fail, Judge
<1>10. ASSUME NEW r \in Requests, Decoded(r) PROVE TypeOK'
  BY <1>0, <1>10 DEF Decoded
<1>11. ASSUME NEW r \in Requests, Garbled(r) PROVE TypeOK'
  BY <1>0, <1>11 DEF Garbled
<1>12. ASSUME NEW r \in Requests, Drained(r) PROVE TypeOK'
  BY <1>0, <1>12 DEF Drained
<1>13. ASSUME NEW r \in Requests, writeUpstreamUnavailable(r) PROVE TypeOK'
  BY <1>0, <1>13 DEF writeUpstreamUnavailable, Unavailable
<1>14. ASSUME NEW r \in Requests, writeUpstreamInvalid(r) PROVE TypeOK'
  BY <1>0, <1>14 DEF writeUpstreamInvalid, Unavailable
<1>15. ASSUME NEW r \in Requests, StatusUnavailable(r) PROVE TypeOK'
  BY <1>0, <1>15 DEF StatusUnavailable, Unavailable
<1>16. ASSUME NEW r \in Requests, StatusRelayed(r) PROVE TypeOK'
  BY <1>0, <1>16 DEF StatusRelayed, Relayed
<1>17. ASSUME NEW r \in Requests, ReadWarnClock(r) PROVE TypeOK'
  BY <1>0, <1>17 DEF ReadWarnClock
<1>18. ASSUME NEW r \in Requests, Warn(r) PROVE TypeOK'
  BY <1>0, <1>18 DEF Warn, Relayed
<1>19. ASSUME NEW r \in Requests, release(r) PROVE TypeOK'
  BY <1>0, <1>19 DEF release
<1>20. ASSUME NEW r \in Requests, Cancel(r) PROVE TypeOK'
  BY <1>0, <1>20 DEF Cancel
<1>21. CASE Tick BY <1>0, <1>21 DEF Tick
<1>22. CASE UNCHANGED vars BY <1>22 DEF vars
<1> QED BY <1>1, <1>2, <1>3, <1>4, <1>5, <1>6, <1>7, <1>8, <1>9, <1>10, <1>11, <1>12, <1>13, <1>14, <1>15, <1>16, <1>17, <1>18, <1>19, <1>20, <1>21, <1>22 DEF Next, Proceed, Docker, Finished

-----------------------------------------------------------------------------
(* Slots.                                                                  *)

SlotsInv == HandlerInv /\ SlotsMatchHolders

LEMMA HoldersFinite == IsFiniteSet(Holders) /\ Cardinality(Holders) \in Nat
BY HandlerAssumption, FS_Subset, FS_CardinalityType DEF Holders

\* Only acquire and the deferred release change who holds a slot, each by the
\* one request that takes the step, and the count moves with them.
LEMMA SlotsNext ==
    ASSUME SlotsInv, [Next]_vars
    PROVE  inFlight' \in Nat /\ SlotsMatchHolders'
<1> USE DEF SlotsInv, SlotsMatchHolders
<1>1. /\ pc \in [Requests -> {"new", "done"} \union Holding]
      /\ inFlight \in Nat
      /\ "new" \notin Holding /\ "done" \notin Holding
  BY HandlerAssumption DEF HandlerInv, TypeOK, Holding, Waits, Judges
<1>2. ASSUME NEW r \in Requests, acquire(r)
      PROVE  inFlight' \in Nat /\ SlotsMatchHolders'
  <2>1. r \notin Holders /\ Holders' = Holders \union {r}
    BY <1>1, <1>2 DEF acquire, Goto, Holders, Holding
  <2>2. Cardinality(Holders') = Cardinality(Holders) + 1
    BY <2>1, HoldersFinite, FS_AddElement
  <2> QED BY <1>1, <1>2, <2>2 DEF acquire
<1>3. ASSUME NEW r \in Requests, release(r)
      PROVE  inFlight' \in Nat /\ SlotsMatchHolders'
  <2>1. r \in Holders /\ Holders' = Holders \ {r}
    BY <1>1, <1>3 DEF release, Goto, Holders, Holding
  <2>2. Cardinality(Holders') = Cardinality(Holders) - 1
    BY <2>1, HoldersFinite, FS_RemoveElement
  <2>3. Cardinality(Holders') \in Nat
    BY <2>1, HoldersFinite, FS_RemoveElement, FS_CardinalityType
  <2> QED BY <1>3, <2>2, <2>3 DEF release
<1>4. ASSUME NEW r \in Requests,
             Deny(r) \/ Busy(r) \/ Cancel(r) \/ TimeOut(r) \/ Docker(r)
               \/ (Proceed(r) /\ ~release(r))
      PROVE  inFlight' = inFlight /\ Holders' = Holders
  <2> USE DEF Holders, Holding, Waits, Judges, Goto
  <2>1. CASE Deny(r) \/ Busy(r)
    BY <1>1, <2>1 DEF Deny, Busy
  <2>2. CASE Cancel(r)
    BY <2>2 DEF Cancel
  <2>3. CASE TimeOut(r) \/ Break(r)
    BY <1>1, <2>3 DEF TimeOut, Break, Fail, Judge
  <2>4. CASE Answered(r) \/ Decoded(r) \/ Garbled(r) \/ Drained(r)
    BY <1>1, <2>4 DEF Answered, Decoded, Garbled, Drained
  <2>5. CASE ReadClock(r) \/ Throttle(r) \/ Forward(r)
    BY <1>1, <2>5 DEF ReadClock, Throttle, Forward
  <2>6. CASE writeUpstreamUnavailable(r) \/ writeUpstreamInvalid(r)
    BY <1>1, <2>6 DEF writeUpstreamUnavailable, writeUpstreamInvalid
  <2>7. CASE StatusUnavailable(r) \/ StatusRelayed(r) \/ ReadWarnClock(r) \/ Warn(r)
    BY <1>1, <2>7 DEF StatusUnavailable, StatusRelayed, ReadWarnClock, Warn
  <2> QED BY <1>4, <2>1, <2>2, <2>3, <2>4, <2>5, <2>6, <2>7 DEF Docker, Proceed
<1>5. CASE Tick \/ UNCHANGED vars
  <2>1. inFlight' = inFlight /\ Holders' = Holders BY <1>5 DEF Tick, vars, Holders
  <2> QED BY <1>1, <2>1
<1> QED BY <1>1, <1>2, <1>3, <1>4, <1>5 DEF Next, Finished

LEMMA SlotsInit == Init => SlotsInv
<1> SUFFICES ASSUME Init PROVE SlotsMatchHolders BY HandlerInit DEF SlotsInv
<1>1. Holders = {} BY DEF Init, Holders, Holding, Waits, Judges
<1> QED BY <1>1, FS_EmptySet DEF Init, SlotsMatchHolders

LEMMA SlotsInvariant == Spec => []SlotsInv
<1>1. SlotsInv /\ [Next]_vars => SlotsInv'
  <2> SUFFICES ASSUME SlotsInv, [Next]_vars PROVE SlotsInv' OBVIOUS
  <2>1. HandlerInv BY DEF SlotsInv
  <2>2. TypeOK' BY <2>1, SlotsNext, TypesNext
  <2>3. WellFormed(limiter)' /\ WellFormed(upstreamWarn)' BY <2>1, BucketsNext
  <2>4. \A r \in Requests : Course(r)' BY <2>1, CourseNext
  <2>5. HandlerInv' BY <2>2, <2>3, <2>4 DEF HandlerInv
  <2> QED BY <2>5, SlotsNext DEF SlotsInv
<1> QED BY <1>1, SlotsInit, PTL DEF Spec

\* The handler's state stays in its types; in particular the channel of slots
\* is never over its capacity and a slot is never given back twice.
THEOREM TypesCorrect == Spec => []TypeOK
<1>1. SlotsInv => TypeOK BY DEF SlotsInv, HandlerInv
<1> QED BY <1>1, SlotsInvariant, PTL

\* On every path through the handler a slot taken is given back exactly once.
THEOREM SlotsNeverLeak == Spec => []SlotsMatchHolders
<1>1. SlotsInv => SlotsMatchHolders BY DEF SlotsInv
<1> QED BY <1>1, SlotsInvariant, PTL

\* A reply never claims more than Docker did (upstream.go).
THEOREM Truthful == Spec => []RepliesAreTruthful
<1>1. SlotsInv => RepliesAreTruthful
  BY DEF SlotsInv, HandlerInv, Course, RepliesAreTruthful
<1> QED BY <1>1, SlotsInvariant, PTL

\* Only a client that has gone away is left without a reply.
THEOREM NobodyIgnored == Spec => []SilentOnlyIfGone
<1>1. SlotsInv => SilentOnlyIfGone
  BY DEF SlotsInv, HandlerInv, Course, SilentOnlyIfGone, Late
<1> QED BY <1>1, SlotsInvariant, PTL

-----------------------------------------------------------------------------
(* The two rate limits.                                                    *)

\* What is proved of a window is not used here: it stays closed.
LimiterProofs == INSTANCE RateLimitProofs
    WITH Callers <- Requests, Rate <- MaxRate * Token, Capacity <- Burst * Token,
         bucket <- limiter, reading <- ReadingsAt("limit"), granted <- Cardinality(asked),
         since <- 0, fresh <- 0, lastGrant <- 0

LEMMA AskedFinite == TypeOK => IsFiniteSet(asked) /\ Cardinality(asked) \in Nat
BY HandlerAssumption, FS_Subset, FS_CardinalityType DEF TypeOK

\* A step of the handler is a step of the rate limit, or does not touch it.
LEMMA LimiterStep ==
    ASSUME HandlerInv, [Next]_vars
    PROVE  [Limiter!Next]_(Limiter!vars)
<1> USE DEF Limiter!vars
<1>1. /\ pc \in [Requests -> {"new", "done"} \union Holding]
      /\ reading \in [Requests -> 0..MaxClock \union {None}]
      /\ IsFiniteSet(asked) /\ Cardinality(asked) \in Nat
  BY AskedFinite DEF HandlerInv, TypeOK
<1>2. CASE Tick
  <2>1. Limiter!Tick BY <1>2 DEF Tick, Limiter!Tick, buckets, history, ReadingsAt
  <2> QED BY <2>1 DEF Limiter!Next
<1>3. ASSUME NEW r \in Requests, ReadClock(r) PROVE [Limiter!Next]_(Limiter!vars)
  <2>1. ReadingsAt("limit")' = [ReadingsAt("limit") EXCEPT ![r] = clock]
    BY <1>1, <1>3 DEF ReadClock, Goto, ReadingsAt
  <2>2. ReadingsAt("limit")[r] = None
    BY <1>3 DEF ReadClock, Goto, ReadingsAt
  <2>3. Limiter!ReadClock(r)
    BY <1>3, <2>1, <2>2 DEF ReadClock, history, Limiter!ReadClock, Limiter!None, None
  <2> QED BY <2>3 DEF Limiter!Next
<1>4. ASSUME NEW r \in Requests, Throttle(r) \/ Forward(r)
      PROVE  [Limiter!Next]_(Limiter!vars)
  <2>1. pc[r] = "limit" /\ reading[r] # None /\ r \notin asked
    BY <1>4 DEF Throttle, Forward, Goto, HandlerInv, Course, Early
  <2>2. ReadingsAt("limit")[r] = reading[r] BY <2>1 DEF ReadingsAt
  <2>3. ReadingsAt("limit")' = [ReadingsAt("limit") EXCEPT ![r] = None]
    BY <1>1, <1>4 DEF Throttle, Forward, Goto, ReadingsAt
  <2>4. Cardinality(asked') =
          IF Admits(limiter, reading[r]) THEN Cardinality(asked) + 1 ELSE Cardinality(asked)
    BY <1>1, <1>4, <2>1, FS_AddElement DEF Throttle, Forward, history
  <2>5. limiter' = Taken(limiter, reading[r]) /\ clock' = clock
    BY <1>4 DEF Throttle, Forward
  <2>6. Limiter!Allow(r)
    BY <2>1, <2>2, <2>3, <2>4, <2>5
       DEF Limiter!Allow, Limiter!None, None, Limiter!Taken, Limiter!Admits, Taken,
           Admits, Limiter!Refilled, Refilled, Limiter!Unlimited, Unlimited,
           Limiter!Nil, Nil
  <2> QED BY <2>6 DEF Limiter!Next
<1>5. ASSUME NEW r \in Requests,
             Deny(r) \/ Busy(r) \/ acquire(r) \/ Cancel(r) \/ TimeOut(r) \/ Docker(r)
               \/ (Proceed(r) /\ ~ReadClock(r) /\ ~Throttle(r) /\ ~Forward(r))
      PROVE  UNCHANGED Limiter!vars
  <2>1. /\ UNCHANGED <<clock, limiter, asked>>
        /\ ReadingsAt("limit")' = ReadingsAt("limit")
    <3> USE DEF Goto, ReadingsAt, buckets, exchange, outcome, history, Waits
    <3>1. CASE Deny(r) \/ Busy(r) \/ acquire(r) \/ Cancel(r)
      BY <1>1, <3>1 DEF Deny, Busy, acquire, Cancel
    <3>2. CASE TimeOut(r) \/ Break(r)
      BY <1>1, <3>2 DEF TimeOut, Break, Fail, Judge
    <3>3. CASE Answered(r) \/ Decoded(r) \/ Garbled(r) \/ Drained(r)
      BY <1>1, <3>3 DEF Answered, Decoded, Garbled, Drained
    <3>4. CASE writeUpstreamUnavailable(r) \/ writeUpstreamInvalid(r)
      BY <1>1, <3>4 DEF writeUpstreamUnavailable, writeUpstreamInvalid
    <3>5. CASE StatusUnavailable(r) \/ StatusRelayed(r) \/ ReadWarnClock(r) \/ Warn(r)
      BY <1>1, <3>5 DEF StatusUnavailable, StatusRelayed, ReadWarnClock, Warn
    <3>6. CASE release(r)
      BY <1>1, <3>6 DEF release
    <3> QED BY <1>5, <3>1, <3>2, <3>3, <3>4, <3>5, <3>6 DEF Docker, Proceed
  <2> QED BY <2>1
<1>6. CASE UNCHANGED vars
  BY <1>6 DEF vars, buckets, history, ReadingsAt
<1> QED BY <1>2, <1>3, <1>4, <1>5, <1>6 DEF Next, Finished, Proceed

\* The limiter of the handler is a rate limit on the requests that reach
\* Docker (handler.go:120-137).
THEOREM LimiterRefines == Spec => LimiterIsRateLimit
<1>1. Init => Limiter!Init
  BY FS_EmptySet
     DEF Init, Limiter!Init, ReadingsAt, Limiter!None, None, Limiter!NewBucket,
         NewBucket, Limiter!Nil, Nil
<1>2. SlotsInv /\ [Next]_vars => [Limiter!Next]_(Limiter!vars)
  BY LimiterStep DEF SlotsInv
<1> QED BY <1>1, <1>2, SlotsInvariant, PTL DEF Spec, LimiterIsRateLimit, Limiter!Spec

\* The bound proved of every rate limit, carried over by the refinement.
LEMMA LimiterBounded == Spec => []Limiter!RateBound
<1>1. Limiter!Init => LimiterProofs!Init
  BY DEF Limiter!Init, LimiterProofs!Init, Limiter!None, LimiterProofs!None,
         Limiter!NewBucket, LimiterProofs!NewBucket, Limiter!Nil, LimiterProofs!Nil
<1>2. [Limiter!Next]_(Limiter!vars) => [LimiterProofs!Next]_(LimiterProofs!vars)
  BY DEF Limiter!Next, LimiterProofs!Next, Limiter!vars, LimiterProofs!vars,
         Limiter!Tick, LimiterProofs!Tick, Limiter!ReadClock, LimiterProofs!ReadClock,
         Limiter!Allow, LimiterProofs!Allow, Limiter!None, LimiterProofs!None,
         Limiter!Taken, LimiterProofs!Taken, Limiter!Admits, LimiterProofs!Admits,
         Limiter!Refilled, LimiterProofs!Refilled,
         Limiter!Unlimited, LimiterProofs!Unlimited, Limiter!Nil, LimiterProofs!Nil
<1>3. LimiterProofs!RateBound => Limiter!RateBound
  BY DEF LimiterProofs!RateBound, Limiter!RateBound,
         Limiter!Unlimited, LimiterProofs!Unlimited, Limiter!Nil, LimiterProofs!Nil
<1>4. LimiterProofs!TokenAssumption BY TokenAssumption DEF LimiterProofs!TokenAssumption
<1>5. LimiterProofs!RateLimitAssumption
  BY HandlerAssumption, TokenAssumption
     DEF LimiterProofs!RateLimitAssumption, Burst, Larger
<1>6. LimiterProofs!Spec => []LimiterProofs!RateBound
  BY <1>4, <1>5, LimiterProofs!RateBounded, PTL
<1> QED
  BY <1>1, <1>2, <1>3, <1>6, LimiterRefines, PTL
  DEF LimiterIsRateLimit, Limiter!Spec, LimiterProofs!Spec

\* Whatever clients and Docker do, the default log grows no faster than the
\* rate limit lets requests through (upstream.go:93-94).
THEOREM LogIsPaced == Spec => []LoudRecordsArePaced
<1>1. SlotsInv /\ Limiter!RateBound => LoudRecordsArePaced
  <2> SUFFICES ASSUME SlotsInv, Limiter!RateBound, ~Unlimited(limiter)
               PROVE  Cardinality({r \in Requests : record[r] \in Loud}) * Token
                        <= limiter.capacity + limiter.rate * clock
    BY DEF LoudRecordsArePaced
  <2> DEFINE loud == {r \in Requests : record[r] \in Loud}
  <2>1. loud \subseteq asked BY DEF SlotsInv, HandlerInv, Course
  <2>2. IsFiniteSet(asked) /\ Cardinality(asked) \in Nat
    BY AskedFinite DEF SlotsInv, HandlerInv
  <2>3. Cardinality(loud) \in Nat /\ Cardinality(loud) <= Cardinality(asked)
    BY <2>1, <2>2, FS_Subset, FS_CardinalityType
  <2>4. Token * Cardinality(loud) <= Token * Cardinality(asked)
    BY <2>2, <2>3, Monotone, TokenAssumption
  <2>5. Cardinality(asked) * Token <= limiter.capacity + limiter.rate * clock
    BY DEF Limiter!RateBound, Limiter!Unlimited, Limiter!Nil, Unlimited, Nil
  <2>6. /\ limiter.capacity \in Nat /\ limiter.rate * clock \in Nat
        /\ Cardinality(loud) * Token \in Nat /\ Cardinality(asked) * Token \in Nat
    BY <2>2, <2>3, Product, TokenAssumption, HandlerAssumption
       DEF SlotsInv, HandlerInv, TypeOK, Buckets
  <2>7. /\ Token * Cardinality(loud) = Cardinality(loud) * Token
        /\ Token * Cardinality(asked) = Cardinality(asked) * Token
    BY <2>2, <2>3, TokenAssumption
  <2> HIDE DEF loud
  <2>8. Cardinality(loud) * Token <= limiter.capacity + limiter.rate * clock
    BY <2>4, <2>5, <2>6, <2>7
  <2> QED BY <2>8 DEF loud
<1> QED BY <1>1, SlotsInvariant, LimiterBounded, PTL

-----------------------------------------------------------------------------
(* The warnings.                                                           *)

LEMMA WarnedFinite == IsFiniteSet(Warned) /\ Cardinality(Warned) \in Nat
BY HandlerAssumption, FS_Subset, FS_CardinalityType DEF Warned

\* A step of the handler is a step of upstreamWarn, or does not touch it.
LEMMA WarningsStep ==
    ASSUME HandlerInv, [Next]_vars
    PROVE  [Warnings!Next]_(Warnings!vars)
<1> USE DEF Warnings!vars
<1>1. /\ pc \in [Requests -> {"new", "done"} \union Holding]
      /\ reading \in [Requests -> 0..MaxClock \union {None}]
      /\ record \in [Requests -> Debug \union Loud]
      /\ IsFiniteSet(Warned) /\ Cardinality(Warned) \in Nat
  BY WarnedFinite DEF HandlerInv, TypeOK
<1>2. CASE Tick
  <2>1. Warnings!Tick
    BY <1>2 DEF Tick, Warnings!Tick, buckets, outcome, ReadingsAt, Warned
  <2> QED BY <2>1 DEF Warnings!Next
<1>3. ASSUME NEW r \in Requests, ReadWarnClock(r) PROVE [Warnings!Next]_(Warnings!vars)
  <2>1. ReadingsAt("warn")' = [ReadingsAt("warn") EXCEPT ![r] = clock]
    BY <1>1, <1>3 DEF ReadWarnClock, Goto, ReadingsAt
  <2>2. ReadingsAt("warn")[r] = None
    BY <1>3 DEF ReadWarnClock, Goto, ReadingsAt
  <2>3. Warnings!ReadClock(r)
    BY <1>3, <2>1, <2>2
       DEF ReadWarnClock, outcome, Warned, Warnings!ReadClock, Warnings!None, None
  <2> QED BY <2>3 DEF Warnings!Next
<1>4. ASSUME NEW r \in Requests, Warn(r) PROVE [Warnings!Next]_(Warnings!vars)
  <2>1. pc[r] = "warn" /\ reading[r] # None /\ record[r] = "none"
    BY <1>4 DEF Warn, Goto, HandlerInv, Course, Late
  <2>2. ReadingsAt("warn")[r] = reading[r] BY <2>1 DEF ReadingsAt
  <2>3. ReadingsAt("warn")' = [ReadingsAt("warn") EXCEPT ![r] = None]
    BY <1>1, <1>4 DEF Warn, Goto, ReadingsAt
  <2>4. /\ r \notin Warned
        /\ Warned' = IF Admits(upstreamWarn, reading[r]) THEN Warned \union {r} ELSE Warned
    BY <1>1, <1>4, <2>1 DEF Warn, Write, Warned
  <2>5. Cardinality(Warned') = IF Admits(upstreamWarn, reading[r])
                               THEN Cardinality(Warned) + 1 ELSE Cardinality(Warned)
    BY <1>1, <2>4, FS_AddElement
  <2>6. upstreamWarn' = Taken(upstreamWarn, reading[r]) /\ clock' = clock
    BY <1>4 DEF Warn
  <2>7. Warnings!Allow(r)
    BY <2>1, <2>2, <2>3, <2>5, <2>6
       DEF Warnings!Allow, Warnings!None, None, Warnings!Taken, Warnings!Admits, Taken,
           Admits, Warnings!Refilled, Refilled, Warnings!Unlimited, Unlimited,
           Warnings!Nil, Nil
  <2> QED BY <2>7 DEF Warnings!Next
<1>5. ASSUME NEW r \in Requests,
             Deny(r) \/ Busy(r) \/ acquire(r) \/ Cancel(r) \/ TimeOut(r) \/ Docker(r)
               \/ (Proceed(r) /\ ~ReadWarnClock(r) /\ ~Warn(r))
      PROVE  UNCHANGED Warnings!vars
  <2>1. UNCHANGED <<clock, upstreamWarn>> /\ ReadingsAt("warn")' = ReadingsAt("warn")
    <3> USE DEF Goto, ReadingsAt, buckets, exchange, outcome, history, Waits
    <3>1. CASE Deny(r) \/ Busy(r) \/ acquire(r) \/ Cancel(r)
      BY <1>1, <3>1 DEF Deny, Busy, acquire, Cancel
    <3>2. CASE TimeOut(r) \/ Break(r)
      BY <1>1, <3>2 DEF TimeOut, Break, Fail, Judge
    <3>3. CASE Answered(r) \/ Decoded(r) \/ Garbled(r) \/ Drained(r)
      BY <1>1, <3>3 DEF Answered, Decoded, Garbled, Drained
    <3>4. CASE writeUpstreamUnavailable(r) \/ writeUpstreamInvalid(r)
      BY <1>1, <3>4 DEF writeUpstreamUnavailable, writeUpstreamInvalid
    <3>5. CASE StatusUnavailable(r) \/ StatusRelayed(r) \/ release(r)
      BY <1>1, <3>5 DEF StatusUnavailable, StatusRelayed, release
    <3>6. CASE ReadClock(r) \/ Throttle(r) \/ Forward(r)
      BY <1>1, <3>6 DEF ReadClock, Throttle, Forward
    <3> QED BY <1>5, <3>1, <3>2, <3>3, <3>4, <3>5, <3>6 DEF Docker, Proceed
  <2>2. \A q \in Requests : record'[q] = "serverError" <=> record[q] = "serverError"
    <3> USE DEF Write, outcome, exchange, buckets
    <3>1. pc[r] \notin Late => record[r] = "none" BY DEF HandlerInv, Course
    <3>2. CASE Deny(r) \/ Busy(r) \/ Throttle(r)
      BY <1>1, <3>1, <3>2 DEF Deny, Busy, Throttle, Goto, Late
    <3>3. CASE acquire(r) \/ Cancel(r) \/ ReadClock(r) \/ Forward(r) \/ release(r)
      BY <3>3 DEF acquire, Cancel, ReadClock, Forward, release
    <3>4. CASE TimeOut(r) \/ Break(r)
      BY <3>4 DEF TimeOut, Break, Fail
    <3>5. CASE Answered(r) \/ Decoded(r) \/ Garbled(r) \/ Drained(r)
      BY <1>1, <3>1, <3>5 DEF Answered, Decoded, Garbled, Drained, Goto, Late
    <3>6. CASE writeUpstreamUnavailable(r) \/ writeUpstreamInvalid(r)
      BY <1>1, <3>1, <3>6
         DEF writeUpstreamUnavailable, writeUpstreamInvalid, Unavailable, Goto, Late
    <3>7. CASE StatusUnavailable(r) \/ StatusRelayed(r)
      BY <1>1, <3>1, <3>7 DEF StatusUnavailable, StatusRelayed, Unavailable, Goto, Late
    <3> QED BY <1>5, <3>2, <3>3, <3>4, <3>5, <3>6, <3>7 DEF Docker, Proceed
  <2>3. Warned' = Warned BY <2>2 DEF Warned
  <2> QED BY <2>1, <2>3
<1>6. CASE UNCHANGED vars
  BY <1>6 DEF vars, buckets, outcome, ReadingsAt, Warned
<1> QED BY <1>2, <1>3, <1>4, <1>5, <1>6 DEF Next, Finished, Proceed

\* However often Docker answers with a server error, the warnings about it are
\* granted by one rate limit (upstream.go:68-76).
THEOREM WarningsRefine == Spec => WarningsAreRateLimited
<1>1. Init => Warnings!Init
  <2> SUFFICES ASSUME Init PROVE Warnings!Init OBVIOUS
  <2>1. Warned = {} BY DEF Init, Warned
  <2>2. Cardinality(Warned) = 0 BY <2>1, FS_EmptySet
  <2> QED BY <2>2 DEF Init, Warnings!Init, ReadingsAt, Warnings!None, None,
                      Warnings!NewBucket, NewBucket, Warnings!Nil, Nil
<1>2. SlotsInv /\ [Next]_vars => [Warnings!Next]_(Warnings!vars)
  BY WarningsStep DEF SlotsInv
<1> QED BY <1>1, <1>2, SlotsInvariant, PTL DEF Spec, WarningsAreRateLimited, Warnings!Spec

-----------------------------------------------------------------------------
(* One answer each.                                                        *)

\* Every step that writes is one of a request that has not answered yet.
LEMMA AnsweredStep ==
    ASSUME HandlerInv, [Next]_vars, NEW q \in Requests, reply[q] # 0
    PROVE  reply'[q] = reply[q]
<1>1. pc[q] \in Late /\ reply \in [Requests -> Nat]
  BY DEF HandlerInv, Course, TypeOK
<1> USE DEF Write, Goto, Late, exchange, outcome, buckets, history
<1>2. ASSUME NEW r \in Requests, Deny(r) \/ Busy(r) \/ Throttle(r) PROVE reply'[q] = reply[q]
  BY <1>1, <1>2 DEF Deny, Busy, Throttle
<1>3. ASSUME NEW r \in Requests, acquire(r) \/ Cancel(r) \/ ReadClock(r) \/ Forward(r) \/ release(r)
      PROVE  reply'[q] = reply[q]
  BY <1>3 DEF acquire, Cancel, ReadClock, Forward, release
<1>4. ASSUME NEW r \in Requests, TimeOut(r) \/ Docker(r) PROVE reply'[q] = reply[q]
  BY <1>1, <1>4 DEF TimeOut, Docker, Break, Fail, Answered, Decoded, Garbled, Drained
<1>5. ASSUME NEW r \in Requests, writeUpstreamUnavailable(r) \/ writeUpstreamInvalid(r)
      PROVE  reply'[q] = reply[q]
  BY <1>1, <1>5 DEF writeUpstreamUnavailable, writeUpstreamInvalid, Unavailable
<1>6. ASSUME NEW r \in Requests,
             StatusUnavailable(r) \/ StatusRelayed(r) \/ ReadWarnClock(r) \/ Warn(r)
      PROVE  reply'[q] = reply[q]
  BY <1>1, <1>6 DEF StatusUnavailable, StatusRelayed, ReadWarnClock, Warn, Unavailable
<1>7. CASE Tick \/ UNCHANGED vars
  BY <1>7 DEF Tick, vars
<1> QED BY <1>2, <1>3, <1>4, <1>5, <1>6, <1>7 DEF Next, Proceed, Finished

\* No path through the handler writes a second status line.
THEOREM NoSecondAnswer == Spec => AnsweredOnce
<1>1. SlotsInv /\ [Next]_vars => [\A r \in Requests : reply[r] # 0 => reply'[r] = reply[r]]_vars
  BY AnsweredStep DEF SlotsInv
<1> QED BY <1>1, SlotsInvariant, PTL DEF Spec, AnsweredOnce

-----------------------------------------------------------------------------
(* The burst.                                                              *)

\* What the rush has spent and what is left is the full bucket at least: only
\* requests that reach Docker take tokens, and nothing but time fills it.
Paid ==
    /\ Unlimited(limiter) \/ limiter.capacity = Burst * Token
    /\ ~Unlimited(limiter) => limiter.tokens + Token * rush >= limiter.capacity

BurstInv == SlotsInv /\ Paid

LEMMA TokensCount ==
    ASSUME NEW n \in Nat, NEW b \in Nat, Token * n > b * Token - Token
    PROVE  n >= b
<1> SUFFICES ASSUME n <= b - 1 PROVE FALSE OBVIOUS
<1>1. Token * n <= Token * (b - 1) BY Monotone, TokenAssumption
<1>2. Token * (b - 1) = b * Token - Token BY TokenAssumption
<1>3. Token * n \in Int /\ b * Token \in Int BY TokenAssumption
<1> QED BY <1>1, <1>2, <1>3, TokenAssumption

LEMMA BurstNat == Burst \in Nat /\ Burst >= MaxConcurrent
BY HandlerAssumption DEF Burst, Larger

\* What a call of allow does to the sum.
LEMMA SumKept ==
    ASSUME NEW b, WellFormed(b), ~Unlimited(b), NEW now \in Nat, NEW n \in Nat,
           b.tokens + Token * n >= b.capacity
    PROVE  LET t == Taken(b, now) IN
           /\ ~Unlimited(t) /\ t.capacity = b.capacity
           /\ Admits(b, now) => t.tokens + Token * (n + 1) >= t.capacity
           /\ ~Admits(b, now) => /\ t.tokens + Token * n >= t.capacity
                                 /\ Token * n > t.capacity - Token
<1> DEFINE t == Taken(b, now)
           r == Refilled(b, now)
<1>1. /\ r \in Buckets /\ b.tokens <= r.tokens
  BY RefillEarns
<1>2. /\ ~Unlimited(t) /\ t.capacity = b.capacity
      /\ Admits(b, now) => t.tokens = r.tokens - Token
      /\ ~Admits(b, now) => r.tokens < Token /\ t.tokens = r.tokens
  BY TakenSpends
<1>3. r.tokens \in Nat /\ b.tokens \in Nat /\ b.capacity \in Nat /\ Token \in Nat
  BY <1>1, TokenAssumption DEF WellFormed, Buckets
<1>4. Token * (n + 1) = Token * n + Token /\ Token * n \in Nat
  BY TokenAssumption
<1> HIDE DEF t, r
<1>5. CASE Admits(b, now) BY <1>1, <1>2, <1>3, <1>4, <1>5 DEF t
<1>6. CASE ~Admits(b, now) BY <1>1, <1>2, <1>3, <1>4, <1>6 DEF t
<1> QED BY <1>5, <1>6

\* A 429 comes when the rush has spent the whole burst.
LEMMA RefusedLate ==
    ASSUME BurstInv, NEW r \in Requests, Throttle(r)
    PROVE  Paid' /\ rush >= MaxConcurrent
<1> USE DEF BurstInv, SlotsInv, Paid
<1>1. rush \in Nat /\ WellFormed(limiter) /\ MaxConcurrent \in Nat
  BY HandlerAssumption DEF HandlerInv, TypeOK
<1>2. /\ ~Admits(limiter, reading[r]) /\ limiter' = Taken(limiter, reading[r])
      /\ rush' = rush /\ reading[r] \in Nat
  BY HandlerAssumption DEF Throttle, Goto, HandlerInv, TypeOK, Course, None, history
<1>3. ~Unlimited(limiter) BY <1>2 DEF Admits
<1>4. /\ ~Unlimited(limiter') /\ limiter'.capacity = Burst * Token
      /\ limiter'.tokens + Token * rush >= limiter'.capacity
      /\ Token * rush > Burst * Token - Token
  BY <1>1, <1>2, <1>3, SumKept
<1>5. rush >= Burst BY <1>1, <1>4, BurstNat, TokensCount
<1>6. Burst' = Burst BY DEF Burst
<1> QED BY <1>1, <1>2, <1>4, <1>5, <1>6, BurstNat

\* The first request of a rush takes its token from a full bucket.
LEMMA FirstOfRush ==
    ASSUME NEW b, WellFormed(b), ~Unlimited(b), NEW now \in Nat,
           Admits(b, now), Refilled(b, now).tokens = b.capacity
    PROVE  LET t == Taken(b, now)
           IN  ~Unlimited(t) /\ t.capacity = b.capacity /\ t.tokens + Token * 1 >= t.capacity
<1> DEFINE t == Taken(b, now)
<1>1. ~Unlimited(t) /\ t.capacity = b.capacity /\ t.tokens = b.capacity - Token
  BY TakenSpends
<1>2. b.capacity \in Nat /\ Token \in Nat BY TokenAssumption DEF WellFormed, Buckets
<1> HIDE DEF t
<1> QED BY <1>1, <1>2 DEF t

LEMMA PaidForward ==
    ASSUME BurstInv, NEW r \in Requests, Forward(r)
    PROVE  Paid'
<1> USE DEF BurstInv, SlotsInv, Paid
<1>1. rush \in Nat /\ WellFormed(limiter) /\ Burst' = Burst
  BY HandlerAssumption DEF HandlerInv, TypeOK, Burst
<1>2. /\ Admits(limiter, reading[r]) /\ limiter' = Taken(limiter, reading[r])
      /\ rush' = (IF Full THEN 0 ELSE rush) + 1
      /\ reading[r] \in Nat
  BY HandlerAssumption DEF Forward, Goto, HandlerInv, TypeOK, Course, None
<1>3. CASE Unlimited(limiter)
  <2>1. limiter' = limiter BY <1>2, <1>3 DEF Taken
  <2> QED BY <1>3, <2>1
<1>4. CASE ~Unlimited(limiter) /\ Full
  <2>1. Refilled(limiter, reading[r]).tokens = limiter.capacity
    BY <1>4 DEF Full, Forward, Goto
  <2>2. rush' = 1 BY <1>2, <1>4
  <2> QED BY <1>1, <1>2, <1>4, <2>1, <2>2, FirstOfRush
<1>5. CASE ~Unlimited(limiter) /\ ~Full
  <2>1. rush' = rush + 1 BY <1>2, <1>5
  <2> QED BY <1>1, <1>2, <1>5, <2>1, SumKept
<1> QED BY <1>3, <1>4, <1>5

\* Every other step leaves the limiter and the rush alone and refuses nobody.
LEMMA OthersSpendNothing ==
    ASSUME TypeOK, [Next]_vars, \A r \in Requests : ~Throttle(r) /\ ~Forward(r)
    PROVE  /\ UNCHANGED <<limiter, rush>>
           /\ \A q \in Requests : record'[q] = "throttled" => record[q] = "throttled"
<1> USE DEF Write, buckets, outcome, exchange, history
<1>1. record \in [Requests -> Debug \union Loud] BY DEF TypeOK
<1>2. ASSUME NEW r \in Requests, Deny(r) \/ Busy(r) \/ acquire(r) \/ Cancel(r)
      PROVE  /\ UNCHANGED <<limiter, rush>>
             /\ \A q \in Requests : record'[q] = "throttled" => record[q] = "throttled"
  BY <1>1, <1>2 DEF Deny, Busy, acquire, Cancel
<1>3. ASSUME NEW r \in Requests, TimeOut(r) \/ Docker(r)
      PROVE  /\ UNCHANGED <<limiter, rush>>
             /\ \A q \in Requests : record'[q] = "throttled" => record[q] = "throttled"
  BY <1>1, <1>3 DEF TimeOut, Docker, Break, Fail, Answered, Decoded, Garbled, Drained
<1>4. ASSUME NEW r \in Requests, writeUpstreamUnavailable(r) \/ writeUpstreamInvalid(r)
      PROVE  /\ UNCHANGED <<limiter, rush>>
             /\ \A q \in Requests : record'[q] = "throttled" => record[q] = "throttled"
  BY <1>1, <1>4 DEF writeUpstreamUnavailable, writeUpstreamInvalid, Unavailable
<1>5. ASSUME NEW r \in Requests,
             StatusUnavailable(r) \/ StatusRelayed(r) \/ ReadWarnClock(r) \/ Warn(r)
      PROVE  /\ UNCHANGED <<limiter, rush>>
             /\ \A q \in Requests : record'[q] = "throttled" => record[q] = "throttled"
  BY <1>1, <1>5 DEF StatusUnavailable, StatusRelayed, ReadWarnClock, Warn, Unavailable
<1>6. ASSUME NEW r \in Requests, ReadClock(r) \/ release(r)
      PROVE  UNCHANGED <<limiter, rush, record>>
  BY <1>6 DEF ReadClock, release
<1>7. CASE Tick \/ UNCHANGED vars
  BY <1>7 DEF Tick, vars
<1> QED BY <1>2, <1>3, <1>4, <1>5, <1>6, <1>7 DEF Next, Proceed, Finished

LEMMA BurstInit == Init => BurstInv
<1> SUFFICES ASSUME Init PROVE BurstInv OBVIOUS
<1>1. Burst * Token >= Token /\ MaxRate * Token \in Int /\ Burst * Token \in Int
  <2>1. Burst \in Nat /\ Burst >= 1 BY BurstNat, HandlerAssumption
  <2>2. Token * 1 <= Token * Burst BY <2>1, Monotone, TokenAssumption
  <2> QED BY <2>1, <2>2, TokenAssumption, HandlerAssumption
<1>2. ~Unlimited(limiter) => limiter.tokens = limiter.capacity
  BY <1>1, NewBucketFull DEF Init
<1>3. Unlimited(limiter) \/ limiter.capacity = Burst * Token
  BY <1>1, TokenAssumption DEF Init, NewBucket, Unlimited, Nil
<1>4. WellFormed(limiter) /\ rush = 0 BY SlotsInit DEF Init, SlotsInv, HandlerInv
<1>5. Token * 0 = 0 BY TokenAssumption
<1>6. Paid BY <1>2, <1>3, <1>4, <1>5, TokenAssumption DEF Paid, WellFormed, Buckets
<1> QED BY <1>6, SlotsInit DEF BurstInv

LEMMA BurstNext == SlotsInv' /\ BurstInv /\ [Next]_vars => BurstInv'
<1> SUFFICES ASSUME SlotsInv', BurstInv, [Next]_vars PROVE Paid' BY DEF BurstInv
<1>1. CASE \E r \in Requests : Throttle(r) BY <1>1, RefusedLate
<1>2. CASE \E r \in Requests : Forward(r) BY <1>2, PaidForward
<1>3. CASE \A r \in Requests : ~Throttle(r) /\ ~Forward(r)
  <2>1. UNCHANGED <<limiter, rush>>
    BY <1>3, OthersSpendNothing DEF BurstInv, SlotsInv, HandlerInv
  <2>2. Burst' = Burst BY DEF Burst
  <2> QED BY <2>1, <2>2 DEF BurstInv, Paid
<1> QED BY <1>1, <1>2, <1>3

\* Whenever the limiter is full again, MaxConcurrent requests reach Docker before
\* it refuses one, for every rate and every number of slots (handler.go:78-82).
THEOREM BurstCovers == Spec => BurstCoversConcurrency
<1>1. ASSUME BurstInv, [Next]_vars
      PROVE  \A r \in Requests :
                record[r] # "throttled" /\ record'[r] = "throttled" => rush >= MaxConcurrent
  <2>1. CASE \E r \in Requests : Throttle(r) BY <2>1, <1>1, RefusedLate
  <2>2. CASE \E r \in Requests : Forward(r)
    BY <2>2 DEF Forward, outcome
  <2>3. CASE \A r \in Requests : ~Throttle(r) /\ ~Forward(r)
    BY <1>1, <2>3, OthersSpendNothing DEF BurstInv, SlotsInv, HandlerInv
  <2> QED BY <2>1, <2>2, <2>3
<1>2. BurstInv /\ [Next]_vars =>
        [\A r \in Requests :
           record[r] # "throttled" /\ record'[r] = "throttled" => rush >= MaxConcurrent]_vars
  BY <1>1
<1> QED BY <1>2, BurstInit, BurstNext, SlotsInvariant, PTL DEF Spec, BurstCoversConcurrency

=============================================================================
