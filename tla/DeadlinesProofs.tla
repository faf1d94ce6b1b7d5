---------------------------- MODULE DeadlinesProofs ---------------------------
(***************************************************************************)
(* The deadlines fit together for every upstream timeout and every length  *)
(* of the others, as long as the header timeout is within the headroom.    *)
(***************************************************************************)
EXTENDS Deadlines, TLAPS

Times == Nat \union {Never}

Types ==
    /\ now \in Nat
    /\ pc \in Waiting \union {"away", "over"}
    /\ accepted \in Times /\ read \in Times
    /\ asked \in Times /\ heard \in Times /\ signalled \in Times /\ over \in Times

\* The moments of an exchange come in their order, each within its deadline.
Moments ==
    /\ pc \in {"away", "connecting"} => accepted = Never
    /\ pc \in Open => accepted \in 0..now
    /\ pc \in {"away", "connecting", "reading"} => read = Never
    /\ pc \in {"handling", "asking", "writing"} => read \in accepted..(accepted + readHeaderTimeout) /\ read <= now
    /\ pc \in {"away", "connecting", "reading", "handling"} => asked = Never
    /\ pc \in {"asking", "writing"} => asked \in read..now
    /\ pc \in {"away", "connecting", "reading", "handling", "asking"} => heard = Never
    /\ pc = "writing" => heard \in asked..now /\ heard <= asked + UpstreamTimeout

\* No timer is past due.
Prompt ==
    /\ pc = "reading" => now <= accepted + readHeaderTimeout
    /\ pc = "asking" => now <= asked + UpstreamTimeout
    /\ pc \in Open /\ signalled # Never => now <= signalled + shutdownTimeout

\* Connections are accepted before the signal, which does not lie ahead.
Signals ==
    /\ signalled # Never => signalled <= now
    /\ pc \in Open /\ signalled # Never => accepted <= signalled

\* What is known of an exchange once it is over.
Endings ==
    /\ outcome # "none" => pc = "over"
    /\ outcome = "shutdown" => signalled # Never
    /\ SlowAnswersAreWritten /\ DrainOutlivesRequests

DInv == Types /\ Moments /\ Prompt /\ Signals /\ Endings

LEMMA DeadlinesInit == Init => DInv
BY DeadlinesAssumption DEF Init, DInv, Types, Times, Moments, Prompt, Signals, Endings,
    SlowAnswersAreWritten, DrainOutlivesRequests, Never, Waiting, Open

\* A step that ends nothing leaves what is known of endings as it is.
LEMMA StillOver ==
    ASSUME DInv, UNCHANGED ends, pc # "over", pc' # "over"
    PROVE  Endings'
BY DEF DInv, Endings, ends, SlowAnswersAreWritten, DrainOutlivesRequests

LEMMA DeadlinesNext == DInv /\ [Next]_vars => DInv'
<1> SUFFICES ASSUME DInv, [Next]_vars PROVE DInv' OBVIOUS
<1> USE DeadlinesAssumption
<1> USE DEF Types, Times, Moments, Prompt, Signals, Never, Waiting, Open, Goto, times, ends
<1>1. CASE Connect
  <2>1. Endings' BY <1>1, StillOver DEF Connect
  <2> QED BY <1>1, <2>1 DEF DInv, Connect
<1>2. CASE Accept
  <2>1. Endings' BY <1>2, StillOver DEF Accept
  <2> QED BY <1>2, <2>1 DEF DInv, Accept, shutdownTimeout
<1>3. CASE ReadHeaders
  <2>1. Endings' BY <1>3, StillOver DEF ReadHeaders
  <2> QED BY <1>3, <2>1 DEF DInv, ReadHeaders
<1>4. CASE Refuse
  <2>1. Endings' BY <1>4, StillOver DEF Refuse
  <2> QED BY <1>4, <2>1 DEF DInv, Refuse
<1>5. CASE Ask
  <2>1. Endings' BY <1>5, StillOver DEF Ask
  <2> QED BY <1>5, <2>1 DEF DInv, Ask
<1>6. CASE DockerAnswers
  <2>1. Endings' BY <1>6, StillOver DEF DockerAnswers
  <2> QED BY <1>6, <2>1 DEF DInv, DockerAnswers
<1>7. CASE UpstreamExpires
  <2>1. Endings' BY <1>7, StillOver DEF UpstreamExpires
  <2> QED BY <1>7, <2>1 DEF DInv, UpstreamExpires
\* The exchange ends: the rest of the invariant says nothing of it any more.
<1>8. ASSUME NEW how, End(how), Endings' PROVE DInv'
  BY <1>8 DEF DInv, End
<1>9. CASE Write
  <2>1. Endings' BY <1>9 DEF DInv, Write, End, Endings, SlowAnswersAreWritten, DrainOutlivesRequests
  <2> QED BY <1>8, <1>9, <2>1 DEF Write
<1>10. CASE WriteExpires
  <2>1. OwnTime' >= writeTimeoutHeadroom
    BY <1>10 DEF DInv, WriteExpires, WriteDeadline, writeTimeout, End, OwnTime, DockerTime
  <2>2. Endings'
    BY <1>10, <2>1 DEF DInv, WriteExpires, End, Endings, SlowAnswersAreWritten, DrainOutlivesRequests
  <2> QED BY <1>8, <1>10, <2>2 DEF WriteExpires
<1>11. CASE HeaderExpires
  <2>1. Endings' BY <1>11 DEF DInv, HeaderExpires, End, Endings, SlowAnswersAreWritten, DrainOutlivesRequests
  <2> QED BY <1>8, <1>11, <2>1 DEF HeaderExpires
<1>12. CASE Leave
  <2>1. Endings' BY <1>12 DEF DInv, Leave, End, Endings, SlowAnswersAreWritten, DrainOutlivesRequests
  <2> QED BY <1>8, <1>12, <2>1 DEF Leave
<1>13. CASE Signal
  <2>1. Endings'
    BY <1>13 DEF DInv, Signal, Endings, SlowAnswersAreWritten, DrainOutlivesRequests, OwnTime, DockerTime
  <2> QED BY <1>13, <2>1 DEF DInv, Signal, shutdownTimeout
<1>14. CASE ShutdownExpires
  <2> USE DEF DInv, ShutdownExpires, ShutdownDeadline, shutdownTimeout, End
  <2>1. ASSUME ShutdownTimeout = 0
        PROVE  /\ read' # Never
               /\ OwnTime' >= IF read <= signalled THEN writeTimeoutHeadroom
                              ELSE writeTimeoutHeadroom - readHeaderTimeout
    <3>1. pc # "reading" BY <1>14, <2>1
    <3>2. CASE pc = "handling" BY <1>14, <2>1, <3>2 DEF OwnTime, DockerTime
    <3>3. CASE pc = "asking" BY <1>14, <2>1, <3>3 DEF OwnTime, DockerTime
    <3>4. CASE pc = "writing" BY <1>14, <2>1, <3>4 DEF OwnTime, DockerTime
    <3> QED BY <1>14, <3>1, <3>2, <3>3, <3>4
  <2>2. Endings' BY <1>14, <2>1 DEF Endings, SlowAnswersAreWritten, DrainOutlivesRequests
  <2> QED BY <1>8, <1>14, <2>2
<1>15. CASE Tick
  <2>1. Moments' /\ Types' /\ Signals' BY <1>15 DEF DInv, Tick
  <2>2. Prompt'
    BY <1>15 DEF DInv, Tick, Due, HeaderDeadline, UpstreamDeadline, ShutdownDeadline,
        shutdownTimeout
  <2>3. Endings'
    BY <1>15 DEF DInv, Tick, Endings, SlowAnswersAreWritten, DrainOutlivesRequests, OwnTime, DockerTime
  <2> QED BY <2>1, <2>2, <2>3 DEF DInv
<1>16. CASE UNCHANGED vars
  BY <1>16 DEF DInv, vars, Endings, SlowAnswersAreWritten, DrainOutlivesRequests, OwnTime, DockerTime
<1> QED
  BY <1>1, <1>2, <1>3, <1>4, <1>5, <1>6, <1>7, <1>9, <1>10, <1>11, <1>12, <1>13, <1>14,
     <1>15, <1>16 DEF Next, Finished

LEMMA DeadlinesInvariant == Spec => []DInv
BY DeadlinesInit, DeadlinesNext, PTL DEF Spec

\* server.go:24-26: only time outside Docker cuts off an answer, and only when it
\* is as long as the headroom.
THEOREM AnswersAreWritten == Spec => []SlowAnswersAreWritten
<1>1. DInv => SlowAnswersAreWritten BY DEF DInv, Endings
<1> QED BY <1>1, DeadlinesInvariant, PTL

\* server.go:18-21: the automatic shutdown timeout outlives a request, whatever
\* the upstream timeout.
THEOREM DrainOutlives == Spec => []DrainOutlivesRequests
<1>1. DInv => DrainOutlivesRequests BY DEF DInv, Endings
<1> QED BY <1>1, DeadlinesInvariant, PTL
=============================================================================
