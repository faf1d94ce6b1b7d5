------------------------------- MODULE Deadlines ------------------------------
(***************************************************************************)
(* server.go:13-46 and app.go:153-156: the deadlines that are derived from *)
(* each other and start at different moments of one exchange.  The client  *)
(* connects, the server accepts the connection and reads the request, the  *)
(* handler may ask Docker, and the answer is written; a signal may come    *)
(* and the client may leave at any time.                                   *)
(*                                                                         *)
(* Time is counted in steps.  A timer fires in the step it is due, which   *)
(* is the guard of Tick; everything else takes as long as it likes.        *)
(***************************************************************************)
EXTENDS Integers

CONSTANTS UpstreamTimeout,      \* cfg.UpstreamTimeout
          ShutdownTimeout,      \* opts.ShutdownTimeout, 0 for automatic
          readHeaderTimeout, writeTimeoutHeadroom,
          MaxClock              \* bound: how long time goes on

ASSUME DeadlinesAssumption ==
    /\ UpstreamTimeout \in Nat \ {0} /\ ShutdownTimeout \in Nat
    /\ readHeaderTimeout \in Nat \ {0}
    /\ writeTimeoutHeadroom \in Nat /\ readHeaderTimeout <= writeTimeoutHeadroom
    /\ MaxClock \in Nat

Never == -1

VARIABLES now,
          pc,           \* where the exchange stands
          accepted,     \* when the server took the connection
          read,         \* when the headers were read
          asked,        \* when Docker was asked
          heard,        \* when Docker answered or its time was up
          signalled,    \* when ctx was done
          outcome,      \* how the exchange ended
          over          \* and when

times == <<accepted, read, asked, heard>>
ends  == <<outcome, over>>
vars  == <<now, pc, times, signalled, ends>>

Init ==
    /\ now = 0
    /\ pc = "away" /\ outcome = "none"
    /\ accepted = Never /\ read = Never
    /\ asked = Never /\ heard = Never /\ signalled = Never /\ over = Never

Waiting == {"connecting", "reading", "handling", "asking", "writing"}
Open    == Waiting \ {"connecting"}

-----------------------------------------------------------------------------
\* A write deadline with no headroom.
writeTimeoutBare == UpstreamTimeout

\* NewServer.
writeTimeout == UpstreamTimeout + writeTimeoutHeadroom

\* An automatic shutdown timeout that is the upstream timeout.
shutdownTimeoutBare == IF ShutdownTimeout = 0 THEN UpstreamTimeout ELSE ShutdownTimeout

\* Run.
shutdownTimeout ==
    IF ShutdownTimeout = 0 THEN UpstreamTimeout + writeTimeoutHeadroom ELSE ShutdownTimeout

\* net/http starts the write deadline when it has read the headers.
WriteDeadline    == read + writeTimeout
HeaderDeadline   == accepted + readHeaderTimeout
UpstreamDeadline == asked + UpstreamTimeout
ShutdownDeadline == signalled + shutdownTimeout

\* A timer that is due.
Due ==
    \/ pc = "reading" /\ now = HeaderDeadline
    \/ pc = "asking" /\ now = UpstreamDeadline
    \/ pc \in Open /\ signalled # Never /\ now = ShutdownDeadline

-----------------------------------------------------------------------------
Goto(from, to) == pc = from /\ pc' = to

Connect ==
    /\ Goto("away", "connecting")
    /\ UNCHANGED <<now, times, signalled, ends>>

\* Shutdown closes the listener at once.
Accept ==
    /\ Goto("connecting", "reading")
    /\ signalled \in {Never, now}
    /\ accepted' = now
    /\ UNCHANGED <<now, read, asked, heard, signalled, ends>>

ReadHeaders ==
    /\ Goto("reading", "handling")
    /\ read' = now
    /\ UNCHANGED <<now, accepted, asked, heard, signalled, ends>>

\* The handler answers by itself: 403, 429 or 503.
Refuse ==
    /\ Goto("handling", "writing")
    /\ asked' = now /\ heard' = now
    /\ UNCHANGED <<now, accepted, read, signalled, ends>>

Ask ==
    /\ Goto("handling", "asking")
    /\ asked' = now
    /\ UNCHANGED <<now, accepted, read, heard, signalled, ends>>

DockerAnswers ==
    /\ Goto("asking", "writing")
    /\ heard' = now
    /\ UNCHANGED <<now, accepted, read, asked, signalled, ends>>

UpstreamExpires ==
    /\ now = UpstreamDeadline
    /\ Goto("asking", "writing")
    /\ heard' = now
    /\ UNCHANGED <<now, accepted, read, asked, signalled, ends>>

End(how) ==
    /\ pc' = "over" /\ outcome' = how /\ over' = now
    /\ UNCHANGED <<now, times, signalled>>

Write         == pc = "writing" /\ now <= WriteDeadline /\ End("answered")
WriteExpires  == pc = "writing" /\ now >= WriteDeadline /\ End("write")
HeaderExpires == pc = "reading" /\ now = HeaderDeadline /\ End("header")

\* The client goes when it likes, and one that was not accepted has to.
Leave == pc \in Waiting /\ End("gone")

Signal ==
    /\ signalled = Never
    /\ signalled' = now
    /\ UNCHANGED <<now, pc, times, ends>>

\* Shutdown's context ends and Serve closes what is open.
ShutdownExpires ==
    /\ pc \in Open /\ signalled # Never /\ now = ShutdownDeadline
    /\ End("shutdown")

Tick ==
    /\ now < MaxClock /\ ~Due
    /\ now' = now + 1
    /\ UNCHANGED <<pc, times, signalled, ends>>

\* The exchange is over or the clock is at its bound: the model stops.
Finished == (pc = "over" \/ now = MaxClock) /\ UNCHANGED vars

Next ==
    \/ Connect \/ Accept \/ ReadHeaders \/ Refuse \/ Ask
    \/ DockerAnswers \/ UpstreamExpires
    \/ Write \/ WriteExpires \/ HeaderExpires \/ Leave
    \/ Signal \/ ShutdownExpires \/ Tick
    \/ Finished

Spec == Init /\ [][Next]_vars

-----------------------------------------------------------------------------
\* How long the exchange took, from its headers to its end, without the time that
\* was Docker's: the proxy's own work and a client that is slow to read.
DockerTime == IF asked = Never THEN 0 ELSE (IF heard = Never THEN over ELSE heard) - asked
OwnTime == over - read - DockerTime

\* The server cuts off an answer for what took long outside Docker, never for
\* Docker's time, however close to the upstream timeout it answered: only after
\* all of the headroom (server.go:18-26).
SlowAnswersAreWritten == outcome = "write" => OwnTime >= writeTimeoutHeadroom

\* With the automatic timeout a shutdown outlives what it drains: a request is
\* cut only if it took the headroom apart from Docker's time, and one whose
\* headers came after the signal what is left of it when the headers are in; a
\* connection is not cut while its headers are read (server.go:18-21, app.go:153).
DrainOutlivesRequests ==
    ShutdownTimeout = 0 /\ outcome = "shutdown" =>
        /\ read # Never
        /\ OwnTime >= IF read <= signalled THEN writeTimeoutHeadroom
                      ELSE writeTimeoutHeadroom - readHeaderTimeout
=============================================================================
