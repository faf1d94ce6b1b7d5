-------------------------------- MODULE Serve --------------------------------
(***************************************************************************)
(* server.go, limit.go and peer.go: the serving loop of the proxy.  Three  *)
(* kinds of goroutines share net/http's server and the listener stack      *)
(* limitedListener > authorizedListener > Unix socket: the one that        *)
(* accepts (http.Server.Serve), the one that waits for the signal and      *)
(* shuts down (Serve), and one per connection.  What a request does is in  *)
(* Handler; here it is running or not.                                     *)
(*                                                                         *)
(* The steps of net/http are external.  Its mutex is modelled by MuHeld:   *)
(* only Shutdown and Close hold it for more than one step.                 *)
(***************************************************************************)
EXTENDS Integers, Sequences, FiniteSets

CONSTANTS Conns,            \* connections clients make, each once
          MaxConnections,   \* LimitConnections' argument
          Cred,             \* what the kernel says of the client: uid, gid
          UIDs, GIDs,       \* PeerPolicy
          Self,             \* the proxy's own user
          MaxFaults         \* bound: failures of accept(2)

ASSUME ServeAssumption ==
    /\ IsFiniteSet(Conns)
    /\ MaxConnections \in Int
    /\ \A c \in Conns : Cred[c].uid \in Int /\ Cred[c].gid \in Int
    /\ UIDs \subseteq Int /\ GIDs \subseteq Int /\ Self \in Int
    /\ MaxFaults \in Nat

VARIABLES
    stage,       \* each connection: where it is, or where its goroutine stands
    backlog,     \* the kernel's queue of connections not yet accepted
    open,        \* accepted connections whose socket is open
    charged,     \* limitedConns whose release has not run
    slots,       \* tokens in limitedListener.slots
    tracked,     \* http.Server.activeConn
    once,        \* limitedListener.Close: not called, done closed, all closed
    accept,      \* the accepting goroutine's next step
    fault,       \* the error it has in hand
    registered,  \* whether its listener is in the server's listener group
    inShutdown,  \* http.Server.inShutdown
    served,      \* the channel of Serve: empty, ErrServerClosed or an error
    serving,     \* Serve's next step
    call,        \* what it is in: Shutdown or Close of the server
    todo,        \* connections its loop over activeConn has not seen
    target,      \* the connection it is closing, if any
    busy,        \* closeIdleConns met one that is not idle
    failed,      \* Shutdown returned an error
    ctx,         \* the signal came
    deadline,    \* shutdownCtx has expired
    result,      \* what Serve returned
    inFlight,    \* history: requests running when Shutdown began, unanswered
    lost,        \* history: those of them whose connection was closed on them
    faults,      \* failures of accept so far
    lasting      \* history: one of them will not pass

conns     == <<stage, open, charged, slots, tracked>>
failures  == <<faults, lasting>>
acceptor  == <<accept, fault, registered, served, failures>>
shutting  == <<serving, call, todo, target, busy, failed, result>>
history   == <<inFlight, lost>>
flags     == <<inShutdown, ctx, deadline>>
vars == <<conns, backlog, once, acceptor, shutting, history, flags>>

\* A bound below one would block Accept for ever.
Slots == IF MaxConnections < 1 THEN 1 ELSE MaxConnections

\* PeerPolicy.Empty: AuthorizePeers leaves the listener as it is.
Empty == UIDs = {} /\ GIDs = {}

\* One match is enough, where the policy asks for both.
AllowsEither(cred) ==
    \/ cred.uid = Self
    \/ cred.uid \in UIDs
    \/ cred.gid \in GIDs

Allows(cred) ==
    \/ cred.uid = Self
    \/ /\ UIDs = {} \/ cred.uid \in UIDs
       /\ GIDs = {} \/ cred.gid \in GIDs

Stages == {"away", "backlog", "held", "new", "active", "idle",
           "closing", "closed", "released", "gone"}

MuHeld == serving \in {"closing", "look", "shut", "release"}

Init ==
    /\ stage = [c \in Conns |-> "away"]
    /\ backlog = <<>>
    /\ open = {} /\ charged = {} /\ tracked = {}
    /\ slots = 0
    /\ once = "open"
    /\ accept = "track" /\ fault = "none" /\ served = "none" /\ faults = 0 /\ lasting = FALSE
    /\ registered = FALSE /\ inShutdown = FALSE
    /\ serving = "serve" /\ call = "none" /\ todo = {} /\ target = {} /\ busy = FALSE
    /\ failed = FALSE /\ result = "none"
    /\ ctx = FALSE /\ deadline = FALSE
    /\ inFlight = {} /\ lost = {}

-----------------------------------------------------------------------------
(* What several goroutines do.                                             *)

Move(c, from, to) == stage[c] = from /\ stage' = [stage EXCEPT ![c] = to]

\* limitedConn.Close, its second half without the sync.OnceFunc.
releaseEach(c) ==
    /\ slots' = slots - 1
    /\ charged' = charged \ {c}

\* limitedConn.Close, its second half: the first call gives the slot back.
release(c) ==
    /\ slots' = IF c \in charged THEN slots - 1 ELSE slots
    /\ charged' = charged \ {c}

\* Closing the socket resets what is still in the kernel's queue.
CloseSocket ==
    /\ once' = "closed"
    /\ backlog' = <<>>
    /\ stage' = [c \in Conns |-> IF stage[c] = "backlog" THEN "gone" ELSE stage[c]]

-----------------------------------------------------------------------------
(* The environment: clients, the signal, the timer of shutdownCtx.         *)

Connect(c) ==
    /\ once # "closed"
    /\ Move(c, "away", "backlog")
    /\ backlog' = Append(backlog, c)
    /\ UNCHANGED <<open, charged, slots, tracked, once, acceptor, shutting, history, flags>>

Signal ==
    /\ ~ctx /\ ctx' = TRUE
    /\ UNCHANGED <<conns, backlog, once, acceptor, shutting, history, inShutdown, deadline>>

Expire ==
    /\ call = "shutdown" /\ ~deadline
    /\ deadline' = TRUE
    /\ UNCHANGED <<conns, backlog, once, acceptor, shutting, history, inShutdown, ctx>>

-----------------------------------------------------------------------------
(* The accepting goroutine: http.Server.Serve around the two Accepts.      *)

Loop(from, to) == accept = from /\ accept' = to

\* trackListener refuses a server that is already shutting down.
Track ==
    /\ ~MuHeld
    /\ IF inShutdown
       THEN Loop("track", "end") /\ fault' = "closed" /\ UNCHANGED registered
       ELSE Loop("track", "select") /\ registered' = TRUE /\ UNCHANGED fault
    /\ UNCHANGED <<conns, backlog, once, served, failures, shutting, history, flags>>

\* limitedListener.Accept, the slot.
TakeSlot ==
    /\ slots < Slots
    /\ Loop("select", "inner")
    /\ slots' = slots + 1
    /\ UNCHANGED <<stage, open, charged, tracked, backlog, once, fault, registered,
                   served, failures, shutting, history, flags>>

\* A select without the case of done.
WaitForSlot == FALSE

\* limitedListener.Accept, the done channel.
SeeDone ==
    /\ once # "open"
    /\ Loop("select", "judge")
    /\ fault' = "closed"
    /\ UNCHANGED <<conns, backlog, once, registered, served, failures, shutting, history, flags>>

\* The Unix listener's Accept; without a policy there is nothing to check.
AcceptConn ==
    /\ once # "closed" /\ backlog # <<>>
    /\ Loop("inner", IF Empty THEN "hand" ELSE "peer")
    /\ Move(Head(backlog), "backlog", "held")
    /\ open' = open \union {Head(backlog)}
    /\ backlog' = Tail(backlog)
    /\ UNCHANGED <<charged, slots, tracked, once, fault, registered, served, failures,
                   shutting, history, flags>>

AcceptFault ==
    /\ \/ once = "closed" /\ fault' = "closed" /\ UNCHANGED failures
       \/ /\ once # "closed" /\ faults < MaxFaults
          /\ faults' = faults + 1
          /\ fault' \in {"temporary", "fatal"}
          /\ lasting' = (lasting \/ fault' = "fatal")
    /\ Loop("inner", "refund")
    /\ UNCHANGED <<conns, backlog, once, registered, served, shutting, history, flags>>

\* The error path of limitedListener.Accept without its receive.
RefundNothing ==
    /\ Loop("refund", "judge")
    /\ UNCHANGED <<conns, backlog, once, fault, registered, served, failures,
                   shutting, history, flags>>

\* An error of Accept returned wrapped: net/http no longer sees that it passes.
RefundWrapped ==
    /\ Loop("refund", "judge")
    /\ slots' = slots - 1
    /\ fault' = IF fault = "temporary" THEN "fatal" ELSE fault
    /\ UNCHANGED <<stage, open, charged, tracked, backlog, once, registered,
                   served, failures, shutting, history, flags>>

Refund ==
    /\ Loop("refund", "judge")
    /\ slots' = slots - 1
    /\ UNCHANGED <<stage, open, charged, tracked, backlog, once, fault, registered,
                   served, failures, shutting, history, flags>>

\* authorizedListener.Accept, the last return.
Admit(c) ==
    /\ stage[c] = "held" /\ Allows(Cred[c])
    /\ Loop("peer", "hand")
    /\ UNCHANGED <<conns, backlog, once, fault, registered, served, failures,
                   shutting, history, flags>>

\* A refused peer returned as an error of Accept.
RejectAndReturn(c) ==
    /\ Loop("peer", "refund")
    /\ fault' = "fatal"
    /\ Move(c, "held", "gone")
    /\ open' = open \ {c}
    /\ UNCHANGED <<charged, slots, tracked, backlog, once, registered, served,
                   failures, shutting, history, flags>>

\* authorizedListener.reject and continue: a peer the policy does not name,
\* or any peer that cannot be identified.
Reject(c) ==
    /\ Loop("peer", "inner")
    /\ Move(c, "held", "gone")
    /\ open' = open \ {c}
    /\ UNCHANGED <<charged, slots, tracked, backlog, once, fault, registered, served,
                   failures, shutting, history, flags>>

\* limitedListener.Accept returns, newConn and StateNew.
Hand(c) ==
    /\ ~MuHeld
    /\ Loop("hand", "select")
    /\ Move(c, "held", "new")
    /\ charged' = charged \union {c}
    /\ tracked' = tracked \union {c}
    /\ UNCHANGED <<open, slots, backlog, once, fault, registered, served, failures,
                   shutting, history, flags>>

\* Accept failed: shutting down, or worth another try, or the end.
Judge ==
    /\ \/ inShutdown /\ fault' = "closed" /\ Loop("judge", "untrack")
       \/ ~inShutdown /\ fault = "temporary" /\ fault' = "none" /\ Loop("judge", "select")
       \/ ~inShutdown /\ fault # "temporary" /\ fault' = "fatal" /\ Loop("judge", "untrack")
    /\ UNCHANGED <<conns, backlog, once, registered, served, failures, shutting, history, flags>>

\* The deferred trackListener(false), then the deferred Close of the listener.
Untrack ==
    /\ ~MuHeld
    /\ Loop("untrack", "end")
    /\ registered' = FALSE
    /\ UNCHANGED <<conns, backlog, once, fault, served, failures, shutting, history, flags>>

CloseDone ==
    /\ once = "open" /\ once' = "closing"
    /\ Loop("end", "ending")
    /\ UNCHANGED <<conns, backlog, fault, registered, served, failures, shutting, history, flags>>

CloseInner ==
    /\ CloseSocket
    /\ Loop("ending", "end")
    /\ UNCHANGED <<open, charged, slots, tracked, fault, registered, served, failures,
                   shutting, history, flags>>

Report ==
    /\ once = "closed"
    /\ Loop("end", "ended")
    /\ served' = fault
    /\ UNCHANGED <<conns, backlog, once, fault, registered, failures, shutting, history, flags>>

-----------------------------------------------------------------------------
(* A connection's goroutine, http.conn.serve.                              *)

\* The request may have been read before the server closed the socket.
ReadRequest(c) ==
    /\ Move(c, "new", "active") \/ Move(c, "idle", "active")
    /\ UNCHANGED <<open, charged, slots, tracked, backlog, once, acceptor, shutting,
                   history, flags>>

\* The handler returned.  Only an open connection of a server that is not
\* shutting down may be kept for another request.
Finish(c) ==
    /\ \/ Move(c, "active", "closing")
       \/ Move(c, "active", "idle") /\ ~inShutdown
    /\ inFlight' = inFlight \ {c}
    /\ UNCHANGED <<open, charged, slots, tracked, backlog, once, acceptor, shutting,
                   lost, flags>>

\* A server without an IdleTimeout.
HangUpUnread(c) ==
    /\ Move(c, "new", "closing")
    /\ UNCHANGED <<open, charged, slots, tracked, backlog, once, acceptor, shutting,
                   history, flags>>

\* The client left, or was too slow: the deadlines NewServer sets, or the
\* server closed the socket.
HangUp(c) ==
    /\ Move(c, "new", "closing") \/ Move(c, "idle", "closing")
    /\ UNCHANGED <<open, charged, slots, tracked, backlog, once, acceptor, shutting,
                   history, flags>>

\* limitedConn.Close without the Close of the connection it wraps.
ReleaseOnly(c) ==
    /\ Move(c, "closing", "closed")
    /\ release(c)
    /\ UNCHANGED <<open, tracked, backlog, once, acceptor, shutting, history, flags>>

\* limitedConn.Close, its first half; release is the second.
CloseConn(c) ==
    /\ Move(c, "closing", "closed")
    /\ open' = open \ {c}
    /\ UNCHANGED <<charged, slots, tracked, backlog, once, acceptor, shutting,
                   history, flags>>

ReleaseConn(c) ==
    /\ Move(c, "closed", "released")
    /\ release(c)
    /\ UNCHANGED <<open, tracked, backlog, once, acceptor, shutting, history, flags>>

\* StateClosed: the server forgets the connection.
Forget(c) ==
    /\ ~MuHeld
    /\ Move(c, "released", "gone")
    /\ tracked' = tracked \ {c}
    /\ UNCHANGED <<open, charged, slots, backlog, once, acceptor, shutting, history, flags>>

-----------------------------------------------------------------------------
(* Serve.                                                                  *)

Step(from, to) == serving = from /\ serving' = to

\* The server stopped by itself: close it and report why.
ServedFirst ==
    /\ served # "none"
    /\ Step("serve", "lock")
    /\ call' = "close" /\ inShutdown' = TRUE
    /\ UNCHANGED <<conns, backlog, once, acceptor, todo, target, busy, failed, result, history,
                   ctx, deadline>>

\* The server closed at once, as if nothing was worth waiting for.
CloseAtOnce ==
    /\ ctx
    /\ Step("serve", "lock")
    /\ call' = "close" /\ inShutdown' = TRUE
    /\ failed' = TRUE
    /\ inFlight' = {c \in Conns : stage[c] = "active"}
    /\ UNCHANGED <<conns, backlog, once, acceptor, todo, target, busy, result, lost,
                   ctx, deadline>>

\* The signal: shutdownCtx starts and Shutdown is called.
Shutdown ==
    /\ ctx
    /\ Step("serve", "lock")
    /\ call' = "shutdown" /\ inShutdown' = TRUE
    /\ inFlight' = {c \in Conns : stage[c] = "active"}
    /\ UNCHANGED <<conns, backlog, once, acceptor, todo, target, busy, failed, result, lost,
                   ctx, deadline>>

\* closeListenersLocked, with the server's mutex, in the two steps of Close.
CloseListeners ==
    /\ IF registered /\ once = "open"
       THEN Step("lock", "closing") /\ once' = "closing"
       ELSE Step("lock", "wait") /\ UNCHANGED once
    /\ UNCHANGED <<conns, backlog, acceptor, call, todo, target, busy, failed, result, history, flags>>

\* The socket's own Close may fail, and Shutdown returns that error.
ListenersClosed ==
    /\ Step("closing", "wait")
    /\ CloseSocket
    /\ failed' \in {failed, TRUE}
    /\ UNCHANGED <<open, charged, slots, tracked, acceptor, call, todo, target, busy, result,
                   history, flags>>

\* listenerGroup.Wait, which no deadline bounds, then the connections.
StartLoop ==
    /\ ~registered
    /\ Step("wait", "look")
    /\ todo' = tracked /\ busy' = FALSE
    /\ UNCHANGED <<conns, backlog, once, acceptor, call, target, failed, result, history, flags>>

\* closeIdleConns reads the state before it closes, and a goroutine does not
\* need the mutex to go on in between.  One that has long been new counts as
\* idle, and one that is on its way out keeps the state it had.  Close takes
\* every one.
Look(c) ==
    /\ c \in todo
    /\ todo' = todo \ {c}
    /\ \/ /\ call = "close" \/ stage[c] # "active"
          /\ Step("look", "shut")
          /\ target' = {c} /\ UNCHANGED busy
       \/ /\ call = "shutdown" /\ stage[c] # "idle"
          /\ Step("look", "look")
          /\ busy' = TRUE /\ UNCHANGED target
    /\ UNCHANGED <<conns, backlog, once, acceptor, call, failed, result, history, flags>>

Shut(c) ==
    /\ c \in target
    /\ Step("shut", "release")
    /\ open' = open \ {c}
    /\ lost' = lost \union ({c} \intersect inFlight)
    /\ UNCHANGED <<stage, charged, slots, tracked, backlog, once, acceptor, call, todo,
                   target, busy, failed, result, inFlight, flags>>

ReleaseShut(c) ==
    /\ c \in target
    /\ Step("release", "look")
    /\ release(c)
    /\ tracked' = tracked \ {c}
    /\ target' = {}
    /\ UNCHANGED <<stage, open, backlog, once, acceptor, call, todo, busy, failed,
                   result, history, flags>>

\* Serve's err: the deadline or the socket's Close; then it calls Close.
LoopOver ==
    /\ todo = {}
    /\ \/ /\ call = "close" \/ (~busy /\ ~failed)
          /\ Step("look", "receive") /\ UNCHANGED call
       \/ /\ call = "shutdown" /\ ~busy /\ failed
          /\ Step("look", "lock") /\ call' = "close"
       \/ /\ call = "shutdown" /\ busy
          /\ Step("look", "pause") /\ UNCHANGED call
    /\ UNCHANGED <<conns, backlog, once, acceptor, todo, target, busy, failed, result,
                   history, flags>>

\* The deadline passed and Serve did not call Close.
GiveUpOnly ==
    /\ deadline
    /\ Step("pause", "receive")
    /\ failed' = TRUE
    /\ UNCHANGED <<conns, backlog, once, acceptor, call, todo, target, busy, result,
                   history, flags>>

GiveUp ==
    /\ deadline
    /\ Step("pause", "lock")
    /\ call' = "close" /\ failed' = TRUE
    /\ UNCHANGED <<conns, backlog, once, acceptor, todo, target, busy, result, history, flags>>

Again ==
    /\ Step("pause", "wait")
    /\ UNCHANGED <<conns, backlog, once, acceptor, call, todo, target, busy, failed,
                   result, history, flags>>

\* The error of Shutdown dropped.
ReturnServed ==
    /\ served # "none"
    /\ Step("receive", "returned")
    /\ result' = IF served = "fatal" THEN "error" ELSE "nil"
    /\ UNCHANGED <<conns, backlog, once, acceptor, call, todo, target, busy, failed,
                   history, flags>>

Return ==
    /\ served # "none"
    /\ Step("receive", "returned")
    /\ result' = IF failed \/ served = "fatal" THEN "error" ELSE "nil"
    /\ UNCHANGED <<conns, backlog, once, acceptor, call, todo, target, busy, failed,
                   history, flags>>

-----------------------------------------------------------------------------
AcceptLoop ==
    \/ Track \/ TakeSlot \/ SeeDone \/ AcceptConn \/ AcceptFault \/ Refund
    \/ \E c \in Conns : Admit(c) \/ Reject(c) \/ Hand(c)
    \/ Judge \/ Untrack \/ CloseDone \/ CloseInner \/ Report

ServeCall ==
    \/ ServedFirst \/ Shutdown \/ CloseListeners \/ ListenersClosed \/ StartLoop
    \/ \E c \in Conns : Look(c) \/ Shut(c) \/ ReleaseShut(c)
    \/ LoopOver \/ GiveUp \/ Again \/ Return

Converse(c) == ReadRequest(c) \/ Finish(c) \/ HangUp(c)
Part(c) == CloseConn(c) \/ ReleaseConn(c) \/ Forget(c)

\* Serve has returned: the process is about to end.
Over == serving = "returned" /\ UNCHANGED vars

Next ==
    \/ AcceptLoop \/ ServeCall \/ Signal \/ Expire \/ Over
    \/ \E c \in Conns : Connect(c) \/ Converse(c) \/ Part(c)

Spec == Init /\ [][Next]_vars

\* The goroutines of the server run and the timer fires.  Again and GiveUp are
\* cases of one select, which chooses at random.  Nothing is assumed of the
\* connections.
ServerFair ==
    /\ WF_vars(AcceptLoop) /\ WF_vars(ServeCall)
    /\ WF_vars(Expire) /\ SF_vars(GiveUp)

\* A goroutine of a connection runs too, and never blocks without a deadline.
ConnsFair ==
    \A c \in Conns : WF_vars(HangUp(c)) /\ WF_vars(Finish(c)) /\ WF_vars(Part(c))

FairSpec == Spec /\ ServerFair

-----------------------------------------------------------------------------
\* Where the accepting goroutine has taken a slot for a connection to come.
Charging == {"inner", "peer", "hand", "refund"}

TypeOK ==
    /\ stage \in [Conns -> Stages]
    /\ backlog \in Seq(Conns)
    /\ open \subseteq Conns /\ charged \subseteq Conns /\ tracked \subseteq Conns
    /\ slots \in 0..Slots
    /\ once \in {"open", "closing", "closed"}
    /\ accept \in Charging \union {"track", "select", "judge", "untrack", "end",
                                   "ending", "ended"}
    /\ fault \in {"none", "temporary", "fatal", "closed"}
    /\ served \in {"none", "closed", "fatal"}
    /\ serving \in {"serve", "lock", "closing", "wait", "look", "shut", "release",
                    "pause", "receive", "returned"}
    /\ call \in {"none", "shutdown", "close"}
    /\ todo \subseteq Conns /\ target \subseteq Conns
    /\ inFlight \subseteq Conns /\ lost \subseteq Conns
    /\ {registered, inShutdown, busy, failed, ctx, deadline, lasting} \subseteq BOOLEAN
    /\ result \in {"none", "nil", "error"}
    /\ faults \in 0..MaxFaults

\* Every token in the slots channel belongs to a connection that has not
\* released it, or to the Accept that is under way: none is lost when Accept
\* fails and none is given back twice when the server and a connection's own
\* goroutine both close it (limit.go:46-49, 64-74).
SlotsMatchConnections ==
    slots = Cardinality(charged) + (IF accept \in Charging THEN 1 ELSE 0)

\* No more descriptors are open than connections are allowed, counting the one
\* the peer check is looking at (limit.go:8-14).
DescriptorsBounded == Cardinality(open) <= Slots

\* What PeerPolicy promises, said by its exceptions (peer.go:20-29, 56-59).
Permitted(c) ==
    Cred[c].uid # Self =>
        /\ UIDs # {} => Cred[c].uid \in UIDs
        /\ GIDs # {} => Cred[c].gid \in GIDs

\* A client the policy refuses is never read from and has no slot of its own,
\* whatever it does and whatever the server is doing (peer.go:92-95).
RefusedHoldNothing ==
    \A c \in Conns :
        stage[c] \in {"new", "active", "idle"} \/ c \in charged \union tracked => Permitted(c)

\* The accept loop ends for the signal or for a failure of accept that will not
\* pass, and for nothing else: no client stops it, refused or not, and none of the
\* failures that pass, however many there were before (server.go:56-64,
\* peer.go:137-159).
ClientsCannotStopIt ==
    accept \in {"untrack", "end", "ending", "ended"} => inShutdown \/ lasting

\* A request that is running when the shutdown begins loses its connection only
\* to the deadline (server.go:48-51).
DrainingSparesRequests == lost # {} => deadline

\* Serve returns nil only after the signal, with every request that was running
\* when Shutdown began answered, and the accept loop ended in good order
\* (server.go:76-86).  A request that begins while Shutdown closes what it found
\* idle is not meant: its connection may be closed on it.
NilMeansDrained ==
    result = "nil" => ctx /\ inFlight = {} /\ lost = {} /\ served = "closed"

\* However Serve returns, it has closed the listener and every connection, and
\* nobody accepts any more: Run's own deferred closes find nothing to do
\* (server.go:57-62, 70-76, app.go:159-161).
NothingLeftBehind ==
    result # "none" => open = {} /\ once = "closed" /\ accept = "ended"

\* After the signal Serve returns even if no connection ever makes a step:
\* a stuck handler or a full set of slots does not hold it, and the wait for
\* the accept loop, which has no deadline, ends because Close unblocks Accept
\* (server.go:66-76, limit.go:40-44).
StopsOnDeadline == ctx ~> result # "none"

\* When connections' goroutines run and clients stop sending requests, whoever
\* waits in the kernel's queue is accepted, refused, or reset by the shutdown:
\* the deadlines reclaim the slots of connections that send nothing
\* (limit.go:12-14, server.go:13-17).
IdleSlotsAreReclaimed ==
    ConnsFair /\ <>[](\A c \in Conns : stage[c] # "active")
        => \A c \in Conns : stage[c] = "backlog" ~> stage[c] # "backlog"

=============================================================================
