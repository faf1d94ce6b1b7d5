# A verification of gangway

gangway is a proxy in front of the Docker socket. It listens on a Unix socket of
its own, lets clients ping the daemon and inspect containers and images, and
refuses everything else. This directory holds TLA+ models of its parts, the TLC
runs that check them on small instances, and TLAPS proofs of the results that hold
for every instance.

Paths without a directory are under `src/internal/gangway/`.

## The system

| part | state | operations | what makes it hard |
|---|---|---|---|
| rate limit, `rate.go` | `bucket`: tokens, capacity, rate, last, behind a mutex | `newBucket`, `allow(now)` | the clock is read outside the mutex, so readings reach the bucket out of order; fractions of tokens |
| request handling, `handler.go`, `ping.go`, `inspect.go`, `upstream.go` | slots `inFlight`, two buckets, per request: context, answer, error | `ServeHTTP` and what it calls | concurrent requests, cancellation at any point, timeouts, broken connections, three functions that judge errors and reply |
| bodies, `json.go` | a buffer pool | `decodeJSON`, `writeJSON`, `writeBody` | the size limit at its boundary, declared lengths, buffers that requests share |
| allowlist, `allowlist.go`, `validate.go` | none | `Classify` | prefixes and suffixes that overlap, respelt paths |
| socket publishing, `socket.go` | the socket directory, the lock file, inode numbers | `Listen`, `Close` | instances that start while others close, kills between any two system calls, other programs in the directory |
| connection limit, `limit.go` | slots, a done channel | `Accept`, `Close` of listener and connections | Accept blocked while the server shuts down, double close |
| peer authorization, `peer*.go` | a policy | `Accept` | a loop inside `Accept` that must not end with one client |
| server, `server.go` | `http.Server`, the `served` channel | `NewServer`, `Serve` | signal, accept error and shutdown deadline race; deadlines derived from each other |
| paths, `socketpath.go` | none (the file system) | `ValidatePaths`, `resolvePath` | symlinks and `..` resolved before the files exist, while Docker comes and goes |
| configuration and start-up, `config.go`, `options.go`, `app.go`, `main.go` | none | `Parse`, `Validate`, `Run`, `Main` | order of failures, exit codes a supervisor acts on, what is left behind, arithmetic at the ends of int64 |
| health probe, `health.go` | none | `Probe` | nothing but its exit code |

`Run` builds a `Handler`, publishes the socket with `Listen`, wraps it with
`AuthorizePeers` and then with `LimitConnections`, and hands it to `Serve`, which
runs `net/http`'s server until a signal. The server calls `ServeHTTP` on a goroutine
per connection; the handler takes an upstream slot, then a token, then talks to
Docker through `net/http`'s client, and relays a part of the body it gets.

What makes each part correct:

- rate limit: from every instant on, no more is admitted than one capacity and
  the elapsed time pay for; a refusal is never longer than a refill interval.
- request handling: slots are given back on every path; a request that does not
  reach Docker costs no token; a rush after a quiet time is not refused before as
  many of it reached Docker as there are slots; no reply claims more than Docker did; nobody but a
  client that left goes without a reply; the default log is paced by the limit,
  not by clients; every request ends.
- bodies and allowlist: the verdict on a body is on all of it; a reply is made of its
  own exchange; no declared length costs memory; what is let through is the
  documented table.
- socket publishing: one instance at a time; the one that serves is at the path;
  a crash from the lock on never stops the next start; the socket never has a wrong mode under its
  public name; what others put there is left alone.
- connection limit, peers and server: bounded connections, one release per
  connection, a shutdown that terminates and cuts no request before its deadline; no
  client ends the accept loop.
- deadlines: an answer is cut for the proxy's or the client's time, never for
  Docker's; the automatic shutdown outlives what it drains.
- paths and start-up: Docker's socket is never in the proxy's way; a process leaves
  no socket behind, stops for good only when its configuration is wrong, and warns truthfully.

## The modules

| module | models | state and actions |
|---|---|---|
| `TokenBucket` | `bucket` as a value, `newBucket`, `allow` as functions | no state |
| `RateLimit` | concurrent callers of one bucket; the abstract specification of a rate limit | `ReadClock` is `time.Now()` at the call site, `Allow` is the call under the mutex |
| `RateWindow` | `RateLimit` with an observer of a window of time and of the last grant | the observer decides nothing |
| `Handler` | `ServeHTTP` with everything it calls, and what Docker, the HTTP client and the client can do to it | `pc[r]` is where the goroutine of request `r` stands; one action per function or branch of it, named after it |
| `Allowlist` | `Classify`, the validators, and the README's table as its reference | no state: functions of a target |
| `Relay` | inspects from their target to their reply: `decodeJSON`, the pool, `filterLabels`, `writeJSON` | `pc[r]`; `pool`, `content` and `cap` are the buffers of `sync.Pool`; reading, refusing, decoding and writing are an action each |
| `Listen` | `Listen`, `removeStaleSocket`, `acquireInstanceLock`, `bindAndPublish`, `Close`, kills, other programs | `pc[p]` is the next system call of instance `p`; one action per call and outcome |
| `Serve` | `Serve`, `limitedListener`, `authorizedListener` and as much of `net/http`'s server as they call | `accept` is where the accepting goroutine stands, `serving` where `Serve` and the `Shutdown` or `Close` it called stand, `stage[c]` where the goroutine of connection `c` stands |
| `Deadlines` | the deadlines of `NewServer`, the HTTP client, `Run` and `Main` over one exchange | the moments at which the exchange was begun, accepted, read, asked and answered; a tick of time waits for what is due |
| `Options` | `Parse`, `Validate`, `WithDefaults`, `WorstCaseMemoryBytes`, `warnOnMemoryLimit` with int64 arithmetic | no state |
| `Paths` | a file system with links, and the kernel's walk through it | no state |
| `StartUp` | one process from `Main` to its exit code: `Run`, `ValidatePaths`, `resolvePath`, the checks of `Listen`, `Probe` | `pc` is the next look at the file system or decision; `fs` what every location holds; Docker starts and dies between any two steps |
| `MC*` | the instances TLC checks | constants only |
| `*Proofs` | the theorems | the inductive invariants are defined there |

How the modules meet:

- `Handler` implements `RateLimit` twice: with its limiter (the calls granted are the
  requests that reached Docker) and with `upstreamWarn` (the calls granted are the
  warnings written). What is proved of `RateLimit` holds of both.
- `Relay` begins with `Allowlist`'s `Classify` and stands for what `Handler` sees as
  an exchange whose body arrived.
- `Serve` sees of a request only that it runs and that it ends: `Finish` stands for
  `ServeHTTP`, and that it comes is `EveryRequestEnds` of `Handler`. How long the
  deadlines are that `Handler` and `Serve` leave without lengths is in `Deadlines`.
- `StartUp` is built from `Options` and `Paths`. The system calls by which instances
  and other programs get in each other's way are in `Listen` only; in `StartUp`
  clearing a stale socket and publishing are a step each; taking the lock makes its
  file, and may fail without a reason.

Representations:

- Tokens are counted in credits, `Token` of them to a token: what is a `float64` in
  the code is exact here. Rounding is not modelled.
- In `Listen` files are inode numbers that come round again once nothing uses them,
  because `os.SameFile` compares numbers.
- `Serve`: the steps of `net/http` are external: the accept loop that retries passing
  errors and stops at others, the listener group, the mutex that `Shutdown` and
  `Close` hold, the state of a connection that `closeIdleConns` reads before it
  closes. The last is two steps, so that a request which begins in between is cut;
  `DrainingSparesRequests` protects the requests that ran when `Shutdown` began.
- In `Relay` a byte is the request it was read or written for, so that a mix-up of
  buffers is visible, and a body is its length, how it ends, the length it declares
  and where its first JSON value ends.
- In `Allowlist` a target is a sequence of symbols: a byte of one of the classes the
  code tells apart, or a word of a path. The length limits are parameters.
- `Deadlines` has one request per connection. Timers fire in the step they are due;
  everything else takes as long as it likes.
- In `StartUp` links and foreign files stay as they are found, and
  `createSocketDir` makes missing directories from the top down in steps that each
  may fail; another program may make one first.

Definitions next to the real ones whose comment says what is wrong with them
(`ThrottleKeepsSlot`, `StartDirty`, ...) are the mistakes the properties were
tried against; no specification uses them.

## The runs

| run | question | instance |
|---|---|---|
| `rate_window` | Is the bucket right under reordered readings? | 3 callers, a token of 5 credits earned 2 per tick, capacity of 2 tokens, 7 ticks: refills leave fractions, the bucket fills and empties, readings overtake each other |
| `handler_safety` | Are the slots, the tokens and the records right in every interleaving, is the handler the rate limit, twice, and does every rush get as far as the slots allow? | 3 requests, denied or inspecting, on 2 slots, a burst of 2, 2 ticks: saturation, throttling, refills, a full limiter again and all outcomes of Docker occur together |
| `handler_liveness` | Does every request end? What can a reply say? | 2 requests of every kind, 1 slot; codes at the ends of 400..499 and 500..599, a redirect, 600 |
| `handler_cut_short` | finding, below | |
| `listen_meddled` | What holds whatever others do? | 2 instances with 2 runs each, 2 acts of other programs, 3 inode numbers, so a number is reused |
| `listen_alone` | What holds when only proxies use the directory? | 3 instances with 2 runs each, started on a clear path or a stale socket |
| `listen_replaced` | finding, below | |
| `serve` | Are connections bounded and is a shutdown right, whatever happens when? Does Serve return after the signal, and does a waiting client get its turn? | 3 connections, one of them refused, on 2 slots, one failure of accept: a refused client fills a slot for a moment, connections are closed twice, the signal meets every step |
| `relay` | Are verdicts and replies right while requests share buffers? Is `Classify` the table? | 2 inspects, 3 buffers, a limit of 2 bytes: bodies at the limit, one past it and at the limit when they break off, lengths true, missing and far too large; targets of every combination of version, prefix, name and suffix |
| `startup` | Does a process stop, or serve, as documented? | every arrangement of a directory, a link and two places for sockets, with paths that reach them directly, through the link and through `..`; a file, a link, a directory or Docker's other socket where the lock file goes, and Docker's path there too; and command lines at and past the ends of every range |
| `startup_final` | finding, below | |
| `deadlines` | Which deadline cuts what? | an upstream timeout longer than the headroom, a headroom longer than the header timeout, as in the program; 12 ticks, enough for the signal to meet every stage |

Bounds are `MaxClock`, `MaxStarts`, `MaxMeddles`, `MaxFaults` and the sizes of the
sets, each a guard of the action it limits, and `MaxSteps` of `Paths`, the names the
kernel follows before a walk counts as unfinished; the runs' paths and links are
shorter than that, except for the links that lead in a circle. Symmetry is used in runs without
liveness. The limits of `Options` are scaled down together with `MaxInt64`, so that
the largest accepted need still just fits. In the program it is about 2^43
(`config.go:46-48`, `app.go:31`), far below the end of `int64`.

Fairness of `handler_liveness`: the goroutine of a request that can run does
(`Proceed`), and the timer of `http.Client` fires (`TimeOut`): its `Timeout` covers
an exchange from `Do` to the end of the body. `release` is among the fair steps
because the server's write deadline ends a reply the client does not read.
Nothing is assumed of Docker, of the client or of the clock.

Fairness of `serve` (`FairSpec`): the two goroutines of the server run, the
timer of `shutdownCtx` fires, and the `select` between it and the next poll, which
chooses at random, does not avoid the deadline for ever. Nothing is assumed of
connections: a handler may be stuck. `IdleSlotsAreReclaimed` takes as its hypothesis
that a connection's goroutine runs and that the deadlines of `NewServer` end a wait
for a request (`ConnsFair`). A client that keeps sending requests on one connection
keeps its slot for as long as it likes, so the property is conditional on that coming
to an end, which is all that `limit.go:12-14` claims.

## What the runs found

- `upstream.go:55-56` says a body cut short while it is drained means the daemon
  failed to answer, not that it answered with this status. The code looks for a
  timeout and for a client that left; a connection that breaks relays the status.
- `socket.go:234-235` says an entry another program created is not replaced. The
  entry that comes between the `Lstat` and the `rename` is. The same window exists
  between the recheck and the removal of a stale socket and between the `Lstat`
  and the removal in `Close`; `ForeignEntriesSpared` says exactly what is spared.
- `app.go:48` says that only checks whose verdict cannot change on the next start
  are configuration errors, and `socketpath.go:41` counts two names for one socket
  among them. A socket of Docker's that is hard-linked at the listen path is one
  (`socketpath.go:76`): code 2. When Docker exits and binds its path anew, the link
  names a socket nobody uses, and the same command line starts. What does hold is
  `StopsForMistakes`.

Remarks on what holds:

- `LoudRecordsArePaced` is what holds of the log at its default level, instead of what
  `options.go:29-30` says, that everything a request can produce is a debug record: a
  request that finds Docker down, slow or garbled writes a warning or an error
  (`upstream.go:69`, `103`, `130`).
- `RateBound` and `WindowBound` count by the readings callers bring; calls that read
  the clock before a window and reach the bucket inside it come on top, one per
  goroutine between the two steps at most.
- `ForeignEntriesSpared` counts the time from the `dial` on as a window, because a
  regular file that gets the number of the stale socket passes the recheck.
- `StopsForMistakes` is about the moment the process stops: then the command line is
  bad, the listen path is not clean, the two paths lead to one place when what is
  missing on the way is filled in (`SameDestination`), or at Docker's path is no
  socket or the one at the listen path (`WrongSocket`). The first three stay so.
- `DockerSpared` is about the place Docker's path leads to. The proxy's socket never
  appears there, and nothing is taken away. While nothing is there two things can
  appear: a directory on the way to the proxy's own socket, and the lock file, whose
  name `ValidatePaths` does not compare. With `--docker-socket` the listen path and
  `.lock`, and Docker down, the proxy leaves a regular file where Docker has to bind
  (`socket.go:105`, `178`), and its own next start exits with code 2.
- `RestartsRecover` is about the system calls from the lock on, those of `Listen`.
  Before it, a kill between `Mkdir` and `Chmod` (`socket.go:157-167`) under a umask
  that takes the group's bits leaves a directory that a later start with mode 0660
  refuses (`socket.go:101`), as often as it is tried.
- `ClientsCannotStopIt` counts a failure of accept as lasting when `net/http` is told
  nothing else: the listeners in between must hand on a passing one as they got it.
- `BurstCoversConcurrency` begins to count when the limiter is full for every reading
  of the clock, one taken earlier and not yet used included.
- `DrainOutlivesRequests` gives a request whose headers come in after the signal
  less than the whole headroom: what is left of it when they are in.

## The proofs

TLAPS checks, for every value of the constants, every safety property of the runs that
hold:

- `TokenBucketProofs`: what one call does to a bucket. The rest cites these lemmas.
- `RateLimitProofs`, `RateBounded`: the bound is not inductive; `Account` is: what
  was granted and what is still in the bucket are paid for by the capacity and the
  time the bucket has counted, and that time is not ahead of the clock.
- `RateLimitProofs`, `WindowBounded`, `RefusedBriefly`: the account of a window
  starts when the bucket's own time reaches it (`WindowAccount`); what was earned
  since the last grant is still there (`Kept`).
- `HandlerProofs`: `Course` says what is known of a request from where it stands;
  with the types and the well-formed buckets it is inductive, and `Truthful` and
  `NobodyIgnored` are read off it; `NoSecondAnswer` follows step by step.
  `SlotsNeverLeak` adds the count of holders. `BurstCovers` adds `Paid`: what is
  missing from the bucket was spent on requests that reached Docker since it was
  last full, so that a refusal means the whole burst was.
  `LimiterRefines` and `WarningsRefine` map every step to a step of `RateLimit` or a
  stutter, and `LogIsPaced` applies `RateBounded` through the first mapping.
- `RelayProofs`, `ClassifyIsTable`: the code takes a path apart, the table puts paths
  together, and the two are shown to be inverse to each other, piece by piece.
  `Versioned` and `Around` say that a text is what is left of a path exactly when the
  path is the piece cut off joined with it, so a prefix and a suffix never overlap.
  `VersionsAreValid` and `IDsAreValid` say the same of the validators of one word.
  `ReferencesAreValid` is the long one: the validator goes through the segments
  between separators, the table adds one name in front of a shorter reference. Both
  are what `Clean` says of a text (`SegmentsClean`, `FirstName`), and the recursion of
  the table has one solution only, by an induction on lengths. `FramedPlain`: nothing
  in a documented path is escaped or doubled. `Routed`, inductive with the invariant
  below, carries the verdict from the request to what became of it: `TableIsMet`.
- `RelayProofs`, the rest: `Owners` (a buffer has one user or is in the pool),
  `Contents` (what is in a buffer is its user's) and `Verdicts` make the two properties of replies and
  verdicts inductive together with the bound on capacities: `RepliesDoNotMix`,
  `VerdictsAreOfWholeBodies`, `MemoryStaysBounded`.
- `ListenProofs`: `LockInv`, the name of the lock file leads to one inode for good and
  whoever is past `Flock` holds it, gives `MutualExclusion`. `Own`, the open socket of
  an instance keeps its number, gives `ListenTypes` and `ModeFirst`. `Checked`, what
  the checks made so far say of the entry of another program, gives `ForeignSpared`.
  Under the assumption `Alone` (other programs do nothing, and what is there at first
  is nothing or a stale socket), `AtPath` and `InPlace` give `ServingReached` and
  `RestartsSucceed`, for kills at the system calls `Listen` has: the exclusion makes
  the last check of a preparing instance hold until it acts.
- `ServeProofs`: `ServeInv` has five parts. `Control` relates the accepting
  goroutine, `Serve` and the flags between them; `Ownership` says which connections
  have a descriptor, a slot and a place in `activeConn`; `Sweep` and `Drain` say what
  the loops over `activeConn` have done so far. `RefusedNeverServed`,
  `ClientsNeverStopIt`, `ShutdownSpares`, `ShutdownDrains` and `ServeCleansUp` are
  read off it. `Account` adds the count of slots, for `ServeTypes`,
  `SlotsAreConnections` and `NoMoreThanAllowed`. `ShutdownDrains` is about the
  requests that ran when `Shutdown` began: one that begins while it closes what it
  found idle can be cut, and `Serve` returns nil all the same. What happens without a policy
  (`Empty`) is in the proofs only.
- `DeadlinesProofs`: `Moments` orders the moments of an exchange, `Prompt` says no
  timer that is due has been passed, `Endings` says what each way to end means for
  them: `AnswersAreWritten`, `DrainOutlives`.
- `StartUpProofs`: the paths are resolved in one walk per path while the host changes,
  so the proofs are about what does not change, the links. A `Hop` follows one name
  through them; a path `LeadsTo` a place if hops take it there, and it leads to one
  place at most (`LeadsOnce`). Every name the kernel follows and every round of
  `resolvePath` is a hop (`FollowHops`, `ResolveHops`), hence what they find is where
  the path leads (`WalkLeads`), and is so at any later moment. `Control` relates the
  program counter to what has been checked and made, `Resolution` says that the walks
  in progress lead where their paths lead, and that after them the two paths lead
  apart; `OwnInPlace` says the only socket of the process is where its path leads.
  `DockerIsSpared`, `LeavesNothing` and `WarnedTruthfully` are read off these;
  `StopsOnlyForMistakes` needs more: `Furnished`, the host with a directory wherever
  there is no link, has the same hops, so that `resolvePath` is there, after so many
  rounds, where the kernel is after as many names (`OnTheWay`), and ends where the
  kernel ends. `Tracked` holds this for the path in progress and remembers what was
  found at the listen path, which the host does not touch once the two paths lead
  apart (`ListenKept`). `NeedFits` is the arithmetic: what
  `Validate` accepts stays within `MaxInt64`.

Two of these are inductions: on the steps of a walk and on the length of a reference.
The library's induction theorems cannot be used, because they take an operator; both
modules prove theirs as `SetInduction`, a fact about sets of numbers that follows
from the pigeonhole principle. That is why `Paths` and `Allowlist` define their
recursions as functions on the natural numbers.

Assumptions are the named `ASSUME`s of the modules: finite sets of requests and
buffers, a positive number of slots and of credits per token, natural bounds, a
header timeout within the headroom; targets that are made of the symbols of
`Allowlist`; limits of `Options` whose largest need fits `MaxInt64`, as follows from
`config.go:46-48`; a kernel that takes more names than `resolvePath`
(`maxPathComponents < MaxSteps`), and names that are names with the lock file's
suffix too; hosts whose files are files, directories, sockets and links;
and `Alone` where a theorem names it.

Only model-checked: the liveness properties `EveryRequestEnds`, `StopsOnDeadline` and
`IdleSlotsAreReclaimed`. Fairness is out of the prover's reach.

## Not modelled

- The wording of records and errors, `pathForLog`, which of several faults `Parse`
  and `Validate` report, and the headers a ping copies: they change no state.
- How the kernel is asked for the credentials of a peer (`peer_linux.go`,
  `peer_other.go`): a connection has an identity or cannot be identified.
- The float rounding of the bucket.
- The text of the help.
- In `StartUp` the system calls of `Close` do not fail (`socket.go:45-46`), and a
  process is not killed: kills are in `Listen`, from the lock on. The staging
  directory has one name per instance instead of a random one.
- Another program's socket appears bound and listening in one step (`ForeignBind`).
- The time of the health probe: one deadline (`app.go:79`) over one request.
