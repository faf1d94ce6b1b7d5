-------------------------------- MODULE StartUp -------------------------------
(***************************************************************************)
(* app.go, socketpath.go and the first half of socket.go: one process from *)
(* its command line to its exit code.  Every look at the file system is a  *)
(* step, and Docker may start or die, and missing directories may be made, *)
(* between two of them.  Links and foreign files stay as they are found.   *)
(*                                                                         *)
(* What other instances and programs do in the socket's directory is in    *)
(* Listen; here the lock and each system call just may fail, and clearing  *)
(* a stale socket and publishing the new one are a step each.  What Serve  *)
(* does is in Serve.                                                       *)
(***************************************************************************)
EXTENDS Options, Paths

CONSTANTS Scenarios,            \* how a process is started, and on which host
          Arrivals,             \* directories that may be made meanwhile
          DockerSockets,        \* inodes for the sockets Docker binds, in turn
          maxPathComponents     \* the budget of resolvePath

Own   == "own"          \* the inode of the socket this process binds
Stale == "stale"        \* that of one an earlier process left behind
Inodes == DockerSockets \union {Own, Stale}

\* A command line as flag.Parse leaves it; the Options are of the same shape.
Lines ==
    [flags : STRING, args : Nat, mode : STRING, level : STRING, shutdown : Int,
     healthcheck : BOOLEAN, uids : Seq(STRING), gids : Seq(STRING), labels : Seq(STRING),
     listen : PathValues, docker : PathValues, bytes : Int, conc : Int, timeout : Int, rate : Int]

\* The lock file of a socket is beside it.
lockSuffix == ".lock"
LockNames(path) ==
    Append(Front(path.names), (IF path.names = <<>> THEN "" ELSE Last(path.names)) \o lockSuffix)

\* No file is the socket this process has still to bind, a name with the suffix
\* is a name, and the kernel takes more names than resolvePath.
ASSUME StartUpAssumption ==
    /\ \A s \in Scenarios :
          /\ s.via \in {"Main", "Run"} /\ s.opts \in Lines
          /\ s.host \in [canIdentify : BOOLEAN, memory : Int]
          /\ FileSystem(s.fs, Inodes \ {Own})
          /\ LockNames(s.opts.listen) \in Seq(STRING)
    /\ \A a \in Arrivals : a.at \in Seq(STRING) /\ a.mode \in DirModes
    /\ {Own, Stale} \intersect DockerSockets = {}
    /\ maxPathComponents \in Nat /\ maxPathComponents < MaxSteps

VARIABLES host,         \* whether it can identify peers, and its memory limit
          via,          \* "Main" or, for a caller of its own, "Run"
          opts,         \* the command line; the Options once it is accepted
          fs,           \* what each location holds
          listening,    \* inodes somebody accepts connections on
          pc, resolved, pending, budget,    \* of resolvePath
          listenResolved, listenInfo,       \* of ValidatePaths
          made,         \* locations this process made an entry at
          warned,       \* whether it warned of too little memory
          exit          \* the exit code, -1 while it runs

outside   == <<host, via, opts>>
files     == <<fs, listening>>
resolving == <<resolved, pending, budget>>
findings  == <<listenResolved, listenInfo>>
vars == <<outside, files, pc, resolving, findings, made, warned, exit>>

Init ==
    /\ \E s \in Scenarios :
          /\ host = s.host /\ via = s.via /\ opts = s.opts /\ fs = s.fs
          /\ listening \in SUBSET {i \in DockerSockets : \E at \in DOMAIN fs : fs[at] = Socket(i)}
          /\ pc = IF s.via = "Main" THEN "parse" ELSE "configure"
    /\ resolved = Root /\ pending = <<>> /\ budget = 0
    /\ listenResolved = Root /\ listenInfo = Nothing
    /\ made = {} /\ warned = FALSE /\ exit = -1

-----------------------------------------------------------------------------
Goto(from, to) == pc = from /\ pc' = to

\* The process ends; its descriptors are closed.
Exit(code) ==
    /\ pc' = "exited" /\ exit' = code
    /\ listening' = listening \ {Own}
    /\ UNCHANGED <<outside, resolving, findings, warned>>

\* An error before anything was made, or with what was made left in place.
Fail(from, code) == pc = from /\ Exit(code) /\ UNCHANGED <<fs, made>>

Put(at, node) ==
    /\ fs' = [fs EXCEPT ![at] = node]
    /\ made' = made \union {at}

\* What unixListener.Close does to the path.
Unlinked == [at \in DOMAIN fs |-> IF fs[at] = Socket(Own) THEN Nothing ELSE fs[at]]

-----------------------------------------------------------------------------
(* Main                                                                    *)

ShowHelp == opts.flags = "help" /\ Fail("parse", 0)

Usage ==
    /\ opts.flags # "help" /\ ~Parse(opts, host.canIdentify)
    /\ Fail("parse", 2)

Accept ==
    /\ opts.flags # "help" /\ Parse(opts, host.canIdentify)
    /\ Goto("parse", IF opts.healthcheck THEN "probe" ELSE "configure")
    /\ opts' = Accepted(opts)
    /\ UNCHANGED <<host, via, files, resolving, findings, made, warned, exit>>

\* Probe: the socket must be there and answer, which Deadlines is about.
Probe ==
    LET w == Stat(fs, opts.listen) IN
    \/ /\ w.end = "found" /\ Node(fs, w.at) \in {Socket(i) : i \in listening}
       /\ Fail("probe", 0)
    \/ Fail("probe", 1)

-----------------------------------------------------------------------------
(* Run, up to the first side effect                                        *)

proxy == WithDefaults(opts)

Misconfigured ==
    /\ ~Validate(proxy) \/ ~validatePathSyntax(opts.listen, opts.docker)
    /\ Fail("configure", 2)

\* The names with ".." removed against the name before it.
pathComponentsCleaned(path) ==
    FoldLeft(LAMBDA names, name : IF name = ".." /\ names # <<>> THEN Front(names)
                                  ELSE IF name \in {".", ".."} THEN names ELSE Append(names, name),
             <<>>, path.names)

\* The names resolvePath applies; empty ones are not in the model of a path.
pathComponents(path) == path.names

StartResolving(path) ==
    /\ resolved' = Root
    /\ pending' = pathComponents(path)
    /\ budget' = maxPathComponents

Configure ==
    /\ Validate(proxy) /\ validatePathSyntax(opts.listen, opts.docker)
    /\ Goto("configure", "resolveListen")
    /\ StartResolving(opts.listen)
    /\ UNCHANGED <<outside, files, findings, made, warned, exit>>

Resolving == pc \in {"resolveListen", "resolveDocker"}

\* os.Lstat(next).  It fails below what is neither a directory nor missing.
Unreadable == \E i \in 1..Len(resolved) :
                  Node(fs, SubSeq(resolved, 1, i)).kind \in {"file", "socket"}

\* One round of the loop in resolvePath.
ResolveName ==
    /\ Resolving /\ pending # <<>> /\ budget > 0
    /\ LET name == Head(pending)
           next == Append(resolved, name)
           node == Node(fs, next) IN
       \/ /\ name = "." /\ resolved' = resolved /\ pending' = Tail(pending)
       \/ /\ name = ".." /\ resolved' = Parent(resolved) /\ pending' = Tail(pending)
       \/ /\ name \notin {".", ".."} /\ ~Unreadable /\ node.kind # "link"
          /\ resolved' = next /\ pending' = Tail(pending)
       \/ /\ name \notin {".", ".."} /\ ~Unreadable /\ node.kind = "link"
          /\ resolved' = IF node.to.abs THEN Root ELSE resolved
          /\ pending' = pathComponents(node.to) \o Tail(pending)
    /\ budget' = budget - 1
    /\ UNCHANGED <<outside, files, pc, findings, made, warned, exit>>

\* The budget is used up, or Lstat fails with another error than ErrNotExist.
CannotResolve ==
    /\ Resolving /\ pending # <<>>
    /\ \/ budget = 0
       \/ Unreadable /\ Head(pending) \notin {".", ".."}
    /\ Fail(pc, 1)

ListenResolved ==
    /\ pending = <<>> /\ Goto("resolveListen", "resolveDocker")
    /\ listenResolved' = resolved
    /\ StartResolving(opts.docker)
    /\ UNCHANGED <<outside, files, listenInfo, made, warned, exit>>

SamePath ==
    /\ pending = <<>> /\ listenResolved = resolved
    /\ Fail("resolveDocker", 2)

\* os.Stat(listenPath), whose errors do not matter.
DockerResolved ==
    /\ pending = <<>> /\ listenResolved # resolved
    /\ Goto("resolveDocker", "statDocker")
    /\ LET w == Stat(fs, opts.listen) IN
       listenInfo' = IF w.end = "found" THEN Node(fs, w.at) ELSE Nothing
    /\ UNCHANGED <<outside, files, resolving, listenResolved, made, warned, exit>>

Wrong(info) == info.kind # "socket" \/ info = listenInfo

\* The verdict when a socket that is not there counts as no socket.
dockerErrorCodeStrict(w) ==
    IF NotExist(w) \/ (w.end = "found" /\ Wrong(Node(fs, w.at))) THEN 2
    ELSE IF w.end = "found" THEN 0 ELSE 1

\* os.Stat(dockerPath): 0 when it may be Docker's socket, or is not there yet.
dockerErrorCode(w) ==
    IF NotExist(w) THEN 0
    ELSE IF w.end # "found" THEN 1
    ELSE IF Wrong(Node(fs, w.at)) THEN 2 ELSE 0

NotDocker ==
    LET code == dockerErrorCode(Stat(fs, opts.docker)) IN
    code # 0 /\ Fail("statDocker", code)

ValidatePaths ==
    /\ dockerErrorCode(Stat(fs, opts.docker)) = 0
    /\ Goto("statDocker", "listen")
    /\ UNCHANGED <<outside, files, resolving, findings, made, warned, exit>>

-----------------------------------------------------------------------------
(* Listen                                                                  *)

Clean(path) == ~path.doubled /\ {".", ".."} \intersect Words(path.names) = {}

SocketDir == Front(opts.listen.names)

NotListenable ==
    /\ ~Clean(opts.listen) \/ opts.mode \notin Modes
    /\ Fail("listen", 2)

\* `pending` is what is left of the directory's names for createSocketDir, and
\* `resolved` those it has done.  The code looks for the directory first and at
\* its parents only if it is missing; the outcome is the same.
Listenable ==
    /\ Clean(opts.listen) /\ opts.mode \in Modes
    /\ Goto("listen", "createDir")
    /\ pending' = SocketDir /\ resolved' = Root
    /\ UNCHANGED <<outside, files, budget, findings, made, warned, exit>>

\* A directory that is there, or one that Mkdir makes; a link that leads nowhere
\* is an entry already, and only what comes below it fails.
CreateDir ==
    /\ pc = "createDir" /\ pending # <<>>
    /\ LET next  == Append(resolved, Head(pending))
           dir   == Walk(fs, next, TRUE)
           entry == Walk(fs, next, FALSE) IN
       \/ /\ dir.end = "found" /\ Node(fs, dir.at).kind = "dir"
          /\ UNCHANGED <<fs, made>>
       \/ /\ NotExist(dir) /\ entry.end = "found"
          /\ UNCHANGED <<fs, made>>
       \/ entry.end = "missing" /\ Put(entry.at, Dir("0750"))
    /\ resolved' = Append(resolved, Head(pending)) /\ pending' = Tail(pending)
    /\ UNCHANGED <<outside, listening, pc, budget, findings, warned, exit>>

\* Stat, Mkdir or Chmod fails.
CannotCreateDir == pending # <<>> /\ Fail("createDir", 1)

Usable(w) ==
    /\ w.end = "found" /\ Node(fs, w.at) \in {Dir("0750"), Dir("0700")}
    /\ opts.mode = "0660" => Node(fs, w.at) = Dir("0750")

DirUnusable ==
    /\ pending = <<>> /\ ~Usable(Walk(fs, SocketDir, TRUE))
    /\ Fail("createDir", 1)

DirUsable ==
    /\ pending = <<>> /\ Usable(Walk(fs, SocketDir, TRUE))
    /\ Goto("createDir", "lock")
    /\ UNCHANGED <<outside, files, resolving, findings, made, warned, exit>>

\* Where the listen path's entry is, when its directory is there.
Entry == Lstat(fs, opts.listen)

LockFile == Walk(fs, LockNames(opts.listen), FALSE)

\* The lock file is made if it is not there.  It is left behind, even if another
\* instance has the lock or the file is one of another user's.
AcquireLock ==
    /\ pc = "lock"
    /\ \/ LockFile.end = "missing" /\ Put(LockFile.at, File)
       \/ LockFile.end = "found" /\ Node(fs, LockFile.at) = File /\ UNCHANGED <<fs, made>>
    /\ \/ /\ Goto("lock", "removeStale")
          /\ UNCHANGED <<outside, listening, resolving, findings, warned, exit>>
       \/ Exit(1)

\* What is there is a link, a directory or a socket, or it cannot be opened.
CannotLock == Fail("lock", 1)

RemoveStale ==
    /\ Goto("removeStale", "publish")
    /\ \/ Entry.end = "missing" /\ UNCHANGED fs
       \/ /\ Entry.end = "found" /\ Node(fs, Entry.at).kind = "socket"
          /\ Node(fs, Entry.at).inode \notin listening
          /\ fs' = [fs EXCEPT ![Entry.at] = Nothing]
    /\ UNCHANGED <<outside, listening, resolving, findings, made, warned, exit>>

\* The entry is no socket, or one in use, or a system call fails.
CannotRemove == Fail("removeStale", 1)

Publish ==
    /\ Goto("publish", "authorize")
    /\ Entry.end = "missing"
    /\ Put(Entry.at, Socket(Own))
    /\ listening' = listening \union {Own}
    /\ UNCHANGED <<outside, resolving, findings, warned, exit>>

CannotPublish == Fail("publish", 1)

-----------------------------------------------------------------------------
(* Run, once there is a socket                                             *)

Enforceable == {opts.uids, opts.gids} = {<<>>} \/ host.canIdentify

\* The error of AuthorizePeers with nothing closed.
UnenforceableOnly == ~Enforceable /\ Fail("authorize", 2)

\* The error of AuthorizePeers, joined with that of socket.Close.
Unenforceable ==
    /\ ~Enforceable /\ pc = "authorize" /\ Exit(2)
    /\ fs' = Unlinked /\ UNCHANGED made

Serving ==
    /\ Enforceable /\ Goto("authorize", "serving")
    /\ warned' = warnOnMemoryLimit(proxy, host.memory)
    /\ UNCHANGED <<outside, files, resolving, findings, made, exit>>

\* Serve returns, with or without an error, and the deferred calls close.
Stop ==
    /\ pc = "serving"
    /\ \E code \in {0, 1} : Exit(code)
    /\ fs' = Unlinked /\ UNCHANGED made

-----------------------------------------------------------------------------
(* The host                                                                *)

process == <<outside, pc, resolving, findings, made, warned, exit>>

Bound == {i \in DockerSockets : \E at \in DOMAIN fs : fs[at] = Socket(i)}

\* Docker clears what is left of a socket at its path and binds a new one.
DockerStarts ==
    LET w == Lstat(fs, opts.docker) IN
    /\ listening \intersect DockerSockets = {}
    /\ \E i \in DockerSockets \ Bound :
          /\ \/ w.end = "missing"
             \/ w.end = "found" /\ Node(fs, w.at).kind = "socket"
          /\ fs' = [fs EXCEPT ![w.at] = Socket(i)]
          /\ listening' = listening \union {i}
    /\ UNCHANGED process

DockerDies ==
    /\ listening \intersect DockerSockets # {}
    /\ listening' = listening \ DockerSockets
    /\ UNCHANGED <<fs, process>>

Arrange ==
    /\ \E a \in Arrivals :
          /\ Node(fs, a.at) = Nothing /\ Node(fs, Parent(a.at)).kind = "dir"
          /\ fs' = [fs EXCEPT ![a.at] = Dir(a.mode)]
    /\ UNCHANGED <<listening, process>>

\* The process is gone: the model stops, not the host.
Finished == pc = "exited" /\ UNCHANGED vars

Next ==
    \/ ShowHelp \/ Usage \/ Accept \/ Probe
    \/ Misconfigured \/ Configure
    \/ ResolveName \/ CannotResolve \/ ListenResolved \/ SamePath \/ DockerResolved
    \/ NotDocker \/ ValidatePaths
    \/ NotListenable \/ Listenable \/ CreateDir \/ CannotCreateDir \/ DirUnusable \/ DirUsable
    \/ AcquireLock \/ CannotLock \/ RemoveStale \/ CannotRemove \/ Publish \/ CannotPublish
    \/ Unenforceable \/ Serving \/ Stop
    \/ DockerStarts \/ DockerDies \/ Arrange
    \/ Finished

Spec == Init /\ [][Next]_vars

-----------------------------------------------------------------------------
Leads(w) == w.end \in {"found", "missing"}

\* Wherever the path of Docker's socket leads, through links and "..", now or
\* once what is missing on the way is there, the socket of the proxy is not, and
\* no step takes away what is there: only Docker's sockets appear at that place
\* and, where there was nothing, a directory that was missing or, if the path of
\* the lock file leads there too, the lock file (socketpath.go:37-39, 84-92,
\* socket.go:105, 178).
DockerSpared ==
    [][LET w == Stat(fs, opts.docker)
           v == Stat(fs', opts'.docker)
           before == Node(fs, w.at)
           after == Node(fs', w.at) IN
       /\ Leads(v) => Node(fs', v.at) # Socket(Own)
       /\ Leads(w) /\ after # before =>
             \/ after \in {Socket(i) : i \in DockerSockets}
             \/ before = Nothing /\ after \in {Dir(m) : m \in DirModes}
             \/ before = Nothing /\ after = File /\ LockFile.at = w.at]_vars

\* A process that is over has no socket left, at its path or anywhere, and one
\* that stops over its configuration has made nothing at all, directories and
\* lock file included; only a peer policy that a caller of Run asks of a host
\* without peer credentials is found out later (app.go:111-113, 143-146).
NothingLeft ==
    pc = "exited" =>
        /\ \A at \in DOMAIN fs : fs[at] # Socket(Own)
        /\ exit = 2 => made = {} \/ (via = "Run" /\ ~Enforceable)

\* The same links, with a directory wherever there is no link.
Furnished(f) == [at \in Seq(STRING) |-> IF Node(f, at).kind = "link" THEN Node(f, at) ELSE Dir("0750")]

\* Two paths to one place: where they lead when nothing is missing on the way.
SameDestination ==
    LET v == Stat(Furnished(fs), opts.listen)
        w == Stat(Furnished(fs), opts.docker)
    IN  v.end = "found" /\ w.end = "found" /\ v.at = w.at

\* At Docker's path is something else than a socket, or the socket that is also
\* at the listen path.
WrongSocket ==
    LET v == Stat(fs, opts.listen)
        w == Stat(fs, opts.docker) IN
    /\ w.end = "found"
    /\ \/ Node(fs, w.at).kind # "socket"
       \/ v.end = "found" /\ Node(fs, v.at) = Node(fs, w.at)

Mistake ==
    \/ ~Parse(opts, host.canIdentify)
    \/ ~Clean(opts.listen)
    \/ SameDestination
    \/ WrongSocket

\* A process stops for good, with code 2, only for what is wrong in its
\* configuration, and was wrong in the moment it stopped, however the host changed
\* between the looks it took: the command line itself, which then Main refuses
\* before Run; a listen path that is not clean; two paths to one place; at
\* Docker's path something else than a socket, or the one at the listen path.  A
\* Docker that is not there yet, a path that cannot be read and whatever fails
\* later is left to the next start (app.go:42-50, 94-97, socketpath.go:41-44,
\* 75-93, options.go:131-141).
StopsForMistakes == [][exit # 2 /\ exit' = 2 /\ via = "Main" => Mistake]_vars

\* What a process stopped for stays wrong, whatever Docker does afterwards: "Only
\* checks whose verdict cannot change on the next start belong here" (app.go:48).
VerdictsAreFinal == exit = 2 /\ via = "Main" => Mistake

\* A proxy that serves has warned if and only if a limit was set that its largest
\* live heap with the collector's headroom exceeds, in numbers without a width
\* (config.go:109-120, app.go:184-190).
WarningIsTruthful ==
    pc = "serving" =>
        (warned <=> /\ host.memory # MaxInt64
                    /\ memoryHeadroomFactor * proxy.conc * proxy.bytes * responseMemoryFactor
                         > host.memory)
=============================================================================
