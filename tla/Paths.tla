--------------------------------- MODULE Paths --------------------------------
(***************************************************************************)
(* The file system, as far as socketpath.go and the checks of socket.go    *)
(* look at it: what each location holds, and how the kernel reads a path.  *)
(* A location is the names from the root down to an entry; nothing lies    *)
(* deeper than the locations that are modelled.                            *)
(***************************************************************************)
EXTENDS Integers, SequencesExt

CONSTANT MaxSteps       \* bound: names of a path and its links the kernel takes

ASSUME PathsAssumption == MaxSteps \in Nat

Root == <<>>

Nothing     == [kind |-> "none"]
File        == [kind |-> "file"]
Dir(mode)   == [kind |-> "dir", mode |-> mode]
Socket(i)   == [kind |-> "socket", inode |-> i]
Link(path)  == [kind |-> "link", to |-> path]

\* Modes of a directory, told apart by what Listen asks of them: 0750, which a
\* group may traverse, 0700, and one that others may write or own.
DirModes == {"0750", "0700", "shared"}

\* A path: whether it is absolute, its names, and whether a separator is doubled.
PathValues == [abs : BOOLEAN, names : Seq(STRING), doubled : BOOLEAN]

\* What a location can hold, given the inodes of sockets.
Nodes(inodes) ==
    {Nothing, File} \union {Dir(m) : m \in DirModes} \union {Socket(i) : i \in inodes}
      \union [kind : {"link"}, to : PathValues]

FileSystem(fs, inodes) ==
    \A at \in DOMAIN fs : at \in Seq(STRING) /\ fs[at] \in Nodes(inodes)

Node(fs, at) ==
    IF at = Root THEN Dir("0750") ELSE IF at \in DOMAIN fs THEN fs[at] ELSE Nothing

Parent(at) == IF at = Root THEN Root ELSE Front(at)

\* How far a walk is: where it stands, the names it has not followed, and how it
\* ended, "on" until then.  A name that is not there is "missing" as the last one,
\* which a file can be made at, and "absent" before it.
Walker(end, at, names) == [end |-> end, at |-> at, names |-> names]

\* The kernel takes one name.  The last one may be a link that is not followed.
Follow(fs, follow, w) ==
    IF w.end # "on" THEN w
    ELSE IF w.names = <<>> THEN Walker("found", w.at, <<>>)
    ELSE LET rest == Tail(w.names)
             next == Append(w.at, Head(w.names))
             node == Node(fs, next) IN
    CASE Head(w.names) = "."  -> Walker("on", w.at, rest)
      [] Head(w.names) = ".." -> Walker("on", Parent(w.at), rest)
      [] OTHER ->
         CASE node.kind = "none" -> Walker(IF rest = <<>> THEN "missing" ELSE "absent", next, rest)
           [] node.kind = "dir"  -> Walker("on", next, rest)
           [] node.kind = "link" /\ (rest # <<>> \/ follow) ->
                Walker("on", IF node.to.abs THEN Root ELSE w.at, node.to.names \o rest)
           [] OTHER -> Walker(IF rest = <<>> THEN "found" ELSE "notdir", next, rest)

\* From the root through `names`.  A walk that is still "on" at the end is one
\* the kernel gives up, for too many links.
Walk(fs, names, follow) ==
    LET run[n \in Nat] ==
            IF n = 0 THEN Walker("on", Root, names) ELSE Follow(fs, follow, run[n - 1])
    IN  run[MaxSteps]

Stat(fs, path)  == Walk(fs, path.names, TRUE)
Lstat(fs, path) == Walk(fs, path.names, FALSE)

NotExist(w) == w.end \in {"missing", "absent"}
=============================================================================
