-------------------------------- MODULE Listen -------------------------------
(***************************************************************************)
(* socket.go: how instances of the proxy share one socket path.  Listen    *)
(* takes the instance lock, clears a stale socket, binds a staged socket   *)
(* and renames it into place; Close takes it away again.  Every system     *)
(* call that looks at or changes the shared directory is a step, so that   *)
(* another instance, another program or a kill can come between two.       *)
(*                                                                         *)
(* Files are inode numbers, and os.SameFile compares the numbers: a number *)
(* the path does not name and no open socket holds on to can be given to a *)
(* new file.  The lock file is a file apart, with inodes of its own.  What *)
(* Listen checks and makes before it takes the lock is in StartUp.         *)
(***************************************************************************)
EXTENDS Integers

CONSTANTS Instances,    \* processes running the proxy on this path
          Inodes,       \* inode numbers for what can be at the path
          LockFiles,    \* inodes for the lock file
          Meddling,     \* what other programs do in the directory
          Before,       \* what may be at the path to begin with
          Nobody,       \* no process
          Foreign,      \* a listener that is not a proxy
          MaxStarts,    \* bound: runs of each instance
          MaxMeddles    \* bound: acts of other programs

ASSUME ListenAssumption ==
    /\ Nobody \notin Instances
    /\ Foreign \notin Instances \union {Nobody}
    /\ Meddling \subseteq {"bind", "file", "remove", "die"}
    /\ Before \subseteq {"nothing", "stale", "live", "file"}
    /\ Inodes \subseteq Nat \ {0} /\ LockFiles \subseteq Nat \ {0}
    /\ MaxStarts \in Nat
    /\ MaxMeddles \in Nat

None == 0

VARIABLES pc,           \* the next system call of each instance
          lockName,     \* the inode path.lock names, None before the first run
          lock,         \* the lock file each instance has open
          holder,       \* who holds the flock on each lock file
          entry,        \* the inode path names, None if nothing
          inode,        \* what each inode is
          seen,         \* removeStaleSocket's info
          info,         \* the inode of the socket the instance bound
          why,          \* history: how its last run ended
          starts,       \* runs so far
          meddles       \* acts of other programs so far

locking == <<lockName, lock, holder>>
counts  == <<starts, meddles>>
vars == <<pc, locking, entry, inode, seen, info, why, counts>>

\* kind, who accepts connections on it, whether it has the mode that was asked
\* for, and for a foreign file whether it came into being while an instance was
\* between a check of the path and the act the check was for.
Files == [kind : {"socket", "file"}, owner : Instances \union {Foreign, Nobody},
          moded : BOOLEAN, foreign : BOOLEAN, raced : BOOLEAN]

Unbound == [kind |-> "file", owner |-> Nobody, moded |-> FALSE,
            foreign |-> FALSE, raced |-> FALSE]

\* The socket of an instance, as it is bound.
Bound(p) == [kind |-> "socket", owner |-> p, moded |-> FALSE,
             foreign |-> FALSE, raced |-> FALSE]

Made(kind, owner, raced) ==
    [kind |-> kind, owner |-> owner, moded |-> FALSE, foreign |-> TRUE, raced |-> raced]

\* Calls made while the lock is held, up to the one that gives it up.
Staged    == {"chmod", "absent", "rename"}
Preparing == {"lstat", "dial", "recheck", "remove", "stage"} \union Staged
Closing   == {"close", "lstatOwn", "unlink", "unlock"}
Critical  == Preparing \union Closing \union {"serving"}

\* Places where a check of the path is still to be acted on.  Numbers can be
\* reused, so a comparison with a file that may be gone counts as one.
Windows == {"dial", "recheck", "remove", "rename", "lstatOwn", "unlink"}

Live(i) == i # None /\ inode[i].owner # Nobody

Init ==
    /\ pc = [p \in Instances |-> "down"]
    /\ lockName = None
    /\ lock = [p \in Instances |-> None]
    /\ holder = [f \in LockFiles |-> Nobody]
    /\ seen = [p \in Instances |-> None]
    /\ info = [p \in Instances |-> None]
    /\ why = [p \in Instances |-> "none"]
    /\ starts = [p \in Instances |-> 0]
    /\ meddles = 0
    /\ \E b \in Before, i \in Inodes :
          /\ entry = IF b = "nothing" THEN None ELSE i
          /\ inode = [j \in Inodes |->
                        IF j # i \/ b = "nothing" THEN Unbound
                        ELSE Made(IF b = "file" THEN "file" ELSE "socket",
                                  IF b = "live" THEN Foreign ELSE Nobody, FALSE)]

-----------------------------------------------------------------------------
Goto(p, from, to) == pc[p] = from /\ pc' = [pc EXCEPT ![p] = to]

\* The kernel closes what the process had open: its listener and its lock.
Released(p) == [f \in LockFiles |-> IF holder[f] = p THEN Nobody ELSE holder[f]]
Unlistened(p) ==
    [i \in Inodes |-> IF inode[i].owner = p THEN [inode[i] EXCEPT !.owner = Nobody]
                      ELSE inode[i]]

\* A run ends: in an error of Listen, after Close, or killed.
End(p, reason) ==
    /\ pc' = [pc EXCEPT ![p] = "down"]
    /\ lock' = [lock EXCEPT ![p] = None]
    /\ holder' = Released(p)
    /\ inode' = Unlistened(p)
    /\ seen' = [seen EXCEPT ![p] = None]
    /\ info' = [info EXCEPT ![p] = None]
    /\ why' = [why EXCEPT ![p] = reason]
    /\ UNCHANGED <<lockName, entry, counts>>

\* acquireInstanceLock, the open: O_CREAT makes the file if there is none.
OpenLock(p) ==
    /\ starts[p] < MaxStarts
    /\ starts' = [starts EXCEPT ![p] = @ + 1]
    /\ Goto(p, "down", "flock")
    /\ IF lockName # None
       THEN UNCHANGED lockName
       ELSE lockName' \in {f \in LockFiles : \A q \in Instances : lock[q] # f}
    /\ lock' = [lock EXCEPT ![p] = lockName']
    /\ why' = [why EXCEPT ![p] = "none"]
    /\ UNCHANGED <<holder, entry, inode, seen, info, meddles>>

\* acquireInstanceLock, the flock, which never waits.
Flock(p) ==
    /\ Goto(p, "flock", "lstat")
    /\ holder[lock[p]] = Nobody
    /\ holder' = [holder EXCEPT ![lock[p]] = p]
    /\ UNCHANGED <<lockName, lock, entry, inode, seen, info, why, counts>>

FlockTaken(p) ==
    /\ pc[p] = "flock"
    /\ holder[lock[p]] # Nobody
    /\ End(p, "locked")

-----------------------------------------------------------------------------
(* removeStaleSocket.                                                      *)

LstatClear(p) ==
    /\ entry = None
    /\ Goto(p, "lstat", "stage")
    /\ UNCHANGED <<locking, entry, inode, seen, info, why, counts>>

LstatSocket(p) ==
    /\ entry # None /\ inode[entry].kind = "socket"
    /\ Goto(p, "lstat", "dial")
    /\ seen' = [seen EXCEPT ![p] = entry]
    /\ UNCHANGED <<locking, entry, inode, info, why, counts>>

LstatOther(p) ==
    /\ pc[p] = "lstat"
    /\ entry # None /\ inode[entry].kind # "socket"
    /\ End(p, "notSocket")

\* The stale socket proven stale and then left where it is.
DialRefusedLeft(p) ==
    /\ entry # None /\ ~Live(entry)
    /\ Goto(p, "dial", "stage")
    /\ UNCHANGED <<locking, entry, inode, seen, info, why, counts>>

\* Connecting to a socket nothing listens on, or to a file that is no socket.
DialRefused(p) ==
    /\ entry # None /\ ~Live(entry)
    /\ Goto(p, "dial", "recheck")
    /\ UNCHANGED <<locking, entry, inode, seen, info, why, counts>>

\* Somebody accepts, or the error is any other than a refusal.
DialOther(p) ==
    /\ pc[p] = "dial"
    /\ entry = None \/ Live(entry)
    /\ End(p, IF entry = None THEN "changed" ELSE "inUse")

Recheck(p) ==
    /\ entry = seen[p]
    /\ Goto(p, "recheck", "remove")
    /\ UNCHANGED <<locking, entry, inode, seen, info, why, counts>>

RecheckChanged(p) ==
    /\ pc[p] = "recheck"
    /\ entry # seen[p]
    /\ End(p, "changed")

\* os.Remove takes whatever the path names by now.
Remove(p) ==
    /\ entry # None
    /\ entry' = None
    /\ Goto(p, "remove", "stage")
    /\ UNCHANGED <<locking, inode, seen, info, why, counts>>

RemoveGone(p) ==
    /\ pc[p] = "remove"
    /\ entry = None
    /\ End(p, "changed")

-----------------------------------------------------------------------------
(* bindAndPublish.                                                         *)

\* Numbers a new file can get: the path does not name them, nobody has them
\* open.  (What a crash leaves in a staging directory nobody asks for again.)
Free == {i \in Inodes : i # entry /\ ~Live(i)}

\* The Lstat of the staged socket forgotten: Close could not know its own.
StageUnknown(p) ==
    /\ Goto(p, "stage", "chmod")
    /\ \E i \in Free :
          inode' = [inode EXCEPT ![i] = Bound(p)]
    /\ UNCHANGED <<locking, entry, seen, info, why, counts>>

\* MkdirTemp and ListenUnix: a socket under a name nobody else knows.
Stage(p) ==
    /\ Goto(p, "stage", "chmod")
    /\ \E i \in Free :
          /\ info' = [info EXCEPT ![p] = i]
          /\ inode' = [inode EXCEPT ![i] = Bound(p)]
    /\ UNCHANGED <<locking, entry, seen, why, counts>>

\* The mode left to the umask.
ChmodSkipped(p) ==
    /\ Goto(p, "chmod", "absent")
    /\ UNCHANGED <<locking, entry, inode, seen, info, why, counts>>

Chmod(p) ==
    /\ Goto(p, "chmod", "absent")
    /\ inode' = [inode EXCEPT ![info[p]].moded = TRUE]
    /\ UNCHANGED <<locking, entry, seen, info, why, counts>>

Absent(p) ==
    /\ entry = None
    /\ Goto(p, "absent", "rename")
    /\ UNCHANGED <<locking, entry, inode, seen, info, why, counts>>

Appeared(p) ==
    /\ pc[p] = "absent"
    /\ entry # None
    /\ End(p, "appeared")

\* rename(2) replaces what the path names by now.
Rename(p) ==
    /\ Goto(p, "rename", "serving")
    /\ entry' = info[p]
    /\ UNCHANGED <<locking, inode, seen, info, why, counts>>

\* A call of Listen fails on its own account; the deferred calls undo the rest.
Fails(p) == pc[p] \in Preparing \union {"flock"} /\ End(p, "failed")

-----------------------------------------------------------------------------
(* Close.                                                                  *)

Close(p) ==
    /\ Goto(p, "serving", "close")
    /\ UNCHANGED <<locking, entry, inode, seen, info, why, counts>>

\* The lock given up together with the listener, before the socket is unlinked.
CloseUnlocksFirst(p) ==
    /\ Goto(p, "close", "lstatOwn")
    /\ inode' = Unlistened(p)
    /\ holder' = Released(p)
    /\ UNCHANGED <<lockName, lock, entry, seen, info, why, counts>>

CloseListener(p) ==
    /\ Goto(p, "close", "lstatOwn")
    /\ inode' = Unlistened(p)
    /\ UNCHANGED <<locking, entry, seen, info, why, counts>>

\* Close unlinking whatever the path names.
LstatAnything(p) ==
    /\ Goto(p, "lstatOwn", IF entry # None THEN "unlink" ELSE "unlock")
    /\ UNCHANGED <<locking, entry, inode, seen, info, why, counts>>

LstatOwn(p) ==
    /\ Goto(p, "lstatOwn", IF entry = info[p] THEN "unlink" ELSE "unlock")
    /\ UNCHANGED <<locking, entry, inode, seen, info, why, counts>>

\* An error of Remove is reported and changes nothing else.
Unlink(p) ==
    /\ Goto(p, "unlink", "unlock")
    /\ entry' = None
    /\ UNCHANGED <<locking, inode, seen, info, why, counts>>

\* The lock file removed with the lock.
UnlockRemovesFile(p) ==
    /\ pc[p] = "unlock"
    /\ pc' = [pc EXCEPT ![p] = "down"]
    /\ lock' = [lock EXCEPT ![p] = None]
    /\ holder' = Released(p)
    /\ lockName' = None
    /\ UNCHANGED <<entry, inode, seen, info, why, counts>>

\* The lock is given up last, and its file stays.
Unlock(p) == pc[p] = "unlock" /\ End(p, "none")

\* Killed at any point.
Crash(p) == pc[p] # "down" /\ End(p, "crashed")

-----------------------------------------------------------------------------
(* Other programs of the same user.                                        *)

Raced == \E p \in Instances : pc[p] \in Windows

Meddle(act) ==
    /\ act \in Meddling
    /\ meddles < MaxMeddles
    /\ meddles' = meddles + 1
    /\ UNCHANGED <<pc, locking, seen, info, why, starts>>

ForeignBind ==
    /\ Meddle("bind")
    /\ entry = None
    /\ entry' \in Free
    /\ inode' = [inode EXCEPT ![entry'] = Made("socket", Foreign, Raced)]

ForeignFile ==
    /\ Meddle("file")
    /\ entry = None
    /\ entry' \in Free
    /\ inode' = [inode EXCEPT ![entry'] = Made("file", Nobody, Raced)]

\* The operator, or a cleaner of old files, removes the path.
ForeignRemove ==
    /\ Meddle("remove")
    /\ entry # None
    /\ entry' = None
    /\ UNCHANGED inode

\* A foreign listener goes away and leaves its socket.
ForeignDie ==
    /\ Meddle("die")
    /\ \E i \in Inodes : inode[i].owner = Foreign
    /\ inode' = Unlistened(Foreign)
    /\ UNCHANGED entry

\* Nobody is left to start again: the model stops.
Finished ==
    /\ \A p \in Instances : pc[p] = "down" /\ starts[p] = MaxStarts
    /\ UNCHANGED vars

Step(p) ==
    \/ OpenLock(p) \/ Flock(p) \/ FlockTaken(p)
    \/ LstatClear(p) \/ LstatSocket(p) \/ LstatOther(p)
    \/ DialRefused(p) \/ DialOther(p) \/ Recheck(p) \/ RecheckChanged(p)
    \/ Remove(p) \/ RemoveGone(p)
    \/ Stage(p) \/ Chmod(p) \/ Absent(p) \/ Appeared(p) \/ Rename(p) \/ Fails(p)
    \/ Close(p) \/ CloseListener(p) \/ LstatOwn(p) \/ Unlink(p) \/ Unlock(p)
    \/ Crash(p)

Next ==
    \/ \E p \in Instances : Step(p)
    \/ ForeignBind \/ ForeignFile \/ ForeignRemove \/ ForeignDie
    \/ Finished

Spec == Init /\ [][Next]_vars

-----------------------------------------------------------------------------
TypeOK ==
    /\ pc \in [Instances -> {"down", "flock"} \union Critical]
    /\ lockName \in LockFiles \union {None}
    /\ lock \in [Instances -> LockFiles \union {None}]
    /\ holder \in [LockFiles -> Instances \union {Nobody}]
    /\ entry \in Inodes \union {None}
    /\ inode \in [Inodes -> Files]
    /\ seen \in [Instances -> Inodes \union {None}]
    /\ info \in [Instances -> Inodes \union {None}]
    /\ \A p \in Instances :
          pc[p] \in Staged \union Closing \union {"serving"} => info[p] # None
    /\ why \in [Instances -> {"none", "locked", "notSocket", "inUse", "changed",
                              "appeared", "failed", "crashed"}]
    /\ starts \in [Instances -> 0..MaxStarts]
    /\ meddles \in 0..MaxMeddles

\* Between taking the lock and giving it up there is one instance, whatever
\* other programs do to the socket and whoever is killed: the lock file stays
\* on disk so that all lock the same inode (socket.go:15-18).
OneInstance ==
    \A p, q \in Instances : pc[p] \in Critical /\ pc[q] \in Critical => p = q

\* A socket of a proxy is never at the published path before it has the mode
\* that was asked for (socket.go:204-206).
PublishedMode == entry # None /\ ~inode[entry].foreign => inode[entry].moded

\* Where only proxies use the directory, the path names the socket of the
\* instance that serves: no predecessor still closing and no successor that
\* fails takes it away (socket.go:40-53).
ServingIsReachable ==
    \A p \in Instances :
        pc[p] = "serving" => entry = info[p] /\ inode[entry].owner = p

\* There, too, no instance that got the lock is stopped by what an earlier one
\* left behind, however that one ended (socket.go:249-250).
RestartsRecover ==
    \A p \in Instances : why[p] \in {"none", "locked", "failed", "crashed"}

\* What another program put at the path, an instance takes away only if it is a
\* socket nobody listens on, or if it came while the instance was between a
\* check of the path and the act that follows.
ForeignEntriesSpared ==
    [][\A p \in Instances :
          Step(p) /\ entry # None /\ inode[entry].foreign /\ entry' # entry =>
              \/ inode[entry].raced
              \/ inode[entry].kind = "socket" /\ ~Live(entry)]_vars

-----------------------------------------------------------------------------
\* "still refuse to replace an entry created by another program"
\* (socket.go:234-235).
ForeignNeverReplaced ==
    [][\A p \in Instances :
          Rename(p) => entry = None \/ ~inode[entry].foreign]_vars
=============================================================================
