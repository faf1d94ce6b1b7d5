----------------------------- MODULE ListenProofs ----------------------------
(***************************************************************************)
(* For any number of instances, of kills and of acts by other programs:    *)
(* one instance at a time is past the lock, no socket is published without *)
(* its mode, and what another program put at the path is taken away only   *)
(* where no check can tell.  Where only proxies use the directory, whoever *)
(* serves is reached there and no start fails for what was left behind.    *)
(***************************************************************************)
EXTENDS Listen, TLAPS

\* Why the flock excludes: the name of the lock file, once made, always leads
\* to the same inode, every run has that one open, and whoever is past Flock
\* holds it.
LockInv ==
    /\ pc \in [Instances -> {"down", "flock"} \union Critical]
    /\ lockName \in LockFiles \union {None}
    /\ lock \in [Instances -> LockFiles \union {None}]
    /\ holder \in [LockFiles -> Instances \union {Nobody}]
    /\ \A p \in Instances :
          /\ pc[p] # "down" => lockName \in LockFiles /\ lock[p] = lockName
          /\ pc[p] \in Critical => holder[lockName] = p

LEMMA LockInit == Init => LockInv
BY DEF Init, LockInv, Critical, Preparing, Closing, Staged

\* A run that ends gives up what it held and nobody else's lock.
LEMMA EndKeeps ==
    ASSUME LockInv, NEW p \in Instances, NEW reason, End(p, reason)
    PROVE  LockInv'
<1> USE ListenAssumption DEF LockInv, End, Released
<1>1. /\ pc' = [pc EXCEPT ![p] = "down"] /\ lock' = [lock EXCEPT ![p] = None]
      /\ lockName' = lockName
      /\ holder' = [f \in LockFiles |-> IF holder[f] = p THEN Nobody ELSE holder[f]]
  OBVIOUS
<1>2. "down" \notin Critical BY DEF Critical, Preparing, Closing, Staged
<1>3. ASSUME NEW q \in Instances, pc'[q] \in Critical
      PROVE  holder'[lockName'] = q
  <2>1. q # p /\ pc[q] \in Critical BY <1>1, <1>2, <1>3
  <2>2. lockName \in LockFiles /\ holder[lockName] = q BY <1>2, <2>1
  <2> QED BY <1>1, <2>1, <2>2
<1> QED BY <1>1, <1>2, <1>3

\* Past the lock, the calls of a run leave the locks alone.
LEMMA WithinKeeps ==
    ASSUME LockInv, NEW p \in Instances, UNCHANGED locking,
           pc[p] \in Critical, NEW to \in Critical, pc' = [pc EXCEPT ![p] = to]
    PROVE  LockInv'
BY DEF LockInv, locking, Critical, Preparing, Closing, Staged

LEMMA LockNext == LockInv /\ [Next]_vars => LockInv'
<1> SUFFICES ASSUME LockInv, [Next]_vars PROVE LockInv' OBVIOUS
<1>1. ASSUME NEW p \in Instances, OpenLock(p) PROVE LockInv'
  <2> USE DEF LockInv, OpenLock, Goto
  <2>1. lockName' \in LockFiles /\ (lockName # None => lockName' = lockName)
    BY <1>1, ListenAssumption DEF None
  <2>2. ASSUME NEW q \in Instances, q # p, pc[q] # "down"
        PROVE  lockName' = lockName
    BY <1>1, <2>1, <2>2, ListenAssumption DEF None
  <2>3. "flock" \notin Critical BY DEF Critical, Preparing, Closing, Staged
  <2> QED BY <1>1, <2>1, <2>2, <2>3
<1>2. ASSUME NEW p \in Instances, Flock(p) PROVE LockInv'
  <2> USE DEF LockInv, Flock, Goto
  <2>1. lock[p] = lockName /\ lockName \in LockFiles /\ holder[lockName] = Nobody BY <1>2
  <2>2. \A q \in Instances : pc[q] \notin Critical BY <2>1, ListenAssumption
          DEF Critical, Preparing, Closing, Staged
  <2>3. "lstat" \in Critical BY DEF Critical, Preparing
  <2> QED BY <1>2, <2>1, <2>2, <2>3
<1>3. ASSUME NEW p \in Instances,
             FlockTaken(p) \/ LstatOther(p) \/ DialOther(p) \/ RecheckChanged(p)
               \/ RemoveGone(p) \/ Appeared(p) \/ Fails(p) \/ Unlock(p) \/ Crash(p)
      PROVE  LockInv'
  <2>1. \E reason : End(p, reason)
    BY <1>3 DEF FlockTaken, LstatOther, DialOther, RecheckChanged, RemoveGone, Appeared,
                Fails, Unlock, Crash
  <2> QED BY <2>1, EndKeeps
<1>4. ASSUME NEW p \in Instances,
             \/ LstatClear(p) \/ LstatSocket(p) \/ DialRefused(p) \/ Recheck(p) \/ Remove(p)
             \/ Stage(p) \/ Chmod(p) \/ Absent(p) \/ Rename(p)
             \/ Close(p) \/ CloseListener(p) \/ LstatOwn(p) \/ Unlink(p)
      PROVE  LockInv'
  <2>1. UNCHANGED locking
    BY <1>4 DEF LstatClear, LstatSocket, DialRefused, Recheck, Remove, Stage, Chmod, Absent,
                Rename, Close, CloseListener, LstatOwn, Unlink
  <2>2. pc[p] \in Critical /\ \E to \in Critical : pc' = [pc EXCEPT ![p] = to]
    BY <1>4 DEF LstatClear, LstatSocket, DialRefused, Recheck, Remove, Stage, Chmod, Absent,
                Rename, Close, CloseListener, LstatOwn, Unlink, Goto,
                Critical, Preparing, Closing, Staged
  <2> QED BY <2>1, <2>2, WithinKeeps
<1>5. CASE ForeignBind \/ ForeignFile \/ ForeignRemove \/ ForeignDie
  BY <1>5 DEF ForeignBind, ForeignFile, ForeignRemove, ForeignDie, Meddle, locking, LockInv
<1>6. CASE UNCHANGED vars
  BY <1>6 DEF vars, locking, LockInv
<1> QED BY <1>1, <1>2, <1>3, <1>4, <1>5, <1>6 DEF Next, Step, Finished

\* No two instances are ever past the lock together: the lock, not the presence
\* of the socket, is what makes a second instance fail (socket.go:174-175).
THEOREM MutualExclusion == Spec => []OneInstance
<1>1. LockInv => OneInstance BY DEF LockInv, OneInstance
<1> QED BY <1>1, LockInit, LockNext, PTL DEF Spec

-----------------------------------------------------------------------------
(* What is known of the sockets: an open one keeps its number.             *)

Listening == Staged \union {"serving", "close"}

Own(p) ==
    /\ pc[p] \in Listening =>
          /\ inode[info[p]].owner = p /\ inode[info[p]].kind = "socket"
          /\ ~inode[info[p]].foreign
    /\ pc[p] \in Listening \ {"chmod"} => inode[info[p]].moded

FilesInv == TypeOK /\ (\A p \in Instances : Own(p)) /\ PublishedMode

LEMMA FilesInit == Init => FilesInv
<1> SUFFICES ASSUME Init PROVE FilesInv OBVIOUS
<1> USE ListenAssumption
<1>1. PICK b \in Before, i \in Inodes :
         /\ entry = IF b = "nothing" THEN None ELSE i
         /\ inode = [j \in Inodes |->
                       IF j # i \/ b = "nothing" THEN Unbound
                       ELSE Made(IF b = "file" THEN "file" ELSE "socket",
                                 IF b = "live" THEN Foreign ELSE Nobody, FALSE)]
  BY DEF Init
<1>2. inode \in [Inodes -> Files] BY <1>1 DEF Files, Unbound, Made
<1>3. TypeOK
  <2>1. pc = [p \in Instances |-> "down"] BY DEF Init
  <2>2. \A p \in Instances : pc[p] \notin Staged \union Closing \union {"serving"}
    BY <2>1 DEF Staged, Closing
  <2>3. entry \in Inodes \union {None} BY <1>1
  <2>4. lockName = None /\ lock = [p \in Instances |-> None]
        /\ holder = [f \in LockFiles |-> Nobody]
        /\ seen = [p \in Instances |-> None] /\ info = [p \in Instances |-> None]
    BY DEF Init
  <2>5. why = [p \in Instances |-> "none"] /\ starts = [p \in Instances |-> 0] /\ meddles = 0
    BY DEF Init
  <2> QED BY <1>2, <2>1, <2>2, <2>3, <2>4, <2>5 DEF TypeOK
<1>4. \A p \in Instances : Own(p) BY DEF Init, Own, Listening, Staged
<1>5. PublishedMode BY <1>1 DEF PublishedMode, Made, None
<1> QED BY <1>3, <1>4, <1>5 DEF FilesInv

\* A listener closed: its socket stays what it was, with nobody to accept.
LEMMA UnlistenedIs ==
    ASSUME inode \in [Inodes -> Files], NEW p \in Instances \union {Foreign},
           inode' = Unlistened(p)
    PROVE  /\ inode' \in [Inodes -> Files]
           /\ \A i \in Inodes :
                 /\ inode'[i].kind = inode[i].kind /\ inode'[i].moded = inode[i].moded
                 /\ inode'[i].foreign = inode[i].foreign /\ inode'[i].raced = inode[i].raced
                 /\ inode[i].owner # p => inode'[i] = inode[i]
                 /\ inode[i].owner = p => inode'[i].owner = Nobody
<1>1. inode' = [i \in Inodes |-> IF inode[i].owner = p
                                 THEN [inode[i] EXCEPT !.owner = Nobody] ELSE inode[i]]
  BY DEF Unlistened
<1>2. \A i \in Inodes : [inode[i] EXCEPT !.owner = Nobody] \in Files BY DEF Files
<1> QED BY <1>1, <1>2 DEF Files

LEMMA FilesNext == FilesInv /\ [Next]_vars => FilesInv'
<1> SUFFICES ASSUME FilesInv, [Next]_vars PROVE FilesInv' OBVIOUS
<1> USE ListenAssumption DEF FilesInv
<1>1. ASSUME NEW p \in Instances,
             FlockTaken(p) \/ LstatOther(p) \/ DialOther(p) \/ RecheckChanged(p)
               \/ RemoveGone(p) \/ Appeared(p) \/ Fails(p) \/ Unlock(p) \/ Crash(p)
      PROVE  FilesInv'
  <2>1. PICK reason \in {"none", "locked", "notSocket", "inUse", "changed",
                         "appeared", "failed", "crashed"} : End(p, reason)
    BY <1>1 DEF FlockTaken, LstatOther, DialOther, RecheckChanged, RemoveGone, Appeared,
                Fails, Unlock, Crash
  <2>2. /\ pc' = [pc EXCEPT ![p] = "down"] /\ info' = [info EXCEPT ![p] = None]
        /\ entry' = entry /\ inode' = Unlistened(p)
    BY <2>1 DEF End
  <2>3. /\ inode' \in [Inodes -> Files]
        /\ \A i \in Inodes : /\ inode'[i].moded = inode[i].moded
                             /\ inode'[i].foreign = inode[i].foreign
                             /\ inode[i].owner # p => inode'[i] = inode[i]
    BY <2>2, UnlistenedIs DEF TypeOK
  <2>4. "down" \notin Listening \union Closing \union Staged \union {"serving"}
    BY DEF Listening, Closing, Staged
  <2>5. TypeOK'
    <3>1. holder' \in [LockFiles -> Instances \union {Nobody}]
      BY <2>1 DEF End, Released, TypeOK
    <3> QED BY <2>1, <2>2, <2>3, <2>4, <3>1 DEF End, TypeOK, counts
  <2>6. ASSUME NEW q \in Instances PROVE Own(q)'
    <3>1. CASE q = p BY <2>2, <2>4, <3>1 DEF Own, TypeOK
    <3>2. CASE q # p
      <4>1. pc'[q] = pc[q] /\ info'[q] = info[q] BY <2>2, <3>2 DEF TypeOK
      <4>2. pc[q] \in Listening => info[q] \in Inodes /\ inode[info[q]].owner = q
        BY DEF Own, TypeOK, Listening, Closing
      <4>3. pc[q] \in Listening => inode'[info[q]] = inode[info[q]]
        BY <2>3, <3>2, <4>2
      <4> QED BY <4>1, <4>3 DEF Own
    <3> QED BY <3>1, <3>2
  <2>7. PublishedMode' BY <2>2, <2>3 DEF PublishedMode, TypeOK, None
  <2> QED BY <2>5, <2>6, <2>7
<1>2. ASSUME NEW p \in Instances, UNCHANGED <<inode, info>>,
             \/ OpenLock(p) \/ Flock(p) \/ LstatClear(p) \/ LstatSocket(p) \/ DialRefused(p)
             \/ Recheck(p) \/ Remove(p) \/ Absent(p) \/ Rename(p)
             \/ Close(p) \/ LstatOwn(p) \/ Unlink(p)
      PROVE  FilesInv'
  <2>1. TypeOK'
    <3>1. CASE OpenLock(p)
      BY <1>2, <3>1 DEF OpenLock, Goto, TypeOK, Critical, Preparing, Closing, Staged
    <3>2. CASE Flock(p)
      <4>1. lock[p] \in LockFiles \union {None} BY DEF TypeOK
      <4> QED BY <1>2, <3>2, <4>1
            DEF Flock, Goto, TypeOK, counts, Critical, Preparing, Closing, Staged
    <3>3. CASE LstatClear(p) \/ LstatSocket(p) \/ DialRefused(p) \/ Recheck(p) \/ Remove(p)
      BY <1>2, <3>3 DEF LstatClear, LstatSocket, DialRefused, Recheck, Remove, Goto,
           TypeOK, locking, counts, Critical, Preparing, Closing, Staged
    <3>4. CASE Absent(p) \/ Rename(p) \/ Close(p) \/ LstatOwn(p) \/ Unlink(p)
      BY <1>2, <3>4 DEF Absent, Rename, Close, LstatOwn, Unlink, Goto,
           TypeOK, locking, counts, Critical, Preparing, Closing, Staged
    <3> QED BY <1>2, <3>1, <3>2, <3>3, <3>4
  <2>2. ASSUME NEW q \in Instances PROVE Own(q)'
    <3>1. CASE q # p
      <4>1. pc'[q] = pc[q]
        BY <1>2, <3>1 DEF OpenLock, Flock, LstatClear, LstatSocket, DialRefused, Recheck,
             Remove, Absent, Rename, Close, LstatOwn, Unlink, Goto, TypeOK
      <4> QED BY <1>2, <4>1 DEF Own
    <3>2. CASE q = p
      <4>1. pc'[p] \in Listening => pc[p] \in Listening \ {"chmod"} \/ pc'[p] = "absent"
        BY <1>2 DEF OpenLock, Flock, LstatClear, LstatSocket, DialRefused, Recheck,
             Remove, Absent, Rename, Close, LstatOwn, Unlink, Goto, TypeOK, Listening, Staged
      <4>2. pc'[p] # "absent" /\ pc'[p] # "chmod"
        BY <1>2 DEF OpenLock, Flock, LstatClear, LstatSocket, DialRefused, Recheck,
             Remove, Absent, Rename, Close, LstatOwn, Unlink, Goto, TypeOK
      <4> QED BY <1>2, <3>2, <4>1, <4>2 DEF Own
    <3> QED BY <3>1, <3>2
  <2>3. PublishedMode'
    <3>1. CASE Rename(p)
      <4>1. entry' = info[p] /\ pc[p] = "rename" BY <3>1 DEF Rename, Goto
      <4> QED BY <1>2, <4>1 DEF Own, Listening, Staged, PublishedMode
    <3>2. CASE ~Rename(p)
      <4>1. entry' \in {entry, None}
        BY <1>2, <3>2 DEF OpenLock, Flock, LstatClear, LstatSocket, DialRefused, Recheck,
             Remove, Absent, Close, LstatOwn, Unlink
      <4> QED BY <1>2, <4>1 DEF PublishedMode
    <3> QED BY <3>1, <3>2
  <2> QED BY <2>1, <2>2, <2>3
<1>3. ASSUME NEW p \in Instances, Stage(p) PROVE FilesInv'
  <2>1. PICK i \in Free :
           /\ info' = [info EXCEPT ![p] = i]
           /\ inode' = [inode EXCEPT ![i] = Bound(p)]
    BY <1>3 DEF Stage
  <2>2. i \in Inodes /\ i # None /\ i # entry /\ inode[i].owner = Nobody
    BY DEF Free, Live, None
  <2>3. pc[p] = "stage" /\ pc' = [pc EXCEPT ![p] = "chmod"] /\ entry' = entry
    BY <1>3 DEF Stage, Goto
  <2>4. /\ Bound(p) \in Files /\ Bound(p).owner = p /\ Bound(p).kind = "socket"
        /\ ~Bound(p).foreign
    BY DEF Bound, Files
  <2>5. inode' \in [Inodes -> Files] BY <2>1, <2>2, <2>4 DEF Files, TypeOK
  <2>6. TypeOK'
    BY <1>3, <2>1, <2>2, <2>3, <2>5 DEF Stage, TypeOK, locking, counts,
         Critical, Preparing, Closing, Staged
  <2>7. ASSUME NEW q \in Instances PROVE Own(q)'
    <3>1. CASE q = p BY <2>1, <2>2, <2>3, <2>4, <3>1 DEF Own, TypeOK, Listening, Staged
    <3>2. CASE q # p
      <4>1. pc'[q] = pc[q] /\ info'[q] = info[q] BY <2>1, <2>3, <3>2 DEF TypeOK
      <4>2. pc[q] \in Listening => info[q] \in Inodes /\ info[q] # i
        BY <2>2 DEF Own, TypeOK, Listening, Closing
      <4> QED BY <2>1, <2>2, <4>1, <4>2 DEF Own, TypeOK
    <3> QED BY <3>1, <3>2
  <2>8. PublishedMode' BY <2>1, <2>2, <2>3 DEF PublishedMode, TypeOK
  <2> QED BY <2>6, <2>7, <2>8
<1>4. ASSUME NEW p \in Instances, Chmod(p) PROVE FilesInv'
  <2>1. /\ pc[p] = "chmod" /\ pc' = [pc EXCEPT ![p] = "absent"]
        /\ inode' = [inode EXCEPT ![info[p]].moded = TRUE]
        /\ UNCHANGED <<locking, entry, seen, info, why, counts>>
    BY <1>4 DEF Chmod, Goto
  <2>2. info[p] \in Inodes /\ inode[info[p]].owner = p /\ ~inode[info[p]].foreign
        /\ inode[info[p]].kind = "socket"
    BY <2>1 DEF Own, TypeOK, Listening, Staged
  <2>3. inode[info[p]] \in Files BY <2>2 DEF TypeOK
  <2>4. [inode[info[p]] EXCEPT !.moded = TRUE] \in Files BY <2>3 DEF Files
  <2>5. /\ inode' \in [Inodes -> Files]
        /\ \A i \in Inodes : i # info[p] => inode'[i] = inode[i]
        /\ inode'[info[p]].owner = p /\ ~inode'[info[p]].foreign /\ inode'[info[p]].moded
        /\ inode'[info[p]].kind = "socket"
    BY <2>1, <2>2, <2>3, <2>4 DEF TypeOK, Files
  <2>6. TypeOK'
    BY <2>1, <2>5 DEF TypeOK, locking, counts, Critical, Preparing, Closing, Staged
  <2>7. ASSUME NEW q \in Instances PROVE Own(q)'
    <3>1. CASE q = p BY <2>1, <2>5, <3>1 DEF Own
    <3>2. CASE q # p
      <4>1. pc'[q] = pc[q] BY <2>1, <3>2 DEF TypeOK
      <4>2. pc[q] \in Listening => info[q] \in Inodes /\ info[q] # info[p]
        BY <2>2, <3>2 DEF Own, TypeOK, Listening, Closing
      <4> QED BY <2>1, <2>5, <4>1, <4>2 DEF Own
    <3> QED BY <3>1, <3>2
  <2>8. PublishedMode' BY <2>1, <2>5 DEF PublishedMode, TypeOK, None
  <2> QED BY <2>6, <2>7, <2>8
<1>5. ASSUME NEW p \in Instances, CloseListener(p) PROVE FilesInv'
  <2>1. /\ pc[p] = "close" /\ pc' = [pc EXCEPT ![p] = "lstatOwn"]
        /\ inode' = Unlistened(p)
        /\ UNCHANGED <<locking, entry, seen, info, why, counts>>
    BY <1>5 DEF CloseListener, Goto
  <2>2. /\ inode' \in [Inodes -> Files]
        /\ \A i \in Inodes : /\ inode'[i].moded = inode[i].moded
                             /\ inode'[i].foreign = inode[i].foreign
                             /\ inode[i].owner # p => inode'[i] = inode[i]
    BY <2>1, UnlistenedIs DEF TypeOK
  <2>3. TypeOK'
    BY <2>1, <2>2 DEF TypeOK, locking, counts, Critical, Preparing, Closing, Staged
  <2>4. ASSUME NEW q \in Instances PROVE Own(q)'
    <3>1. CASE q = p BY <2>1, <3>1 DEF Own, TypeOK, Listening, Staged
    <3>2. CASE q # p
      <4>1. pc'[q] = pc[q] BY <2>1, <3>2 DEF TypeOK
      <4>2. pc[q] \in Listening => info[q] \in Inodes /\ inode[info[q]].owner = q
        BY DEF Own, TypeOK, Listening, Closing
      <4>3. pc[q] \in Listening => inode'[info[q]] = inode[info[q]]
        BY <2>2, <3>2, <4>2
      <4> QED BY <2>1, <4>1, <4>3 DEF Own
    <3> QED BY <3>1, <3>2
  <2>5. PublishedMode' BY <2>1, <2>2 DEF PublishedMode, TypeOK, None
  <2> QED BY <2>3, <2>4, <2>5
<1>6. CASE ForeignBind \/ ForeignFile
  <2>1. PICK f \in Files :
           /\ f.foreign
           /\ entry' \in Free /\ inode' = [inode EXCEPT ![entry'] = f]
           /\ meddles < MaxMeddles /\ meddles' = meddles + 1
           /\ UNCHANGED <<pc, locking, seen, info, why, starts>>
    <3>1. Made("socket", Foreign, Raced) \in Files /\ Made("file", Nobody, Raced) \in Files
      BY DEF Made, Files, Raced
    <3>2. Made("socket", Foreign, Raced).foreign /\ Made("file", Nobody, Raced).foreign
      BY DEF Made
    <3> QED BY <1>6, <3>1, <3>2 DEF ForeignBind, ForeignFile, Meddle
  <2>2. entry' \in Inodes /\ ~Live(entry') /\ entry' # None BY <2>1 DEF Free, None
  <2>3. TypeOK' BY <2>1, <2>2 DEF TypeOK, locking
  <2>4. ASSUME NEW q \in Instances PROVE Own(q)'
    <3>1. pc[q] \in Listening => info[q] \in Inodes /\ info[q] # entry'
      BY <2>2 DEF Own, TypeOK, Listening, Closing, Live
    <3> QED BY <2>1, <2>2, <3>1 DEF Own, TypeOK
  <2>5. PublishedMode' BY <2>1, <2>2 DEF PublishedMode, TypeOK
  <2> QED BY <2>3, <2>4, <2>5
<1>7. CASE ForeignRemove
  BY <1>7 DEF ForeignRemove, Meddle, TypeOK, Own, PublishedMode, locking
<1>8. CASE ForeignDie
  <2>1. /\ inode' = Unlistened(Foreign) /\ entry' = entry
        /\ meddles < MaxMeddles /\ meddles' = meddles + 1
        /\ UNCHANGED <<pc, locking, seen, info, why, starts>>
    BY <1>8 DEF ForeignDie, Meddle
  <2>2. /\ inode' \in [Inodes -> Files]
        /\ \A i \in Inodes : /\ inode'[i].moded = inode[i].moded
                             /\ inode'[i].foreign = inode[i].foreign
                             /\ inode[i].owner # Foreign => inode'[i] = inode[i]
    BY <2>1, UnlistenedIs DEF TypeOK
  <2>3. TypeOK' BY <2>1, <2>2 DEF TypeOK, locking
  <2>4. ASSUME NEW q \in Instances PROVE Own(q)'
    <3>1. pc[q] \in Listening => info[q] \in Inodes /\ inode[info[q]].owner = q
      BY DEF Own, TypeOK, Listening, Closing
    <3> QED BY <2>1, <2>2, <3>1 DEF Own
  <2>5. PublishedMode' BY <2>1, <2>2 DEF PublishedMode, TypeOK, None
  <2> QED BY <2>3, <2>4, <2>5
<1>9. CASE UNCHANGED vars
  BY <1>9 DEF vars, locking, counts, TypeOK, Own, PublishedMode
<1>10. ASSUME NEW p \in Instances,
              \/ OpenLock(p) \/ Flock(p) \/ LstatClear(p) \/ LstatSocket(p) \/ DialRefused(p)
              \/ Recheck(p) \/ Remove(p) \/ Absent(p) \/ Rename(p)
              \/ Close(p) \/ LstatOwn(p) \/ Unlink(p)
       PROVE  UNCHANGED <<inode, info>>
  BY <1>10 DEF OpenLock, Flock, LstatClear, LstatSocket, DialRefused, Recheck,
       Remove, Absent, Rename, Close, LstatOwn, Unlink
<1> QED BY <1>1, <1>2, <1>3, <1>4, <1>5, <1>6, <1>7, <1>8, <1>9, <1>10 DEF Next, Step, Finished

\* Every variable keeps its type, and an instance that has bound a socket knows
\* the number of it until it is done.
THEOREM ListenTypes == Spec => []TypeOK
<1>1. FilesInv => TypeOK BY DEF FilesInv
<1> QED BY <1>1, FilesInit, FilesNext, PTL DEF Spec

\* What a client can find at the path has its mode (socket.go:204-206).
THEOREM ModeFirst == Spec => []PublishedMode
<1>1. FilesInv => PublishedMode BY DEF FilesInv
<1> QED BY <1>1, FilesInit, FilesNext, PTL DEF Spec

-----------------------------------------------------------------------------
(* What other programs put at the path.                                    *)

Harmless(i) == inode[i].raced \/ (inode[i].kind = "socket" /\ ~Live(i))

\* What the checks an instance has made say of what the path names now, if that
\* is another program's: it is what was checked, or it came since.
Checked(p) ==
    /\ pc[p] = "dial" /\ entry # None /\ inode[entry].foreign =>
          inode[entry].raced \/ inode[entry].kind = "socket"
    /\ pc[p] \in {"recheck", "remove"} /\ entry # None /\ inode[entry].foreign =>
          Harmless(entry)
    /\ pc[p] \in {"rename", "unlink"} /\ entry # None /\ inode[entry].foreign =>
          inode[entry].raced
    /\ pc[p] = "lstatOwn" /\ inode[info[p]].foreign => inode[info[p]].raced

SparedInv == FilesInv /\ LockInv /\ (\A p \in Instances : Checked(p))

\* An instance in one of the windows is the only one past the lock.
LEMMA WindowsAreCritical ==
    ASSUME SparedInv, NEW p \in Instances, NEW q \in Instances, pc[p] \in Windows,
           pc[q] \in Critical
    PROVE  p = q
BY DEF SparedInv, LockInv, Windows, Critical, Preparing, Closing, Staged

\* A listener that closes makes no file less harmless.
LEMMA UnlistenedKeepsChecked ==
    ASSUME SparedInv, NEW p \in Instances, NEW q \in Instances \union {Foreign},
           inode' = Unlistened(q), entry' = entry, pc'[p] = pc[p], info'[p] = info[p]
    PROVE  Checked(p)'
<1> USE ListenAssumption DEF SparedInv, FilesInv
<1>1. \A i \in Inodes :
         /\ inode'[i].kind = inode[i].kind /\ inode'[i].foreign = inode[i].foreign
         /\ inode'[i].raced = inode[i].raced
         /\ Live(i)' => Live(i)
  BY UnlistenedIs DEF TypeOK, Live
<1>2. pc[p] = "lstatOwn" => info[p] \in Inodes BY DEF TypeOK, Closing, None
<1>3. entry # None => entry \in Inodes BY DEF TypeOK
<1> QED BY <1>1, <1>2, <1>3 DEF Checked, Harmless

\* So does what another program adds to the directory, which is marked.
LEMMA SparedNext == SparedInv /\ [Next]_vars => SparedInv'
<1> SUFFICES ASSUME SparedInv, [Next]_vars PROVE \A p \in Instances : Checked(p)'
  BY FilesNext, LockNext DEF SparedInv
<1> TAKE p \in Instances
<1> USE ListenAssumption
<1>0. TypeOK /\ Own(p) /\ Checked(p) BY DEF SparedInv, FilesInv
<1>1. ASSUME NEW q \in Instances,
             FlockTaken(q) \/ LstatOther(q) \/ DialOther(q) \/ RecheckChanged(q)
               \/ RemoveGone(q) \/ Appeared(q) \/ Fails(q) \/ Unlock(q) \/ Crash(q)
      PROVE  Checked(p)'
  <2>1. PICK reason : End(q, reason)
    BY <1>1 DEF FlockTaken, LstatOther, DialOther, RecheckChanged, RemoveGone, Appeared,
                Fails, Unlock, Crash
  <2>2. CASE q = p BY <1>0, <2>1, <2>2 DEF End, Checked, TypeOK
  <2>3. CASE q # p
    <3>1. pc'[p] = pc[p] /\ info'[p] = info[p] /\ entry' = entry /\ inode' = Unlistened(q)
      BY <1>0, <2>1, <2>3 DEF End, TypeOK
    <3> QED BY <3>1, UnlistenedKeepsChecked
  <2> QED BY <2>2, <2>3
<1>2. ASSUME NEW q \in Instances, q # p, Step(q),
             ~(FlockTaken(q) \/ LstatOther(q) \/ DialOther(q) \/ RecheckChanged(q)
               \/ RemoveGone(q) \/ Appeared(q) \/ Fails(q) \/ Unlock(q) \/ Crash(q))
      PROVE  Checked(p)'
  <2>1. pc'[p] = pc[p]
    BY <1>0, <1>2 DEF Step, OpenLock, Flock, LstatClear, LstatSocket, DialRefused, Recheck,
         Remove, Absent, Rename, Close, LstatOwn, Unlink, Stage, Chmod, CloseListener, Goto,
         TypeOK
  <2>2. CASE pc[p] \notin Windows BY <2>1, <2>2 DEF Checked, Windows
  <2>3. CASE pc[p] \in Windows
    <3>1. pc[q] \notin Critical BY <1>2, <2>3, WindowsAreCritical
    <3>2. OpenLock(q) \/ Flock(q)
      BY <1>2, <3>1 DEF Step, LstatClear, LstatSocket, DialRefused, Recheck,
         Remove, Absent, Rename, Close, LstatOwn, Unlink, Stage, Chmod, CloseListener, Goto,
         Critical, Preparing, Closing, Staged
    <3>3. UNCHANGED <<entry, inode, info>> BY <3>2 DEF OpenLock, Flock
    <3> QED BY <1>0, <2>1, <3>3 DEF Checked, Harmless, Live
  <2> QED BY <2>2, <2>3
<1>3. ASSUME Step(p),
             ~(FlockTaken(p) \/ LstatOther(p) \/ DialOther(p) \/ RecheckChanged(p)
               \/ RemoveGone(p) \/ Appeared(p) \/ Fails(p) \/ Unlock(p) \/ Crash(p))
      PROVE  Checked(p)'
  <2>1. CASE \/ OpenLock(p) \/ Flock(p) \/ LstatClear(p) \/ Remove(p) \/ Rename(p)
             \/ Close(p) \/ Unlink(p) \/ Stage(p) \/ Chmod(p)
    <3>1. pc'[p] \notin Windows
      BY <1>0, <2>1 DEF OpenLock, Flock, LstatClear, Remove, Rename, Close, Unlink, Stage,
           Chmod, Goto, TypeOK, Windows
    <3> QED BY <3>1 DEF Checked, Windows
  <2>2. CASE LstatSocket(p) BY <1>0, <2>2 DEF LstatSocket, Goto, Checked, TypeOK
  <2>3. CASE DialRefused(p)
    BY <1>0, <2>3 DEF DialRefused, Goto, Checked, Harmless, Live, TypeOK
  <2>4. CASE Recheck(p) BY <1>0, <2>4 DEF Recheck, Goto, Checked, Harmless, Live, TypeOK
  <2>5. CASE Absent(p) BY <1>0, <2>5 DEF Absent, Goto, Checked, TypeOK
  <2>6. CASE CloseListener(p)
    <3>1. /\ pc[p] = "close" /\ pc'[p] = "lstatOwn" /\ info' = info /\ inode' = Unlistened(p)
      BY <1>0, <2>6 DEF CloseListener, Goto, TypeOK
    <3>2. info[p] \in Inodes /\ ~inode[info[p]].foreign
      BY <1>0, <3>1 DEF Own, Listening, TypeOK, Closing, None
    <3>3. inode'[info[p]].foreign = inode[info[p]].foreign
      BY <1>0, <3>1, <3>2, UnlistenedIs DEF TypeOK
    <3> QED BY <3>1, <3>2, <3>3 DEF Checked
  <2>7. CASE LstatOwn(p) BY <1>0, <2>7 DEF LstatOwn, Goto, Checked, TypeOK
  <2> QED BY <1>3, <2>1, <2>2, <2>3, <2>4, <2>5, <2>6, <2>7 DEF Step
<1>4. CASE ForeignBind \/ ForeignFile
  <2>1. PICK kind, owner :
           /\ entry' \in Free /\ inode' = [inode EXCEPT ![entry'] = Made(kind, owner, Raced)]
           /\ UNCHANGED <<pc, info>>
    BY <1>4 DEF ForeignBind, ForeignFile, Meddle
  <2>2. CASE pc[p] \notin Windows BY <2>1, <2>2 DEF Checked, Windows
  <2>3. CASE pc[p] \in Windows
    <3>1. Raced BY <2>3 DEF Raced
    <3>2. entry' \in Inodes BY <2>1 DEF Free
    <3>3. inode'[entry'].raced BY <1>0, <2>1, <3>1, <3>2 DEF Made, TypeOK
    <3>4. inode'[info[p]].foreign => inode'[info[p]].raced \/ inode'[info[p]] = inode[info[p]]
      BY <1>0, <2>1, <3>2, <3>3 DEF TypeOK
    <3> QED BY <1>0, <2>1, <3>3, <3>4 DEF Checked, Harmless
  <2> QED BY <2>2, <2>3
<1>5. CASE ForeignRemove
  BY <1>0, <1>5 DEF ForeignRemove, Meddle, Checked
<1>6. CASE ForeignDie
  <2>1. inode' = Unlistened(Foreign) /\ entry' = entry /\ pc' = pc /\ info' = info
    BY <1>6 DEF ForeignDie, Meddle
  <2> QED BY <2>1, UnlistenedKeepsChecked
<1>7. CASE UNCHANGED vars
  BY <1>0, <1>7 DEF vars, Checked, Harmless, Live
<1> QED BY <1>1, <1>2, <1>3, <1>4, <1>5, <1>6, <1>7 DEF Next, Finished

\* Three calls of an instance change what the path names, and each comes after
\* a check: Remove after the dial, Rename after Absent, Unlink after LstatOwn.
THEOREM ForeignSpared == Spec => ForeignEntriesSpared
<1>1. Init => SparedInv
  <2>1. Init => \A p \in Instances : Checked(p)
    BY DEF Init, Checked
  <2> QED BY <2>1, FilesInit, LockInit DEF SparedInv
<1>2. ASSUME SparedInv, NEW p \in Instances,
             Step(p), entry # None, inode[entry].foreign, entry' # entry
      PROVE  Harmless(entry)
  <2>1. CASE Remove(p) BY <1>2, <2>1 DEF Remove, Goto, SparedInv, Checked
  <2>2. CASE Rename(p) BY <1>2, <2>2 DEF Rename, Goto, SparedInv, Checked, Harmless
  <2>3. CASE Unlink(p) BY <1>2, <2>3 DEF Unlink, Goto, SparedInv, Checked, Harmless
  <2>4. CASE ~(Remove(p) \/ Rename(p) \/ Unlink(p))
    BY <1>2, <2>4 DEF Step, OpenLock, Flock, FlockTaken, LstatClear, LstatSocket, LstatOther,
         DialRefused, DialOther, Recheck, RecheckChanged, RemoveGone, Stage, Chmod, Absent,
         Appeared, Fails, Close, CloseListener, LstatOwn, Unlock, Crash, End
  <2> QED BY <2>1, <2>2, <2>3, <2>4
<1>3. SparedInv /\ [Next]_vars =>
        [\A p \in Instances :
            Step(p) /\ entry # None /\ inode[entry].foreign /\ entry' # entry =>
                \/ inode[entry].raced
                \/ inode[entry].kind = "socket" /\ ~Live(entry)]_vars
  BY <1>2 DEF Harmless
<1> QED BY <1>1, <1>3, SparedNext, PTL DEF Spec, ForeignEntriesSpared

-----------------------------------------------------------------------------
(* Only proxies use the directory.                                         *)

Alone == Meddling = {} /\ Before \subseteq {"nothing", "stale"}

\* At the path there is a socket nobody listens on, or that of the instance
\* that serves; an instance that prepares has it as its last check left it.
AtPath ==
    entry # None =>
        /\ inode[entry].kind = "socket"
        /\ \/ inode[entry].owner = Nobody
           \/ /\ inode[entry].owner \in Instances
              /\ pc[inode[entry].owner] \in {"serving", "close"}

InPlace(p) ==
    /\ pc[p] \in {"dial", "recheck", "remove"} => entry # None /\ entry = seen[p]
    /\ pc[p] \in {"stage"} \union Staged => entry = None
    /\ pc[p] \in {"serving", "close"} => entry = info[p]
    /\ why[p] \in {"none", "locked", "failed", "crashed"}

AloneInv == FilesInv /\ LockInv /\ AtPath /\ (\A p \in Instances : InPlace(p))

LEMMA AloneInit == ASSUME Alone PROVE Init => AloneInv
<1> SUFFICES ASSUME Init PROVE AtPath /\ \A p \in Instances : InPlace(p)
  BY FilesInit, LockInit DEF AloneInv
<1> USE ListenAssumption
<1>1. PICK b \in {"nothing", "stale"}, i \in Inodes :
         /\ entry = IF b = "nothing" THEN None ELSE i
         /\ inode = [j \in Inodes |->
                       IF j # i \/ b = "nothing" THEN Unbound
                       ELSE Made(IF b = "file" THEN "file" ELSE "socket",
                                 IF b = "live" THEN Foreign ELSE Nobody, FALSE)]
  BY DEF Init, Alone
<1>2. AtPath BY <1>1 DEF AtPath, Made
<1>3. \A p \in Instances : InPlace(p) BY DEF Init, InPlace, Staged
<1> QED BY <1>2, <1>3

\* Whoever accepts at the path is the one instance past the lock.
LEMMA LiveServes ==
    ASSUME AloneInv, NEW p \in Instances, pc[p] \in Critical, entry # None, Live(entry)
    PROVE  pc[p] \in {"serving", "close"}
<1>1. PICK q \in Instances : pc[q] \in {"serving", "close"}
  BY DEF AloneInv, AtPath, Live
<1>2. pc[q] \in Critical BY <1>1 DEF Critical, Closing
<1>3. q = p BY <1>2, ListenAssumption DEF AloneInv, LockInv, Critical, Preparing, Closing, Staged
<1> QED BY <1>1, <1>3

\* No check an instance makes finds anything in its way.
LEMMA NothingInTheWay ==
    ASSUME AloneInv, NEW p \in Instances
    PROVE  ~(LstatOther(p) \/ DialOther(p) \/ RecheckChanged(p) \/ RemoveGone(p) \/ Appeared(p))
<1> USE DEF AloneInv
<1>1. ~LstatOther(p) BY DEF LstatOther, AtPath
<1>2. ~DialOther(p)
  <2>1. pc[p] = "dial" => pc[p] \in Critical /\ entry # None
    BY DEF Critical, Preparing, InPlace
  <2> QED BY <2>1, LiveServes DEF DialOther
<1>3. ~RecheckChanged(p) BY DEF RecheckChanged, InPlace
<1>4. ~RemoveGone(p) BY DEF RemoveGone, InPlace
<1>5. ~Appeared(p) BY DEF Appeared, InPlace, Staged
<1> QED BY <1>1, <1>2, <1>3, <1>4, <1>5

LEMMA AloneNext == ASSUME Alone PROVE AloneInv /\ [Next]_vars => AloneInv'
<1> SUFFICES ASSUME AloneInv, [Next]_vars PROVE AtPath' /\ \A p \in Instances : InPlace(p)'
  BY FilesNext, LockNext DEF AloneInv
<1> USE ListenAssumption
<1>0. TypeOK /\ AtPath /\ \A p \in Instances : Own(p) /\ InPlace(p)
  BY DEF AloneInv, FilesInv
<1>1. ASSUME NEW q \in Instances, FlockTaken(q) \/ Fails(q) \/ Unlock(q) \/ Crash(q)
      PROVE  AtPath' /\ \A p \in Instances : InPlace(p)'
  <2>1. PICK reason \in {"none", "locked", "failed", "crashed"} : End(q, reason)
    BY <1>1 DEF FlockTaken, Fails, Unlock, Crash
  <2>2. /\ pc' = [pc EXCEPT ![q] = "down"] /\ info' = [info EXCEPT ![q] = None]
        /\ seen' = [seen EXCEPT ![q] = None] /\ why' = [why EXCEPT ![q] = reason]
        /\ entry' = entry /\ inode' = Unlistened(q)
    BY <2>1 DEF End
  <2>3. AtPath'
    <3>1. SUFFICES ASSUME entry # None PROVE AtPath' BY <2>2 DEF AtPath
    <3>2. entry \in Inodes BY <1>0, <3>1 DEF TypeOK
    <3>3. \A i \in Inodes : /\ inode'[i].kind = inode[i].kind
                            /\ inode[i].owner # q => inode'[i] = inode[i]
                            /\ inode[i].owner = q => inode'[i].owner = Nobody
      BY <1>0, <2>2, UnlistenedIs DEF TypeOK
    <3> QED BY <1>0, <2>2, <3>1, <3>2, <3>3 DEF AtPath, TypeOK
  <2>4. ASSUME NEW p \in Instances PROVE InPlace(p)'
    <3>1. CASE p = q BY <1>0, <2>1, <2>2, <3>1 DEF InPlace, TypeOK, Staged
    <3>2. CASE p # q BY <1>0, <2>2, <3>2 DEF InPlace, TypeOK
    <3> QED BY <3>1, <3>2
  <2> QED BY <2>3, <2>4
<1>2. ASSUME NEW q \in Instances, OpenLock(q) \/ Flock(q)
      PROVE  AtPath' /\ \A p \in Instances : InPlace(p)'
  <2>1. /\ pc[q] \notin {"serving", "close"} /\ pc'[q] \in {"flock", "lstat"}
        /\ \A p \in Instances : p # q => pc'[p] = pc[p]
        /\ UNCHANGED <<entry, inode, seen, info>>
        /\ \A p \in Instances : why'[p] \in {"none", why[p]}
    BY <1>0, <1>2 DEF OpenLock, Flock, Goto, TypeOK
  <2>2. AtPath' BY <1>0, <2>1 DEF AtPath
  <2>3. ASSUME NEW p \in Instances PROVE InPlace(p)'
    <3>1. CASE p = q BY <1>0, <2>1, <3>1 DEF InPlace, Staged
    <3>2. CASE p # q BY <1>0, <2>1, <3>2 DEF InPlace
    <3> QED BY <3>1, <3>2
  <2> QED BY <2>2, <2>3
<1>3. ASSUME NEW q \in Instances,
             \/ LstatClear(q) \/ LstatSocket(q) \/ DialRefused(q) \/ Recheck(q) \/ Remove(q)
             \/ Stage(q) \/ Chmod(q) \/ Absent(q) \/ Rename(q)
             \/ Close(q) \/ CloseListener(q) \/ LstatOwn(q) \/ Unlink(q)
      PROVE  AtPath' /\ \A p \in Instances : InPlace(p)'
  <2>1. pc[q] \in Critical /\ why' = why /\ \A p \in Instances : p # q => pc'[p] = pc[p]
    BY <1>0, <1>3 DEF LstatClear, LstatSocket, DialRefused, Recheck, Remove, Stage, Chmod, Absent,
         Rename, Close, CloseListener, LstatOwn, Unlink, Goto, TypeOK,
         Critical, Preparing, Closing, Staged
  <2>2. ASSUME NEW p \in Instances, p # q PROVE InPlace(p)'
    <3>1. pc'[p] \notin Critical
      BY <2>1, <2>2 DEF AloneInv, LockInv, Critical, Preparing, Closing, Staged
    <3> QED BY <1>0, <2>1, <3>1 DEF InPlace, Critical, Preparing, Closing, Staged
  <2>3. CASE \/ LstatClear(q) \/ LstatSocket(q) \/ DialRefused(q) \/ Recheck(q)
             \/ Absent(q) \/ Close(q) \/ LstatOwn(q)
    <3>1. InPlace(q)'
      BY <1>0, <2>3 DEF LstatClear, LstatSocket, DialRefused, Recheck, Absent, Close,
           LstatOwn, Goto, InPlace, TypeOK, Staged
    <3>2. UNCHANGED <<entry, inode>> /\ (pc[q] \in {"serving", "close"} =>
                                          pc'[q] \in {"serving", "close"})
      BY <1>0, <2>3 DEF LstatClear, LstatSocket, DialRefused, Recheck, Absent, Close,
           LstatOwn, Goto, TypeOK
    <3>3. AtPath' BY <1>0, <2>1, <3>2 DEF AtPath
    <3> QED BY <2>2, <3>1, <3>3
  <2>4. CASE Remove(q) \/ Unlink(q)
    <3>1. entry' = None /\ pc'[q] \in {"stage", "unlock"} /\ UNCHANGED <<seen, info, why>>
      BY <1>0, <2>4 DEF Remove, Unlink, Goto, TypeOK
    <3> QED BY <1>0, <2>2, <3>1 DEF AtPath, InPlace, Staged
  <2>5. CASE Stage(q)
    <3>1. entry = None BY <1>0, <2>5 DEF Stage, Goto, InPlace
    <3>2. entry' = None /\ pc'[q] = "chmod" /\ why' = why
      BY <1>0, <2>5, <3>1 DEF Stage, Goto, TypeOK
    <3> QED BY <1>0, <2>2, <3>2 DEF AtPath, InPlace, Staged
  <2>6. CASE Chmod(q)
    <3>1. entry = None BY <1>0, <2>6 DEF Chmod, Goto, InPlace, Staged
    <3>2. entry' = None /\ pc'[q] = "absent" /\ why' = why
      BY <1>0, <2>6, <3>1 DEF Chmod, Goto, TypeOK
    <3> QED BY <1>0, <2>2, <3>2 DEF AtPath, InPlace, Staged
  <2>7. CASE Rename(q)
    <3>1. /\ pc[q] = "rename" /\ pc'[q] = "serving" /\ entry' = info[q]
          /\ UNCHANGED <<inode, info, why>>
      BY <1>0, <2>7 DEF Rename, Goto, TypeOK
    <3>2. inode[info[q]].kind = "socket" /\ inode[info[q]].owner = q
      BY <1>0, <3>1 DEF Own, Listening, Staged
    <3> QED BY <1>0, <2>2, <3>1, <3>2 DEF AtPath, InPlace, Staged
  <2>8. CASE CloseListener(q)
    <3>0. inode \in [Inodes -> Files] /\ inode' = Unlistened(q)
      BY <1>0, <2>8 DEF CloseListener, TypeOK
    <3>1. pc[q] = "close" /\ pc'[q] = "lstatOwn" /\ entry' = entry /\ why' = why
      BY <1>0, <2>8 DEF CloseListener, Goto, TypeOK
    <3>2. \A i \in Inodes : /\ inode'[i].kind = inode[i].kind
                            /\ inode[i].owner # q => inode'[i] = inode[i]
                            /\ inode[i].owner = q => inode'[i].owner = Nobody
      BY <3>0, UnlistenedIs
    <3>3. entry # None => entry \in Inodes BY <1>0 DEF TypeOK
    <3>4. AtPath'
      <4>1. CASE entry = None BY <3>1, <4>1 DEF AtPath
      <4>2. CASE entry # None /\ inode[entry].owner = q
        BY <1>0, <3>1, <3>2, <3>3, <4>2 DEF AtPath
      <4>3. CASE entry # None /\ inode[entry].owner # q
        <5>1. inode'[entry] = inode[entry] BY <3>2, <3>3, <4>3
        <5> QED BY <1>0, <2>1, <3>1, <4>3, <5>1 DEF AtPath
      <4> QED BY <4>1, <4>2, <4>3
    <3> QED BY <1>0, <2>2, <3>1, <3>4 DEF InPlace, Staged
  <2> QED BY <1>3, <2>3, <2>4, <2>5, <2>6, <2>7, <2>8
<1>4. CASE ForeignBind \/ ForeignFile \/ ForeignRemove \/ ForeignDie
  BY <1>4 DEF Alone, ForeignBind, ForeignFile, ForeignRemove, ForeignDie, Meddle
<1>5. CASE UNCHANGED vars
  BY <1>0, <1>5 DEF vars, AtPath, InPlace
<1>6. \A q \in Instances :
         ~(LstatOther(q) \/ DialOther(q) \/ RecheckChanged(q) \/ RemoveGone(q) \/ Appeared(q))
  BY NothingInTheWay
<1> QED BY <1>1, <1>2, <1>3, <1>4, <1>5, <1>6 DEF Next, Step, Finished

\* From the rename to the close of its listener an instance that shares the
\* directory with proxies only is reached through the path (socket.go:40-53).
THEOREM ServingReached == ASSUME Alone PROVE Spec => []ServingIsReachable
<1>1. AloneInv => ServingIsReachable
  BY DEF AloneInv, FilesInv, ServingIsReachable, InPlace, Own, Listening
<1> QED BY <1>1, AloneInit, AloneNext, PTL DEF Spec

\* There a start ends early only because the lock is taken, a call fails or the
\* process is killed (socket.go:249-250).
THEOREM RestartsSucceed == ASSUME Alone PROVE Spec => []RestartsRecover
<1>1. AloneInv => RestartsRecover BY DEF AloneInv, RestartsRecover, InPlace
<1> QED BY <1>1, AloneInit, AloneNext, PTL DEF Spec
=============================================================================
