----------------------------- MODULE ServeProofs -----------------------------
(***************************************************************************)
(* For any number of connections and of slots, any policy and any failures *)
(* of accept: the slots are accounted for, refused clients hold nothing,   *)
(* the shutdown spares what is running until its deadline, and Serve       *)
(* returns the truth and leaves nothing open.                              *)
(***************************************************************************)
EXTENDS Serve, FiniteSetTheorems, TLAPS

Listed == {"select", "inner", "peer", "hand", "refund", "judge", "untrack"}
Ending == {"untrack", "end", "ending", "ended"}
Looping == {"look", "shut", "release"}
Last == {"receive", "returned"}
Owned == {"new", "active", "idle", "closing", "closed", "released"}

Typed ==
    /\ stage \in [Conns -> Stages]
    /\ backlog \in Seq(Conns)
    /\ open \subseteq Conns /\ charged \subseteq Conns /\ tracked \subseteq Conns
    /\ slots \in Int
    /\ once \in {"open", "closing", "closed"}
    /\ accept \in Charging \union {"track", "select", "judge", "untrack", "end",
                                   "ending", "ended"}
    /\ fault \in {"none", "temporary", "fatal", "closed"}
    /\ served \in {"none", "closed", "fatal"}
    /\ serving \in {"serve", "lock", "closing", "wait", "look", "shut", "release",
                    "pause", "receive", "returned"}
    /\ call \in {"none", "shutdown", "close"}
    /\ todo \subseteq Conns /\ target \subseteq Conns
    /\ inFlight \subseteq Conns /\ lost \subseteq Conns
    /\ registered \in BOOLEAN /\ inShutdown \in BOOLEAN /\ busy \in BOOLEAN
    /\ failed \in BOOLEAN /\ ctx \in BOOLEAN /\ deadline \in BOOLEAN
    /\ result \in {"none", "nil", "error"}
    /\ faults \in 0..MaxFaults /\ lasting \in BOOLEAN

\* The accepting goroutine and Serve: how far each is says what the other and
\* the flags between them can be.
Control ==
    /\ registered <=> accept \in Listed
    /\ serving = "serve" <=> ~inShutdown
    /\ serving = "serve" <=> call = "none"
    /\ once # "open" => inShutdown \/ lasting
    /\ accept \in {"refund", "judge"} =>
          /\ fault # "none"
          /\ fault = "temporary" \/ inShutdown \/ lasting
    /\ accept \in Ending =>
          /\ fault \in {"closed", "fatal"}
          /\ fault = "closed" => inShutdown
          /\ inShutdown \/ lasting
    /\ served # "none" <=> accept = "ended"
    /\ served # "none" => served = fault /\ once = "closed"
    /\ serving \in Looping \union Last \union {"pause"} => ~registered
    /\ serving # "serve" => ctx \/ served = "fatal"
    /\ call = "close" /\ ~failed => served = "fatal"
    /\ result # "none" <=> serving = "returned"
    /\ serving \in Last /\ call = "shutdown" => ~failed
    /\ result # "none" => served # "none"
    /\ result = "nil" => ~failed /\ served = "closed"

\* What has a descriptor, a slot and a place in activeConn, from where the
\* goroutine of each connection stands.
Ownership ==
    /\ \A c \in Conns : stage[c] = "held" => accept \in {"peer", "hand"}
    /\ \A c, d \in Conns : stage[c] = "held" /\ stage[d] = "held" => c = d
    /\ \A c \in open : stage[c] = "held" \/ (c \in charged /\ c \in tracked)
    /\ \A c \in Conns : stage[c] \in {"away", "backlog", "held"} =>
                            c \notin charged /\ c \notin tracked
    /\ \A c \in open : stage[c] \in {"held", "new", "active", "idle", "closing"}
    /\ \A c \in Conns : stage[c] = "held" /\ accept = "hand" => Permitted(c)
    /\ \A c \in Conns : stage[c] \in Owned \/ c \in charged \/ c \in tracked => Permitted(c)
    /\ \A c \in Conns : stage[c] \in Owned /\ ~inShutdown => c \in tracked

\* What the loops over activeConn have done so far.
Sweep ==
    /\ serving \in {"shut", "release"} => \E c \in Conns : target = {c}
    /\ serving \notin {"shut", "release"} => target = {}
    /\ serving = "release" => target \intersect open = {}
    /\ serving \in Looping /\ (call = "close" \/ ~busy) => open \subseteq todo \union target
    /\ serving \in Last => open = {}

\* The requests that were running when Shutdown began.
Drain ==
    /\ \A c \in inFlight : stage[c] = "active"
    /\ call = "none" => inFlight = {}
    /\ call # "close" => lost = {}
    /\ call = "shutdown" => inFlight \intersect target = {} /\ inFlight \subseteq tracked
    /\ call = "shutdown" /\ serving \in Looping /\ ~busy => inFlight \subseteq todo
    /\ call = "shutdown" /\ serving \in Last => inFlight = {}
    /\ call = "close" => deadline \/ inFlight = {}
    /\ lost # {} => deadline

Account ==
    /\ slots = Cardinality(charged) + (IF accept \in Charging THEN 1 ELSE 0)
    /\ slots <= Slots

ServeInv == Typed /\ Control /\ Ownership /\ Sweep /\ Drain

LEMMA ServeInit == Init => ServeInv
<1> USE DEF Init, Stages, Charging, Listed, Ending, Looping, Last, Owned
<1>1. ASSUME Init PROVE Typed
  <2>1. /\ registered \in BOOLEAN /\ inShutdown \in BOOLEAN /\ busy \in BOOLEAN /\ lasting \in BOOLEAN
        /\ failed \in BOOLEAN /\ ctx \in BOOLEAN /\ deadline \in BOOLEAN
    BY <1>1, Zenon
  <2> QED BY <1>1, <2>1, ServeAssumption DEF Typed
<1>2. Init => Control BY DEF Control
<1>3. Init => Ownership BY DEF Ownership
<1>4. Init => Sweep /\ Drain BY DEF Sweep, Drain
<1> QED BY <1>1, <1>2, <1>3, <1>4 DEF ServeInv

LEMMA TypedNext ==
    ASSUME ServeInv, [Next]_vars
    PROVE  Typed'
<1> USE ServeAssumption DEF ServeInv, Typed, Stages, Charging, conns, acceptor, failures, shutting, history, flags
<1>1. ASSUME Track PROVE Typed'
  <2>1. registered' \in BOOLEAN BY <1>1, Zenon DEF Track
  <2> QED BY <1>1, <2>1 DEF Track, Loop
<1>2. ASSUME TakeSlot PROVE Typed'
  BY <1>2 DEF TakeSlot, Loop
<1>3. ASSUME SeeDone PROVE Typed'
  BY <1>3 DEF SeeDone, Loop
<1>4. ASSUME AcceptConn PROVE Typed'
  <2>1. Head(backlog) \in Conns BY <1>4 DEF AcceptConn, Move
  <2> QED BY <1>4, <2>1 DEF AcceptConn, Move, Loop
<1>5. ASSUME AcceptFault PROVE Typed'
  <2>1. lasting' \in BOOLEAN BY <1>5, Zenon DEF AcceptFault
  <2> QED BY <1>5, <2>1 DEF AcceptFault, Loop
<1>6. ASSUME Refund PROVE Typed'
  BY <1>6 DEF Refund, Loop
<1>7. ASSUME NEW c \in Conns, Admit(c) PROVE Typed'
  BY <1>7 DEF Admit, Loop
<1>8. ASSUME NEW c \in Conns, Reject(c) PROVE Typed'
  BY <1>8 DEF Reject, Move, Loop
<1>9. ASSUME NEW c \in Conns, Hand(c) PROVE Typed'
  BY <1>9 DEF Hand, Move, Loop
<1>10. ASSUME Judge PROVE Typed'
  BY <1>10 DEF Judge, Loop
<1>11. ASSUME Untrack PROVE Typed'
  <2>1. registered' \in BOOLEAN BY <1>11, Zenon DEF Untrack
  <2> QED BY <1>11, <2>1 DEF Untrack, Loop
<1>12. ASSUME CloseDone PROVE Typed'
  BY <1>12 DEF CloseDone, Loop
<1>13. ASSUME CloseInner PROVE Typed'
  BY <1>13 DEF CloseInner, CloseSocket, Loop
<1>14. ASSUME Report PROVE Typed'
  BY <1>14 DEF Report, Loop, Control, Ending
<1>15. ASSUME ServedFirst PROVE Typed'
  BY <1>15 DEF ServedFirst, Step
<1>16. ASSUME Shutdown PROVE Typed'
  BY <1>16 DEF Shutdown, Step
<1>17. ASSUME CloseListeners PROVE Typed'
  BY <1>17 DEF CloseListeners, Step
<1>18. ASSUME ListenersClosed PROVE Typed'
  <2>1. failed' \in BOOLEAN BY <1>18, Zenon DEF ListenersClosed
  <2> QED BY <1>18, <2>1 DEF ListenersClosed, CloseSocket, Step
<1>19. ASSUME StartLoop PROVE Typed'
  <2>1. busy' \in BOOLEAN BY <1>19, Zenon DEF StartLoop
  <2> QED BY <1>19, <2>1 DEF StartLoop, Step
<1>20. ASSUME NEW c \in Conns, Look(c) PROVE Typed'
  <2>1. busy' \in BOOLEAN BY <1>20, Zenon DEF Look
  <2> QED BY <1>20, <2>1 DEF Look, Step
<1>21. ASSUME NEW c \in Conns, Shut(c) PROVE Typed'
  BY <1>21 DEF Shut, Step
<1>22. ASSUME NEW c \in Conns, ReleaseShut(c) PROVE Typed'
  BY <1>22 DEF ReleaseShut, release, Step
<1>23. ASSUME LoopOver PROVE Typed'
  BY <1>23 DEF LoopOver, Step
<1>24. ASSUME GiveUp PROVE Typed'
  BY <1>24 DEF GiveUp, Step
<1>25. ASSUME Again PROVE Typed'
  BY <1>25 DEF Again, Step
<1>26. ASSUME Return PROVE Typed'
  BY <1>26 DEF Return, Step
<1>27. ASSUME Signal PROVE Typed'
  BY <1>27 DEF Signal
<1>28. ASSUME Expire PROVE Typed'
  BY <1>28 DEF Expire
<1>29. ASSUME NEW c \in Conns, Connect(c) PROVE Typed'
  BY <1>29 DEF Connect, Move
<1>30. ASSUME NEW c \in Conns, ReadRequest(c) PROVE Typed'
  BY <1>30 DEF ReadRequest, Move
<1>31. ASSUME NEW c \in Conns, Finish(c) PROVE Typed'
  BY <1>31 DEF Finish, Move
<1>32. ASSUME NEW c \in Conns, HangUp(c) PROVE Typed'
  BY <1>32 DEF HangUp, Move
<1>33. ASSUME NEW c \in Conns, CloseConn(c) PROVE Typed'
  BY <1>33 DEF CloseConn, Move
<1>34. ASSUME NEW c \in Conns, ReleaseConn(c) PROVE Typed'
  BY <1>34 DEF ReleaseConn, Move, release
<1>35. ASSUME NEW c \in Conns, Forget(c) PROVE Typed'
  BY <1>35 DEF Forget, Move
<1>36. CASE UNCHANGED vars BY <1>36 DEF vars
<1> QED
  BY <1>1, <1>2, <1>3, <1>4, <1>5, <1>6, <1>7, <1>8, <1>9, <1>10, <1>11, <1>12, <1>13, <1>14, <1>15, <1>16, <1>17,
     <1>18, <1>19, <1>20, <1>21, <1>22, <1>23, <1>24, <1>25, <1>26, <1>27, <1>28, <1>29, <1>30, <1>31, <1>32, <1>33, <1>34, <1>35, <1>36
  DEF Next, AcceptLoop, ServeCall, Converse, Part, Over

LEMMA ControlNext ==
    ASSUME ServeInv, [Next]_vars
    PROVE  Control'
<1> USE ServeAssumption DEF ServeInv, Typed, Control, Charging, Listed, Ending,
        Looping, Last, MuHeld, conns, acceptor, failures, shutting, history, flags
<1>1. ASSUME Track PROVE Control'
  BY <1>1 DEF Track, Loop
<1>2. ASSUME TakeSlot PROVE Control'
  BY <1>2 DEF TakeSlot, Loop
<1>3. ASSUME SeeDone PROVE Control'
  BY <1>3 DEF SeeDone, Loop
<1>4. ASSUME AcceptConn PROVE Control'
  BY <1>4 DEF AcceptConn, Move, Loop
<1>5. ASSUME AcceptFault PROVE Control'
  BY <1>5 DEF AcceptFault, Loop
<1>6. ASSUME Refund PROVE Control'
  BY <1>6 DEF Refund, Loop
<1>7. ASSUME NEW c \in Conns, Admit(c) PROVE Control'
  BY <1>7 DEF Admit, Loop
<1>8. ASSUME NEW c \in Conns, Reject(c) PROVE Control'
  BY <1>8 DEF Reject, Move, Loop
<1>9. ASSUME NEW c \in Conns, Hand(c) PROVE Control'
  BY <1>9 DEF Hand, Move, Loop
<1>10. ASSUME Judge PROVE Control'
  BY <1>10 DEF Judge, Loop
<1>11. ASSUME Untrack PROVE Control'
  BY <1>11 DEF Untrack, Loop
<1>12. ASSUME CloseDone PROVE Control'
  BY <1>12 DEF CloseDone, Loop
<1>13. ASSUME CloseInner PROVE Control'
  BY <1>13 DEF CloseInner, CloseSocket, Loop
<1>14. ASSUME Report PROVE Control'
  BY <1>14 DEF Report, Loop
<1>15. ASSUME ServedFirst PROVE Control'
  BY <1>15 DEF ServedFirst, Step
<1>16. ASSUME Shutdown PROVE Control'
  BY <1>16 DEF Shutdown, Step
<1>17. ASSUME CloseListeners PROVE Control'
  BY <1>17 DEF CloseListeners, Step
<1>18. ASSUME ListenersClosed PROVE Control'
  BY <1>18 DEF ListenersClosed, CloseSocket, Step
<1>19. ASSUME StartLoop PROVE Control'
  BY <1>19 DEF StartLoop, Step
<1>20. ASSUME NEW c \in Conns, Look(c) PROVE Control'
  BY <1>20 DEF Look, Step
<1>21. ASSUME NEW c \in Conns, Shut(c) PROVE Control'
  BY <1>21 DEF Shut, Step
<1>22. ASSUME NEW c \in Conns, ReleaseShut(c) PROVE Control'
  BY <1>22 DEF ReleaseShut, release, Step
<1>23. ASSUME LoopOver PROVE Control'
  BY <1>23 DEF LoopOver, Step
<1>24. ASSUME GiveUp PROVE Control'
  BY <1>24 DEF GiveUp, Step
<1>25. ASSUME Again PROVE Control'
  BY <1>25 DEF Again, Step
<1>26. ASSUME Return PROVE Control'
  BY <1>26 DEF Return, Step
<1>27. ASSUME Signal PROVE Control'
  BY <1>27 DEF Signal
<1>28. ASSUME Expire PROVE Control'
  BY <1>28 DEF Expire
<1>29. ASSUME NEW c \in Conns, Connect(c) PROVE Control'
  BY <1>29 DEF Connect, Move
<1>30. ASSUME NEW c \in Conns, ReadRequest(c) PROVE Control'
  BY <1>30 DEF ReadRequest, Move
<1>31. ASSUME NEW c \in Conns, Finish(c) PROVE Control'
  BY <1>31 DEF Finish, Move
<1>32. ASSUME NEW c \in Conns, HangUp(c) PROVE Control'
  BY <1>32 DEF HangUp, Move
<1>33. ASSUME NEW c \in Conns, CloseConn(c) PROVE Control'
  BY <1>33 DEF CloseConn, Move
<1>34. ASSUME NEW c \in Conns, ReleaseConn(c) PROVE Control'
  BY <1>34 DEF ReleaseConn, Move, release
<1>35. ASSUME NEW c \in Conns, Forget(c) PROVE Control'
  BY <1>35 DEF Forget, Move
<1>36. CASE UNCHANGED vars BY <1>36 DEF vars
<1> QED
  BY <1>1, <1>2, <1>3, <1>4, <1>5, <1>6, <1>7, <1>8, <1>9, <1>10, <1>11, <1>12, <1>13, <1>14, <1>15, <1>16, <1>17,
     <1>18, <1>19, <1>20, <1>21, <1>22, <1>23, <1>24, <1>25, <1>26, <1>27, <1>28, <1>29, <1>30, <1>31, <1>32, <1>33, <1>34, <1>35, <1>36
  DEF Next, AcceptLoop, ServeCall, Converse, Part, Over

LEMMA OwnershipNext ==
    ASSUME ServeInv, [Next]_vars
    PROVE  Ownership'
<1> USE DEF ServeInv, Typed, Control, Ownership, Stages, Charging, Listed, Owned, MuHeld,
        conns, acceptor, failures, shutting, history, flags
<1>1. ASSUME Track PROVE Ownership'
  BY <1>1 DEF Track, Loop
<1>2. ASSUME TakeSlot PROVE Ownership'
  BY <1>2 DEF TakeSlot, Loop
<1>3. ASSUME SeeDone PROVE Ownership'
  BY <1>3 DEF SeeDone, Loop
<1>4. ASSUME AcceptConn PROVE Ownership'
  <2>1. ASSUME Empty PROVE \A c \in Conns : Permitted(c)
    BY <2>1 DEF Empty, Permitted
  <2>2. Head(backlog) \in Conns BY <1>4 DEF AcceptConn
  <2> QED BY <1>4, <2>1, <2>2 DEF AcceptConn, Move, Loop
<1>5. ASSUME AcceptFault PROVE Ownership'
  BY <1>5 DEF AcceptFault, Loop
<1>6. ASSUME Refund PROVE Ownership'
  BY <1>6 DEF Refund, Loop
<1>7. ASSUME NEW c \in Conns, Admit(c) PROVE Ownership'
  <2>1. Permitted(c) BY <1>7 DEF Admit, Allows, Permitted
  <2> QED BY <1>7, <2>1 DEF Admit, Loop
<1>8. ASSUME NEW c \in Conns, Reject(c) PROVE Ownership'
  BY <1>8 DEF Reject, Move, Loop
<1>9. ASSUME NEW c \in Conns, Hand(c) PROVE Ownership'
  BY <1>9 DEF Hand, Move, Loop
<1>10. ASSUME Judge PROVE Ownership'
  BY <1>10 DEF Judge, Loop
<1>11. ASSUME Untrack PROVE Ownership'
  BY <1>11 DEF Untrack, Loop
<1>12. ASSUME CloseDone PROVE Ownership'
  BY <1>12 DEF CloseDone, Loop
<1>13. ASSUME CloseInner PROVE Ownership'
  BY <1>13 DEF CloseInner, CloseSocket, Loop
<1>14. ASSUME Report PROVE Ownership'
  BY <1>14 DEF Report, Loop
<1>15. ASSUME ServedFirst PROVE Ownership'
  BY <1>15 DEF ServedFirst, Step
<1>16. ASSUME Shutdown PROVE Ownership'
  BY <1>16 DEF Shutdown, Step
<1>17. ASSUME CloseListeners PROVE Ownership'
  BY <1>17 DEF CloseListeners, Step
<1>18. ASSUME ListenersClosed PROVE Ownership'
  BY <1>18 DEF ListenersClosed, CloseSocket, Step
<1>19. ASSUME StartLoop PROVE Ownership'
  BY <1>19 DEF StartLoop, Step
<1>20. ASSUME NEW c \in Conns, Look(c) PROVE Ownership'
  BY <1>20 DEF Look, Step
<1>21. ASSUME NEW c \in Conns, Shut(c) PROVE Ownership'
  BY <1>21 DEF Shut, Step
<1>22. ASSUME NEW c \in Conns, ReleaseShut(c) PROVE Ownership'
  BY <1>22 DEF ReleaseShut, release, Step, Sweep
<1>23. ASSUME LoopOver PROVE Ownership'
  BY <1>23 DEF LoopOver, Step
<1>24. ASSUME GiveUp PROVE Ownership'
  BY <1>24 DEF GiveUp, Step
<1>25. ASSUME Again PROVE Ownership'
  BY <1>25 DEF Again, Step
<1>26. ASSUME Return PROVE Ownership'
  BY <1>26 DEF Return, Step
<1>27. ASSUME Signal PROVE Ownership'
  BY <1>27 DEF Signal
<1>28. ASSUME Expire PROVE Ownership'
  BY <1>28 DEF Expire
<1>29. ASSUME NEW c \in Conns, Connect(c) PROVE Ownership'
  BY <1>29 DEF Connect, Move
<1>30. ASSUME NEW c \in Conns, ReadRequest(c) PROVE Ownership'
  BY <1>30 DEF ReadRequest, Move
<1>31. ASSUME NEW c \in Conns, Finish(c) PROVE Ownership'
  BY <1>31 DEF Finish, Move
<1>32. ASSUME NEW c \in Conns, HangUp(c) PROVE Ownership'
  BY <1>32 DEF HangUp, Move
<1>33. ASSUME NEW c \in Conns, CloseConn(c) PROVE Ownership'
  BY <1>33 DEF CloseConn, Move
<1>34. ASSUME NEW c \in Conns, ReleaseConn(c) PROVE Ownership'
  BY <1>34 DEF ReleaseConn, Move, release
<1>35. ASSUME NEW c \in Conns, Forget(c) PROVE Ownership'
  BY <1>35 DEF Forget, Move
<1>36. CASE UNCHANGED vars BY <1>36 DEF vars
<1> QED
  BY <1>1, <1>2, <1>3, <1>4, <1>5, <1>6, <1>7, <1>8, <1>9, <1>10, <1>11, <1>12, <1>13, <1>14, <1>15, <1>16, <1>17,
     <1>18, <1>19, <1>20, <1>21, <1>22, <1>23, <1>24, <1>25, <1>26, <1>27, <1>28, <1>29, <1>30, <1>31, <1>32, <1>33, <1>34, <1>35, <1>36
  DEF Next, AcceptLoop, ServeCall, Converse, Part, Over

LEMMA SweepNext ==
    ASSUME ServeInv, [Next]_vars
    PROVE  Sweep'
<1> USE DEF ServeInv, Typed, Control, Ownership, Sweep, Stages, Charging, Listed,
        Looping, Last, MuHeld, conns, acceptor, failures, shutting, history, flags
<1>1. ASSUME Track PROVE Sweep'
  BY <1>1 DEF Track, Loop
<1>2. ASSUME TakeSlot PROVE Sweep'
  BY <1>2 DEF TakeSlot, Loop
<1>3. ASSUME SeeDone PROVE Sweep'
  BY <1>3 DEF SeeDone, Loop
<1>4. ASSUME AcceptConn PROVE Sweep'
  BY <1>4 DEF AcceptConn, Move, Loop
<1>5. ASSUME AcceptFault PROVE Sweep'
  BY <1>5 DEF AcceptFault, Loop
<1>6. ASSUME Refund PROVE Sweep'
  BY <1>6 DEF Refund, Loop
<1>7. ASSUME NEW c \in Conns, Admit(c) PROVE Sweep'
  BY <1>7 DEF Admit, Loop
<1>8. ASSUME NEW c \in Conns, Reject(c) PROVE Sweep'
  BY <1>8 DEF Reject, Move, Loop
<1>9. ASSUME NEW c \in Conns, Hand(c) PROVE Sweep'
  BY <1>9 DEF Hand, Move, Loop
<1>10. ASSUME Judge PROVE Sweep'
  BY <1>10 DEF Judge, Loop
<1>11. ASSUME Untrack PROVE Sweep'
  BY <1>11 DEF Untrack, Loop
<1>12. ASSUME CloseDone PROVE Sweep'
  BY <1>12 DEF CloseDone, Loop
<1>13. ASSUME CloseInner PROVE Sweep'
  BY <1>13 DEF CloseInner, CloseSocket, Loop
<1>14. ASSUME Report PROVE Sweep'
  BY <1>14 DEF Report, Loop
<1>15. ASSUME ServedFirst PROVE Sweep'
  BY <1>15 DEF ServedFirst, Step
<1>16. ASSUME Shutdown PROVE Sweep'
  BY <1>16 DEF Shutdown, Step
<1>17. ASSUME CloseListeners PROVE Sweep'
  BY <1>17 DEF CloseListeners, Step
<1>18. ASSUME ListenersClosed PROVE Sweep'
  BY <1>18 DEF ListenersClosed, CloseSocket, Step
<1>19. ASSUME StartLoop PROVE Sweep'
  BY <1>19 DEF StartLoop, Step
<1>20. ASSUME NEW c \in Conns, Look(c) PROVE Sweep'
  BY <1>20 DEF Look, Step
<1>21. ASSUME NEW c \in Conns, Shut(c) PROVE Sweep'
  BY <1>21 DEF Shut, Step
<1>22. ASSUME NEW c \in Conns, ReleaseShut(c) PROVE Sweep'
  BY <1>22 DEF ReleaseShut, release, Step
<1>23. ASSUME LoopOver PROVE Sweep'
  BY <1>23 DEF LoopOver, Step
<1>24. ASSUME GiveUp PROVE Sweep'
  BY <1>24 DEF GiveUp, Step
<1>25. ASSUME Again PROVE Sweep'
  BY <1>25 DEF Again, Step
<1>26. ASSUME Return PROVE Sweep'
  BY <1>26 DEF Return, Step
<1>27. ASSUME Signal PROVE Sweep'
  BY <1>27 DEF Signal
<1>28. ASSUME Expire PROVE Sweep'
  BY <1>28 DEF Expire
<1>29. ASSUME NEW c \in Conns, Connect(c) PROVE Sweep'
  BY <1>29 DEF Connect, Move
<1>30. ASSUME NEW c \in Conns, ReadRequest(c) PROVE Sweep'
  BY <1>30 DEF ReadRequest, Move
<1>31. ASSUME NEW c \in Conns, Finish(c) PROVE Sweep'
  BY <1>31 DEF Finish, Move
<1>32. ASSUME NEW c \in Conns, HangUp(c) PROVE Sweep'
  BY <1>32 DEF HangUp, Move
<1>33. ASSUME NEW c \in Conns, CloseConn(c) PROVE Sweep'
  BY <1>33 DEF CloseConn, Move
<1>34. ASSUME NEW c \in Conns, ReleaseConn(c) PROVE Sweep'
  BY <1>34 DEF ReleaseConn, Move, release
<1>35. ASSUME NEW c \in Conns, Forget(c) PROVE Sweep'
  BY <1>35 DEF Forget, Move
<1>36. CASE UNCHANGED vars BY <1>36 DEF vars
<1> QED
  BY <1>1, <1>2, <1>3, <1>4, <1>5, <1>6, <1>7, <1>8, <1>9, <1>10, <1>11, <1>12, <1>13, <1>14, <1>15, <1>16, <1>17,
     <1>18, <1>19, <1>20, <1>21, <1>22, <1>23, <1>24, <1>25, <1>26, <1>27, <1>28, <1>29, <1>30, <1>31, <1>32, <1>33, <1>34, <1>35, <1>36
  DEF Next, AcceptLoop, ServeCall, Converse, Part, Over

LEMMA DrainNext ==
    ASSUME ServeInv, [Next]_vars
    PROVE  Drain'
<1> USE DEF ServeInv, Typed, Control, Ownership, Sweep, Drain, Stages, Charging,
        Listed, Looping, Last, Owned, MuHeld, conns, acceptor, failures, shutting, history, flags
<1>1. ASSUME Track PROVE Drain'
  BY <1>1 DEF Track, Loop
<1>2. ASSUME TakeSlot PROVE Drain'
  BY <1>2 DEF TakeSlot, Loop
<1>3. ASSUME SeeDone PROVE Drain'
  BY <1>3 DEF SeeDone, Loop
<1>4. ASSUME AcceptConn PROVE Drain'
  BY <1>4 DEF AcceptConn, Move, Loop
<1>5. ASSUME AcceptFault PROVE Drain'
  BY <1>5 DEF AcceptFault, Loop
<1>6. ASSUME Refund PROVE Drain'
  BY <1>6 DEF Refund, Loop
<1>7. ASSUME NEW c \in Conns, Admit(c) PROVE Drain'
  BY <1>7 DEF Admit, Loop
<1>8. ASSUME NEW c \in Conns, Reject(c) PROVE Drain'
  BY <1>8 DEF Reject, Move, Loop
<1>9. ASSUME NEW c \in Conns, Hand(c) PROVE Drain'
  BY <1>9 DEF Hand, Move, Loop
<1>10. ASSUME Judge PROVE Drain'
  BY <1>10 DEF Judge, Loop
<1>11. ASSUME Untrack PROVE Drain'
  BY <1>11 DEF Untrack, Loop
<1>12. ASSUME CloseDone PROVE Drain'
  BY <1>12 DEF CloseDone, Loop
<1>13. ASSUME CloseInner PROVE Drain'
  BY <1>13 DEF CloseInner, CloseSocket, Loop
<1>14. ASSUME Report PROVE Drain'
  BY <1>14 DEF Report, Loop
<1>15. ASSUME ServedFirst PROVE Drain'
  BY <1>15 DEF ServedFirst, Step
<1>16. ASSUME Shutdown PROVE Drain'
  BY <1>16 DEF Shutdown, Step
<1>17. ASSUME CloseListeners PROVE Drain'
  BY <1>17 DEF CloseListeners, Step
<1>18. ASSUME ListenersClosed PROVE Drain'
  BY <1>18 DEF ListenersClosed, CloseSocket, Step
<1>19. ASSUME StartLoop PROVE Drain'
  BY <1>19 DEF StartLoop, Step
<1>20. ASSUME NEW c \in Conns, Look(c) PROVE Drain'
  BY <1>20 DEF Look, Step
<1>21. ASSUME NEW c \in Conns, Shut(c) PROVE Drain'
  BY <1>21 DEF Shut, Step
<1>22. ASSUME NEW c \in Conns, ReleaseShut(c) PROVE Drain'
  BY <1>22 DEF ReleaseShut, release, Step
<1>23. ASSUME LoopOver PROVE Drain'
  BY <1>23 DEF LoopOver, Step
<1>24. ASSUME GiveUp PROVE Drain'
  BY <1>24 DEF GiveUp, Step
<1>25. ASSUME Again PROVE Drain'
  BY <1>25 DEF Again, Step
<1>26. ASSUME Return PROVE Drain'
  BY <1>26 DEF Return, Step
<1>27. ASSUME Signal PROVE Drain'
  BY <1>27 DEF Signal
<1>28. ASSUME Expire PROVE Drain'
  BY <1>28 DEF Expire
<1>29. ASSUME NEW c \in Conns, Connect(c) PROVE Drain'
  BY <1>29 DEF Connect, Move
<1>30. ASSUME NEW c \in Conns, ReadRequest(c) PROVE Drain'
  BY <1>30 DEF ReadRequest, Move
<1>31. ASSUME NEW c \in Conns, Finish(c) PROVE Drain'
  BY <1>31 DEF Finish, Move
<1>32. ASSUME NEW c \in Conns, HangUp(c) PROVE Drain'
  BY <1>32 DEF HangUp, Move
<1>33. ASSUME NEW c \in Conns, CloseConn(c) PROVE Drain'
  BY <1>33 DEF CloseConn, Move
<1>34. ASSUME NEW c \in Conns, ReleaseConn(c) PROVE Drain'
  BY <1>34 DEF ReleaseConn, Move, release
<1>35. ASSUME NEW c \in Conns, Forget(c) PROVE Drain'
  BY <1>35 DEF Forget, Move
<1>36. CASE UNCHANGED vars BY <1>36 DEF vars
<1> QED
  BY <1>1, <1>2, <1>3, <1>4, <1>5, <1>6, <1>7, <1>8, <1>9, <1>10, <1>11, <1>12, <1>13, <1>14, <1>15, <1>16, <1>17,
     <1>18, <1>19, <1>20, <1>21, <1>22, <1>23, <1>24, <1>25, <1>26, <1>27, <1>28, <1>29, <1>30, <1>31, <1>32, <1>33, <1>34, <1>35, <1>36
  DEF Next, AcceptLoop, ServeCall, Converse, Part, Over

LEMMA ServeInvariant == Spec => []ServeInv
<1>1. ServeInv /\ [Next]_vars => ServeInv'
  BY TypedNext, ControlNext, OwnershipNext, SweepNext, DrainNext DEF ServeInv
<1> QED BY ServeInit, <1>1, PTL DEF Spec

-----------------------------------------------------------------------------
\* A client the policy refuses is never read from and has no slot of its own.
THEOREM RefusedNeverServed == Spec => []RefusedHoldNothing
<1>1. ServeInv => RefusedHoldNothing
  BY DEF ServeInv, Ownership, Owned, RefusedHoldNothing
<1> QED BY <1>1, ServeInvariant, PTL

\* The accept loop ends for the signal or for a failure of accept that will not
\* pass (server.go:56-64, peer.go:137-159).
THEOREM ClientsNeverStopIt == Spec => []ClientsCannotStopIt
<1>1. ServeInv => ClientsCannotStopIt
  BY DEF ServeInv, Control, Ending, ClientsCannotStopIt
<1> QED BY <1>1, ServeInvariant, PTL

\* A shutdown cuts no request that was running when it began before its
\* deadline.
THEOREM ShutdownSpares == Spec => []DrainingSparesRequests
<1>1. ServeInv => DrainingSparesRequests
  BY DEF ServeInv, Typed, Control, Drain, Last, DrainingSparesRequests
<1> QED BY <1>1, ServeInvariant, PTL

\* Serve that returns nil has seen the requests that were running when Shutdown
\* began all answered.
THEOREM ShutdownDrains == Spec => []NilMeansDrained
<1>1. ServeInv => NilMeansDrained
  BY DEF ServeInv, Typed, Control, Drain, Last, NilMeansDrained
<1> QED BY <1>1, ServeInvariant, PTL

\* When Serve has returned, by whichever path, nothing is open and nobody
\* accepts.
THEOREM ServeCleansUp == Spec => []NothingLeftBehind
<1>1. ServeInv => NothingLeftBehind
  <2> SUFFICES ASSUME ServeInv, result # "none" PROVE
        open = {} /\ once = "closed" /\ accept = "ended"
    BY DEF NothingLeftBehind
  <2>1. serving = "returned" BY DEF ServeInv, Control
  <2>2. open = {} BY <2>1 DEF ServeInv, Sweep, Last
  <2>3. served # "none" BY <2>1 DEF ServeInv, Control
  <2> QED BY <2>2, <2>3 DEF ServeInv, Control
<1> QED BY <1>1, ServeInvariant, PTL

-----------------------------------------------------------------------------
LEMMA ChargedFinite ==
    ASSUME ServeInv
    PROVE  IsFiniteSet(charged) /\ Cardinality(charged) \in Nat
BY ServeAssumption, FS_Subset, FS_CardinalityType DEF ServeInv, Typed

\* limitedConn.Close gives back the slot of a connection that has one.
LEMMA ReleaseAccount ==
    ASSUME ServeInv, Account, NEW c \in Conns, release(c), UNCHANGED accept
    PROVE  Account'
<1>1. IsFiniteSet(charged) /\ Cardinality(charged) \in Nat BY ChargedFinite
<1>2. CASE c \in charged
  <2>1. Cardinality(charged') = Cardinality(charged) - 1
    BY <1>1, <1>2, FS_RemoveElement DEF release
  <2> QED BY <1>1, <1>2, <2>1, ServeAssumption
      DEF Account, release, Charging, ServeInv, Typed, Slots
<1>3. CASE c \notin charged
  BY <1>3 DEF Account, release, Charging
<1> QED BY <1>2, <1>3

LEMMA AccountInit == Init => Account
BY ServeAssumption, FS_EmptySet DEF Init, Account, Charging, Slots

LEMMA AccountNext ==
    ASSUME ServeInv, Account, [Next]_vars
    PROVE  Account'
<1> USE DEF Account, Charging, Slots, ServeInv, Typed, conns, acceptor, failures, shutting, history, flags
<1>1. ASSUME Track PROVE Account'
  BY <1>1 DEF Track, Loop
<1>2. ASSUME TakeSlot PROVE Account'
  <2>1. Cardinality(charged) \in Nat /\ Slots \in Int BY ChargedFinite, ServeAssumption DEF Slots
  <2> QED BY <1>2, <2>1 DEF TakeSlot, Loop
<1>3. ASSUME SeeDone PROVE Account'
  BY <1>3 DEF SeeDone, Loop
<1>4. ASSUME AcceptConn PROVE Account'
  BY <1>4 DEF AcceptConn, Move, Loop
<1>5. ASSUME AcceptFault PROVE Account'
  BY <1>5 DEF AcceptFault, Loop
<1>6. ASSUME Refund PROVE Account'
  <2>1. Cardinality(charged) \in Nat /\ Slots \in Int BY ChargedFinite, ServeAssumption DEF Slots
  <2> QED BY <1>6, <2>1 DEF Refund, Loop
<1>7. ASSUME NEW c \in Conns, Admit(c) PROVE Account'
  BY <1>7 DEF Admit, Loop
<1>8. ASSUME NEW c \in Conns, Reject(c) PROVE Account'
  BY <1>8 DEF Reject, Move, Loop
<1>9. ASSUME NEW c \in Conns, Hand(c) PROVE Account'
  <2>1. c \notin charged BY <1>9 DEF Hand, Move, ServeInv, Ownership
  <2>2. Cardinality(charged') = Cardinality(charged) + 1
    BY <1>9, <2>1, ChargedFinite, FS_AddElement DEF Hand
  <2> QED BY <1>9, <2>2, ChargedFinite DEF Hand, Loop
<1>10. ASSUME Judge PROVE Account'
  BY <1>10 DEF Judge, Loop
<1>11. ASSUME Untrack PROVE Account'
  BY <1>11 DEF Untrack, Loop
<1>12. ASSUME CloseDone PROVE Account'
  BY <1>12 DEF CloseDone, Loop
<1>13. ASSUME CloseInner PROVE Account'
  BY <1>13 DEF CloseInner, CloseSocket, Loop
<1>14. ASSUME Report PROVE Account'
  BY <1>14 DEF Report, Loop
<1>15. ASSUME ServedFirst PROVE Account'
  BY <1>15 DEF ServedFirst, Step
<1>16. ASSUME Shutdown PROVE Account'
  BY <1>16 DEF Shutdown, Step
<1>17. ASSUME CloseListeners PROVE Account'
  BY <1>17 DEF CloseListeners, Step
<1>18. ASSUME ListenersClosed PROVE Account'
  BY <1>18 DEF ListenersClosed, CloseSocket, Step
<1>19. ASSUME StartLoop PROVE Account'
  BY <1>19 DEF StartLoop, Step
<1>20. ASSUME NEW c \in Conns, Look(c) PROVE Account'
  BY <1>20 DEF Look, Step
<1>21. ASSUME NEW c \in Conns, Shut(c) PROVE Account'
  BY <1>21 DEF Shut, Step
<1>22. ASSUME NEW c \in Conns, ReleaseShut(c) PROVE Account'
  BY <1>22, ReleaseAccount DEF ReleaseShut
<1>23. ASSUME LoopOver PROVE Account'
  BY <1>23 DEF LoopOver, Step
<1>24. ASSUME GiveUp PROVE Account'
  BY <1>24 DEF GiveUp, Step
<1>25. ASSUME Again PROVE Account'
  BY <1>25 DEF Again, Step
<1>26. ASSUME Return PROVE Account'
  BY <1>26 DEF Return, Step
<1>27. ASSUME Signal PROVE Account'
  BY <1>27 DEF Signal
<1>28. ASSUME Expire PROVE Account'
  BY <1>28 DEF Expire
<1>29. ASSUME NEW c \in Conns, Connect(c) PROVE Account'
  BY <1>29 DEF Connect, Move
<1>30. ASSUME NEW c \in Conns, ReadRequest(c) PROVE Account'
  BY <1>30 DEF ReadRequest, Move
<1>31. ASSUME NEW c \in Conns, Finish(c) PROVE Account'
  BY <1>31 DEF Finish, Move
<1>32. ASSUME NEW c \in Conns, HangUp(c) PROVE Account'
  BY <1>32 DEF HangUp, Move
<1>33. ASSUME NEW c \in Conns, CloseConn(c) PROVE Account'
  BY <1>33 DEF CloseConn, Move
<1>34. ASSUME NEW c \in Conns, ReleaseConn(c) PROVE Account'
  BY <1>34, ReleaseAccount DEF ReleaseConn
<1>35. ASSUME NEW c \in Conns, Forget(c) PROVE Account'
  BY <1>35 DEF Forget, Move
<1>36. CASE UNCHANGED vars BY <1>36 DEF vars
<1> QED
  BY <1>1, <1>2, <1>3, <1>4, <1>5, <1>6, <1>7, <1>8, <1>9, <1>10, <1>11, <1>12, <1>13, <1>14, <1>15, <1>16, <1>17,
     <1>18, <1>19, <1>20, <1>21, <1>22, <1>23, <1>24, <1>25, <1>26, <1>27, <1>28, <1>29, <1>30, <1>31, <1>32, <1>33, <1>34, <1>35, <1>36
  DEF Next, AcceptLoop, ServeCall, Converse, Part, Over

LEMMA AccountInvariant == Spec => []Account
BY AccountInit, AccountNext, ServeInvariant, PTL DEF Spec

\* Type correctness, the bound of the slots channel included.
THEOREM ServeTypes == Spec => []TypeOK
<1>1. ServeInv /\ Account => TypeOK
  <2> SUFFICES ASSUME ServeInv, Account PROVE TypeOK OBVIOUS
  <2>1. slots \in 0..Slots
    BY ChargedFinite, ServeAssumption DEF Account, Slots, ServeInv, Typed
  <2>2. {registered, inShutdown, busy, failed, ctx, deadline, lasting} \subseteq BOOLEAN
    BY Zenon DEF ServeInv, Typed
  <2> QED BY <2>1, <2>2 DEF ServeInv, Typed, TypeOK
<1> QED BY <1>1, AccountInvariant, ServeInvariant, PTL

\* A slot is neither lost nor given back twice.
THEOREM SlotsAreConnections == Spec => []SlotsMatchConnections
<1>1. Account => SlotsMatchConnections BY DEF Account, SlotsMatchConnections
<1> QED BY <1>1, AccountInvariant, PTL

\* The process never has more descriptors open for clients than the limit.
THEOREM NoMoreThanAllowed == Spec => []DescriptorsBounded
<1>1. ServeInv /\ Account => DescriptorsBounded
  <2> SUFFICES ASSUME ServeInv, Account PROVE Cardinality(open) <= Slots
    BY DEF DescriptorsBounded
  <2>1. IsFiniteSet(charged) /\ Cardinality(charged) \in Nat BY ChargedFinite
  <2>2. CASE \E c \in Conns : stage[c] = "held"
    <3>1. PICK c \in Conns : stage[c] = "held" BY <2>2
    <3>2. c \notin charged /\ open \subseteq charged \union {c}
      BY <3>1 DEF ServeInv, Typed, Ownership
    <3>3. /\ IsFiniteSet(charged \union {c})
          /\ Cardinality(charged \union {c}) = Cardinality(charged) + 1
      BY <2>1, <3>2, FS_AddElement
    <3>4. Cardinality(open) <= Cardinality(charged) + 1 BY <3>2, <3>3, FS_Subset
    <3>5. accept \in Charging BY <3>1 DEF ServeInv, Ownership, Charging
    <3>6. slots = Cardinality(charged) + 1 /\ slots <= Slots BY <3>5 DEF Account
    <3>7. Cardinality(open) \in Nat BY <3>2, <3>3, FS_Subset, FS_CardinalityType
    <3> QED BY <2>1, <3>4, <3>6, <3>7, ServeAssumption DEF Slots
  <2>3. CASE ~\E c \in Conns : stage[c] = "held"
    <3>1. open \subseteq charged BY <2>3 DEF ServeInv, Typed, Ownership
    <3>2. Cardinality(open) \in Nat /\ Cardinality(open) <= Cardinality(charged)
      BY <2>1, <3>1, FS_Subset, FS_CardinalityType
    <3>3. Cardinality(charged) <= Slots
      BY <2>1, ServeAssumption DEF Account, Slots
    <3> QED BY <2>1, <3>2, <3>3, ServeAssumption DEF Slots
  <2> QED BY <2>2, <2>3
<1> QED BY <1>1, AccountInvariant, ServeInvariant, PTL

=============================================================================
