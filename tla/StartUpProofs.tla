----------------------------- MODULE StartUpProofs ----------------------------
(***************************************************************************)
(* For every command line, every host, any links and any budget: the proxy *)
(* takes nothing away where Docker's path leads, stops for good only for a *)
(* mistake, leaves nothing behind, and warns of memory truthfully.         *)
(***************************************************************************)
EXTENDS StartUp, SequenceTheorems, FiniteSetTheorems, TLAPS

-----------------------------------------------------------------------------
(* Induction, from sets alone.                                             *)

\* A set of numbers that has 0 and the successor of each of its members has
\* all of them: below a number it lacks, adding 1 would map a finite set into
\* one with a member less, and two numbers to one.
LEMMA SetInduction ==
    ASSUME NEW S \in SUBSET Nat, 0 \in S, \A n \in S : n + 1 \in S
    PROVE  S = Nat
<1> SUFFICES ASSUME NEW m \in Nat, m \notin S PROVE FALSE OBVIOUS
<1> DEFINE T == {x \in S : x <= m}
           U == T \ {0}
           f == [x \in T |-> x + 1]
<1>1. IsFiniteSet(T) BY FS_BoundedSetOfNaturals
<1>2. IsFiniteSet(U) /\ Cardinality(U) = Cardinality(T) - 1
  BY <1>1, FS_RemoveElement, 0 \in T
<1>3. Cardinality(U) < Cardinality(T) BY <1>1, <1>2, FS_CardinalityType
<1>4. f \in [T -> U]
  <2> SUFFICES ASSUME NEW x \in T PROVE x + 1 \in U OBVIOUS
  <2>1. x # m OBVIOUS
  <2> QED BY <2>1
<1>5. PICK x, y \in T : x # y /\ f[x] = f[y]
  <2> HIDE DEF T, U, f
  <2> QED BY <1>1, <1>2, <1>3, <1>4, FS_PigeonHole
<1> QED BY <1>5

\* Iterating a function.
LEMMA Iterates ==
    \A A : \A a \in A : \A s \in [A -> A] :
        \E g \in [Nat -> A] : g[0] = a /\ \A n \in Nat : g[n + 1] = s[g[n]]
<1> SUFFICES ASSUME NEW A, NEW a \in A, NEW s \in [A -> A]
             PROVE  \E g \in [Nat -> A] : g[0] = a /\ \A n \in Nat : g[n + 1] = s[g[n]]
  OBVIOUS
<1> DEFINE Is(n, h) == h \in [Nat -> A] /\ h[0] = a /\ \A i \in Nat : i < n => h[i + 1] = s[h[i]]
<1>1. \A n \in Nat : \E h : Is(n, h)
  <2> DEFINE S == {n \in Nat : \E h : Is(n, h)}
  <2>1. 0 \in S
    <3>1. Is(0, [i \in Nat |-> a]) OBVIOUS
    <3> QED BY <3>1
  <2>2. ASSUME NEW n \in S PROVE n + 1 \in S
    <3>1. PICK h : Is(n, h) OBVIOUS
    <3> DEFINE k == [i \in Nat |-> IF i <= n THEN h[i] ELSE s[h[n]]]
    <3>2. Is(n + 1, k) BY <3>1
    <3>3. \E x : Is(n + 1, x)
      <4> HIDE DEF Is, k
      <4> QED BY <3>2
    <3> QED BY <3>3
  <2>3. S = Nat 
    <3> HIDE DEF S
    <3> QED BY <2>1, <2>2, SetInduction DEF S
  <2> QED BY <2>3
<1>2. \A n \in Nat, i \in Nat : \A h, k : Is(n, h) /\ Is(n, k) /\ i <= n => h[i] = k[i]
  <2> SUFFICES ASSUME NEW n \in Nat, NEW h, NEW k, Is(n, h), Is(n, k)
               PROVE  \A i \in Nat : i <= n => h[i] = k[i]
    OBVIOUS
  <2> DEFINE S == {i \in Nat : i <= n => h[i] = k[i]}
  <2>1. 0 \in S OBVIOUS
  <2>2. ASSUME NEW i \in S PROVE i + 1 \in S OBVIOUS
  <2>3. S = Nat
    <3> HIDE DEF S
    <3> QED BY <2>1, <2>2, SetInduction DEF S
  <2> QED BY <2>3
<1>0. \A n \in Nat : \A h : Is(n + 1, h) => Is(n, h) /\ h[n + 1] = s[h[n]] /\ h[n] \in A
  OBVIOUS
<1>00. \A n \in Nat : \A h : Is(n, h) => h[n] \in A /\ h[0] = a
  OBVIOUS
<1> DEFINE H(n) == CHOOSE h : Is(n, h)
           g == [n \in Nat |-> H(n)[n]]
<1> HIDE DEF Is
<1>3. \A n \in Nat : Is(n, H(n)) BY <1>1
<1> HIDE DEF H
<1>4. g \in [Nat -> A] BY <1>3, <1>00
<1>5. g[0] = a BY <1>3, <1>00
<1>6. ASSUME NEW n \in Nat PROVE g[n + 1] = s[g[n]]
  <2>1. Is(n, H(n)) /\ Is(n + 1, H(n + 1)) BY <1>3
  <2>2. Is(n, H(n + 1)) /\ H(n + 1)[n + 1] = s[H(n + 1)[n]] BY <2>1, <1>0
  <2>3. H(n + 1)[n] = H(n)[n] BY <1>2, <2>1, <2>2
  <2> QED BY <2>2, <2>3
<1> QED BY <1>4, <1>5, <1>6
-----------------------------------------------------------------------------
(* Where names lead, when links are all that counts.                       *)

\* The links of a file system, and nothing else of it.
LinksOf(f) == [at \in Seq(STRING) |-> IF Node(f, at).kind = "link" THEN Node(f, at) ELSE Nothing]

LinkMaps == [Seq(STRING) -> {Nothing} \union [kind : {"link"}, to : PathValues]]

\* A place, and the names that are still to be followed from there.
At(place, names) == [at |-> place, names |-> names]
Positions == [at : Seq(STRING), names : Seq(STRING)]
Begin(path) == At(Root, path.names)

\* One name followed, whether or not there is anything.
Hop(links, x) ==
    IF x.names = <<>> THEN x
    ELSE LET next == Append(x.at, Head(x.names)) IN
         IF Head(x.names) = "." THEN At(x.at, Tail(x.names))
         ELSE IF Head(x.names) = ".." THEN At(Parent(x.at), Tail(x.names))
         ELSE IF links[next].kind = "link"
              THEN At(IF links[next].to.abs THEN Root ELSE x.at, links[next].to.names \o Tail(x.names))
         ELSE At(next, Tail(x.names))

\* The names of x lead to p: x is in the least set with p that has every
\* position one hop before a member.
LeadsTo(links, x, p) ==
    \A S \in SUBSET Positions :
        At(p, <<>>) \in S /\ (\A y \in Positions : Hop(links, y) \in S => y \in S) => x \in S

LEMMA FrontType ==
    ASSUME NEW s \in Seq(STRING)
    PROVE  Front(s) \in Seq(STRING)
<1>1. Len(s) \in Nat /\ \A i \in 1..(Len(s) - 1) : s[i] \in STRING
  BY LenProperties, ElementOfSeq
<1>2. SubSeq(s, 1, Len(s) - 1) \in Seq(STRING) BY <1>1, SubSeqProperties
<1> QED BY <1>2 DEF Front

LEMMA ParentType ==
    ASSUME NEW s \in Seq(STRING)
    PROVE  Parent(s) \in Seq(STRING)
BY FrontType DEF Parent, Root

LEMMA HopType ==
    ASSUME NEW links \in LinkMaps, NEW x \in Positions
    PROVE  Hop(links, x) \in Positions
<1>1. CASE x.names = <<>> BY <1>1 DEF Hop
<1>2. CASE x.names # <<>>
  <2> DEFINE next == Append(x.at, Head(x.names))
  <2>1. x.at \in Seq(STRING) /\ x.names \in Seq(STRING) BY DEF Positions
  <2>2. Head(x.names) \in STRING /\ Tail(x.names) \in Seq(STRING)
    BY <1>2, <2>1, HeadTailProperties
  <2>3. next \in Seq(STRING) BY <2>1, <2>2, AppendProperties
  <2>4. Parent(x.at) \in Seq(STRING) BY <2>1, ParentType
  <2>5. CASE links[next].kind = "link"
    <3>0. links[next] \in {Nothing} \union [kind : {"link"}, to : PathValues]
      BY <2>3 DEF LinkMaps
    <3>1. links[next] \in [kind : {"link"}, to : PathValues]
      BY <2>5, <3>0 DEF Nothing
    <3>2. links[next].to.names \in Seq(STRING) BY <3>1 DEF PathValues
    <3>3. links[next].to.names \o Tail(x.names) \in Seq(STRING)
      BY <2>2, <3>2, ConcatProperties
    <3>4. Root \in Seq(STRING) BY DEF Root
    <3> QED BY <1>2, <2>1, <2>2, <2>4, <2>5, <3>3, <3>4 DEF Hop, At, Positions
  <2>6. CASE links[next].kind # "link"
    BY <1>2, <2>1, <2>2, <2>3, <2>4, <2>6 DEF Hop, At, Positions
  <2> QED BY <2>5, <2>6
<1> QED BY <1>1, <1>2

LEMMA LeadsSelf == \A links, p : LeadsTo(links, At(p, <<>>), p)
BY DEF LeadsTo

\* One hop changes nothing about where a position leads.
LEMMA LeadsHop ==
    ASSUME NEW links \in LinkMaps, NEW x \in Positions, NEW p \in Seq(STRING)
    PROVE  LeadsTo(links, Hop(links, x), p) <=> LeadsTo(links, x, p)
<1>1. \A y \in Positions : LeadsTo(links, Hop(links, y), p) => LeadsTo(links, y, p)
  BY DEF LeadsTo
<1>2. ASSUME LeadsTo(links, x, p) PROVE LeadsTo(links, Hop(links, x), p)
  <2> DEFINE S == {y \in Positions : LeadsTo(links, Hop(links, y), p)}
  <2>1. At(p, <<>>) \in S
    <3>1. At(p, <<>>) \in Positions BY DEF At, Positions
    <3>2. Hop(links, At(p, <<>>)) = At(p, <<>>) BY DEF Hop, At
    <3> QED BY <3>1, <3>2, LeadsSelf
  <2>2. ASSUME NEW y \in Positions, Hop(links, y) \in S PROVE y \in S
    BY <1>1, <2>2
  <2>3. S \in SUBSET Positions OBVIOUS
  <2>4. x \in S
    <3> HIDE DEF S
    <3> QED BY <1>2, <2>1, <2>2, <2>3 DEF LeadsTo
  <2> QED BY <2>4
<1> QED BY <1>1, <1>2

\* A position leads to one place only: the one it has come to, at the end.
LEMMA LeadsOnce ==
    ASSUME NEW links \in LinkMaps, NEW x \in Positions,
           NEW p \in Seq(STRING), NEW q \in Seq(STRING),
           LeadsTo(links, x, p), LeadsTo(links, x, q)
    PROVE  p = q
<1> DEFINE Done == {y \in Positions : y.names = <<>> => y.at = q}
           S == {y \in Positions : LeadsTo(links, y, q) => p = q}
<1>1. At(p, <<>>) \in Positions BY DEF At, Positions
<1>2. LeadsTo(links, At(p, <<>>), q) => p = q
  <2> SUFFICES ASSUME LeadsTo(links, At(p, <<>>), q) PROVE p = q OBVIOUS
  <2>1. At(q, <<>>) \in Done BY DEF At, Positions
  <2>2. \A y \in Positions : Hop(links, y) \in Done => y \in Done BY DEF Hop
  <2>3. At(p, <<>>) \in Done
    <3>1. Done \in SUBSET Positions OBVIOUS
    <3> HIDE DEF Done
    <3> QED BY <2>1, <2>2, <3>1 DEF LeadsTo
  <2> QED BY <2>3 DEF At
<1>3. \A y \in Positions : Hop(links, y) \in S => y \in S BY LeadsHop
<1>4. x \in S
  <2>1. S \in SUBSET Positions /\ At(p, <<>>) \in S BY <1>1, <1>2
  <2> HIDE DEF S
  <2> QED BY <1>3, <2>1 DEF LeadsTo
<1> QED BY <1>4

-----------------------------------------------------------------------------
(* Walks of the kernel.                                                    *)

Ends == {"on", "found", "missing", "absent", "notdir"}
Walkers == [end : Ends, at : Seq(STRING), names : Seq(STRING)]

Files(f) == FileSystem(f, Inodes)

Kinds == {"none", "file", "dir", "socket", "link"}

LEMMA NodeKinds ==
    \A x \in Nodes(Inodes) :
        /\ x.kind \in Kinds
        /\ x.kind = "link" => x \in [kind : {"link"}, to : PathValues]
        /\ x.kind = "none" => x = Nothing
BY DEF Nodes, Nothing, File, Dir, Socket, Kinds

LEMMA NodeIsNode ==
    ASSUME NEW f, Files(f), NEW at
    PROVE  Node(f, at) \in Nodes(Inodes)
<1>1. Nothing \in Nodes(Inodes) /\ Dir("0750") \in Nodes(Inodes)
  BY DEF Nodes, DirModes
<1> QED BY <1>1 DEF Files, FileSystem, Node

LEMMA LinksType ==
    ASSUME NEW f, Files(f)
    PROVE  LinksOf(f) \in LinkMaps
<1> SUFFICES ASSUME NEW at \in Seq(STRING), Node(f, at).kind = "link"
             PROVE  Node(f, at) \in [kind : {"link"}, to : PathValues]
  BY DEF LinksOf, LinkMaps
<1> QED BY NodeIsNode, NodeKinds

\* What the kernel takes is a name or, when the last one is a link it must not
\* follow or nothing is left, no more than the end.
LEMMA FollowHops ==
    ASSUME NEW f, Files(f), NEW follow \in BOOLEAN, NEW w \in Walkers
    PROVE  LET v == Follow(f, follow, w)
           IN  /\ v \in Walkers
               /\ w.end # "on" => v = w
               /\ w.end = "on" =>
                    /\ v.end \in {"found", "missing"} => v.names = <<>>
                    /\ v.end = "missing" => Node(f, v.at).kind = "none"
                    /\ \/ At(v.at, v.names) = Hop(LinksOf(f), At(w.at, w.names))
                       \/ ~follow /\ v.end = "found" /\ Node(f, v.at).kind = "link"
<1>0. w.at \in Seq(STRING) /\ w.names \in Seq(STRING) /\ w.end \in Ends BY DEF Walkers
<1>1. CASE w.end # "on" BY <1>1 DEF Follow
<1>2. CASE w.end = "on" /\ w.names = <<>>
  BY <1>0, <1>2 DEF Follow, Walker, Walkers, Ends, Hop, At
<1>3. CASE w.end = "on" /\ w.names # <<>>
  <2> DEFINE name == Head(w.names)
             rest == Tail(w.names)
             next == Append(w.at, name)
             node == Node(f, next)
             v == Follow(f, follow, w)
  <2>1. name \in STRING /\ rest \in Seq(STRING) BY <1>0, <1>3, HeadTailProperties
  <2>2. next \in Seq(STRING) BY <1>0, <2>1, AppendProperties
  <2>3. LinksOf(f)[next] = IF node.kind = "link" THEN node ELSE Nothing
    BY <2>2 DEF LinksOf
  <2>4. node \in Nodes(Inodes) BY NodeIsNode
  <2>5. node.kind \in Kinds /\ (node.kind = "link" => node.to.names \in Seq(STRING))
    BY <2>4, NodeKinds DEF PathValues
  <2>6. Nothing.kind # "link" BY DEF Nothing
  <2>7. LET x == At(w.at, w.names)
        IN  x.names = w.names /\ x.at = w.at
    BY DEF At
  <2>8. \A e, p, s : LET z == Walker(e, p, s) IN z.end = e /\ z.at = p /\ z.names = s
    BY DEF Walker
  <2>9. \A e \in Ends, p, s \in Seq(STRING) : Walker(e, p, s) \in Walkers
    BY DEF Walker, Walkers
  <2> HIDE DEF name, rest, next, node
  <2>10. Hop(LinksOf(f), At(w.at, w.names)) =
           IF name = "." THEN At(w.at, rest)
           ELSE IF name = ".." THEN At(Parent(w.at), rest)
           ELSE IF node.kind = "link" THEN At(IF node.to.abs THEN Root ELSE w.at, node.to.names \o rest)
           ELSE At(next, rest)
    BY <1>3, <2>3, <2>6, <2>7 DEF Hop, name, rest, next
  <2>11. v = CASE name = "."  -> Walker("on", w.at, rest)
               [] name = ".." -> Walker("on", Parent(w.at), rest)
               [] OTHER ->
                  CASE node.kind = "none" -> Walker(IF rest = <<>> THEN "missing" ELSE "absent", next, rest)
                    [] node.kind = "dir"  -> Walker("on", next, rest)
                    [] node.kind = "link" /\ (rest # <<>> \/ follow) ->
                         Walker("on", IF node.to.abs THEN Root ELSE w.at, node.to.names \o rest)
                    [] OTHER -> Walker(IF rest = <<>> THEN "found" ELSE "notdir", next, rest)
    BY <1>3 DEF Follow, name, rest, next, node
  <2> HIDE DEF v
  <2>12. CASE name = "."
    BY <1>0, <2>1, <2>8, <2>9, <2>10, <2>11, <2>12, <1>3 DEF v, Ends
  <2>13. CASE name = ".."
    BY <1>0, <2>1, <2>8, <2>9, <2>10, <2>11, <2>13, <1>3, ParentType DEF v, Ends
  <2>14. CASE name \notin {".", ".."} /\ node.kind = "none"
    <3>1. v = Walker(IF rest = <<>> THEN "missing" ELSE "absent", next, rest) BY <2>11, <2>14
    <3> QED BY <1>0, <2>1, <2>2, <2>8, <2>9, <2>10, <2>14, <3>1, <1>3 DEF v, Ends, node
  <2>15. CASE name \notin {".", ".."} /\ node.kind = "dir"
    <3>1. v = Walker("on", next, rest) BY <2>11, <2>15
    <3> QED BY <1>0, <2>1, <2>2, <2>8, <2>9, <2>10, <2>15, <3>1, <1>3 DEF v, Ends
  <2>16. CASE name \notin {".", ".."} /\ node.kind = "link" /\ (rest # <<>> \/ follow)
    <3>1. v = Walker("on", IF node.to.abs THEN Root ELSE w.at, node.to.names \o rest)
      BY <2>11, <2>16
    <3>2. node.to.names \o rest \in Seq(STRING) BY <2>1, <2>5, <2>16, ConcatProperties
    <3> DEFINE from == IF node.to.abs THEN Root ELSE w.at
               names == node.to.names \o rest
    <3>0. Root \in Seq(STRING) BY DEF Root
    <3>3. from \in Seq(STRING) BY <1>0, <3>0
    <3>4. Hop(LinksOf(f), At(w.at, w.names)) = At(from, names) BY <2>10, <2>16
    <3>5. v = Walker("on", from, names) BY <3>1
    <3> HIDE DEF from, names
    <3>6. v.end = "on" /\ v.at = from /\ v.names = names BY <2>8, <3>5
    <3>7. v \in Walkers BY <2>9, <3>2, <3>3, <3>5 DEF Ends, names
    <3> QED BY <3>4, <3>6, <3>7, <1>3 DEF v
  <2>17. CASE name \notin {".", ".."} /\ node.kind \in {"file", "socket"}
    <3>1. v = Walker(IF rest = <<>> THEN "found" ELSE "notdir", next, rest) BY <2>11, <2>17
    <3> QED BY <1>0, <2>1, <2>2, <2>8, <2>9, <2>10, <2>17, <3>1, <1>3 DEF v, Ends
  <2>18. CASE name \notin {".", ".."} /\ node.kind = "link" /\ rest = <<>> /\ ~follow
    <3>1. v = Walker("found", next, rest) BY <2>11, <2>18
    <3>2. v.end = "found" /\ v.at = next /\ v.names = rest BY <2>8, <3>1
    <3>3. v \in Walkers BY <2>1, <2>2, <2>9, <3>1 DEF Ends
    <3>4. Node(f, v.at).kind = "link" BY <2>18, <3>2 DEF node
    <3> QED BY <2>18, <3>2, <3>3, <3>4, <1>3 DEF v
  <2> QED BY <2>5, <2>12, <2>13, <2>14, <2>15, <2>16, <2>17, <2>18 DEF Kinds
<1> QED BY <1>1, <1>2, <1>3

LEMMA WalkersIterate ==
    \A a \in Walkers : \A s \in [Walkers -> Walkers] :
        \E g \in [Nat -> Walkers] : g[0] = a /\ \A n \in Nat : g[n + 1] = s[g[n]]
BY Iterates

\* A walk is the last state of a run.
LEMMA WalkRuns ==
    ASSUME NEW f, Files(f), NEW follow \in BOOLEAN, NEW names \in Seq(STRING)
    PROVE  \E run \in [Nat -> Walkers] :
              /\ run[0] = Walker("on", Root, names)
              /\ \A n \in Nat : run[n + 1] = Follow(f, follow, run[n])
              /\ Walk(f, names, follow) = run[MaxSteps]
<1> DEFINE start == Walker("on", Root, names)
           Is(g) == g = [n \in Nat |-> IF n = 0 THEN start ELSE Follow(f, follow, g[n - 1])]
           step == [w \in Walkers |-> Follow(f, follow, w)]
           run == CHOOSE g : Is(g)
<1>1. start \in Walkers
  <2>1. Root \in Seq(STRING) BY DEF Root
  <2> QED BY <2>1 DEF Walker, Walkers, Ends
<1>0. \A w \in Walkers : Follow(f, follow, w) \in Walkers BY FollowHops
<1>2. step \in [Walkers -> Walkers] BY <1>0
<1>3. PICK g \in [Nat -> Walkers] : g[0] = start /\ \A n \in Nat : g[n + 1] = step[g[n]]
  <2> HIDE DEF start, step, Is, run
  <2> QED BY <1>1, <1>2, WalkersIterate
<1>4. Is(g)
  <2>1. ASSUME NEW n \in Nat PROVE g[n] = IF n = 0 THEN start ELSE Follow(f, follow, g[n - 1])
    <3>1. CASE n = 0 BY <1>3, <3>1
    <3>2. CASE n # 0
      <4>1. n - 1 \in Nat /\ (n - 1) + 1 = n BY <3>2
      <4>2. g[n] = step[g[n - 1]] BY <1>3, <4>1
      <4> QED BY <1>3, <3>2, <4>1, <4>2
    <3> QED BY <3>1, <3>2
  <2> QED BY <1>3, <2>1
<1>5. Is(run)
  <2> HIDE DEF Is
  <2> QED BY <1>4
<1>6. \A n \in Nat : run[n] = IF n = 0 THEN start ELSE Follow(f, follow, run[n - 1])
  <2> HIDE DEF run
  <2>1. ASSUME NEW n \in Nat PROVE run[n] = IF n = 0 THEN start ELSE Follow(f, follow, run[n - 1])
    BY <1>5
  <2> QED BY <2>1
<1>7. run[0] = start /\ \A n \in Nat : run[n + 1] = Follow(f, follow, run[n])
  <2> HIDE DEF run, start
  <2>1. run[0] = start BY <1>6
  <2>2. ASSUME NEW n \in Nat PROVE run[n + 1] = Follow(f, follow, run[n])
    <3>1. n + 1 \in Nat /\ n + 1 # 0 /\ (n + 1) - 1 = n OBVIOUS
    <3> QED BY <1>6, <3>1
  <2> QED BY <2>1, <2>2
<1>8. run \in [Nat -> Walkers]
  <2> DEFINE S == {n \in Nat : run[n] \in Walkers}
  <2> HIDE DEF run, start
  <2>1. 0 \in S BY <1>1, <1>7
  <2>2. ASSUME NEW n \in S PROVE n + 1 \in S
    <3>1. n \in Nat /\ run[n] \in Walkers OBVIOUS
    <3>2. run[n + 1] = Follow(f, follow, run[n]) BY <1>7, <3>1
    <3>3. run[n + 1] \in Walkers BY <1>0, <3>1, <3>2
    <3> QED BY <3>1, <3>3
  <2>3. S = Nat
    <3> HIDE DEF S
    <3> QED BY <2>1, <2>2, SetInduction DEF S
  <2>4. run = [n \in Nat |-> run[n]] BY <1>5
  <2> QED BY <2>3, <2>4
<1>9. Walk(f, names, follow) = run[MaxSteps] BY DEF Walk
<1> HIDE DEF run
<1> QED BY <1>7, <1>8, <1>9

\* Where a walk ends is where its names lead, unless it stops at a last link.
LEMMA WalkLeads ==
    ASSUME NEW f, Files(f), NEW follow \in BOOLEAN, NEW names \in Seq(STRING)
    PROVE  LET w == Walk(f, names, follow)
           IN  /\ w \in Walkers
               /\ w.end = "missing" => Node(f, w.at).kind = "none"
               /\ \/ w.end \in {"found", "missing"} => LeadsTo(LinksOf(f), At(Root, names), w.at)
                  \/ ~follow /\ w.end = "found" /\ Node(f, w.at).kind = "link"
<1> DEFINE Good(w) ==
             /\ w.end \in {"found", "missing"} => w.names = <<>>
             /\ w.end = "missing" => Node(f, w.at).kind = "none"
             /\ \/ \A p \in Seq(STRING) : LeadsTo(LinksOf(f), At(w.at, w.names), p)
                                          <=> LeadsTo(LinksOf(f), At(Root, names), p)
                \/ ~follow /\ w.end = "found" /\ Node(f, w.at).kind = "link"
<1>1. PICK run \in [Nat -> Walkers] :
              /\ run[0] = Walker("on", Root, names)
              /\ \A n \in Nat : run[n + 1] = Follow(f, follow, run[n])
              /\ Walk(f, names, follow) = run[MaxSteps]
  BY WalkRuns
<1>2. \A n \in Nat : run[n] \in Walkers BY <1>1
<1>3. Good(run[0]) BY <1>1 DEF Walker
<1>4. ASSUME NEW n \in Nat, Good(run[n]) PROVE Good(run[n + 1])
  <2> DEFINE w == run[n]
             v == run[n + 1]
  <2>1. w \in Walkers /\ v = Follow(f, follow, w) BY <1>1, <1>2
  <2>2. CASE w.end # "on"
    <3>1. v = w BY <2>1, <2>2, FollowHops
    <3> QED BY <1>4, <3>1
  <2>3. CASE w.end = "on"
    <3> HIDE DEF w, v
    <3>1. /\ v.end \in {"found", "missing"} => v.names = <<>>
          /\ v.end = "missing" => Node(f, v.at).kind = "none"
          /\ \/ At(v.at, v.names) = Hop(LinksOf(f), At(w.at, w.names))
             \/ ~follow /\ v.end = "found" /\ Node(f, v.at).kind = "link"
      BY <2>1, <2>3, FollowHops
    <3>2. At(w.at, w.names) \in Positions BY <2>1 DEF At, Positions, Walkers
    <3>3. \A p \in Seq(STRING) : LeadsTo(LinksOf(f), At(w.at, w.names), p)
                                   <=> LeadsTo(LinksOf(f), At(Root, names), p)
      BY <1>4, <2>3 DEF w
    <3>4. \A p \in Seq(STRING) : LeadsTo(LinksOf(f), Hop(LinksOf(f), At(w.at, w.names)), p)
                                   <=> LeadsTo(LinksOf(f), At(w.at, w.names), p)
      BY <3>2, LinksType, LeadsHop
    <3>5. Good(v) BY <3>1, <3>3, <3>4
    <3> QED BY <3>5 DEF v
  <2> QED BY <2>2, <2>3
<1>5. \A n \in Nat : Good(run[n])
  <2> DEFINE S == {n \in Nat : Good(run[n])}
  <2> HIDE DEF Good
  <2>1. 0 \in S BY <1>3
  <2>2. \A n \in S : n + 1 \in S BY <1>4
  <2>3. S = Nat
    <3> HIDE DEF S
    <3> QED BY <2>1, <2>2, SetInduction DEF S
  <2> QED BY <2>3
<1> DEFINE w == Walk(f, names, follow)
<1>6. w \in Walkers /\ Good(w) BY <1>1, <1>2, <1>5, PathsAssumption
<1> HIDE DEF w
<1>7. w.at \in Seq(STRING) BY <1>6 DEF Walkers
<1>8. LeadsTo(LinksOf(f), At(w.at, <<>>), w.at) BY LeadsSelf
<1>9. /\ w.end = "missing" => Node(f, w.at).kind = "none"
      /\ \/ w.end \in {"found", "missing"} => LeadsTo(LinksOf(f), At(Root, names), w.at)
         \/ ~follow /\ w.end = "found" /\ Node(f, w.at).kind = "link"
  BY <1>6, <1>7, <1>8
<1> QED BY <1>6, <1>9 DEF w

LEMMA StatLeads ==
    ASSUME NEW f, Files(f), NEW path \in PathValues
    PROVE  LET w == Stat(f, path)
           IN  /\ w \in Walkers
               /\ Leads(w) => LeadsTo(LinksOf(f), Begin(path), w.at)
<1>1. path.names \in Seq(STRING) BY DEF PathValues
<1> QED BY <1>1, WalkLeads DEF Stat, Leads, Begin

LEMMA LstatLeads ==
    ASSUME NEW f, Files(f), NEW path \in PathValues
    PROVE  LET w == Lstat(f, path)
           IN  /\ w \in Walkers
               /\ w.end = "missing" => Node(f, w.at).kind = "none"
               /\ \/ w.end = "missing"
                  \/ w.end = "found" /\ Node(f, w.at).kind # "link"
                  => LeadsTo(LinksOf(f), Begin(path), w.at)
<1>1. path.names \in Seq(STRING) BY DEF PathValues
<1> QED BY <1>1, WalkLeads DEF Lstat, Begin

\* What is found is still found when the host changes.
Grown(f, g) ==
    \A at \in Seq(STRING) :
        \/ Node(g, at) = Node(f, at)
        \/ Node(f, at).kind = "none"
        \/ Node(f, at).kind = "socket" /\ Node(g, at).kind = "socket"

LEMMA FoundPersists ==
    ASSUME NEW f, Files(f), NEW g, Files(g), Grown(f, g), NEW path \in PathValues,
           Stat(f, path).end = "found"
    PROVE  Stat(g, path) = Stat(f, path)
<1> DEFINE names == path.names
<1>1. names \in Seq(STRING) BY DEF PathValues
<1>2. PICK run \in [Nat -> Walkers] :
              /\ run[0] = Walker("on", Root, names)
              /\ \A n \in Nat : run[n + 1] = Follow(f, TRUE, run[n])
              /\ Walk(f, names, TRUE) = run[MaxSteps]
  BY <1>1, WalkRuns
<1>3. PICK ran \in [Nat -> Walkers] :
              /\ ran[0] = Walker("on", Root, names)
              /\ \A n \in Nat : ran[n + 1] = Follow(g, TRUE, ran[n])
              /\ Walk(g, names, TRUE) = ran[MaxSteps]
  BY <1>1, WalkRuns
<1> HIDE DEF names
<1>4. ASSUME NEW w \in Walkers, Follow(f, TRUE, w).end \in {"on", "found"}
      PROVE  w.end \in {"on", "found"} /\ Follow(g, TRUE, w) = Follow(f, TRUE, w)
  <2>1. CASE w.end # "on" BY <1>4, <2>1 DEF Follow
  <2>2. CASE w.end = "on" /\ w.names = <<>> BY <2>2 DEF Follow
  <2>3. CASE w.end = "on" /\ w.names # <<>>
    <3> DEFINE next == Append(w.at, Head(w.names))
    <3>1. next \in Seq(STRING)
      BY <2>3, HeadTailProperties, AppendProperties DEF Walkers
    <3>2. Node(f, next).kind \in Kinds /\ Node(g, next).kind \in Kinds BY NodeIsNode, NodeKinds
    <3>3. \/ Node(g, next) = Node(f, next)
          \/ Node(f, next).kind = "none"
          \/ Node(f, next).kind = "socket" /\ Node(g, next).kind = "socket"
      BY <3>1 DEF Grown
    <3>4. \A e, p, s : Walker(e, p, s).end = e BY DEF Walker
    <3>5. CASE Head(w.names) \in {".", ".."}
      BY <2>3, <3>5 DEF Follow
    <3>6. CASE Head(w.names) \notin {".", ".."} /\ Node(f, next).kind = "none"
      <4> DEFINE e == IF Tail(w.names) = <<>> THEN "missing" ELSE "absent"
      <4>1. Follow(f, TRUE, w) = Walker(e, next, Tail(w.names)) BY <2>3, <3>6 DEF Follow
      <4>2. Follow(f, TRUE, w).end = e
        <5> HIDE DEF next, e
        <5> QED BY <3>4, <4>1
      <4> QED BY <1>4, <4>2
    <3>7. CASE Head(w.names) \notin {".", ".."} /\ Node(g, next) = Node(f, next)
      BY <2>3, <3>7 DEF Follow
    <3>8. CASE /\ Head(w.names) \notin {".", ".."}
               /\ Node(f, next).kind = "socket" /\ Node(g, next).kind = "socket"
      <4> DEFINE v == Walker(IF Tail(w.names) = <<>> THEN "found" ELSE "notdir", next, Tail(w.names))
      <4>1. Follow(f, TRUE, w) = v BY <2>3, <3>8 DEF Follow
      <4>2. Follow(g, TRUE, w) = v BY <2>3, <3>8 DEF Follow
      <4> HIDE DEF v
      <4> QED BY <2>3, <4>1, <4>2
    <3> QED BY <3>3, <3>5, <3>6, <3>7, <3>8
  <2> QED BY <2>1, <2>2, <2>3
<1>5. \A n \in Nat : run[n].end \in {"on", "found"} => ran[n] = run[n]
  <2> DEFINE S == {n \in Nat : run[n].end \in {"on", "found"} => ran[n] = run[n]}
  <2>1. 0 \in S BY <1>2, <1>3
  <2>2. ASSUME NEW n \in S PROVE n + 1 \in S
    <3>1. /\ run[n] \in Walkers /\ run[n + 1] = Follow(f, TRUE, run[n])
          /\ ran[n + 1] = Follow(g, TRUE, ran[n])
      BY <1>2, <1>3
    <3>2. ASSUME run[n + 1].end \in {"on", "found"} PROVE ran[n + 1] = run[n + 1]
      <4>1. run[n].end \in {"on", "found"} /\ Follow(g, TRUE, run[n]) = Follow(f, TRUE, run[n])
        BY <1>4, <3>1, <3>2
      <4>2. ran[n] = run[n] BY <4>1
      <4> QED BY <3>1, <4>1, <4>2
    <3> QED BY <3>2
  <2>3. S = Nat
    <3> HIDE DEF S
    <3> QED BY <2>1, <2>2, SetInduction DEF S
  <2> QED BY <2>3
<1> QED BY <1>2, <1>3, <1>5, PathsAssumption DEF Stat, names

-----------------------------------------------------------------------------
(* Command lines.                                                          *)

\* What Accepted and WithDefaults change of a line.
Same(c, d) ==
    /\ d \in Lines
    /\ d.listen = c.listen /\ d.docker = c.docker /\ d.mode = c.mode

LEMMA ListTypes ==
    ASSUME NEW parts \in Seq(STRING)
    PROVE  /\ splitList(parts) # Rejected => splitList(parts) \in Seq(STRING)
           /\ parseIDList(parts) # Rejected => parseIDList(parts) \in Seq(STRING)
<1>1. <<>> \in Seq(STRING) OBVIOUS
<1>2. splitList(parts) # Rejected => splitList(parts) \in Seq(STRING)
  BY <1>1 DEF splitList
<1> QED BY <1>2 DEF parseIDList

\* What Main hands to Run is in range and can be enforced, and Run's defaults do
\* not change it.
LEMMA AcceptedLine ==
    ASSUME NEW line \in Lines, NEW can \in BOOLEAN, Parse(line, can)
    PROVE  LET o == Accepted(line)
           IN  /\ Same(line, o)
               /\ Validate(WithDefaults(o)) /\ validatePathSyntax(o.listen, o.docker)
               /\ o.mode \in Modes
               /\ {o.uids, o.gids} = {<<>>} \/ can
<1> DEFINE o == Accepted(line)
           ids == parseIDList(line.uids)
           groups == parseIDList(line.gids)
           labels == splitList(line.labels)
           checked == [line EXCEPT !.labels = labels]
           p == WithDefaults(o)
<1>1. /\ ids \in Seq(STRING) /\ groups \in Seq(STRING) /\ labels \in Seq(STRING)
      /\ {ids, groups} = {<<>>} \/ can
      /\ validatePathSyntax(line.listen, line.docker) /\ line.mode \in Modes
      /\ Validate(checked)
  <2>1. line.uids \in Seq(STRING) /\ line.gids \in Seq(STRING) /\ line.labels \in Seq(STRING)
    BY DEF Lines
  <2>2. ids # Rejected /\ groups # Rejected /\ labels # Rejected BY DEF Parse
  <2> QED BY <2>1, <2>2, ListTypes DEF Parse
<1> HIDE DEF ids, groups, labels
<1>2. o = [line EXCEPT !.uids = ids, !.gids = groups, !.labels = labels]
  BY DEF Accepted, ids, groups, labels
<1>3. /\ o \in Lines
      /\ o.listen = line.listen /\ o.docker = line.docker /\ o.mode = line.mode
      /\ o.bytes = line.bytes /\ o.conc = line.conc /\ o.timeout = line.timeout
      /\ o.rate = line.rate /\ o.uids = ids /\ o.gids = groups /\ o.labels = labels
  <2> HIDE DEF o
  <2> QED BY <1>1, <1>2 DEF Lines
<1>4. /\ checked.labels = labels /\ checked.bytes = line.bytes /\ checked.conc = line.conc
      /\ checked.timeout = line.timeout /\ checked.rate = line.rate
  BY DEF Lines
<1>5. /\ line.bytes \in 1..maxResponseBytesLimit /\ line.conc \in 1..maxConcurrentLimit
      /\ line.timeout \in minUpstreamTimeout..maxUpstreamTimeout
      /\ line.rate \in 0..maxRateLimit
      /\ Len(labels) <= maxLabelPrefixes /\ "" \notin Words(labels)
  <2> HIDE DEF checked
  <2> QED BY <1>1, <1>4 DEF Validate
<1>6. line.bytes # 0 /\ line.conc # 0 /\ line.timeout # 0
  <2>1. /\ minUpstreamTimeout \in Nat \ {0} /\ maxUpstreamTimeout \in Nat
        /\ maxResponseBytesLimit \in Nat /\ maxConcurrentLimit \in Nat
    BY OptionsAssumption
  <2>2. \A lo \in Nat \ {0}, hi \in Nat : \A x \in lo..hi : x # 0 OBVIOUS
  <2>3. line.bytes \in 1..maxResponseBytesLimit /\ line.conc \in 1..maxConcurrentLimit
    BY <1>5
  <2>4. line.timeout \in minUpstreamTimeout..maxUpstreamTimeout BY <1>5
  <2>5. 1 \in Nat \ {0} OBVIOUS
  <2> QED BY <2>1, <2>2, <2>3, <2>4, <2>5
<1> HIDE DEF o
<1>7. /\ p.bytes = line.bytes /\ p.conc = line.conc /\ p.timeout = line.timeout
      /\ p.rate = line.rate /\ p.labels = labels
  BY <1>3, <1>6 DEF WithDefaults, Lines
<1> HIDE DEF p
<1>8. Validate(p) BY <1>5, <1>7 DEF Validate
<1> QED BY <1>1, <1>3, <1>8 DEF Same, o, p

\* The arithmetic of the memory that a configuration needs stays in its width.
LEMMA Int64Same ==
    ASSUME NEW x \in Nat, x <= MaxInt64
    PROVE  Int64(x) = x
<1>1. MaxInt64 \in Nat /\ MinInt64 = - MaxInt64 - 1 BY OptionsAssumption
<1>2. \A m \in Nat : \A y \in 0..(m - 1) : y % m = y OBVIOUS
<1>3. MaxInt64 - MinInt64 + 1 \in Nat /\ x - MinInt64 \in 0..((MaxInt64 - MinInt64 + 1) - 1)
  BY <1>1
<1>4. (x - MinInt64) % (MaxInt64 - MinInt64 + 1) = x - MinInt64 BY <1>2, <1>3
<1> QED BY <1>1, <1>4 DEF Int64

LEMMA Larger ==
    ASSUME NEW a \in Nat, NEW b \in Nat, NEW c \in Nat, NEW d \in Nat, a <= b, c <= d
    PROVE  a * c \in Nat /\ a * c <= b * d
<1>1. a * (d - c) >= 0 /\ (b - a) * d >= 0 OBVIOUS
<1> QED BY <1>1

LEMMA NeedFits ==
    ASSUME NEW c \in Lines, Validate(c)
    PROVE  LET need == c.conc * c.bytes * responseMemoryFactor
           IN  /\ need \in Nat
               /\ need * memoryHeadroomFactor = memoryHeadroomFactor * c.conc * c.bytes * responseMemoryFactor
               /\ Int64(WorstCaseMemoryBytes(c) * memoryHeadroomFactor) = need * memoryHeadroomFactor
<1> DEFINE need == c.conc * c.bytes * responseMemoryFactor
           most == maxConcurrentLimit * maxResponseBytesLimit * responseMemoryFactor
<1>1. /\ responseMemoryFactor \in Nat /\ memoryHeadroomFactor \in Nat \ {0}
      /\ maxConcurrentLimit \in Nat /\ maxResponseBytesLimit \in Nat /\ MaxInt64 \in Nat
      /\ memoryHeadroomFactor * maxConcurrentLimit * maxResponseBytesLimit
           * responseMemoryFactor <= MaxInt64
  BY OptionsAssumption
<1>2. c.bytes \in 1..maxResponseBytesLimit /\ c.conc \in 1..maxConcurrentLimit BY DEF Validate
<1>3. /\ c.bytes \in Nat /\ c.bytes <= maxResponseBytesLimit
      /\ c.conc \in Nat /\ c.conc <= maxConcurrentLimit
  <2>1. \A hi \in Nat : \A x \in 1..hi : x \in Nat /\ x <= hi OBVIOUS
  <2> QED BY <1>1, <1>2, <2>1
<1>4. need \in Nat /\ most \in Nat /\ need <= most
  <2>1. /\ c.conc * c.bytes \in Nat /\ maxConcurrentLimit * maxResponseBytesLimit \in Nat
        /\ c.conc * c.bytes <= maxConcurrentLimit * maxResponseBytesLimit
    BY <1>1, <1>3, Larger
  <2> DEFINE a == c.conc * c.bytes
             b == maxConcurrentLimit * maxResponseBytesLimit
  <2>2. a \in Nat /\ b \in Nat /\ a <= b BY <2>1
  <2> HIDE DEF a, b
  <2>3. \A r \in Nat : a * r \in Nat /\ b * r \in Nat /\ a * r <= b * r
    BY <2>2, Larger
  <2> QED BY <1>1, <2>3 DEF a, b
<1>5. /\ need * memoryHeadroomFactor = memoryHeadroomFactor * c.conc * c.bytes * responseMemoryFactor
      /\ most * memoryHeadroomFactor
           = memoryHeadroomFactor * maxConcurrentLimit * maxResponseBytesLimit * responseMemoryFactor
  <2>1. \A k, a, b, r \in Nat : (a * b * r) * k = k * a * b * r OBVIOUS
  <2> QED BY <1>1, <1>3, <2>1
<1> HIDE DEF need, most
<1>6. /\ need * memoryHeadroomFactor \in Nat
      /\ need <= need * memoryHeadroomFactor
      /\ need * memoryHeadroomFactor <= most * memoryHeadroomFactor
  <2>1. \A k \in Nat \ {0} : \A n \in Nat : n * k \in Nat /\ n <= n * k
    <3> SUFFICES ASSUME NEW k \in Nat \ {0}, NEW n \in Nat PROVE n * k \in Nat /\ n <= n * k
      OBVIOUS
    <3>1. n * (k - 1) >= 0 OBVIOUS
    <3> QED BY <3>1
  <2>2. memoryHeadroomFactor \in Nat BY <1>1
  <2> QED BY <1>1, <1>4, <2>1, <2>2, Larger
<1>7. need <= MaxInt64 /\ need * memoryHeadroomFactor <= MaxInt64
  <2>1. most * memoryHeadroomFactor <= MaxInt64 /\ most * memoryHeadroomFactor \in Nat
    <3>1. \A k, n \in Nat : n * k \in Nat OBVIOUS
    <3>2. memoryHeadroomFactor \in Nat BY <1>1
    <3> QED BY <1>1, <1>4, <1>5, <3>1, <3>2
  <2> QED BY <1>1, <1>4, <1>6, <2>1
<1>8. WorstCaseMemoryBytes(c) = need
  BY <1>4, <1>7, Int64Same DEF WorstCaseMemoryBytes, need
<1>9. Int64(need * memoryHeadroomFactor) = need * memoryHeadroomFactor
  BY <1>6, <1>7, Int64Same
<1> QED BY <1>4, <1>5, <1>8, <1>9 DEF need

-----------------------------------------------------------------------------
(* What a step can do to the files.                                        *)

Typed ==
    /\ opts \in Lines /\ via \in {"Main", "Run"} /\ host \in [canIdentify : BOOLEAN, memory : Int]
    /\ Files(fs) /\ LockNames(opts.listen) \in Seq(STRING)
    /\ resolved \in Seq(STRING) /\ pending \in Seq(STRING) /\ listenResolved \in Seq(STRING)

\* Like the files of f, but for one location that is no link.
Edited(f, g, at, node) ==
    /\ Node(f, at).kind # "link"
    /\ node \in Nodes(Inodes) /\ node.kind # "link"
    /\ g = [f EXCEPT ![at] = node]

LEMMA EditedNode ==
    ASSUME NEW f, NEW g, NEW at, NEW node, Edited(f, g, at, node), NEW x
    PROVE  /\ DOMAIN g = DOMAIN f
           /\ Node(g, x) = IF x = at /\ x # Root /\ x \in DOMAIN f THEN node ELSE Node(f, x)
<1>1. DOMAIN g = DOMAIN f BY DEF Edited
<1>2. ASSUME x \in DOMAIN f PROVE g[x] = IF x = at THEN node ELSE f[x]
  BY <1>2 DEF Edited
<1> QED BY <1>1, <1>2 DEF Node

LEMMA EditedFiles ==
    ASSUME NEW f, NEW g, NEW at, NEW node, Edited(f, g, at, node), Files(f)
    PROVE  Files(g) /\ LinksOf(g) = LinksOf(f)
<1>1. DOMAIN g = DOMAIN f /\ \A x \in DOMAIN f : g[x] = IF x = at THEN node ELSE f[x]
  BY DEF Edited
<1>2. Files(g) BY <1>1 DEF Files, FileSystem, Edited
<1>3. ASSUME NEW x \in Seq(STRING)
      PROVE  (IF Node(g, x).kind = "link" THEN Node(g, x) ELSE Nothing)
               = (IF Node(f, x).kind = "link" THEN Node(f, x) ELSE Nothing)
  <2>1. Node(g, x) = IF x = at /\ x # Root /\ x \in DOMAIN f THEN node ELSE Node(f, x)
    BY EditedNode
  <2>2. Node(f, at).kind # "link" /\ node.kind # "link" BY DEF Edited
  <2> QED BY <2>1, <2>2
<1> QED BY <1>2, <1>3 DEF LinksOf

LEMMA UnlinkedFiles ==
    ASSUME Files(fs)
    PROVE  /\ Files(Unlinked) /\ LinksOf(Unlinked) = LinksOf(fs)
           /\ \A x : Node(Unlinked, x) = IF Node(fs, x) = Socket(Own) THEN Nothing ELSE Node(fs, x)
<1>0. DOMAIN Unlinked = DOMAIN fs
  BY DEF Unlinked
<1>1. \A x \in DOMAIN fs : Unlinked[x] = IF fs[x] = Socket(Own) THEN Nothing ELSE fs[x]
  BY DEF Unlinked
<1>2. Nothing \in Nodes(Inodes) BY DEF Nodes
<1>3. Files(Unlinked) BY <1>0, <1>1, <1>2 DEF Files, FileSystem
<1>4. Dir("0750") # Socket(Own) /\ Nothing # Socket(Own) /\ Socket(Own).kind = "socket"
      /\ Nothing.kind = "none"
  BY DEF Dir, Socket, Nothing
<1>5. \A x : Node(Unlinked, x) = IF Node(fs, x) = Socket(Own) THEN Nothing ELSE Node(fs, x)
  BY <1>0, <1>1, <1>4 DEF Node
<1>6. ASSUME NEW x \in Seq(STRING)
      PROVE  (IF Node(Unlinked, x).kind = "link" THEN Node(Unlinked, x) ELSE Nothing)
               = (IF Node(fs, x).kind = "link" THEN Node(fs, x) ELSE Nothing)
  BY <1>4, <1>5
<1> QED BY <1>3, <1>5, <1>6 DEF LinksOf

\* The host lets links be, and what is found it lets be found.
HostActs == DockerStarts \/ DockerDies \/ Arrange

LEMMA HostStep ==
    ASSUME Typed, HostActs
    PROVE  \/ fs' = fs
           \/ \E at \in Seq(STRING), node \in {Socket(i) : i \in DockerSockets} \union {Dir(m) : m \in DirModes} :
                 /\ Edited(fs, fs', at, node)
                 /\ \/ Node(fs, at).kind = "none"
                    \/ /\ Node(fs, at).kind = "socket" /\ node.kind = "socket"
                       /\ LeadsTo(LinksOf(fs), Begin(opts.docker), at)
<1>1. CASE DockerStarts
  <2> DEFINE w == Lstat(fs, opts.docker)
  <2>1. opts.docker \in PathValues BY DEF Typed, Lines
  <2>2. /\ w \in Walkers
        /\ w.end = "missing" => Node(fs, w.at).kind = "none"
        /\ w.end = "found" /\ Node(fs, w.at).kind # "link"
             => LeadsTo(LinksOf(fs), Begin(opts.docker), w.at)
    BY <2>1, LstatLeads DEF Typed
  <2>3. PICK i \in DockerSockets :
           /\ w.end = "missing" \/ (w.end = "found" /\ Node(fs, w.at).kind = "socket")
           /\ fs' = [fs EXCEPT ![w.at] = Socket(i)]
    BY <1>1 DEF DockerStarts
  <2> HIDE DEF w
  <2>4. w.at \in Seq(STRING) BY <2>2 DEF Walkers
  <2>5. Socket(i) \in Nodes(Inodes) /\ Socket(i).kind = "socket" BY DEF Nodes, Inodes, Socket
  <2>6. Edited(fs, fs', w.at, Socket(i)) BY <2>2, <2>3, <2>5 DEF Edited
  <2> QED BY <2>2, <2>3, <2>4, <2>5, <2>6
<1>2. CASE DockerDies BY <1>2 DEF DockerDies
<1>3. CASE Arrange
  <2>1. PICK a \in Arrivals : Node(fs, a.at) = Nothing /\ fs' = [fs EXCEPT ![a.at] = Dir(a.mode)]
    BY <1>3 DEF Arrange
  <2>2. a.at \in Seq(STRING) /\ a.mode \in DirModes BY StartUpAssumption
  <2>3. Dir(a.mode) \in Nodes(Inodes) /\ Dir(a.mode).kind = "dir" /\ Nothing.kind = "none"
    BY <2>2 DEF Nodes, Dir, Nothing
  <2>4. Edited(fs, fs', a.at, Dir(a.mode)) BY <2>1, <2>3 DEF Edited
  <2> QED BY <2>1, <2>2, <2>3, <2>4
<1> QED BY <1>1, <1>2, <1>3 DEF HostActs

LEMMA CreateDirFiles ==
    ASSUME Typed, CreateDir
    PROVE  \/ fs' = fs
           \/ \E at \in Seq(STRING) :
                 Edited(fs, fs', at, Dir("0750")) /\ Node(fs, at).kind = "none"
<1> DEFINE next == Append(resolved, Head(pending))
           w == Walk(fs, next, FALSE)
<1>1. next \in Seq(STRING)
  BY HeadTailProperties, AppendProperties DEF Typed, CreateDir
<1>2. fs' = fs \/ (w.end = "missing" /\ fs' = [fs EXCEPT ![w.at] = Dir("0750")])
  BY DEF CreateDir, Put
<1>3. w \in Walkers /\ (w.end = "missing" => Node(fs, w.at).kind = "none")
  BY <1>1, WalkLeads DEF Typed
<1> HIDE DEF w
<1>4. w.at \in Seq(STRING) BY <1>3 DEF Walkers
<1>5. Dir("0750") \in Nodes(Inodes) /\ Dir("0750").kind = "dir" BY DEF Nodes, Dir, DirModes
<1> QED BY <1>2, <1>3, <1>4, <1>5 DEF Edited

\* The socket's entry is where the listen path leads: a last link is not followed,
\* but it is neither missing nor a socket.
LEMMA EntryLeads ==
    ASSUME Typed, Entry.end = "missing" \/ (Entry.end = "found" /\ Node(fs, Entry.at).kind = "socket")
    PROVE  /\ Entry.at \in Seq(STRING)
           /\ LeadsTo(LinksOf(fs), Begin(opts.listen), Entry.at)
           /\ Node(fs, Entry.at).kind # "link"
<1>1. opts.listen \in PathValues /\ Files(fs) BY DEF Typed, Lines
<1> DEFINE w == Lstat(fs, opts.listen)
<1>2. /\ w \in Walkers
      /\ w.end = "missing" => Node(fs, w.at).kind = "none"
      /\ w.end = "missing" \/ (w.end = "found" /\ Node(fs, w.at).kind # "link")
           => LeadsTo(LinksOf(fs), Begin(opts.listen), w.at)
  BY <1>1, LstatLeads
<1>3. w = Entry BY DEF Entry
<1> HIDE DEF w
<1> QED BY <1>2, <1>3 DEF Walkers

LEMMA RemoveStaleFiles ==
    ASSUME Typed, RemoveStale
    PROVE  \/ fs' = fs
           \/ /\ Entry.at \in Seq(STRING) /\ Edited(fs, fs', Entry.at, Nothing)
              /\ LeadsTo(LinksOf(fs), Begin(opts.listen), Entry.at)
<1>1. \/ fs' = fs
      \/ /\ Entry.end = "found" /\ Node(fs, Entry.at).kind = "socket"
         /\ fs' = [fs EXCEPT ![Entry.at] = Nothing]
  BY DEF RemoveStale
<1>2. Nothing \in Nodes(Inodes) /\ Nothing.kind = "none" BY DEF Nodes, Nothing
<1> QED BY <1>1, <1>2, EntryLeads DEF Edited

LEMMA PublishFiles ==
    ASSUME Typed, Publish
    PROVE  /\ Entry.at \in Seq(STRING) /\ Edited(fs, fs', Entry.at, Socket(Own))
           /\ LeadsTo(LinksOf(fs), Begin(opts.listen), Entry.at)
<1>1. Entry.end = "missing" /\ fs' = [fs EXCEPT ![Entry.at] = Socket(Own)]
  BY DEF Publish, Put
<1>2. Socket(Own) \in Nodes(Inodes) /\ Socket(Own).kind = "socket" BY DEF Nodes, Inodes, Socket
<1> QED BY <1>1, <1>2, EntryLeads DEF Edited

\* The lock file is made where there is nothing, or not at all.
LEMMA AcquireLockFiles ==
    ASSUME Typed, AcquireLock
    PROVE  \/ fs' = fs
           \/ Edited(fs, fs', LockFile.at, File) /\ Node(fs, LockFile.at).kind = "none"
<1>1. fs' = fs \/ (LockFile.end = "missing" /\ fs' = [fs EXCEPT ![LockFile.at] = File])
  BY DEF AcquireLock, Put
<1>2. LockFile.end = "missing" => Node(fs, LockFile.at).kind = "none"
  BY WalkLeads DEF Typed, LockFile
<1>3. File \in Nodes(Inodes) /\ File.kind = "file" BY DEF Nodes, File
<1> QED BY <1>1, <1>2, <1>3 DEF Edited

Quiet ==
    \/ ShowHelp \/ Usage \/ Accept \/ Probe \/ Misconfigured \/ Configure
    \/ ResolveName \/ CannotResolve \/ ListenResolved \/ SamePath \/ DockerResolved
    \/ NotDocker \/ ValidatePaths \/ NotListenable \/ Listenable
    \/ CannotCreateDir \/ DirUnusable \/ DirUsable \/ CannotLock
    \/ CannotRemove \/ CannotPublish \/ Serving \/ Finished

LEMMA QuietFiles == Quiet => fs' = fs
<1>1. CASE ShowHelp \/ Usage \/ Accept \/ Probe \/ Misconfigured \/ Configure
  BY <1>1 DEF ShowHelp, Usage, Accept, Probe, Misconfigured, Configure, Fail, files
<1>2. CASE ResolveName \/ CannotResolve \/ ListenResolved \/ SamePath \/ DockerResolved
  BY <1>2 DEF ResolveName, CannotResolve, ListenResolved, SamePath, DockerResolved, Fail, files
<1>3. CASE NotDocker \/ ValidatePaths \/ NotListenable \/ Listenable
  BY <1>3 DEF NotDocker, ValidatePaths, NotListenable, Listenable, Fail, files
<1>4. CASE CannotCreateDir \/ DirUnusable \/ DirUsable \/ CannotLock
  BY <1>4 DEF CannotCreateDir, DirUnusable, DirUsable, CannotLock, Fail, files
<1>5. CASE CannotRemove \/ CannotPublish \/ Serving \/ Finished
  BY <1>5 DEF CannotRemove, CannotPublish, Serving, Finished, Fail, files, vars
<1> QED BY <1>1, <1>2, <1>3, <1>4, <1>5 DEF Quiet

\* The links stay as they are, whatever happens.
LEMMA LinksStay ==
    ASSUME Typed, [Next]_vars
    PROVE  Files(fs') /\ LinksOf(fs') = LinksOf(fs)
<1>1. Files(fs) BY DEF Typed
<1>2. CASE fs' = fs BY <1>1, <1>2
<1>3. ASSUME NEW at, NEW node, Edited(fs, fs', at, node) PROVE Files(fs') /\ LinksOf(fs') = LinksOf(fs)
  BY <1>1, <1>3, EditedFiles
<1>4. CASE fs' = Unlinked BY <1>1, <1>4, UnlinkedFiles
<1>5. CASE HostActs BY <1>2, <1>3, <1>5, HostStep
<1>6. CASE CreateDir BY <1>2, <1>3, <1>6, CreateDirFiles
<1>7. CASE RemoveStale BY <1>2, <1>3, <1>7, RemoveStaleFiles
<1>8. CASE Publish BY <1>3, <1>8, PublishFiles
<1>9. CASE Unenforceable \/ Stop BY <1>4, <1>9 DEF Unenforceable, Stop
<1>10. CASE Quiet BY <1>2, <1>10, QuietFiles
<1>11. CASE UNCHANGED vars BY <1>2, <1>11 DEF vars, files
<1>12. CASE AcquireLock BY <1>2, <1>3, <1>12, AcquireLockFiles
<1> QED BY <1>5, <1>6, <1>7, <1>8, <1>9, <1>10, <1>11, <1>12 DEF Next, Quiet, HostActs

\* The paths are given once and for all.
LEMMA LinesStay ==
    ASSUME Typed, [Next]_vars
    PROVE  /\ host' = host /\ via' = via
           /\ opts' \in Lines /\ opts'.listen = opts.listen /\ opts'.docker = opts.docker
           /\ opts' = opts \/ (Accept /\ opts' = Accepted(opts))
<1>0. opts \in Lines /\ host.canIdentify \in BOOLEAN BY DEF Typed
<1>1. CASE Accept
  <2>1. opts' = Accepted(opts) /\ host' = host /\ via' = via /\ Parse(opts, host.canIdentify)
    BY <1>1 DEF Accept
  <2>2. Same(opts, Accepted(opts)) BY <1>0, <2>1, AcceptedLine
  <2> QED BY <1>1, <2>1, <2>2 DEF Same
<1>2. CASE \/ ShowHelp \/ Usage \/ Probe \/ Misconfigured \/ Configure
           \/ ResolveName \/ CannotResolve \/ ListenResolved \/ SamePath \/ DockerResolved
  BY <1>0, <1>2 DEF ShowHelp, Usage, Probe, Misconfigured, Configure, ResolveName, CannotResolve,
                    ListenResolved, SamePath, DockerResolved, Fail, Exit, outside
<1>3. CASE \/ NotDocker \/ ValidatePaths \/ NotListenable \/ Listenable \/ CreateDir
           \/ CannotCreateDir \/ DirUnusable \/ DirUsable \/ AcquireLock \/ CannotLock
  BY <1>0, <1>3 DEF NotDocker, ValidatePaths, NotListenable, Listenable, CreateDir, CannotCreateDir,
                    DirUnusable, DirUsable, AcquireLock, CannotLock, Fail, Exit, outside
<1>4. CASE \/ RemoveStale \/ CannotRemove \/ Publish \/ CannotPublish
           \/ Unenforceable \/ Serving \/ Stop
  BY <1>0, <1>4 DEF RemoveStale, CannotRemove, Publish, CannotPublish, Unenforceable, Serving,
                    Stop, Fail, Exit, outside
<1>5. CASE HostActs \/ Finished \/ UNCHANGED vars
  BY <1>0, <1>5 DEF HostActs, DockerStarts, DockerDies, Arrange, Finished, process, outside, vars
<1> QED BY <1>1, <1>2, <1>3, <1>4, <1>5 DEF Next, HostActs

LEMMA TypedInit == Init => Typed
<1> SUFFICES ASSUME Init PROVE Typed OBVIOUS
<1>1. PICK s \in Scenarios : host = s.host /\ via = s.via /\ opts = s.opts /\ fs = s.fs
  BY DEF Init
<1>2. /\ via \in {"Main", "Run"} /\ opts \in Lines
      /\ host \in [canIdentify : BOOLEAN, memory : Int] /\ FileSystem(fs, Inodes \ {Own})
  BY <1>1, StartUpAssumption
<1>3. Nodes(Inodes \ {Own}) \subseteq Nodes(Inodes) BY DEF Nodes
<1>4. Files(fs) BY <1>2, <1>3 DEF Files, FileSystem
<1>5. Root \in Seq(STRING) /\ <<>> \in Seq(STRING) BY DEF Root
<1>6. LockNames(opts.listen) \in Seq(STRING) BY <1>1, StartUpAssumption
<1> QED BY <1>2, <1>4, <1>5, <1>6 DEF Init, Typed

\* One round of resolvePath is one hop, whatever is there.
LEMMA ResolveHops ==
    ASSUME Typed, ResolveName
    PROVE  /\ resolved' \in Seq(STRING) /\ pending' \in Seq(STRING)
           /\ At(resolved', pending') = Hop(LinksOf(fs), At(resolved, pending))
<1> DEFINE name == Head(pending)
           rest == Tail(pending)
           next == Append(resolved, name)
           node == Node(fs, next)
           x == At(resolved, pending)
<1>1. pending # <<>> /\ pending \in Seq(STRING) /\ resolved \in Seq(STRING) /\ Files(fs)
  BY DEF Typed, ResolveName
<1>2. name \in STRING /\ rest \in Seq(STRING) BY <1>1, HeadTailProperties
<1>3. next \in Seq(STRING) BY <1>1, <1>2, AppendProperties
<1>4. LinksOf(fs)[next] = IF node.kind = "link" THEN node ELSE Nothing BY <1>3 DEF LinksOf
<1>5. node.kind = "link" => node.to.names \in Seq(STRING)
  <2>1. node \in Nodes(Inodes) BY <1>1, NodeIsNode
  <2> QED BY <2>1, NodeKinds DEF PathValues
<1>6. x.at = resolved /\ x.names = pending /\ Nothing.kind # "link" BY DEF At, Nothing
<1>7. \/ name = "." /\ resolved' = resolved /\ pending' = rest
      \/ name = ".." /\ resolved' = Parent(resolved) /\ pending' = rest
      \/ /\ name \notin {".", ".."} /\ node.kind # "link"
         /\ resolved' = next /\ pending' = rest
      \/ /\ name \notin {".", ".."} /\ node.kind = "link"
         /\ resolved' = (IF node.to.abs THEN Root ELSE resolved)
         /\ pending' = node.to.names \o rest
  BY DEF ResolveName, pathComponents
<1> HIDE DEF name, rest, next, node, x
<1>8. Hop(LinksOf(fs), x) =
        IF name = "." THEN At(resolved, rest)
        ELSE IF name = ".." THEN At(Parent(resolved), rest)
        ELSE IF node.kind = "link"
             THEN At(IF node.to.abs THEN Root ELSE resolved, node.to.names \o rest)
        ELSE At(next, rest)
  BY <1>1, <1>4, <1>6 DEF Hop, name, rest, next
<1>9. At(resolved', pending') = Hop(LinksOf(fs), x) BY <1>7, <1>8
<1>10. Root \in Seq(STRING) BY DEF Root
<1>11. resolved' \in Seq(STRING)
  BY <1>1, <1>3, <1>7, <1>10, ParentType
<1>12. pending' \in Seq(STRING)
  BY <1>2, <1>5, <1>7, ConcatProperties
<1> QED BY <1>9, <1>11, <1>12 DEF x

LEMMA TypedNext == Typed /\ [Next]_vars => Typed'
<1> SUFFICES ASSUME Typed, [Next]_vars PROVE Typed' OBVIOUS
<1>1. /\ opts' \in Lines /\ via' = via /\ host' = host /\ Files(fs')
      /\ opts'.listen = opts.listen
  BY LinesStay, LinksStay
<1>2. resolved' \in Seq(STRING) /\ pending' \in Seq(STRING) /\ listenResolved' \in Seq(STRING)
  <2>0. /\ resolved \in Seq(STRING) /\ pending \in Seq(STRING) /\ listenResolved \in Seq(STRING)
        /\ opts.listen.names \in Seq(STRING) /\ opts.docker.names \in Seq(STRING)
        /\ Root \in Seq(STRING)
    BY DEF Typed, Lines, PathValues, Root
  <2>1. CASE UNCHANGED <<resolved, pending, listenResolved>> BY <2>0, <2>1
  <2>2. CASE ResolveName BY <2>0, <2>2, ResolveHops DEF ResolveName, findings
  <2>3. CASE Configure BY <2>0, <2>3 DEF Configure, StartResolving, pathComponents, findings
  <2>4. CASE ListenResolved BY <2>0, <2>4 DEF ListenResolved, StartResolving, pathComponents
  <2>5. CASE Listenable
    <3>1. Front(opts.listen.names) \in Seq(STRING) BY <2>0, FrontType
    <3> QED BY <2>0, <2>5, <3>1 DEF Listenable, SocketDir, findings
  <2>6. CASE CreateDir
    <3>1. pending # <<>> /\ resolved' = Append(resolved, Head(pending)) /\ pending' = Tail(pending)
          /\ listenResolved' = listenResolved
      BY <2>6 DEF CreateDir, findings
    <3> QED BY <2>0, <3>1, HeadTailProperties, AppendProperties
  <2>7. CASE ShowHelp \/ Usage \/ Accept \/ Probe \/ Misconfigured \/ CannotResolve \/ SamePath
             \/ DockerResolved \/ NotDocker \/ ValidatePaths \/ NotListenable
    BY <2>1, <2>7 DEF ShowHelp, Usage, Accept, Probe, Misconfigured, CannotResolve, SamePath,
       DockerResolved, NotDocker, ValidatePaths, NotListenable, Fail, Exit, resolving, findings
  <2>8. CASE CannotCreateDir \/ DirUnusable \/ DirUsable \/ AcquireLock \/ CannotLock \/ RemoveStale
             \/ CannotRemove \/ Publish \/ CannotPublish \/ Unenforceable \/ Serving \/ Stop
    BY <2>1, <2>8 DEF CannotCreateDir, DirUnusable, DirUsable, AcquireLock, CannotLock, RemoveStale,
       CannotRemove, Publish, CannotPublish, Unenforceable, Serving, Stop, Fail, Exit,
       resolving, findings
  <2>9. CASE HostActs \/ Finished \/ UNCHANGED vars
    BY <2>1, <2>9 DEF HostActs, DockerStarts, DockerDies, Arrange, Finished, process, vars,
       resolving, findings
  <2> QED BY <2>2, <2>3, <2>4, <2>5, <2>6, <2>7, <2>8, <2>9 DEF Next, HostActs
<1> QED BY <1>1, <1>2 DEF Typed

-----------------------------------------------------------------------------
(* What is known of a process from where it stands.                        *)

\* Before anything is made, and before a Config is checked.
Unmade    == {"parse", "probe", "configure", "resolveListen", "resolveDocker", "statDocker", "listen"}
Unchecked == {"parse", "probe", "configure", "exited"}

\* What Main has checked when it calls Run.
CheckedByMain ==
    /\ Validate(proxy) /\ validatePathSyntax(opts.listen, opts.docker)
    /\ opts.mode \in Modes /\ Enforceable

Control ==
    /\ pc # "exited" <=> exit = -1
    /\ pc \notin Unchecked => Validate(proxy)
    /\ via = "Main" /\ pc \notin {"parse", "exited"} => CheckedByMain
    /\ pc \in Unmade => made = {}
    /\ exit = 2 => made = {} \/ (via = "Run" /\ ~Enforceable)
    /\ pc = "serving" => warned = warnOnMemoryLimit(proxy, host.memory)

LEMMA ControlInit == Init => Control
<1> SUFFICES ASSUME Init PROVE Control OBVIOUS
<1>1. PICK s \in Scenarios : via = s.via BY DEF Init
<1>2. via \in {"Main", "Run"} BY <1>1, StartUpAssumption
<1>3. pc \in {"parse", "configure"} /\ exit = -1 /\ made = {} /\ (via = "Main" => pc = "parse")
  BY DEF Init
<1> QED BY <1>2, <1>3 DEF Control, Unmade, Unchecked

\* A process that ends: what it made, and the code.
LEMMA EndsBeforeMaking ==
    ASSUME Typed, Control,
           \/ ShowHelp \/ Usage \/ Probe \/ Misconfigured \/ CannotResolve \/ SamePath
           \/ NotDocker \/ NotListenable
    PROVE  pc \in Unmade /\ pc' = "exited" /\ exit' \in {0, 1, 2} /\ made' = {}
<1>1. CASE ShowHelp \/ Usage \/ Probe \/ Misconfigured
  BY <1>1 DEF ShowHelp, Usage, Probe, Misconfigured, Fail, Exit, Control, Unmade
<1>2. CASE CannotResolve \/ SamePath \/ NotListenable
  BY <1>2 DEF CannotResolve, SamePath, NotListenable, Fail, Exit, Control, Unmade, Resolving
<1>3. CASE NotDocker
  <2>1. \A w : dockerErrorCode(w) \in {0, 1, 2} BY DEF dockerErrorCode
  <2> QED BY <1>3, <2>1 DEF NotDocker, Fail, Exit, Control, Unmade
<1> QED BY <1>1, <1>2, <1>3

LEMMA EndsAfterMaking ==
    ASSUME \/ CannotCreateDir \/ DirUnusable \/ (AcquireLock /\ pc' = "exited") \/ CannotLock
           \/ CannotRemove \/ CannotPublish \/ Stop
    PROVE  pc' = "exited" /\ exit' \in {0, 1}
<1>1. CASE AcquireLock /\ pc' = "exited" BY <1>1 DEF AcquireLock, Exit, Goto
<1>2. CASE Stop BY <1>2 DEF Stop, Exit
<1>3. CASE CannotCreateDir \/ DirUnusable \/ CannotLock \/ CannotRemove \/ CannotPublish
  BY <1>3 DEF CannotCreateDir, DirUnusable, CannotLock, CannotRemove, CannotPublish, Fail, Exit
<1> QED BY <1>1, <1>2, <1>3

\* A process that goes on with the Options it has.
LEMMA GoesOnChecking ==
    ASSUME Configure \/ ResolveName \/ ListenResolved \/ DockerResolved \/ ValidatePaths \/ Listenable
    PROVE  /\ pc \in Unmade \ {"parse"} /\ pc' \in (Unmade \ {"parse", "probe", "configure"}) \union {"createDir"}
           /\ exit' = exit /\ made' = made
           /\ pc \notin Unchecked \/ Validate(proxy)
<1>1. CASE Configure BY <1>1 DEF Configure, Goto, Unmade, Unchecked
<1>2. CASE ResolveName BY <1>2 DEF ResolveName, Resolving, Unmade, Unchecked
<1>3. CASE ListenResolved \/ DockerResolved \/ ValidatePaths \/ Listenable
  BY <1>3 DEF ListenResolved, DockerResolved, ValidatePaths, Listenable, Goto, Unmade, Unchecked
<1> QED BY <1>1, <1>2, <1>3

LEMMA GoesOnMaking ==
    ASSUME \/ CreateDir \/ DirUsable \/ (AcquireLock /\ pc' # "exited") \/ RemoveStale
           \/ Publish \/ Serving
    PROVE  /\ {pc, pc'} \intersect (Unmade \union Unchecked) = {} /\ exit' = exit
           /\ pc # "serving"
           /\ pc' = "serving" => Serving
<1>1. CASE CreateDir BY <1>1 DEF CreateDir, Unmade, Unchecked, outside
<1>2. CASE DirUsable \/ Serving
  BY <1>2 DEF DirUsable, Serving, Goto, Unmade, Unchecked, outside
<1>3. CASE AcquireLock /\ pc' # "exited"
  BY <1>3 DEF AcquireLock, Exit, Goto, Unmade, Unchecked, outside
<1>4. CASE RemoveStale \/ Publish
  BY <1>4 DEF RemoveStale, Publish, Goto, Unmade, Unchecked, outside
<1> QED BY <1>1, <1>2, <1>3, <1>4

LEMMA ControlNext == Typed /\ Control /\ [Next]_vars => Control'
<1> SUFFICES ASSUME Typed, Control, [Next]_vars PROVE Control' OBVIOUS
<1>0. host' = host /\ via' = via /\ via \in {"Main", "Run"} /\ (opts' = opts \/ Accept)
  BY LinesStay DEF Typed
<1>1. CASE Accept
  <2>1. /\ pc = "parse" /\ pc' \in {"probe", "configure"} /\ opts' = Accepted(opts)
        /\ exit' = exit /\ made' = made /\ Parse(opts, host.canIdentify)
    BY <1>1 DEF Accept, Goto
  <2>2. opts \in Lines /\ host.canIdentify \in BOOLEAN BY DEF Typed
  <2>3. CheckedByMain'
    <3>1. /\ Validate(WithDefaults(opts')) /\ validatePathSyntax(opts'.listen, opts'.docker)
          /\ opts'.mode \in Modes /\ ({opts'.uids, opts'.gids} = {<<>>} \/ host.canIdentify)
      BY <2>1, <2>2, AcceptedLine
    <3> QED BY <1>0, <3>1 DEF CheckedByMain, Enforceable, proxy
  <2> QED BY <2>1, <2>3 DEF Control, Unmade, Unchecked
<1>2. ASSUME opts' = opts PROVE Control'
  <2>1. /\ Validate(proxy)' <=> Validate(proxy)
        /\ CheckedByMain' <=> CheckedByMain
        /\ Enforceable' <=> Enforceable
        /\ warnOnMemoryLimit(proxy, host.memory)' = warnOnMemoryLimit(proxy, host.memory)
    BY <1>0, <1>2 DEF CheckedByMain, Enforceable, proxy
  <2>2. CASE pc' = "exited" /\ exit' \in {0, 1}
    BY <2>2 DEF Control, Unmade, Unchecked
  <2>3. CASE pc' = "exited" /\ exit' \in {0, 1, 2} /\ made' = {}
    BY <2>3 DEF Control, Unmade, Unchecked
  <2>4. CASE Unenforceable
    <3>1. pc = "authorize" /\ pc' = "exited" /\ exit' = 2 /\ ~Enforceable
      BY <2>4 DEF Unenforceable, Exit
    <3>2. via = "Run" BY <1>0, <3>1 DEF Control, CheckedByMain
    <3> QED BY <1>0, <2>1, <3>1, <3>2 DEF Control, Unmade, Unchecked
  <2>5. CASE \/ Configure \/ ResolveName \/ ListenResolved \/ DockerResolved \/ ValidatePaths
             \/ Listenable
    BY <1>0, <2>1, <2>5, GoesOnChecking DEF Control, Unmade, Unchecked
  <2>6. CASE \/ CreateDir \/ DirUsable \/ (AcquireLock /\ pc' # "exited") \/ RemoveStale
             \/ Publish \/ Serving
    <3>1. Serving => warned' = warnOnMemoryLimit(proxy, host.memory) BY DEF Serving
    <3>2. /\ {pc, pc'} \intersect (Unmade \union Unchecked) = {} /\ exit' = exit
          /\ pc # "serving" /\ (pc' = "serving" => Serving)
      BY <2>6, GoesOnMaking
    <3>3. exit = -1 /\ pc' # "exited" BY <3>2 DEF Control, Unchecked
    <3>4. exit' # 2 BY <3>2, <3>3
    <3> QED BY <1>0, <2>1, <3>1, <3>2, <3>3, <3>4 DEF Control, Unmade, Unchecked
  <2>7. CASE UNCHANGED <<pc, exit, made, warned>>
    BY <1>0, <2>1, <2>7 DEF Control
  <2>8. CASE HostActs \/ Finished \/ UNCHANGED vars
    BY <2>7, <2>8 DEF HostActs, DockerStarts, DockerDies, Arrange, Finished, process, vars
  <2>9. CASE \/ ShowHelp \/ Usage \/ Probe \/ Misconfigured \/ CannotResolve \/ SamePath
             \/ NotDocker \/ NotListenable
    BY <2>3, <2>9, EndsBeforeMaking
  <2>10. CASE \/ CannotCreateDir \/ DirUnusable \/ (AcquireLock /\ pc' = "exited") \/ CannotLock
              \/ CannotRemove \/ CannotPublish \/ Stop
    BY <2>2, <2>10, EndsAfterMaking
  <2>11. ~Accept \/ Control' BY <1>1
  <2> QED BY <2>4, <2>5, <2>6, <2>8, <2>9, <2>10, <2>11 DEF Next, HostActs
<1> QED BY <1>0, <1>1, <1>2

-----------------------------------------------------------------------------
(* Where the two paths lead.                                               *)

ListenLeads(p) == LeadsTo(LinksOf(fs), Begin(opts.listen), p)
DockerLeads(p) == LeadsTo(LinksOf(fs), Begin(opts.docker), p)

\* What is still to be resolved leads where the path did; once both are resolved,
\* the listen path leads to one place and Docker's path not to that one.
Resolution ==
    /\ pc = "resolveListen" =>
          \A p \in Seq(STRING) : LeadsTo(LinksOf(fs), At(resolved, pending), p) <=> ListenLeads(p)
    /\ pc = "resolveDocker" =>
          \A p \in Seq(STRING) : LeadsTo(LinksOf(fs), At(resolved, pending), p) <=> DockerLeads(p)
    /\ pc \notin Unchecked \union {"resolveListen"} => ListenLeads(listenResolved)
    /\ pc \notin Unchecked \union {"resolveListen", "resolveDocker"} => ~DockerLeads(listenResolved)

LEMMA PathsLead ==
    ASSUME Typed
    PROVE  /\ LinksOf(fs) \in LinkMaps
           /\ Begin(opts.listen) \in Positions /\ Begin(opts.docker) \in Positions
           /\ At(resolved, pending) \in Positions
<1>1. LinksOf(fs) \in LinkMaps BY LinksType DEF Typed
<1>2. opts.listen.names \in Seq(STRING) /\ opts.docker.names \in Seq(STRING)
  BY DEF Typed, Lines, PathValues
<1>3. Root \in Seq(STRING) BY DEF Root
<1> QED BY <1>1, <1>2, <1>3 DEF Typed, Begin, At, Positions

LEMMA LeadsStay ==
    ASSUME Typed, [Next]_vars, NEW p
    PROVE  /\ ListenLeads(p)' <=> ListenLeads(p)
           /\ DockerLeads(p)' <=> DockerLeads(p)
BY LinksStay, LinesStay DEF ListenLeads, DockerLeads, Begin

LEMMA ResolutionInit == Init => Resolution
BY DEF Init, Resolution, Unchecked

LEMMA ResolutionNext == Typed /\ Resolution /\ [Next]_vars => Resolution'
<1> SUFFICES ASSUME Typed, Resolution, [Next]_vars PROVE Resolution' OBVIOUS
<1>1. /\ LinksOf(fs') = LinksOf(fs) /\ opts'.listen = opts.listen /\ opts'.docker = opts.docker
      /\ \A p : (ListenLeads(p)' <=> ListenLeads(p)) /\ (DockerLeads(p)' <=> DockerLeads(p))
  BY LinksStay, LinesStay, LeadsStay
<1>2. /\ resolved \in Seq(STRING) /\ listenResolved \in Seq(STRING)
      /\ resolved' \in Seq(STRING) /\ listenResolved' \in Seq(STRING)
  BY TypedNext DEF Typed
<1>3. CASE /\ pc' \notin {"resolveListen", "resolveDocker"} /\ listenResolved' = listenResolved
           /\ pc' \in Unchecked \/ pc \notin Unchecked \union {"resolveListen", "resolveDocker"}
  BY <1>1, <1>3 DEF Resolution
<1>4. CASE Configure
  <2>1. /\ pc' = "resolveListen" /\ resolved' = Root /\ pending' = opts.listen.names
    BY <1>4 DEF Configure, Goto, StartResolving, pathComponents
  <2>2. At(resolved', pending') = Begin(opts.listen) BY <2>1 DEF Begin
  <2>3. \A p : LeadsTo(LinksOf(fs'), At(resolved', pending'), p) <=> ListenLeads(p)
    BY <1>1, <2>2 DEF ListenLeads
  <2> QED BY <1>1, <2>1, <2>3 DEF Resolution, Unchecked
<1>5. CASE ResolveName
  <2>1. pc' = pc /\ listenResolved' = listenResolved /\ pc \in {"resolveListen", "resolveDocker"}
    BY <1>5 DEF ResolveName, findings, Resolving
  <2>2. At(resolved', pending') = Hop(LinksOf(fs), At(resolved, pending))
    BY <1>5, ResolveHops
  <2>3. \A p \in Seq(STRING) : LeadsTo(LinksOf(fs'), At(resolved', pending'), p)
                                 <=> LeadsTo(LinksOf(fs), At(resolved, pending), p)
    BY <1>1, <2>2, PathsLead, LeadsHop
  <2> QED BY <1>1, <2>1, <2>3 DEF Resolution
<1>6. CASE ListenResolved
  <2>1. /\ pending = <<>> /\ pc = "resolveListen" /\ pc' = "resolveDocker"
        /\ listenResolved' = resolved /\ resolved' = Root /\ pending' = opts.docker.names
    BY <1>6 DEF ListenResolved, Goto, StartResolving, pathComponents
  <2>2. At(resolved', pending') = Begin(opts.docker) BY <2>1 DEF Begin
  <2>3. \A p : LeadsTo(LinksOf(fs'), At(resolved', pending'), p) <=> DockerLeads(p)
    BY <1>1, <2>2 DEF DockerLeads
  <2>4. LeadsTo(LinksOf(fs), At(resolved, pending), resolved) BY <2>1, LeadsSelf
  <2>5. ListenLeads(resolved) BY <1>2, <2>1, <2>4 DEF Resolution
  <2> QED BY <1>1, <2>1, <2>3, <2>5 DEF Resolution, Unchecked
<1>7. CASE DockerResolved
  <2>1. /\ pending = <<>> /\ pc = "resolveDocker" /\ pc' = "statDocker"
        /\ listenResolved' = listenResolved /\ listenResolved # resolved
    BY <1>7 DEF DockerResolved, Goto
  <2>2. LeadsTo(LinksOf(fs), At(resolved, pending), resolved) BY <2>1, LeadsSelf
  <2>3. DockerLeads(resolved) BY <1>2, <2>1, <2>2 DEF Resolution
  <2>4. ~DockerLeads(listenResolved)
    BY <1>2, <2>1, <2>3, PathsLead, LeadsOnce DEF DockerLeads
  <2>5. ListenLeads(listenResolved) BY <2>1 DEF Resolution, Unchecked
  <2> QED BY <1>1, <2>1, <2>4, <2>5 DEF Resolution, Unchecked
<1>8. CASE \/ ShowHelp \/ Usage \/ Probe \/ Misconfigured \/ CannotResolve \/ SamePath
           \/ NotDocker \/ NotListenable
  BY <1>3, <1>8 DEF ShowHelp, Usage, Probe, Misconfigured, CannotResolve, SamePath,
     NotDocker, NotListenable, Fail, Exit, findings, Unchecked
<1>9. CASE Accept BY <1>3, <1>9 DEF Accept, Goto, findings, Unchecked
<1>10. CASE ValidatePaths \/ Listenable
  BY <1>3, <1>10 DEF ValidatePaths, Listenable, Goto, findings, Unchecked
<1>11. CASE \/ CannotCreateDir \/ DirUnusable \/ CannotLock \/ CannotRemove \/ CannotPublish
            \/ Unenforceable \/ Stop \/ (AcquireLock /\ pc' = "exited")
  BY <1>3, <1>11 DEF CannotCreateDir, DirUnusable, CannotLock, CannotRemove, CannotPublish, Unenforceable,
     Stop, AcquireLock, Fail, Exit, findings, Unchecked
<1>12. CASE \/ CreateDir \/ DirUsable \/ (AcquireLock /\ pc' # "exited") \/ RemoveStale
            \/ Publish \/ Serving
  <2>1. {pc, pc'} \intersect (Unmade \union Unchecked) = {} BY <1>12, GoesOnMaking
  <2>2. listenResolved' = listenResolved
    BY <1>12 DEF CreateDir, DirUsable, AcquireLock, RemoveStale, Publish, Serving, Exit, findings
  <2> QED BY <1>3, <2>1, <2>2 DEF Unmade, Unchecked
<1>13. CASE HostActs \/ Finished \/ UNCHANGED vars
  <2>1. UNCHANGED <<pc, resolved, pending, listenResolved>>
    BY <1>13 DEF HostActs, DockerStarts, DockerDies, Arrange, Finished, process, vars,
       resolving, findings
  <2> QED BY <1>1, <2>1 DEF Resolution
<1> QED BY <1>4, <1>5, <1>6, <1>7, <1>8, <1>9, <1>10, <1>11, <1>12, <1>13 DEF Next, HostActs

\* The socket of the process is where its path leads, and only while it is past
\* publishing it.
OwnInPlace ==
    \A at \in DOMAIN fs :
        fs[at] = Socket(Own) => pc \in {"authorize", "serving"} /\ at \in Seq(STRING) /\ ListenLeads(at)

\* Docker's sockets and directories are not the socket of the process.
LEMMA OthersAreNotOwn ==
    /\ Own \notin DockerSockets
    /\ \A i \in DockerSockets : Socket(i) # Socket(Own)
    /\ \A m : Dir(m) # Socket(Own)
    /\ Nothing # Socket(Own) /\ File # Socket(Own)
<1>1. Own \notin DockerSockets BY StartUpAssumption
<1>2. \A i : Socket(i).inode = i /\ Socket(i).kind = "socket" BY DEF Socket
<1>3. Nothing.kind = "none" /\ File.kind = "file" /\ \A m : Dir(m).kind = "dir"
  BY DEF Nothing, File, Dir
<1> QED BY <1>1, <1>2, <1>3

LEMMA OwnInit == Init => OwnInPlace
<1> SUFFICES ASSUME Init, NEW at \in DOMAIN fs PROVE fs[at] # Socket(Own)
  BY DEF OwnInPlace
<1>1. PICK s \in Scenarios : fs = s.fs BY DEF Init
<1>2. fs[at] \in Nodes(Inodes \ {Own}) BY <1>1, StartUpAssumption DEF FileSystem
<1>3. Socket(Own) \notin Nodes(Inodes \ {Own})
  BY DEF Nodes, Socket, Nothing, File, Dir
<1> QED BY <1>2, <1>3

LEMMA OwnNext == Typed /\ OwnInPlace /\ [Next]_vars => OwnInPlace'
<1> SUFFICES ASSUME Typed, OwnInPlace, [Next]_vars PROVE OwnInPlace' OBVIOUS
<1>1. \A p : ListenLeads(p)' <=> ListenLeads(p) BY LeadsStay
<1>2. ASSUME fs' = fs, pc' \in {"authorize", "serving"} \/ pc \notin {"authorize", "serving"}
      PROVE OwnInPlace'
  BY <1>1, <1>2 DEF OwnInPlace
<1>3. ASSUME NEW at, NEW node, Edited(fs, fs', at, node), node # Socket(Own),
             pc' = pc \/ pc \notin {"authorize", "serving"}
      PROVE  OwnInPlace'
  <2>1. DOMAIN fs' = DOMAIN fs /\ \A x \in DOMAIN fs : fs'[x] = IF x = at THEN node ELSE fs[x]
    BY <1>3 DEF Edited
  <2> QED BY <1>1, <1>3, <2>1 DEF OwnInPlace
<1>4. CASE Unenforceable \/ Stop
  <2>1. fs' = Unlinked BY <1>4 DEF Unenforceable, Stop
  <2>2. \A x \in DOMAIN Unlinked : Unlinked[x] # Socket(Own)
    BY OthersAreNotOwn DEF Unlinked
  <2> QED BY <2>1, <2>2 DEF OwnInPlace
<1>5. CASE HostActs
  <2>1. pc' = pc BY <1>5 DEF HostActs, DockerStarts, DockerDies, Arrange, process
  <2>2. CASE fs' = fs BY <1>2, <2>1, <2>2
  <2>3. CASE \E at \in Seq(STRING), node \in {Socket(i) : i \in DockerSockets} \union {Dir(m) : m \in DirModes} :
                Edited(fs, fs', at, node)
    BY <1>3, <2>1, <2>3, OthersAreNotOwn
  <2> QED BY <1>5, <2>2, <2>3, HostStep
<1>6. CASE CreateDir
  <2>1. pc' = pc /\ pc \notin {"authorize", "serving"} BY <1>6 DEF CreateDir
  <2> QED BY <1>2, <1>3, <1>6, <2>1, CreateDirFiles, OthersAreNotOwn
<1>7. CASE RemoveStale
  <2>1. pc \notin {"authorize", "serving"} BY <1>7 DEF RemoveStale, Goto
  <2> QED BY <1>2, <1>3, <1>7, <2>1, RemoveStaleFiles, OthersAreNotOwn
<1>8. CASE Publish
  <2>1. /\ Entry.at \in Seq(STRING) /\ Edited(fs, fs', Entry.at, Socket(Own))
        /\ ListenLeads(Entry.at)
    BY <1>8, PublishFiles DEF ListenLeads
  <2>2. pc = "publish" /\ pc' = "authorize" BY <1>8 DEF Publish, Goto
  <2>3. DOMAIN fs' = DOMAIN fs
        /\ \A x \in DOMAIN fs : fs'[x] = IF x = Entry.at THEN Socket(Own) ELSE fs[x]
    BY <2>1 DEF Edited
  <2> QED BY <1>1, <2>1, <2>2, <2>3 DEF OwnInPlace
<1>9. CASE Quiet
  <2>1. pc' \in {"authorize", "serving"} \/ pc \notin {"authorize", "serving"}
    <3>1. CASE ShowHelp \/ Usage \/ Accept \/ Probe \/ Misconfigured \/ Configure
      BY <3>1 DEF ShowHelp, Usage, Accept, Probe, Misconfigured, Configure, Fail, Goto
    <3>2. CASE ResolveName \/ CannotResolve \/ ListenResolved \/ SamePath \/ DockerResolved
      BY <3>2 DEF ResolveName, CannotResolve, ListenResolved, SamePath, DockerResolved, Fail,
         Goto, Resolving
    <3>3. CASE NotDocker \/ ValidatePaths \/ NotListenable \/ Listenable
      BY <3>3 DEF NotDocker, ValidatePaths, NotListenable, Listenable, Fail, Goto
    <3>4. CASE CannotCreateDir \/ DirUnusable \/ DirUsable \/ CannotLock
      BY <3>4 DEF CannotCreateDir, DirUnusable, DirUsable, CannotLock, Fail, Goto
    <3>5. CASE CannotRemove \/ CannotPublish \/ Serving \/ Finished
      BY <3>5 DEF CannotRemove, CannotPublish, Serving, Finished, Fail, Goto, vars
    <3> QED BY <1>9, <3>1, <3>2, <3>3, <3>4, <3>5 DEF Quiet
  <2> QED BY <1>2, <1>9, <2>1, QuietFiles
<1>10. CASE UNCHANGED vars
  <2>1. fs' = fs /\ pc' = pc BY <1>10 DEF vars, files
  <2> QED BY <1>2, <2>1
<1>11. CASE AcquireLock
  <2>1. pc \notin {"authorize", "serving"} BY <1>11 DEF AcquireLock
  <2> QED BY <1>2, <1>3, <1>11, <2>1, AcquireLockFiles, OthersAreNotOwn
<1> QED BY <1>4, <1>5, <1>6, <1>7, <1>8, <1>9, <1>10, <1>11 DEF Next, Quiet, HostActs

-----------------------------------------------------------------------------
(* What the invariants give.                                               *)

StartInv == Typed /\ Control /\ Resolution /\ OwnInPlace

LEMMA StartInvariant == Spec => []StartInv
<1>1. Init => StartInv
  BY TypedInit, ControlInit, ResolutionInit, OwnInit DEF StartInv
<1>2. StartInv /\ [Next]_vars => StartInv'
  BY TypedNext, ControlNext, ResolutionNext, OwnNext DEF StartInv
<1> QED BY <1>1, <1>2, PTL DEF Spec

\* A proxy that serves has warned exactly if its largest live heap, in numbers
\* without a width, is more than a limit that was set (config.go:109-120,
\* app.go:184-190).
THEOREM WarnedTruthfully == Spec => []WarningIsTruthful
<1>1. StartInv => WarningIsTruthful
  <2> SUFFICES ASSUME StartInv, pc = "serving"
               PROVE  warned <=> /\ host.memory # MaxInt64
                                 /\ memoryHeadroomFactor * proxy.conc * proxy.bytes * responseMemoryFactor
                                      > host.memory
    BY DEF WarningIsTruthful
  <2>1. Validate(proxy) /\ warned = warnOnMemoryLimit(proxy, host.memory)
    BY DEF StartInv, Control, Unchecked
  <2>2. proxy \in Lines
    <3>1. opts \in Lines BY DEF StartInv, Typed
    <3>2. /\ DefaultMaxResponseBytes \in Int /\ DefaultMaxConcurrent \in Int
          /\ DefaultUpstreamTimeout \in Int
      BY OptionsAssumption
    <3> QED BY <3>1, <3>2 DEF proxy, WithDefaults, Lines
  <2>3. /\ Int64(WorstCaseMemoryBytes(proxy) * memoryHeadroomFactor)
             = proxy.conc * proxy.bytes * responseMemoryFactor * memoryHeadroomFactor
        /\ proxy.conc * proxy.bytes * responseMemoryFactor * memoryHeadroomFactor
             = memoryHeadroomFactor * proxy.conc * proxy.bytes * responseMemoryFactor
    BY <2>1, <2>2, NeedFits
  <2> QED BY <2>1, <2>3 DEF warnOnMemoryLimit
<1> QED BY <1>1, StartInvariant, PTL

\* A process that is over has left no socket, and one that stops over its
\* configuration nothing at all (app.go:111-113, 143-146).
THEOREM LeavesNothing == Spec => []NothingLeft
<1>1. StartInv => NothingLeft
  BY DEF StartInv, Control, OwnInPlace, NothingLeft
<1> QED BY <1>1, StartInvariant, PTL

\* The two paths do not lead to one place once ValidatePaths has said so.
LEMMA Apart ==
    ASSUME StartInv, pc \notin Unchecked \union {"resolveListen", "resolveDocker"},
           NEW p \in Seq(STRING), ListenLeads(p)
    PROVE  ~DockerLeads(p)
<1>1. ListenLeads(listenResolved) /\ ~DockerLeads(listenResolved)
  BY DEF StartInv, Resolution
<1>2. Typed /\ listenResolved \in Seq(STRING) BY DEF StartInv, Typed
<1>3. p = listenResolved BY <1>1, <1>2, PathsLead, LeadsOnce DEF ListenLeads
<1> QED BY <1>1, <1>3

\* Where a walk of the kernel to Docker's socket comes out.
LEMMA DockerAt ==
    ASSUME StartInv, Leads(Stat(fs, opts.docker))
    PROVE  Stat(fs, opts.docker).at \in Seq(STRING) /\ DockerLeads(Stat(fs, opts.docker).at)
<1>1. opts.docker \in PathValues /\ Files(fs) BY DEF StartInv, Typed, Lines
<1>2. /\ Stat(fs, opts.docker) \in Walkers
      /\ LeadsTo(LinksOf(fs), Begin(opts.docker), Stat(fs, opts.docker).at)
  BY <1>1, StatLeads
<1> QED BY <1>2 DEF Walkers, DockerLeads

\* The first half of DockerSpared, in one state.
SparedNow ==
    LET w == Stat(fs, opts.docker) IN Leads(w) => Node(fs, w.at) # Socket(Own)

LEMMA SparedInvariant == StartInv => SparedNow
<1> SUFFICES ASSUME StartInv, Leads(Stat(fs, opts.docker)),
                    Node(fs, Stat(fs, opts.docker).at) = Socket(Own)
             PROVE  FALSE
  BY DEF SparedNow
<1> DEFINE p == Stat(fs, opts.docker).at
<1>1. p \in Seq(STRING) /\ DockerLeads(p) BY DockerAt
<1>2. p \in DOMAIN fs /\ fs[p] = Socket(Own) BY OthersAreNotOwn DEF Node
<1> HIDE DEF p
<1>3. pc \in {"authorize", "serving"} /\ ListenLeads(p) BY <1>2 DEF StartInv, OwnInPlace
<1> QED BY <1>1, <1>3, Apart DEF Unchecked

\* What may become of what is where Docker's path leads.
Spares(before, after, at) ==
    \/ after \in {Socket(i) : i \in DockerSockets}
    \/ before = Nothing /\ after \in {Dir(m) : m \in DirModes}
    \/ before = Nothing /\ after = File /\ LockFile.at = at

\* What a step changes where Docker's path leads.
LEMMA DockerPlace ==
    ASSUME StartInv, [Next]_vars, NEW p \in Seq(STRING), DockerLeads(p),
           Node(fs', p) # Node(fs, p)
    PROVE  Spares(Node(fs, p), Node(fs', p), p)
<1>0. Typed BY DEF StartInv
<1>1. CASE fs' = fs BY <1>1
<1>2. ASSUME NEW at, NEW node, Edited(fs, fs', at, node) PROVE p = at /\ Node(fs', p) = node
  BY <1>2, EditedNode
<1>10. Node(fs, p).kind = "none" => Node(fs, p) = Nothing
  BY <1>0, NodeIsNode, NodeKinds DEF Typed
<1>3. CASE HostActs
  <2>1. \E at \in Seq(STRING), node \in {Socket(i) : i \in DockerSockets} \union {Dir(m) : m \in DirModes} :
           /\ Edited(fs, fs', at, node)
           /\ Node(fs, at).kind = "none" \/ node.kind = "socket"
    BY <1>0, <1>1, <1>3, HostStep
  <2>2. \A m : Dir(m).kind # "socket" BY DEF Dir
  <2> QED BY <1>2, <1>10, <2>1, <2>2 DEF Spares
<1>4. CASE CreateDir
  <2>1. \E at \in Seq(STRING) : Edited(fs, fs', at, Dir("0750")) /\ Node(fs, at).kind = "none"
    BY <1>0, <1>1, <1>4, CreateDirFiles
  <2>2. "0750" \in DirModes BY DEF DirModes
  <2> QED BY <1>2, <1>10, <2>1, <2>2 DEF Spares
<1>5. CASE RemoveStale
  <2>1. Entry.at \in Seq(STRING) /\ Edited(fs, fs', Entry.at, Nothing) /\ ListenLeads(Entry.at)
    BY <1>0, <1>1, <1>5, RemoveStaleFiles DEF ListenLeads
  <2>2. pc = "removeStale" BY <1>5 DEF RemoveStale, Goto
  <2>3. ~DockerLeads(Entry.at) BY <2>1, <2>2, Apart DEF Unchecked
  <2> QED BY <1>2, <2>1, <2>3
<1>6. CASE Publish
  <2>1. Entry.at \in Seq(STRING) /\ Edited(fs, fs', Entry.at, Socket(Own)) /\ ListenLeads(Entry.at)
    BY <1>0, <1>6, PublishFiles DEF ListenLeads
  <2>2. pc = "publish" BY <1>6 DEF Publish, Goto
  <2>3. ~DockerLeads(Entry.at) BY <2>1, <2>2, Apart DEF Unchecked
  <2> QED BY <1>2, <2>1, <2>3
<1>7. CASE Unenforceable \/ Stop
  <2>1. fs' = Unlinked BY <1>7 DEF Unenforceable, Stop
  <2>2. Node(fs, p) = Socket(Own) BY <1>0, <2>1, UnlinkedFiles DEF Typed
  <2>3. p \in DOMAIN fs /\ fs[p] = Socket(Own) BY <2>2, OthersAreNotOwn DEF Node
  <2>4. pc \in {"authorize", "serving"} /\ ListenLeads(p) BY <2>3 DEF StartInv, OwnInPlace
  <2> QED BY <2>4, Apart DEF Unchecked
<1>8. CASE Quiet BY <1>1, <1>8, QuietFiles
<1>9. CASE UNCHANGED vars BY <1>1, <1>9 DEF vars, files
<1>11. CASE AcquireLock
  <2>1. Edited(fs, fs', LockFile.at, File) /\ Node(fs, LockFile.at).kind = "none"
    BY <1>0, <1>1, <1>11, AcquireLockFiles
  <2> QED BY <1>2, <1>10, <2>1 DEF Spares
<1> QED BY <1>3, <1>4, <1>5, <1>6, <1>7, <1>8, <1>9, <1>11 DEF Next, Quiet, HostActs

\* What is at the place Docker's path leads to is never the socket of the proxy,
\* and the proxy takes nothing away there (socketpath.go:37-39, 84-92); what it
\* may put there is a directory or its lock file, where there was nothing
\* (socket.go:105, 178).
THEOREM DockerIsSpared == Spec => DockerSpared
<1> DEFINE w == Stat(fs, opts.docker)
           v == Stat(fs', opts'.docker)
<1>1. ASSUME StartInv, SparedNow', [Next]_vars
      PROVE  /\ Leads(v) => Node(fs', v.at) # Socket(Own)
             /\ Leads(w) /\ Node(fs', w.at) # Node(fs, w.at)
                  => Spares(Node(fs, w.at), Node(fs', w.at), w.at)
  <2>1. Leads(v) => Node(fs', v.at) # Socket(Own) BY <1>1 DEF SparedNow
  <2>2. ASSUME Leads(w), Node(fs', w.at) # Node(fs, w.at)
        PROVE  Spares(Node(fs, w.at), Node(fs', w.at), w.at)
    <3>1. w.at \in Seq(STRING) /\ DockerLeads(w.at) BY <1>1, <2>2, DockerAt
    <3> HIDE DEF w
    <3> QED BY <1>1, <2>2, <3>1, DockerPlace
  <2> QED BY <2>1, <2>2
<1>2. StartInv /\ SparedNow' /\ [Next]_vars
        => [LET a == Stat(fs, opts.docker)
                b == Stat(fs', opts'.docker)
                before == Node(fs, a.at)
                after == Node(fs', a.at) IN
            /\ Leads(b) => Node(fs', b.at) # Socket(Own)
            /\ Leads(a) /\ after # before =>
                  \/ after \in {Socket(i) : i \in DockerSockets}
                  \/ before = Nothing /\ after \in {Dir(m) : m \in DirModes}
                  \/ before = Nothing /\ after = File /\ LockFile.at = a.at]_vars
  BY <1>1 DEF Spares
<1>3. Spec => [](StartInv /\ SparedNow) BY StartInvariant, SparedInvariant, PTL
<1> QED BY <1>2, <1>3, PTL DEF Spec, DockerSpared

-----------------------------------------------------------------------------
(* What a process stops for.                                               *)

\* With a directory wherever there is no link, the kernel takes any name.
LEMMA FurnishedNode ==
    ASSUME NEW f, NEW at \in Seq(STRING)
    PROVE  Node(Furnished(f), at) = IF Node(f, at).kind = "link" THEN Node(f, at) ELSE Dir("0750")
<1>1. CASE at = Root
  <2>1. Node(f, at).kind # "link" BY <1>1 DEF Node, Dir
  <2> QED BY <1>1, <2>1 DEF Node
<1>2. CASE at # Root BY <1>2 DEF Node, Furnished
<1> QED BY <1>1, <1>2

LEMMA FurnishedFiles ==
    ASSUME NEW f, Files(f)
    PROVE  Files(Furnished(f))
<1> SUFFICES ASSUME NEW at \in Seq(STRING) PROVE Furnished(f)[at] \in Nodes(Inodes)
  BY DEF Files, FileSystem, Furnished
<1>1. Node(f, at) \in Nodes(Inodes) /\ Dir("0750") \in Nodes(Inodes)
  BY NodeIsNode DEF Nodes, DirModes
<1> QED BY <1>1 DEF Furnished

LEMMA FurnishedSame ==
    ASSUME NEW f, NEW g, LinksOf(f) = LinksOf(g)
    PROVE  Furnished(f) = Furnished(g)
<1>1. ASSUME NEW at \in Seq(STRING)
      PROVE  (IF Node(f, at).kind = "link" THEN Node(f, at) ELSE Dir("0750"))
               = (IF Node(g, at).kind = "link" THEN Node(g, at) ELSE Dir("0750"))
  <2>1. LinksOf(f)[at] = LinksOf(g)[at] OBVIOUS
  <2>2. Nothing.kind # "link" BY DEF Nothing
  <2> QED BY <2>1, <2>2 DEF LinksOf
<1> QED BY <1>1 DEF Furnished

\* There, a name that the kernel takes is a hop.
LEMMA FurnishedHop ==
    ASSUME NEW f, Files(f), NEW at \in Seq(STRING), NEW names \in Seq(STRING), names # <<>>
    PROVE  LET x == Hop(LinksOf(f), At(at, names))
           IN  Follow(Furnished(f), TRUE, Walker("on", at, names)) = Walker("on", x.at, x.names)
<1> DEFINE name == Head(names)
           rest == Tail(names)
           next == Append(at, name)
           node == Node(f, next)
           there == Node(Furnished(f), next)
           w == Walker("on", at, names)
           v == Follow(Furnished(f), TRUE, w)
           x == Hop(LinksOf(f), At(at, names))
<1>1. name \in STRING /\ rest \in Seq(STRING) BY HeadTailProperties
<1>2. next \in Seq(STRING) BY <1>1, AppendProperties
<1>3. LinksOf(f)[next] = IF node.kind = "link" THEN node ELSE Nothing BY <1>2 DEF LinksOf
<1>4. there = IF node.kind = "link" THEN node ELSE Dir("0750") BY <1>2, FurnishedNode
<1>5. Nothing.kind # "link" /\ Dir("0750").kind = "dir" BY DEF Nothing, Dir
<1>6. w.end = "on" /\ w.at = at /\ w.names = names BY DEF Walker
<1>7. \A p, s : At(p, s).at = p /\ At(p, s).names = s BY DEF At
<1> HIDE DEF name, rest, next, node, there
<1>8. x = IF name = "." THEN At(at, rest)
          ELSE IF name = ".." THEN At(Parent(at), rest)
          ELSE IF node.kind = "link" THEN At(IF node.to.abs THEN Root ELSE at, node.to.names \o rest)
          ELSE At(next, rest)
  BY <1>3, <1>5, <1>7 DEF Hop, name, rest, next
<1> HIDE DEF w
<1>9. v = CASE name = "."  -> Walker("on", at, rest)
            [] name = ".." -> Walker("on", Parent(at), rest)
            [] OTHER ->
               CASE there.kind = "none" -> Walker(IF rest = <<>> THEN "missing" ELSE "absent", next, rest)
                 [] there.kind = "dir"  -> Walker("on", next, rest)
                 [] there.kind = "link" /\ (rest # <<>> \/ TRUE) ->
                      Walker("on", IF there.to.abs THEN Root ELSE at, there.to.names \o rest)
                 [] OTHER -> Walker(IF rest = <<>> THEN "found" ELSE "notdir", next, rest)
  BY <1>6 DEF Follow, name, rest, next, there
<1> HIDE DEF x, v
<1> DEFINE Agree == v = Walker("on", x.at, x.names)
<1>10. ASSUME name \in {".", ".."} PROVE Agree BY <1>7, <1>8, <1>9, <1>10
<1>11. ASSUME name \notin {".", ".."}, node.kind = "link" PROVE Agree
  <2> DEFINE from == IF node.to.abs THEN Root ELSE at
             names2 == node.to.names \o rest
  <2>1. x = At(from, names2) BY <1>8, <1>11
  <2>2. there = node BY <1>4, <1>11
  <2>3. v = Walker("on", from, names2) BY <1>9, <1>11, <2>2
  <2> HIDE DEF from, names2
  <2> QED BY <1>7, <2>1, <2>3
<1>12. ASSUME name \notin {".", ".."}, node.kind # "link" PROVE Agree
  <2>1. x = At(next, rest) BY <1>8, <1>12
  <2>2. there.kind = "dir" BY <1>4, <1>5, <1>12
  <2>3. v = Walker("on", next, rest) BY <1>9, <1>12, <2>2
  <2> QED BY <1>7, <2>1, <2>3
<1>13. Agree BY <1>10, <1>11, <1>12
<1> QED BY <1>13 DEF v, w, x

\* After k names the walk of a path stands at w.
RunOf(run, f, names) ==
    run[0] = Walker("on", Root, names) /\ \A n \in Nat : run[n + 1] = Follow(f, TRUE, run[n])

Reached(f, names, k, w) == \A run \in [Nat -> Walkers] : RunOf(run, f, names) => run[k] = w

LEMMA ReachedNext ==
    ASSUME NEW f, NEW names, NEW k \in Nat, NEW w, Reached(f, names, k, w)
    PROVE  Reached(f, names, k + 1, Follow(f, TRUE, w))
BY DEF Reached, RunOf

\* A walk with no name left that is not over its bound is at its end.
LEMMA ReachedEnd ==
    ASSUME NEW f, Files(f), NEW path \in PathValues, NEW k \in Nat, k < MaxSteps,
           NEW at \in Seq(STRING), Reached(f, path.names, k, Walker("on", at, <<>>))
    PROVE  Stat(f, path) = Walker("found", at, <<>>)
<1> DEFINE names == path.names
           w == Walker("found", at, <<>>)
<1>1. names \in Seq(STRING) BY DEF PathValues
<1>2. PICK run \in [Nat -> Walkers] : RunOf(run, f, names) /\ Walk(f, names, TRUE) = run[MaxSteps]
  BY <1>1, WalkRuns DEF RunOf
<1>3. run[k + 1] = w
  <2>1. Follow(f, TRUE, Walker("on", at, <<>>)) = w BY DEF Follow, Walker
  <2> QED BY <1>2, <2>1, ReachedNext DEF Reached
<1>4. Follow(f, TRUE, w) = w BY DEF Follow, Walker
<1> HIDE DEF w
<1>5. \A n \in Nat : run[k + 1 + n] = w
  <2> DEFINE S == {n \in Nat : run[k + 1 + n] = w}
  <2>1. 0 \in S BY <1>3
  <2>2. ASSUME NEW n \in S PROVE n + 1 \in S
    <3>1. n \in Nat /\ k + 1 + n \in Nat /\ (k + 1 + n) + 1 = k + 1 + (n + 1) OBVIOUS
    <3>2. run[(k + 1 + n) + 1] = Follow(f, TRUE, run[k + 1 + n]) BY <1>2, <3>1 DEF RunOf
    <3>3. run[k + 1 + n] = w OBVIOUS
    <3>4. run[k + 1 + (n + 1)] = w BY <1>4, <3>1, <3>2, <3>3
    <3> QED BY <3>1, <3>4
  <2>3. S = Nat
    <3> HIDE DEF S
    <3> QED BY <2>1, <2>2, SetInduction DEF S
  <2> QED BY <2>3
<1>6. MaxSteps - (k + 1) \in Nat /\ k + 1 + (MaxSteps - (k + 1)) = MaxSteps
  BY PathsAssumption
<1>7. run[MaxSteps] = w BY <1>5, <1>6
<1> QED BY <1>2, <1>7 DEF Stat, w

\* A path that is being resolved, with what is left of the budget.
OnTheWay(f, path, left, at, names) ==
    /\ left \in 0..maxPathComponents
    /\ Reached(Furnished(f), path.names, maxPathComponents - left, Walker("on", at, names))

\* Where resolvePath says the listen path leads is where the kernel finds its
\* destination, and what Stat found there stays while it is compared.
Tracked ==
    /\ pc = "resolveListen" => OnTheWay(fs, opts.listen, budget, resolved, pending)
    /\ pc = "resolveDocker" =>
          /\ OnTheWay(fs, opts.docker, budget, resolved, pending)
          /\ Stat(Furnished(fs), opts.listen) = Walker("found", listenResolved, <<>>)
    /\ pc = "statDocker" /\ listenInfo.kind = "socket" =>
          /\ Stat(fs, opts.listen).end = "found"
          /\ Node(fs, Stat(fs, opts.listen).at) = listenInfo

LEMMA HostGrows ==
    ASSUME Typed, HostActs
    PROVE  Grown(fs, fs')
<1>1. CASE fs' = fs BY <1>1 DEF Grown
<1>2. ASSUME NEW at \in Seq(STRING), NEW node,
             Edited(fs, fs', at, node),
             Node(fs, at).kind = "none" \/ (Node(fs, at).kind = "socket" /\ node.kind = "socket")
      PROVE  Grown(fs, fs')
  <2> SUFFICES ASSUME NEW x \in Seq(STRING)
               PROVE  \/ Node(fs', x) = Node(fs, x)
                      \/ Node(fs, x).kind = "none"
                      \/ Node(fs, x).kind = "socket" /\ Node(fs', x).kind = "socket"
    BY DEF Grown
  <2>1. Node(fs', x) = IF x = at /\ x # Root /\ x \in DOMAIN fs THEN node ELSE Node(fs, x)
    BY <1>2, EditedNode
  <2> QED BY <1>2, <2>1
<1> QED BY <1>1, <1>2, HostStep

\* A path whose names are used up has its destination.
LEMMA Destination ==
    ASSUME Typed, NEW path \in PathValues, pending = <<>>,
           OnTheWay(fs, path, budget, resolved, pending)
    PROVE  Stat(Furnished(fs), path) = Walker("found", resolved, <<>>)
<1> DEFINE k == maxPathComponents - budget
<1>1. k \in Nat /\ k < MaxSteps BY StartUpAssumption, PathsAssumption DEF OnTheWay
<1>2. Reached(Furnished(fs), path.names, k, Walker("on", resolved, <<>>)) BY DEF OnTheWay
<1>3. resolved \in Seq(STRING) /\ Files(Furnished(fs)) BY FurnishedFiles DEF Typed
<1> HIDE DEF k
<1> QED BY <1>1, <1>2, <1>3, ReachedEnd

\* A round of resolvePath is a name that the kernel takes.
LEMMA StaysOnTheWay ==
    ASSUME Typed, Furnished(fs') = Furnished(fs), NEW path,
           OnTheWay(fs, path, budget, resolved, pending), ResolveName
    PROVE  OnTheWay(fs', path, budget', resolved', pending')
<1> DEFINE k == maxPathComponents - budget
           w == Walker("on", resolved, pending)
           x == Hop(LinksOf(fs), At(resolved, pending))
<1>1. /\ pending # <<>> /\ budget > 0 /\ budget' = budget - 1
      /\ resolved \in Seq(STRING) /\ pending \in Seq(STRING) /\ Files(fs)
  BY DEF Typed, ResolveName
<1>2. /\ k \in Nat /\ budget' \in 0..maxPathComponents /\ maxPathComponents - budget' = k + 1
  BY <1>1, StartUpAssumption DEF OnTheWay
<1>3. Reached(Furnished(fs), path.names, k, w) BY DEF OnTheWay
<1>4. At(resolved', pending') = x BY ResolveHops
<1>5. x.at = resolved' /\ x.names = pending'
  <2> HIDE DEF x
  <2> QED BY <1>4 DEF At
<1>6. Follow(Furnished(fs), TRUE, w) = Walker("on", resolved', pending')
  BY <1>1, <1>5, FurnishedHop
<1> HIDE DEF k, w
<1>7. Reached(Furnished(fs), path.names, k + 1, Walker("on", resolved', pending'))
  BY <1>2, <1>3, <1>6, ReachedNext
<1> QED BY <1>2, <1>7 DEF OnTheWay

LEMMA BeginsOnTheWay ==
    ASSUME NEW f, NEW path
    PROVE  OnTheWay(f, path, maxPathComponents, Root, path.names)
<1>1. Reached(Furnished(f), path.names, 0, Walker("on", Root, path.names))
  BY DEF Reached, RunOf
<1>2. maxPathComponents \in Nat /\ maxPathComponents - maxPathComponents = 0
  BY StartUpAssumption
<1> QED BY <1>1, <1>2 DEF OnTheWay

\* The host does not touch what is found at the listen path once the two paths
\* lead to different places.
LEMMA ListenKept ==
    ASSUME StartInv, HostActs, pc = "statDocker", Stat(fs, opts.listen).end = "found",
           Node(fs, Stat(fs, opts.listen).at).kind = "socket"
    PROVE  /\ Stat(fs', opts.listen) = Stat(fs, opts.listen)
           /\ Node(fs', Stat(fs, opts.listen).at) = Node(fs, Stat(fs, opts.listen).at)
<1> DEFINE v == Stat(fs, opts.listen)
<1>1. Typed /\ Files(fs) /\ opts.listen \in PathValues BY DEF StartInv, Typed, Lines
<1>2. Files(fs')
  <2>1. [Next]_vars BY DEF HostActs, Next
  <2> QED BY <1>1, <2>1, LinksStay
<1>3. Stat(fs', opts.listen) = v BY <1>1, <1>2, HostGrows, FoundPersists
<1>4. v \in Walkers /\ ListenLeads(v.at) BY <1>1, StatLeads DEF Leads, ListenLeads
<1>5. ~DockerLeads(v.at)
  <2>1. v.at \in Seq(STRING) BY <1>4 DEF Walkers
  <2> QED BY <1>4, <2>1, Apart DEF Unchecked
<1> HIDE DEF v
<1>6. CASE fs' = fs BY <1>3, <1>6 DEF v
<1>7. CASE fs' # fs
  <2>1. PICK at \in Seq(STRING), node \in {Socket(i) : i \in DockerSockets} \union {Dir(m) : m \in DirModes} :
           /\ Edited(fs, fs', at, node)
           /\ Node(fs, at).kind = "none" \/ (Node(fs, at).kind = "socket" /\ DockerLeads(at))
    BY <1>1, <1>7, HostStep DEF DockerLeads
  <2>2. at # v.at BY <1>5, <2>1 DEF v
  <2>3. Node(fs', v.at) = Node(fs, v.at) BY <2>1, <2>2, EditedNode
  <2> QED BY <1>3, <2>3 DEF v
<1> QED BY <1>6, <1>7

LEMMA TrackedNext == StartInv /\ Tracked /\ [Next]_vars => Tracked'
<1> SUFFICES ASSUME StartInv, Tracked, [Next]_vars PROVE Tracked' OBVIOUS
<1>0. Typed BY DEF StartInv
<1>1. /\ Furnished(fs') = Furnished(fs)
      /\ opts'.listen = opts.listen /\ opts'.docker = opts.docker
      /\ opts.listen \in PathValues /\ opts.docker \in PathValues
  BY <1>0, LinksStay, LinesStay, FurnishedSame DEF Typed, Lines
<1>2. CASE pc' \notin {"resolveListen", "resolveDocker", "statDocker"}
  BY <1>2 DEF Tracked
<1>3. CASE Configure
  <2>1. /\ pc' = "resolveListen" /\ resolved' = Root /\ pending' = opts.listen.names
        /\ budget' = maxPathComponents
    BY <1>3 DEF Configure, Goto, StartResolving, pathComponents
  <2>2. OnTheWay(fs', opts'.listen, budget', resolved', pending')
    BY <1>1, <2>1, BeginsOnTheWay
  <2> QED BY <2>1, <2>2 DEF Tracked
<1>4. CASE ResolveName
  <2>1. pc' = pc /\ listenResolved' = listenResolved /\ pc \in {"resolveListen", "resolveDocker"}
    BY <1>4 DEF ResolveName, findings, Resolving
  <2>2. \A path : OnTheWay(fs, path, budget, resolved, pending)
                    => OnTheWay(fs', path, budget', resolved', pending')
    BY <1>0, <1>1, <1>4, StaysOnTheWay
  <2>3. pc = "resolveListen" => OnTheWay(fs', opts'.listen, budget', resolved', pending')
    BY <1>1, <2>2 DEF Tracked
  <2>4. pc = "resolveDocker" => OnTheWay(fs', opts'.docker, budget', resolved', pending')
    BY <1>1, <2>2 DEF Tracked
  <2>5. pc = "resolveDocker"
          => Stat(Furnished(fs'), opts'.listen) = Walker("found", listenResolved', <<>>)
    BY <1>1, <2>1 DEF Tracked
  <2> QED BY <2>1, <2>3, <2>4, <2>5 DEF Tracked
<1>5. CASE ListenResolved
  <2>1. /\ pending = <<>> /\ pc = "resolveListen" /\ pc' = "resolveDocker"
        /\ listenResolved' = resolved /\ resolved' = Root /\ pending' = opts.docker.names
        /\ budget' = maxPathComponents
    BY <1>5 DEF ListenResolved, Goto, StartResolving, pathComponents
  <2>2. OnTheWay(fs', opts'.docker, budget', resolved', pending')
    BY <1>1, <2>1, BeginsOnTheWay
  <2>3. Stat(Furnished(fs), opts.listen) = Walker("found", resolved, <<>>)
    BY <1>0, <1>1, <2>1, Destination DEF Tracked
  <2>4. Stat(Furnished(fs'), opts'.listen) = Walker("found", listenResolved', <<>>)
    BY <1>1, <2>1, <2>3 DEF Stat
  <2> QED BY <2>1, <2>2, <2>4 DEF Tracked
<1>6. CASE DockerResolved
  <2>1. /\ pc' = "statDocker" /\ fs' = fs
        /\ listenInfo' = IF Stat(fs, opts.listen).end = "found"
                         THEN Node(fs, Stat(fs, opts.listen).at) ELSE Nothing
    BY <1>6 DEF DockerResolved, Goto, files
  <2>2. Nothing.kind # "socket" BY DEF Nothing
  <2>3. Stat(fs', opts'.listen) = Stat(fs, opts.listen) BY <1>1, <2>1 DEF Stat
  <2> QED BY <2>1, <2>2, <2>3 DEF Tracked
<1>7. CASE HostActs
  <2>1. UNCHANGED <<opts, pc, resolved, pending, budget, listenResolved, listenInfo>>
    BY <1>7 DEF HostActs, DockerStarts, DockerDies, Arrange, process, outside, resolving, findings
  <2>2. CASE pc = "statDocker" /\ listenInfo.kind = "socket"
    <3>1. Stat(fs, opts.listen).end = "found" /\ Node(fs, Stat(fs, opts.listen).at) = listenInfo
      BY <2>2 DEF Tracked
    <3>2. /\ Stat(fs', opts.listen) = Stat(fs, opts.listen)
          /\ Node(fs', Stat(fs, opts.listen).at) = Node(fs, Stat(fs, opts.listen).at)
      BY <1>7, <2>2, <3>1, ListenKept
    <3> QED BY <2>1, <2>2, <3>1, <3>2 DEF Tracked
  <2>3. CASE ~(pc = "statDocker" /\ listenInfo.kind = "socket")
    <3>1. \A path : OnTheWay(fs, path, budget, resolved, pending)
                      => OnTheWay(fs', path, budget', resolved', pending')
      BY <1>1, <2>1 DEF OnTheWay
    <3> QED BY <1>1, <2>1, <2>3, <3>1 DEF Tracked
  <2> QED BY <2>2, <2>3
<1>8. CASE Finished \/ UNCHANGED vars
  BY <1>8 DEF Finished, vars, outside, files, resolving, findings, Tracked, OnTheWay
<1>9. CASE ShowHelp \/ Usage \/ Accept \/ Probe \/ Misconfigured \/ CannotResolve \/ SamePath
  BY <1>2, <1>9 DEF ShowHelp, Usage, Accept, Probe, Misconfigured, CannotResolve, SamePath, Fail,
     Exit, Goto
<1>10. CASE NotDocker \/ ValidatePaths \/ NotListenable \/ Listenable \/ CannotCreateDir \/ DirUnusable
  BY <1>2, <1>10 DEF NotDocker, ValidatePaths, NotListenable, Listenable, CannotCreateDir, DirUnusable,
     Fail, Exit, Goto
<1>11. CASE \/ CreateDir \/ DirUsable \/ (AcquireLock /\ pc' # "exited") \/ RemoveStale
            \/ Publish \/ Serving
  BY <1>2, <1>11, GoesOnMaking DEF Unmade
<1>12. CASE \/ (AcquireLock /\ pc' = "exited") \/ CannotLock \/ CannotRemove \/ CannotPublish
            \/ Unenforceable \/ Stop
  BY <1>2, <1>12 DEF CannotLock, CannotRemove, CannotPublish, Unenforceable, Stop, Fail, Exit
<1> QED BY <1>3, <1>4, <1>5, <1>6, <1>7, <1>8, <1>9, <1>10, <1>11, <1>12 DEF Next, HostActs

\* What a process that ends with code 2 saw.
LEMMA SawMistake ==
    ASSUME StartInv, Tracked, [Next]_vars, exit # 2, exit' = 2, via = "Main"
    PROVE  Mistake
<1>0. Typed /\ Control BY DEF StartInv
<1>1. opts.listen \in PathValues /\ opts.docker \in PathValues BY <1>0 DEF Typed, Lines
<1>2. CASE Usage BY <1>2 DEF Usage, Mistake
<1>3. CASE Misconfigured
  <2>1. pc = "configure" /\ (~Validate(proxy) \/ ~validatePathSyntax(opts.listen, opts.docker))
    BY <1>3 DEF Misconfigured, Fail
  <2> QED BY <1>0, <2>1 DEF Control, CheckedByMain
<1>4. CASE SamePath
  <2>1. pc = "resolveDocker" /\ pending = <<>> /\ listenResolved = resolved
    BY <1>4 DEF SamePath, Fail
  <2>2. /\ Stat(Furnished(fs), opts.listen) = Walker("found", resolved, <<>>)
        /\ Stat(Furnished(fs), opts.docker) = Walker("found", resolved, <<>>)
    BY <1>0, <1>1, <2>1, Destination DEF Tracked
  <2>3. SameDestination BY <2>2 DEF SameDestination, Walker
  <2> QED BY <2>3 DEF Mistake
<1>5. CASE NotDocker
  <2> DEFINE w == Stat(fs, opts.docker)
  <2>1. pc = "statDocker" /\ exit' = dockerErrorCode(w) BY <1>5 DEF NotDocker, Fail, Exit
  <2>2. w.end = "found" /\ Wrong(Node(fs, w.at))
    <3> HIDE DEF w
    <3> QED BY <2>1 DEF dockerErrorCode
  <2>3. \/ Node(fs, w.at).kind # "socket"
        \/ /\ Stat(fs, opts.listen).end = "found"
           /\ Node(fs, Stat(fs, opts.listen).at) = Node(fs, w.at)
    <3> HIDE DEF w
    <3> QED BY <2>1, <2>2 DEF Wrong, Tracked
  <2>4. WrongSocket BY <2>2, <2>3 DEF WrongSocket
  <2> QED BY <2>4 DEF Mistake
<1>6. CASE NotListenable
  <2>1. pc = "listen" /\ (~Clean(opts.listen) \/ opts.mode \notin Modes)
    BY <1>6 DEF NotListenable, Fail
  <2>2. opts.mode \in Modes BY <1>0, <2>1 DEF Control, CheckedByMain
  <2> QED BY <2>1, <2>2 DEF Mistake
<1>7. CASE Unenforceable
  <2>1. pc = "authorize" /\ ~Enforceable BY <1>7 DEF Unenforceable
  <2> QED BY <1>0, <2>1 DEF Control, CheckedByMain
<1>8. CASE \/ CannotCreateDir \/ DirUnusable \/ (AcquireLock /\ pc' = "exited") \/ CannotLock
           \/ CannotRemove \/ CannotPublish \/ Stop
  BY <1>8, EndsAfterMaking
<1>9. CASE ShowHelp \/ Probe \/ CannotResolve
  BY <1>9 DEF ShowHelp, Probe, CannotResolve, Fail, Exit
<1>10. CASE \/ Accept \/ Configure \/ ResolveName \/ ListenResolved \/ DockerResolved
            \/ ValidatePaths \/ Listenable
  BY <1>10, GoesOnChecking DEF Accept
<1>11. CASE \/ CreateDir \/ DirUsable \/ (AcquireLock /\ pc' # "exited") \/ RemoveStale
            \/ Publish \/ Serving
  BY <1>11, GoesOnMaking
<1>12. CASE HostActs \/ Finished \/ UNCHANGED vars
  BY <1>12 DEF HostActs, DockerStarts, DockerDies, Arrange, process, Finished, vars
<1> QED BY <1>2, <1>3, <1>4, <1>5, <1>6, <1>7, <1>8, <1>9, <1>10, <1>11, <1>12
        DEF Next, HostActs

\* A process that Main started stops with code 2 only over its configuration:
\* over what was wrong in that moment, not over what it had seen when the host was
\* another (app.go:42-50, 94-97, socketpath.go:41-44, 75-93, options.go:131-141).
THEOREM StopsOnlyForMistakes == Spec => StopsForMistakes
<1>1. Init => StartInv /\ Tracked
  BY TypedInit, ControlInit, ResolutionInit, OwnInit DEF StartInv, Init, Tracked
<1>2. StartInv /\ Tracked /\ [Next]_vars => (StartInv /\ Tracked)'
  BY TrackedNext, TypedNext, ControlNext, ResolutionNext, OwnNext DEF StartInv
<1>3. StartInv /\ Tracked /\ [Next]_vars => [exit # 2 /\ exit' = 2 /\ via = "Main" => Mistake]_vars
  BY SawMistake
<1> QED BY <1>1, <1>2, <1>3, PTL DEF Spec, StopsForMistakes
=============================================================================
